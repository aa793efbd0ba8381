--------------------------------- MODULE Vmm ---------------------------------
(***************************************************************************)
(* The virtual memory manager (Kernel/vmm.c, Kernel/pte.c): four levels of *)
(* page tables, and a bitmap that tells which tables of the last level     *)
(* have no free page left.                                                 *)
(*                                                                         *)
(* A virtual address is modelled by its page number, a physical one by its *)
(* frame number.  There is one address space: vmm_switch_process has no    *)
(* caller.  Attributes other than PRESENT are left out, everything runs in *)
(* ring 0.  Calls run with interrupts off; a call takes one step for every *)
(* frame it takes from the physical memory manager, and no other call      *)
(* comes in between (pc).                                                  *)
(***************************************************************************)
EXTENDS Integers, Sequences, FiniteSets

CONSTANTS
  ENTRIES_PER_TABLE, \* entries of a table, and pages of a table of level 0
  VMM_TOTAL_PTS,     \* tables of level 0
  ONE_GB_OF_PAGES,   \* the pages that are mapped to themselves
  VMM_PAGE_SIZE,     \* bytes per page
  WORD,              \* bits per word of the bitmap: 64
  INT,               \* bits of an int: 32
  FirstFrame,        \* the lowest frame on the free stack
  LastFrame,         \* the highest one
  MaxPages           \* the largest number of pages of one request

ASSUME VmmAssumption ==
  /\ {ENTRIES_PER_TABLE, VMM_TOTAL_PTS, ONE_GB_OF_PAGES, VMM_PAGE_SIZE,
      WORD, INT, FirstFrame, LastFrame, MaxPages} \subseteq Nat \ {0}
  \* Memory is mapped to itself as a whole, so tables can be written to.
  /\ FirstFrame <= LastFrame /\ LastFrame < ONE_GB_OF_PAGES
  /\ ONE_GB_OF_PAGES <= VMM_TOTAL_PTS * ENTRIES_PER_TABLE

\* The search also visits table VMM_TOTAL_PTS: it stops at greater numbers.
Top == (VMM_TOTAL_PTS + 1) * ENTRIES_PER_TABLE

Pages  == 0 .. Top + MaxPages
Frames == FirstFrame .. LastFrame

\* gmem's answer -1, cut by the frame mask.
BAD == -1

VARIABLES
  free,       \* the stack of free frames
  table,      \* the frame of a table, 0 where its entry is not present
  present,    \* the pages whose entry is present
  frame,      \* the frame in a page's entry; it outlives the PRESENT bit
  cur_bitmap, \* the flags that are set
  call,       \* the call under way
  fault       \* the machine has stopped at an address without memory

vmm == <<free, table, present, frame, cur_bitmap, call, fault>>

\* The table of a level that a page's translation goes through.
Node(level, p) ==
  <<level, p \div (CASE level = 0 -> ENTRIES_PER_TABLE
                     [] level = 1 -> ENTRIES_PER_TABLE ^ 2
                     [] level = 2 -> ENTRIES_PER_TABLE ^ 3
                     [] level = 3 -> ENTRIES_PER_TABLE ^ 4)>>

Nodes == {Node(level, p) : level \in 0 .. 3, p \in Pages}

PT(p) == p \div ENTRIES_PER_TABLE

\* The tables of p's translation that do not exist.
Missing(p) == {level \in 0 .. 3 : table[Node(level, p)] = 0}

\* get_entry finds a page's entry.
get_entry(p) == Missing(p) = {}

\* The flag of a table: a word, and a bit of the int constant 1.
Flag(pt) == <<pt \div WORD, pt % INT>>

Flags == {Flag(PT(p)) : p \in Pages}

pt_is_complete(pt) == Flag(pt) \in cur_bitmap

-----------------------------------------------------------------------------
Idle == [pc |-> "idle", first |-> 0, page |-> 0, count |-> 0, got |-> 0]

\* init_mem has run; vmm_initialize is about to map page 0.
VmmInit ==
  /\ free = [i \in 1 .. LastFrame - FirstFrame + 1 |-> FirstFrame + i - 1]
  /\ table = [n \in Nodes |-> 0]
  /\ present = {}
  /\ frame = [p \in Pages |-> 0]
  /\ cur_bitmap = {}
  /\ call = [Idle EXCEPT !.pc = "identity"]
  /\ fault = FALSE

\* The frame that gmem answers, and the stack it leaves.
gmem      == IF free = <<>> THEN BAD ELSE free[Len(free)]
gmem_left == IF free = <<>> THEN free ELSE SubSeq(free, 1, Len(free) - 1)

\* fmem of a frame: it is pushed, or kept out because its twin in the map of
\* the physical memory manager has been freed.
fmem(f) ==
  \/ f # BAD /\ free' = Append(free, f)
  \/ UNCHANGED free

\* A level that is missing on the way to page p, the highest one.
NextLevel(p, level) ==
  level \in Missing(p) /\ \A l \in Missing(p) : l <= level

(***************************************************************************)
(* A missing table on the way to page p is allocated, cleared and entered. *)
(* Clearing the table at address -1 faults.                                *)
(***************************************************************************)
AddTable(p) ==
  \E level \in 0 .. 3 :
    /\ NextLevel(p, level)
    /\ free' = gmem_left
    /\ fault' = (gmem = BAD)
    /\ table' = [table EXCEPT ![Node(level, p)] = IF fault' THEN 0 ELSE gmem]

SetEntry(p, f) ==
  /\ present' = present \cup {p}
  /\ frame' = [frame EXCEPT ![p] = f]

-----------------------------------------------------------------------------
(***************************************************************************)
(* vmm_initialize: identity_paging enters the tables and the entries of    *)
(* page after page.                                                        *)
(***************************************************************************)
identity_table ==
  /\ call.pc = "identity" /\ call.page < ONE_GB_OF_PAGES
  /\ ~ get_entry(call.page)
  /\ AddTable(call.page)
  /\ UNCHANGED <<present, frame, cur_bitmap, call>>

identity_entry ==
  /\ call.pc = "identity" /\ call.page < ONE_GB_OF_PAGES
  /\ get_entry(call.page)
  /\ SetEntry(call.page, call.page)
  /\ call' = [call EXCEPT !.page = @ + 1]
  /\ UNCHANGED <<free, table, cur_bitmap, fault>>

\* The tables that hold the identity mapping (mark_bits).
Marked == {Flag(pt) : pt \in 0 .. ONE_GB_OF_PAGES \div ENTRIES_PER_TABLE - 1}

\* The flags that the cleaning loop reaches: as many as a page has bytes.
Cleaned == {Flag(pt) : pt \in 0 .. VMM_PAGE_SIZE - 1}

\* The bitmap is a frame with whatever it held; its flags are cleaned, and
\* those of the identity mapping set.
identity_done ==
  /\ call.pc = "identity" /\ call.page = ONE_GB_OF_PAGES
  /\ free' = gmem_left
  /\ fault' = (gmem = BAD)
  /\ \E garbage \in SUBSET (Flags \ Cleaned) :
       cur_bitmap' = garbage \cup Marked
  /\ call' = Idle
  /\ UNCHANGED <<table, present, frame>>

-----------------------------------------------------------------------------
(***************************************************************************)
(* vmm_alloc_pages_from, and with from = 0 vmm_alloc_pages: a search for   *)
(* count pages begins.                                                     *)
(***************************************************************************)
vmm_alloc_pages_from(from, count) ==
  /\ call.pc = "idle"
  /\ call' = [call EXCEPT !.pc = "search", !.page = from, !.count = count]
  /\ UNCHANGED <<free, table, present, frame, cur_bitmap, fault>>

\* The pages that the search tries: free ones of tables not flagged full.
Candidates(from) ==
  {p \in from .. Top - 1 : p \notin present /\ ~ pt_is_complete(PT(p))}

\* The page at which the scan finds the first candidate.
Candidate(p) ==
  p \in Candidates(call.page) /\ \A q \in Candidates(call.page) : p <= q

\* The free pages from p on, count of them at most, end at q.
FreeRun(p, q) ==
  /\ \A r \in p .. q : r \notin present
  /\ q = p + call.count - 1 \/ q + 1 \in present

(***************************************************************************)
(* alloc_pages, at the hole from p to q.  A hole that is too small is      *)
(* tried again from its last free page on, which is the same hole, for     *)
(* ever; only when the hole ends in another table, and that one is flagged *)
(* full, does the search go on.                                            *)
(***************************************************************************)
After(p, q) ==
  IF q = p + call.count - 1
    THEN [call EXCEPT !.pc = "gmem", !.first = p, !.page = q]
    ELSE IF PT(q) # PT(p) /\ pt_is_complete(PT(q))
      THEN [call EXCEPT !.page = (PT(q) + 1) * ENTRIES_PER_TABLE]
      ELSE [call EXCEPT !.pc = "loop"]

\* get_free_page_in_pt and mappable_from, with the tail calls in between.
search ==
  /\ call.pc = "search"
  /\ \E p \in Candidates(call.page) : \E q \in p .. p + call.count - 1 :
       /\ Candidate(p)
       /\ FreeRun(p, q)
       /\ call' = After(p, q)
  /\ UNCHANGED <<free, table, present, frame, cur_bitmap, fault>>

search_failed ==
  /\ call.pc = "search"
  /\ Candidates(call.page) = {}
  /\ call' = [call EXCEPT !.pc = "failed"]
  /\ UNCHANGED <<free, table, present, frame, cur_bitmap, fault>>

\* alloc_page takes the frame of the page; -1 passes its test for NULL.
alloc_page ==
  /\ call.pc = "gmem"
  /\ free' = gmem_left
  /\ call' = [call EXCEPT !.pc = "map", !.got = gmem]
  /\ UNCHANGED <<table, present, frame, cur_bitmap, fault>>

map_page_table ==
  /\ call.pc = "map"
  /\ ~ get_entry(call.page)
  /\ AddTable(call.page)
  /\ UNCHANGED <<present, frame, cur_bitmap, call>>

\* is_pt_incomplete, once the pages in pages are present.
is_pt_incomplete(pt, pages) ==
  \E p \in pt * ENTRIES_PER_TABLE .. (pt + 1) * ENTRIES_PER_TABLE - 1 :
    p \notin pages

(***************************************************************************)
(* update_bitmap for the pages from first up to finish.  Its argument      *)
(* incomplete is always 0: it is set on the way into the endless loop.     *)
(***************************************************************************)
update_bitmap(first, finish, pages) ==
  LET set == cur_bitmap \cup {Flag(pt) : pt \in PT(first) .. PT(finish)}
  IN  IF is_pt_incomplete(PT(finish), pages)
        THEN set \ {Flag(PT(finish))} ELSE set

\* Fault: the run is mapped down to the page in front of it.
map_page_entry_far ==
  /\ call.pc = "map"
  /\ get_entry(call.page)
  /\ SetEntry(call.page, call.got)
  /\ \/ /\ call.page >= call.first
        /\ call' = [call EXCEPT !.pc = "gmem", !.page = @ - 1, !.got = 0]
        /\ UNCHANGED cur_bitmap
     \/ /\ call.page < call.first
        /\ call' = [call EXCEPT !.pc = "done", !.got = 0]
        /\ cur_bitmap' =
             update_bitmap(call.first, call.first + call.count, present')
  /\ UNCHANGED <<free, table, fault>>

\* map_page enters the page; mappable_from maps its run from the last page to
\* the first, after which alloc_pages updates the bitmap and returns 1.
map_page_entry ==
  /\ call.pc = "map"
  /\ get_entry(call.page)
  /\ SetEntry(call.page, call.got)
  /\ \/ /\ call.page > call.first
        /\ call' = [call EXCEPT !.pc = "gmem", !.page = @ - 1, !.got = 0]
        /\ UNCHANGED cur_bitmap
     \/ /\ call.page = call.first
        /\ call' = [call EXCEPT !.pc = "done", !.got = 0]
        /\ cur_bitmap' =
             update_bitmap(call.first, call.first + call.count, present')
  /\ UNCHANGED <<free, table, fault>>

\* The steps of vmm_initialize and of the allocation under way.
VmmStep ==
  \/ identity_table \/ identity_entry \/ identity_done
  \/ search \/ search_failed
  \/ alloc_page \/ map_page_table \/ map_page_entry

\* The caller of an allocation goes on.
VmmReturn ==
  /\ call' = Idle
  /\ UNCHANGED <<free, table, present, frame, cur_bitmap>>

\* Fault: the entry stays present.
vmm_free_pages_present(p) ==
  /\ cur_bitmap' = cur_bitmap \ {Flag(PT(p))}
  /\ fmem(frame[p])
  /\ UNCHANGED <<table, present, frame, call, fault>>

(***************************************************************************)
(* vmm_free_pages for one page.  Without an entry it only clears the flag; *)
(* fmem of the address -1 looks for its flag outside memory and faults.    *)
(***************************************************************************)
vmm_free_pages(p) ==
  /\ cur_bitmap' = cur_bitmap \ {Flag(PT(p))}
  /\ fmem(IF get_entry(p) THEN frame[p] ELSE BAD)
  /\ present' = present \ {p}
  /\ fault' = (get_entry(p) /\ frame[p] = BAD)
  /\ UNCHANGED <<table, frame, call>>

\* mmu_kmalloc takes a frame for the kernel heap; none comes back.  It takes
\* -1 for a frame as well and writes a header there.
kmalloc_frame ==
  /\ call.pc = "idle"
  /\ free' = gmem_left
  /\ fault' = (gmem = BAD)
  /\ UNCHANGED <<table, present, frame, cur_bitmap, call>>

-----------------------------------------------------------------------------
VmmTypeOK ==
  /\ free \in Seq(Frames)
  /\ table \in [Nodes -> Frames \cup {0}]
  /\ present \subseteq Pages
  /\ frame \in [Pages -> 0 .. ONE_GB_OF_PAGES \cup {BAD}]
  /\ cur_bitmap \subseteq Flags
  /\ call \in [pc : {"identity", "idle", "search", "gmem", "map", "done",
                     "failed", "loop"},
               first : Nat, page : Nat, count : 0 .. MaxPages,
               got : Frames \cup {0, BAD}]
  /\ fault \in BOOLEAN

\* The pages that hold memory of their own.
Mapped == {p \in present : p >= ONE_GB_OF_PAGES /\ frame[p] # BAD}

(***************************************************************************)
(* A frame is in one place: on the free stack once, as one table, behind   *)
(* one page, or in the hands of the allocation under way.  So no page      *)
(* shows a page table or another page's data, and vmm_free_pages gives     *)
(* back only what it had taken (alloc_page, map_page, free_page).          *)
(***************************************************************************)
FramesApart ==
  LET inFree  == {free[i] : i \in 1 .. Len(free)}
      inTable == {table[n] : n \in Nodes} \ {0}
      inPage  == {frame[p] : p \in Mapped}
      taken   == {call.got} \ {0, BAD}
  IN  /\ \A i, j \in 1 .. Len(free) : free[i] = free[j] => i = j
      /\ \A m, n \in Nodes : table[m] = table[n] /\ table[m] # 0 => m = n
      /\ \A p, q \in Mapped : frame[p] = frame[q] => p = q
      /\ inFree \cap (inTable \cup inPage \cup taken) = {}
      /\ inTable \cap (inPage \cup taken) = {}
      /\ inPage \cap taken = {}

(***************************************************************************)
(* A page that stays mapped keeps its frame: the search hands out no page  *)
(* that is in use, whatever the flags of the bitmap, which two tables      *)
(* share, say (alloc_pages, mappable_from, map_page).                      *)
(***************************************************************************)
MappingStable ==
  [][\A p \in present \cap present' : frame'[p] = frame[p]]_vmm

(***************************************************************************)
(* The search for pages ends: the kernel's requests never meet a hole that *)
(* is too small, at which alloc_pages would try for ever.                  *)
(***************************************************************************)
SearchEnds == call.pc # "loop"

=============================================================================
