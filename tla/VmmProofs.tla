------------------------------ MODULE VmmProofs ------------------------------
(***************************************************************************)
(* Proofs about the memory of a user process, for every layout of pages,   *)
(* tables, frames and windows: no frame is ever in two places, no mapping  *)
(* changes under its page, the blocks of malloc tile the windows they come *)
(* from, and a block in use stays mapped; and for every layout that leaves *)
(* the stacks room, the search for pages ends.                             *)
(***************************************************************************)
EXTENDS Uheap, SequenceTheorems, FiniteSetTheorems, WellFoundedInduction, TLAPS

Calls == [pc : {"identity", "idle", "search", "gmem", "map", "done",
                "failed", "loop"},
          first : Nat, page : Nat, count : 0 .. MaxPages,
          got : Frames \cup {0, BAD}]

\* The types that the argument needs.
Types ==
  /\ free \in Seq(Frames)
  /\ table \in [Nodes -> Frames \cup {0}]
  /\ present \subseteq Pages
  /\ frame \in [Pages -> Int]
  /\ \A p \in Mapped : frame[p] \in Frames
  /\ call \in Calls
  /\ pages \in [Windows -> Pages \cup {NULL}]

\* FramesApart, pair by pair of the places where a frame may be.
Apart ==
  /\ \A i, j \in 1 .. Len(free) : free[i] = free[j] => i = j
  /\ \A m, n \in Nodes : table[m] = table[n] /\ table[m] # 0 => m = n
  /\ \A p, q \in Mapped : frame[p] = frame[q] => p = q
  /\ \A i \in 1 .. Len(free), n \in Nodes : free[i] # table[n]
  /\ \A i \in 1 .. Len(free), p \in Mapped : free[i] # frame[p]
  /\ \A i \in 1 .. Len(free) : free[i] # call.got
  /\ \A n \in Nodes, p \in Mapped : table[n] # frame[p]
  /\ \A n \in Nodes : table[n] = call.got => call.got = 0
  /\ \A p \in Mapped : frame[p] # call.got

(***************************************************************************)
(* The call under way: the identity mapping grows page by page; after it,  *)
(* the search hands out only pages above it; the part of a run that is     *)
(* still to be mapped is free.                                             *)
(***************************************************************************)
CallInv ==
  /\ call.pc = "identity" =>
       /\ call.page <= ONE_GB_OF_PAGES
       /\ present = 0 .. call.page - 1
       /\ \A w \in Windows : pages[w] = NULL
  /\ call.pc # "identity" => 0 .. ONE_GB_OF_PAGES - 1 \subseteq present
  /\ call.pc # "map" <=> call.got = 0
  /\ call.pc \in {"gmem", "map"} =>
       /\ ONE_GB_OF_PAGES <= call.first /\ call.first <= call.page
       /\ call.page \in Pages
       /\ \A p \in call.first .. call.page : p \notin present
  /\ call.pc = "done" =>
       /\ call.first \in present /\ ONE_GB_OF_PAGES <= call.first
       /\ \A w \in Windows : pages[w] # call.first

\* The windows have pages of their own, above the identity mapping.
WindowInv ==
  /\ \A w \in Windows : pages[w] # NULL =>
       pages[w] \in present /\ ONE_GB_OF_PAGES <= pages[w]
  /\ \A v, w \in Windows : pages[v] = pages[w] /\ pages[v] # NULL => v = w

MemInv == Types /\ Apart /\ CallInv /\ WindowInv

-----------------------------------------------------------------------------
\* The constants, without their products.
LEMMA Constants ==
  /\ Top \in Nat /\ ONE_GB_OF_PAGES <= Top
  /\ ONE_GB_OF_PAGES \in Nat /\ MaxPages \in Nat /\ 1 <= MaxPages
  /\ Pages = 0 .. Top + MaxPages
  /\ Frames \subseteq Nat /\ 0 \notin Frames /\ BAD \notin Frames
  /\ BAD = -1 /\ NULL \notin Int
<1> DEFINE prod == VMM_TOTAL_PTS * ENTRIES_PER_TABLE
<1>1. prod \in Nat /\ Top = prod + ENTRIES_PER_TABLE /\ ONE_GB_OF_PAGES <= prod
  BY VmmAssumption DEF Top
<1>2. ENTRIES_PER_TABLE \in Nat /\ ONE_GB_OF_PAGES \in Nat
      /\ MaxPages \in Nat /\ 1 <= MaxPages
  BY VmmAssumption
<1>3. Frames \subseteq Nat /\ 0 \notin Frames
  BY VmmAssumption DEF Frames
<1> HIDE DEF prod
<1> QED BY <1>1, <1>2, <1>3, MmapAssumption DEF Pages, BAD

\* The first page of the table behind a page.
LEMMA TableBehind ==
  ASSUME NEW q \in Nat
  PROVE  (PT(q) + 1) * ENTRIES_PER_TABLE \in Nat
<1>1. ENTRIES_PER_TABLE \in Nat \ {0}
  BY VmmAssumption
<1>2. PT(q) \in Nat
  BY <1>1 DEF PT
<1> QED BY <1>1, <1>2

\* The windows of the process are windows.
LEMMA OwnWindows == WindowsOf(Self) \subseteq Windows
<1> DEFINE base == Self * PAGES_PER_THREAD
<1>1. Self \in Pids /\ Self \in Nat /\ PAGES_PER_THREAD \in Nat
  BY MmapAssumption, UheapAssumption
<1>2. base \in Nat /\ WindowsOf(Self) = base .. base + PAGES_PER_THREAD - 1
  BY <1>1 DEF WindowsOf
<1> SUFFICES ASSUME NEW w \in WindowsOf(Self) PROVE w \in Windows
  OBVIOUS
<1>3. w - base \in 0 .. PAGES_PER_THREAD - 1 /\ w = base + (w - base)
  BY <1>1, <1>2
<1>4. \E pid \in Pids : \E i \in 0 .. PAGES_PER_THREAD - 1 :
        w = pid * PAGES_PER_THREAD + i
  BY <1>1, <1>3, Zenon
<1> QED BY <1>4 DEF Windows

\* A frame behind a page, as a table or in hand is in one place only.
LEMMA ApartSuffices == Types /\ Apart => FramesApart
<1> SUFFICES ASSUME Types, Apart PROVE FramesApart
  OBVIOUS
<1>1. \A i \in 1 .. Len(free) : free[i] \in Frames
  BY DEF Types
<1> QED BY <1>1, Constants DEF Types, Apart, FramesApart

\* A sequence without its last element.
LEMMA WithoutLast ==
  ASSUME NEW S, NEW s \in Seq(S), Len(s) # 0
  PROVE  /\ SubSeq(s, 1, Len(s) - 1) \in Seq(S)
         /\ Len(SubSeq(s, 1, Len(s) - 1)) = Len(s) - 1
         /\ \A i \in 1 .. Len(s) - 1 : SubSeq(s, 1, Len(s) - 1)[i] = s[i]
<1> DEFINE n == Len(s) - 1
<1>1. n \in Nat /\ \A i \in 1 .. n : s[i] \in S
  OBVIOUS
<1> HIDE DEF n
<1>2. /\ SubSeq(s, 1, n) \in Seq(S)
      /\ Len(SubSeq(s, 1, n)) = IF 1 <= n THEN n - 1 + 1 ELSE 0
      /\ \A i \in 1 .. n - 1 + 1 : SubSeq(s, 1, n)[i] = s[1 + i - 1]
  <2>1. 1 \in Int /\ n \in Int
    BY <1>1
  <2> QED BY <1>1, <2>1, SubSeqProperties, Z3
<1>3. \A i \in 1 .. n : SubSeq(s, 1, n)[i] = s[i]
  <2> TAKE i \in 1 .. n
  <2>1. i \in 1 .. n - 1 + 1 /\ 1 + i - 1 = i
    BY <1>1
  <2> QED BY <1>2, <2>1, Zenon
<1>4. Len(SubSeq(s, 1, n)) = n
  BY <1>1, <1>2
<1> QED BY <1>2, <1>3, <1>4, Zenon DEF n

\* gmem takes a frame off the stack, which is then nowhere on it.
LEMMA Popped ==
  ASSUME Types, Apart, free' = gmem_left, free # <<>>
  PROVE  /\ free' \in Seq(Frames)
         /\ gmem \in Frames
         /\ \E k \in 1 .. Len(free) : gmem = free[k]
         /\ Len(free') \in Nat /\ Len(free') < Len(free)
         /\ \A i \in 1 .. Len(free') : free'[i] = free[i] /\ free'[i] # gmem
<1>1. free \in Seq(Frames) /\ Len(free) \in Nat \ {0}
  BY DEF Types
<1>2. gmem = free[Len(free)] /\ free' = SubSeq(free, 1, Len(free) - 1)
  BY DEF gmem, gmem_left
<1>3. free' \in Seq(Frames) /\ Len(free') = Len(free) - 1
      /\ \A i \in 1 .. Len(free') : free'[i] = free[i]
  BY <1>1, <1>2, WithoutLast
<1>4. gmem \in Frames
  BY <1>1, <1>2
<1>5. \A i, j \in 1 .. Len(free) : free[i] = free[j] => i = j
  BY DEF Apart
<1>6. \A i \in 1 .. Len(free') : free'[i] # gmem
  BY <1>1, <1>2, <1>3, <1>5
<1> QED BY <1>1, <1>2, <1>3, <1>4, <1>6

-----------------------------------------------------------------------------
\* The variables that the invariant is about.
mem == <<free, table, present, frame, call, pages>>

\* Steps of the heap and of the windows that leave the memory alone.
LEMMA MemUnchanged == MemInv /\ UNCHANGED mem => MemInv'
<1> SUFFICES ASSUME MemInv, UNCHANGED mem PROVE MemInv'
  OBVIOUS
<1>1. Mapped' = Mapped
  BY DEF mem, Mapped
<1>2. Types' /\ Apart'
  BY <1>1 DEF mem, MemInv, Types, Apart
<1>3. CallInv' /\ WindowInv'
  BY DEF mem, MemInv, CallInv, WindowInv
<1> QED BY <1>2, <1>3 DEF MemInv

\* init_mem has run, nothing is mapped.
LEMMA InitMemInv == Init => MemInv
<1> SUFFICES ASSUME Init PROVE MemInv
  OBVIOUS
<1>1. MmapInit /\ VmmInit
  BY DEF Init, MmapInit
<1>2. Mapped = {}
  BY <1>1 DEF VmmInit, Mapped
<1>3. free \in Seq(Frames) /\ Len(free) = LastFrame - FirstFrame + 1
      /\ \A i \in 1 .. Len(free) : free[i] = FirstFrame + i - 1
  <2>1. LastFrame - FirstFrame + 1 \in Nat /\ FirstFrame \in Nat /\ LastFrame \in Nat
    BY VmmAssumption
  <2>2. \A i \in 1 .. LastFrame - FirstFrame + 1 : FirstFrame + i - 1 \in Frames
    BY <2>1 DEF Frames
  <2> QED BY <1>1, <2>1, <2>2 DEF VmmInit
<1>4. call = [pc |-> "identity", first |-> 0, page |-> 0, count |-> 0, got |-> 0]
  BY <1>1 DEF VmmInit, Idle
<1>5. Types
  <2>1. call \in Calls
    BY <1>4, Constants DEF Calls
  <2>2. table \in [Nodes -> Frames \cup {0}] /\ frame \in [Pages -> Int]
        /\ present \subseteq Pages
    BY <1>1 DEF VmmInit
  <2>3. pages \in [Windows -> Pages \cup {NULL}]
    BY <1>1 DEF MmapInit
  <2> QED BY <1>2, <1>3, <2>1, <2>2, <2>3 DEF Types
<1>6. Apart
  <2>1. \A i \in 1 .. Len(free) : free[i] # 0
    BY <1>3, Constants
  <2>2. \A n \in Nodes : table[n] = 0
    BY <1>1 DEF VmmInit
  <2>3. \A i, j \in 1 .. Len(free) : free[i] = free[j] => i = j
    <3>1. FirstFrame \in Nat /\ Len(free) \in Nat
      BY <1>3, VmmAssumption
    <3>2. \A i \in 1 .. Len(free) : free[i] = FirstFrame + i - 1
      BY <1>3
    <3> QED BY <3>1, <3>2
  <2> QED BY <1>2, <1>4, <2>1, <2>2, <2>3 DEF Apart
<1>7. CallInv
  <2>1. 0 .. call.page - 1 = {}
    BY <1>4
  <2> QED BY <1>1, <1>4, <2>1, Constants DEF CallInv, VmmInit, MmapInit
<1>8. WindowInv
  BY <1>1 DEF WindowInv, MmapInit
<1> QED BY <1>5, <1>6, <1>7, <1>8 DEF MemInv

\* A table is added on the way to the page of the call.
LEMMA AddTableMemInv ==
  ASSUME MemInv, call.page \in Pages, AddTable(call.page),
         UNCHANGED <<present, frame, call, pages>>
  PROVE  MemInv'
<1> USE DEF MemInv
<1>1. PICK level \in 0 .. 3 :
        /\ NextLevel(call.page, level)
        /\ free' = gmem_left
        /\ fault' = (gmem = BAD)
        /\ table' = [table EXCEPT ![Node(level, call.page)] =
                       IF fault' THEN 0 ELSE gmem]
  BY DEF AddTable
<1> DEFINE n == Node(level, call.page)
<1>2. n \in Nodes /\ table[n] = 0
  BY <1>1 DEF Nodes, NextLevel, Missing
<1> HIDE DEF n
<1>3. Mapped' = Mapped
  BY DEF Mapped
<1>4. CallInv' /\ WindowInv'
  BY DEF CallInv, WindowInv
<1>5. CASE free = <<>>
  <2>1. free' = free /\ fault'
    BY <1>1, <1>5 DEF gmem, gmem_left
  <2>2. table' = table
    BY <1>1, <1>2, <2>1 DEF Types, n
  <2> QED BY <2>1, <2>2, MemUnchanged DEF mem
<1>6. CASE free # <<>>
  <2>1. /\ free' \in Seq(Frames)
        /\ gmem \in Frames
        /\ \E k \in 1 .. Len(free) : gmem = free[k]
        /\ Len(free') \in Nat /\ Len(free') < Len(free)
        /\ \A i \in 1 .. Len(free') : free'[i] = free[i] /\ free'[i] # gmem
    BY <1>1, <1>6, Popped
  <2>2. table' = [table EXCEPT ![n] = gmem]
    BY <1>1, <2>1, Constants DEF n
  <2>3. table' \in [Nodes -> Frames \cup {0}] /\ table'[n] = gmem
        /\ \A m \in Nodes \ {n} : table'[m] = table[m]
    BY <1>2, <2>1, <2>2 DEF Types
  <2>4. Len(free) \in Nat /\ \A i \in 1 .. Len(free') : i \in 1 .. Len(free)
    BY <2>1 DEF Types
  <2>5. Types'
    BY <1>3, <2>1, <2>3 DEF Types
  <2>6. Apart'
    <3>1. gmem # 0 /\ gmem # call.got /\ \A p \in Mapped : gmem # frame[p]
      BY <2>1, Constants DEF Apart
    <3>2. \A m \in Nodes : table[m] # gmem
      BY <2>1 DEF Apart
    <3>3. \A k, m \in Nodes : table'[k] = table'[m] /\ table'[k] # 0 => k = m
      BY <2>3, <3>2 DEF Apart
    <3>4. \A i \in 1 .. Len(free'), m \in Nodes : free'[i] # table'[m]
      BY <2>1, <2>3, <2>4 DEF Apart
    <3>5. \A m \in Nodes : /\ \A p \in Mapped : table'[m] # frame[p]
                           /\ table'[m] = call.got => call.got = 0
      BY <2>3, <3>1 DEF Apart
    <3>6. /\ \A i, j \in 1 .. Len(free') : free'[i] = free'[j] => i = j
          /\ \A i \in 1 .. Len(free') :
               free'[i] # call.got /\ \A p \in Mapped : free'[i] # frame[p]
      BY <2>1, <2>4 DEF Apart
    <3> QED BY <1>3, <3>3, <3>4, <3>5, <3>6 DEF Apart
  <2> QED BY <1>4, <2>5, <2>6
<1> QED BY <1>5, <1>6

\* A frame is taken off the stack, for the page under way or for good.
LEMMA PopApart ==
  ASSUME Types, Apart, free' = gmem_left, UNCHANGED <<table, present, frame>>,
         call.got = 0, call'.got \in {0, gmem}
  PROVE  free' \in Seq(Frames) /\ gmem \in Frames \cup {BAD} /\ Apart'
<1>1. Mapped' = Mapped
  BY DEF Mapped
<1>2. \A p \in Mapped : frame[p] \in Frames
  BY DEF Types
<1>3. \A n \in Nodes : table[n] \in Frames \cup {0}
  BY DEF Types
<1>4. CASE free = <<>>
  <2>1. free' = free /\ gmem = BAD /\ Len(free) = 0 /\ Len(free') = 0
    BY <1>4 DEF gmem, gmem_left
  <2>2. \A p \in Mapped : frame[p] # 0 /\ frame[p] # BAD
    BY <1>2, Constants
  <2>3. \A n \in Nodes : table[n] # BAD
    BY <1>3, Constants
  <2> QED BY <1>1, <2>1, <2>2, <2>3 DEF Types, Apart
<1>5. CASE free # <<>>
  <2>1. /\ free' \in Seq(Frames)
        /\ gmem \in Frames
        /\ \E k \in 1 .. Len(free) : gmem = free[k]
        /\ Len(free') \in Nat /\ Len(free') < Len(free)
        /\ \A i \in 1 .. Len(free') : free'[i] = free[i] /\ free'[i] # gmem
    BY <1>5, Popped
  <2>2. Len(free) \in Nat /\ \A i \in 1 .. Len(free') : i \in 1 .. Len(free)
    BY <2>1 DEF Types
  <2>3. /\ \A i, j \in 1 .. Len(free') : free'[i] = free'[j] => i = j
        /\ \A i \in 1 .. Len(free'), n \in Nodes : free'[i] # table[n]
        /\ \A i \in 1 .. Len(free'), p \in Mapped : free'[i] # frame[p]
    BY <2>1, <2>2 DEF Apart
  <2>4. \A i \in 1 .. Len(free') : free'[i] # call'.got
    BY <2>1, <2>2 DEF Apart
  <2>5. /\ \A n \in Nodes : table[n] # gmem
        /\ \A p \in Mapped : frame[p] # gmem /\ frame[p] # 0
    BY <1>2, <2>1, Constants DEF Apart
  <2>6. /\ \A n \in Nodes : table[n] = call'.got => call'.got = 0
        /\ \A p \in Mapped : frame[p] # call'.got
    BY <2>5
  <2> QED BY <1>1, <2>1, <2>3, <2>4, <2>6 DEF Apart
<1> QED BY <1>4, <1>5

\* The end of vmm_initialize, and frames for the kernel heap.
LEMMA TakenForGood ==
  ASSUME MemInv, identity_done \/ kmalloc_frame, UNCHANGED pages
  PROVE  MemInv'
<1> USE DEF MemInv
<1>1. /\ free' = gmem_left /\ UNCHANGED <<table, present, frame>>
      /\ call.pc \in {"identity", "idle"} /\ call'.pc = "idle"
      /\ call'.got = 0 /\ call.got = 0 /\ call' \in Calls
      /\ 0 .. ONE_GB_OF_PAGES - 1 \subseteq present
  <2>1. CASE identity_done
    BY <2>1, Constants DEF identity_done, Idle, CallInv, Calls
  <2>2. CASE kmalloc_frame
    BY <2>2 DEF kmalloc_frame, CallInv, Types
  <2> QED BY <2>1, <2>2
<1>2. free' \in Seq(Frames) /\ Apart'
  BY <1>1, PopApart
<1>3. Mapped' = Mapped
  BY <1>1 DEF Mapped
<1>4. Types'
  BY <1>1, <1>2, <1>3 DEF Types
<1>5. CallInv' /\ WindowInv'
  BY <1>1 DEF CallInv, WindowInv
<1> QED BY <1>2, <1>4, <1>5

\* alloc_page takes the frame of a page.
LEMMA AllocPageMemInv ==
  ASSUME MemInv, alloc_page, UNCHANGED pages
  PROVE  MemInv'
<1> USE DEF MemInv
<1>1. call.pc = "gmem" /\ call.got = 0
  BY DEF alloc_page, CallInv
<1>2. /\ free' = gmem_left /\ UNCHANGED <<table, present, frame>>
      /\ call'.got = gmem /\ call'.pc = "map"
      /\ call'.first = call.first /\ call'.page = call.page
      /\ call'.count = call.count
      /\ call' = [call EXCEPT !.pc = "map", !.got = gmem]
  BY DEF alloc_page, Types, Calls
<1>3. free' \in Seq(Frames) /\ gmem \in Frames \cup {BAD} /\ Apart'
  BY <1>1, <1>2, PopApart
<1>4. call' \in Calls
  BY <1>2, <1>3 DEF Types, Calls
<1>5. Mapped' = Mapped
  BY <1>2 DEF Mapped
<1>6. Types'
  BY <1>2, <1>3, <1>4, <1>5 DEF Types
<1>7. gmem # 0
  BY <1>3, Constants
<1>8. CallInv' /\ WindowInv'
  BY <1>1, <1>2, <1>7 DEF CallInv, WindowInv
<1> QED BY <1>3, <1>6, <1>8

\* Steps that change nothing but the progress of the call.
LEMMA CallMemInv ==
  ASSUME MemInv, UNCHANGED <<free, table, present, frame, pages>>,
         call' \in Calls, call.got = 0, call'.got = 0, CallInv'
  PROVE  MemInv'
<1> USE DEF MemInv
<1>1. Mapped' = Mapped
  BY DEF Mapped
<1>2. Types' /\ Apart' /\ WindowInv'
  BY <1>1 DEF Types, Apart, WindowInv
<1> QED BY <1>2

\* A request for pages begins.
LEMMA RequestMemInv ==
  ASSUME MemInv, NEW from \in Nat, NEW count \in 0 .. MaxPages,
         vmm_alloc_pages_from(from, count), UNCHANGED pages
  PROVE  MemInv'
<1> USE DEF MemInv
<1>1. /\ UNCHANGED <<free, table, present, frame>>
      /\ call.pc = "idle" /\ call.got = 0 /\ call'.pc = "search"
      /\ call' \in Calls /\ call'.got = 0
  BY DEF vmm_alloc_pages_from, CallInv, Types, Calls
<1>2. CallInv'
  BY <1>1 DEF CallInv
<1> QED BY <1>1, <1>2, CallMemInv

\* The caller goes on after an allocation, or after none was possible.
LEMMA ReturnMemInv ==
  ASSUME MemInv, VmmReturn, call.pc \in {"done", "failed"}, UNCHANGED pages
  PROVE  MemInv'
<1> USE DEF MemInv
<1>1. /\ UNCHANGED <<free, table, present, frame>>
      /\ call.got = 0 /\ call'.pc = "idle" /\ call' \in Calls /\ call'.got = 0
  BY Constants DEF VmmReturn, Idle, CallInv, Calls
<1>2. CallInv'
  BY <1>1 DEF CallInv
<1> QED BY <1>1, <1>2, CallMemInv

\* The search finds a hole, or none, or goes on.
LEMMA SearchMemInv ==
  ASSUME MemInv, search \/ search_failed, UNCHANGED pages
  PROVE  MemInv'
<1> USE DEF MemInv
<1>1. /\ UNCHANGED <<free, table, present, frame>>
      /\ call.pc = "search" /\ call.got = 0 /\ call \in Calls
      /\ 0 .. ONE_GB_OF_PAGES - 1 \subseteq present
  BY DEF search, search_failed, CallInv, Types
<1>2. CASE search_failed
  <2>1. call' \in Calls /\ call'.got = 0 /\ call'.pc = "failed"
    BY <1>1, <1>2 DEF search_failed, Calls
  <2>2. CallInv'
    BY <1>1, <2>1 DEF CallInv
  <2> QED BY <1>1, <2>1, <2>2, CallMemInv
<1>3. CASE search
  <2>0. PICK p \in Candidates(call.page) :
          \E q \in p .. p + call.count - 1 : FreeRun(p, q) /\ call' = After(p, q)
    BY <1>3 DEF search
  <2>1. PICK q \in p .. p + call.count - 1 : FreeRun(p, q) /\ call' = After(p, q)
    BY <2>0
  <2>2. /\ call.page \in Nat /\ call.count \in 0 .. MaxPages
        /\ call.page \in Int /\ call.count \in Int
    BY <1>1, Constants DEF Calls
  <2>3. p \in Nat /\ p < Top /\ p \notin present /\ ONE_GB_OF_PAGES <= p
    BY <1>1, <2>2, Constants DEF Candidates
  <2>4. q \in Nat /\ p <= q /\ q <= p + call.count - 1 /\ q \in Pages
    BY <2>2, <2>3, Constants
  <2>5. \A r \in p .. q : r \notin present
    BY <2>1 DEF FreeRun
  <2>6. CASE q = p + call.count - 1
    <3>1. call' = [call EXCEPT !.pc = "gmem", !.first = p, !.page = q]
      BY <2>1, <2>6 DEF After
    <3>2. /\ call' \in Calls /\ call'.got = 0 /\ call'.pc = "gmem"
          /\ call'.first = p /\ call'.page = q
      BY <1>1, <2>3, <2>4, <3>1 DEF Calls
    <3>3. CallInv'
      BY <1>1, <2>3, <2>4, <2>5, <3>2 DEF CallInv
    <3> QED BY <1>1, <3>2, <3>3, CallMemInv
  <2>7. CASE q # p + call.count - 1
    <3>1. \/ call' = [call EXCEPT !.page = (PT(q) + 1) * ENTRIES_PER_TABLE]
          \/ call' = [call EXCEPT !.pc = "loop"]
      BY <2>1, <2>7 DEF After
    <3>2. (PT(q) + 1) * ENTRIES_PER_TABLE \in Nat
      BY <2>4, TableBehind
    <3>3. call' \in Calls /\ call'.got = 0 /\ call'.pc \in {"search", "loop"}
      BY <1>1, <3>1, <3>2 DEF Calls
    <3>4. CallInv'
      BY <1>1, <3>3 DEF CallInv
    <3> QED BY <1>1, <3>3, <3>4, CallMemInv
  <2> QED BY <2>6, <2>7
<1> QED BY <1>2, <1>3

\* vmm_initialize enters a page of the identity mapping.
LEMMA IdentityEntryMemInv ==
  ASSUME MemInv, identity_entry, UNCHANGED pages
  PROVE  MemInv'
<1> USE DEF MemInv
<1>1. /\ UNCHANGED <<free, table>>
      /\ call.pc = "identity" /\ call.page < ONE_GB_OF_PAGES /\ call \in Calls
      /\ present = 0 .. call.page - 1
      /\ \A w \in Windows : pages[w] = NULL
      /\ call.got = 0 /\ call.page \in Nat
  BY DEF identity_entry, CallInv, Types, Calls
<1>2. /\ present' = present \cup {call.page}
      /\ frame' = [frame EXCEPT ![call.page] = call.page]
      /\ call' = [call EXCEPT !.page = call.page + 1]
  BY DEF identity_entry, SetEntry
<1>3. /\ call' \in Calls /\ call'.pc = "identity" /\ call'.got = 0
      /\ call'.page = call.page + 1
  BY <1>1, <1>2 DEF Calls
<1>4. call.page \in Pages /\ present' = 0 .. call'.page - 1
  BY <1>1, <1>2, <1>3, Constants
<1>5. Mapped = {} /\ Mapped' = {}
  BY <1>1, <1>3, <1>4, Constants DEF Mapped
<1>6. Types'
  BY <1>1, <1>2, <1>3, <1>4, <1>5 DEF Types
<1>7. Apart'
  BY <1>1, <1>3, <1>5 DEF Apart
<1>8. CallInv' /\ WindowInv'
  BY <1>1, <1>3, <1>4, Constants DEF CallInv, WindowInv
<1> QED BY <1>6, <1>7, <1>8

\* map_page enters a page of the run, the last one that is still free.
LEMMA MapEntryMemInv ==
  ASSUME MemInv, map_page_entry, UNCHANGED pages
  PROVE  MemInv'
<1> USE DEF MemInv
<1>1. /\ UNCHANGED <<free, table>>
      /\ call.pc = "map" /\ call \in Calls
      /\ ONE_GB_OF_PAGES <= call.first /\ call.first <= call.page
      /\ call.page \in Pages /\ call.page \in Nat /\ call.first \in Nat
      /\ \A p \in call.first .. call.page : p \notin present
      /\ 0 .. ONE_GB_OF_PAGES - 1 \subseteq present
      /\ call.got \in Frames \cup {BAD}
  BY DEF map_page_entry, CallInv, Types, Calls
<1>2. /\ present' = present \cup {call.page}
      /\ frame' = [frame EXCEPT ![call.page] = call.got]
  BY DEF map_page_entry, SetEntry
<1>3. call'.got = 0 /\ call' \in Calls /\ call'.first = call.first
      /\ \/ /\ call.page > call.first /\ call'.pc = "gmem"
            /\ call'.page = call.page - 1
         \/ call.page = call.first /\ call'.pc = "done"
  <2>1. CASE /\ call.page > call.first
             /\ call' = [call EXCEPT !.pc = "gmem", !.page = call.page - 1, !.got = 0]
    <3>1. call.page - 1 \in Nat
      BY <1>1, <2>1
    <3> QED BY <1>1, <2>1, <3>1 DEF Calls
  <2>2. CASE /\ call.page = call.first
             /\ call' = [call EXCEPT !.pc = "done", !.got = 0]
    BY <1>1, <2>2 DEF Calls
  <2> QED BY <2>1, <2>2 DEF map_page_entry
<1>4. call.page \notin present
  BY <1>1
<1>5. /\ frame' \in [Pages -> Int]
      /\ frame'[call.page] = call.got
      /\ \A p \in Pages \ {call.page} : frame'[p] = frame[p]
  <2>1. call.got \in Int
    <3>1. BAD \in Int
      BY DEF BAD
    <3>2. \A f \in Frames : f \in Int
      BY Constants
    <3> QED BY <1>1, <3>1, <3>2
  <2>2. frame \in [Pages -> Int]
    BY DEF Types
  <2> QED BY <1>1, <1>2, <2>1, <2>2
<1>6. \A p \in Mapped' : \/ p \in Mapped /\ frame'[p] = frame[p] /\ p # call.page
                         \/ p = call.page /\ frame'[p] = call.got /\ call.got # BAD
  BY <1>2, <1>4, <1>5 DEF Mapped, Types
<1>7. call.page \notin Mapped
  BY <1>4 DEF Mapped
<1>8. Types'
  <2>1. \A p \in Mapped' : frame'[p] \in Frames
    BY <1>1, <1>6 DEF Types
  <2>2. present' \subseteq Pages
    BY <1>1, <1>2 DEF Types
  <2> QED BY <1>1, <1>3, <1>5, <2>1, <2>2 DEF Types
<1>9. Apart'
  <2>1. \A p, q \in Mapped' : frame'[p] = frame'[q] => p = q
    BY <1>6 DEF Apart
  <2>2. \A i \in 1 .. Len(free), p \in Mapped' : free[i] # frame'[p]
    BY <1>6 DEF Apart
  <2>3. \A n \in Nodes, p \in Mapped' : table[n] # frame'[p]
    BY <1>1, <1>6, Constants DEF Apart
  <2>4. \A p \in Mapped' : frame'[p] # 0
    BY <1>8, Constants DEF Types
  <2>5. \A i \in 1 .. Len(free) : free[i] # 0
    BY Constants DEF Types
  <2> QED BY <1>1, <1>3, <2>1, <2>2, <2>3, <2>4, <2>5 DEF Apart
<1>10. WindowInv'
  BY <1>2 DEF WindowInv
<1>11. CallInv'
  <2>1. \A w \in Windows : pages[w] # call.page
    BY <1>4, MmapAssumption, <1>1 DEF WindowInv
  <2>2. CASE call'.pc = "gmem"
    <3>1. call'.page = call.page - 1 /\ call.page > call.first
      BY <1>3, <2>2
    <3>2. call'.page \in Pages /\ call'.first <= call'.page
      BY <1>1, <1>3, <3>1, Constants
    <3>3. \A p \in call'.first .. call'.page : p \notin present'
      BY <1>1, <1>2, <1>3, <3>1
    <3> QED BY <1>1, <1>2, <1>3, <2>2, <3>2, <3>3 DEF CallInv
  <2>3. CASE call'.pc = "done"
    BY <1>1, <1>2, <1>3, <2>1, <2>3 DEF CallInv
  <2> QED BY <1>3, <2>2, <2>3
<1> QED BY <1>8, <1>9, <1>10, <1>11

\* A window gets the page that has been allocated for it.
LEMMA AllocatedMemInv ==
  ASSUME MemInv, mmap_allocated
  PROVE  MemInv'
<1> USE DEF MemInv
<1>1. /\ UNCHANGED <<free, table, present, frame>>
      /\ call.got = 0 /\ call'.pc = "idle" /\ call' \in Calls /\ call'.got = 0
  BY Constants DEF mmap_allocated, VmmReturn, Idle, CallInv, Calls
<1>2. /\ call.first \in present /\ ONE_GB_OF_PAGES <= call.first
      /\ call.first \in Pages
      /\ \A w \in Windows : pages[w] # call.first
      /\ 0 .. ONE_GB_OF_PAGES - 1 \subseteq present
  BY DEF mmap_allocated, CallInv, Types
<1>3. /\ pages' \in [Windows -> Pages \cup {NULL}]
      /\ \A w \in Windows :
           pages'[w] = IF w = request.window THEN call.first ELSE pages[w]
  BY <1>2 DEF mmap_allocated, Types
<1>4. Mapped' = Mapped
  BY <1>1 DEF Mapped
<1>5. Types' /\ Apart'
  BY <1>1, <1>3, <1>4 DEF Types, Apart
<1>6. CallInv'
  BY <1>1, <1>2 DEF CallInv
<1>7. WindowInv'
  BY <1>1, <1>2, <1>3 DEF WindowInv
<1> QED BY <1>5, <1>6, <1>7

\* The page of a window is given back.
LEMMA FreeMemInv ==
  ASSUME MemInv, call.pc = "idle", NEW w \in Windows, pages[w] # NULL,
         vmm_free_pages(pages[w]), pages' = [pages EXCEPT ![w] = NULL]
  PROVE  MemInv'
<1> USE DEF MemInv
<1> DEFINE p == pages[w]
<1>1. /\ p \in present /\ ONE_GB_OF_PAGES <= p /\ p \in Pages /\ p \in Nat
      /\ \A v \in Windows \ {w} : pages[v] # p
  BY Constants DEF WindowInv, Types
<1>2. /\ present' = present \ {p} /\ UNCHANGED <<table, frame, call>>
      /\ call.got = 0
  BY DEF vmm_free_pages, CallInv
<1>3. \/ free' = free
      \/ free' = Append(free, frame[p]) /\ frame[p] # BAD
  BY DEF vmm_free_pages, fmem
<1> HIDE DEF p
<1>4. Mapped' = Mapped \ {p}
  BY <1>2 DEF Mapped
<1>5. /\ pages' \in [Windows -> Pages \cup {NULL}] /\ pages'[w] = NULL
      /\ \A v \in Windows \ {w} : pages'[v] = pages[v]
  BY DEF Types
<1>6. CallInv'
  <2>1. 0 .. ONE_GB_OF_PAGES - 1 \subseteq present'
    BY <1>1, <1>2, Constants DEF CallInv
  <2> QED BY <1>2, <2>1 DEF CallInv
<1>7. WindowInv'
  BY <1>1, <1>2, <1>5 DEF WindowInv
<1>8. CASE free' = free
  <2>1. Types'
    BY <1>2, <1>4, <1>5, <1>8 DEF Types
  <2>2. Apart'
    BY <1>2, <1>4, <1>8 DEF Apart
  <2> QED BY <1>6, <1>7, <2>1, <2>2
<1>9. CASE free' = Append(free, frame[p]) /\ frame[p] # BAD
  <2>1. p \in Mapped /\ frame[p] \in Frames
    BY <1>1, <1>9 DEF Mapped, Types
  <2>2. free \in Seq(Frames) /\ Len(free) \in Nat
    BY DEF Types
  <2>3. /\ free' \in Seq(Frames) /\ Len(free') = Len(free) + 1
        /\ free'[Len(free')] = frame[p]
        /\ \A i \in 1 .. Len(free) : free'[i] = free[i]
    BY <1>9, <2>1, <2>2
  <2>4. \A i \in 1 .. Len(free') :
          \/ i = Len(free') /\ free'[i] = frame[p]
          \/ i \in 1 .. Len(free) /\ free'[i] = free[i]
    BY <2>2, <2>3
  <2>5. Types'
    BY <1>2, <1>4, <1>5, <2>3 DEF Types
  <2>6. Apart'
    <3>1. \A i, j \in 1 .. Len(free') : free'[i] = free'[j] => i = j
      BY <2>1, <2>4 DEF Apart
    <3>2. \A i \in 1 .. Len(free'), n \in Nodes : free'[i] # table[n]
      BY <2>1, <2>4 DEF Apart
    <3>3. \A i \in 1 .. Len(free'), q \in Mapped \ {p} : free'[i] # frame[q]
      BY <2>1, <2>4 DEF Apart
    <3>4. \A i \in 1 .. Len(free') : free'[i] # call.got
      BY <2>1, <2>4 DEF Apart
    <3>5. /\ \A q, r \in Mapped \ {p} : frame[q] = frame[r] => q = r
          /\ \A q \in Mapped \ {p}, n \in Nodes :
               table[n] # frame[q] /\ frame[q] # call.got
      BY DEF Apart
    <3>6. /\ \A m, n \in Nodes : table[m] = table[n] /\ table[m] # 0 => m = n
          /\ \A n \in Nodes : table[n] = call.got => call.got = 0
          /\ \A q \in Mapped : frame[q] # call.got
      BY DEF Apart
    <3> QED BY <1>2, <1>4, <3>1, <3>2, <3>3, <3>4, <3>5, <3>6 DEF Apart
  <2> QED BY <1>6, <1>7, <2>5, <2>6
<1> QED BY <1>3, <1>8, <1>9

-----------------------------------------------------------------------------
\* The steps of vmm_initialize and of an allocation.
LEMMA StepMemInv ==
  ASSUME MemInv, VmmStep, UNCHANGED pages
  PROVE  MemInv'
<1>1. CASE identity_table
  <2>1. call.page \in Pages
    BY <1>1, Constants DEF identity_table, MemInv, Types, Calls
  <2> QED BY <1>1, <2>1, AddTableMemInv DEF identity_table
<1>2. CASE identity_entry
  BY <1>2, IdentityEntryMemInv
<1>3. CASE identity_done
  BY <1>3, TakenForGood
<1>4. CASE search \/ search_failed
  BY <1>4, SearchMemInv
<1>5. CASE alloc_page
  BY <1>5, AllocPageMemInv
<1>6. CASE map_page_table
  <2>1. call.page \in Pages
    BY <1>6 DEF map_page_table, MemInv, CallInv
  <2> QED BY <1>6, <2>1, AddTableMemInv DEF map_page_table
<1>7. CASE map_page_entry
  BY <1>7, MapEntryMemInv
<1> QED BY <1>1, <1>2, <1>3, <1>4, <1>5, <1>6, <1>7 DEF VmmStep

\* Boot: the stacks are requested and handed over.
LEMMA StackMemInv ==
  ASSUME MemInv, _sched_alloc_pages \/ stack_ready
  PROVE  MemInv'
<1>1. CASE _sched_alloc_pages
  <2>1. StackRequest(stacks).from \in Nat
        /\ StackRequest(stacks).count \in 0 .. MaxPages
    BY MmapAssumption, Constants DEF StackRequest
  <2> QED BY <1>1, <2>1, RequestMemInv DEF _sched_alloc_pages, mmaps
<1>2. CASE stack_ready
  BY <1>2, ReturnMemInv DEF stack_ready
<1> QED BY <1>1, <1>2

\* malloc, whichever way it is served.
LEMMA MallocMemInv ==
  ASSUME MemInv, NEW size \in Sizes,
         \/ malloc_reuse(size) \/ malloc_window(size)
         \/ malloc_alloc(size) \/ malloc_null(size)
  PROVE  MemInv'
<1>1. CASE malloc_reuse(size) \/ malloc_window(size) \/ malloc_null(size)
  <2>1. UNCHANGED mem
    BY <1>1 DEF malloc_reuse, malloc_window, malloc_null, mmap_window,
                mmap_null, vmm, mmaps, mem
  <2> QED BY <2>1, MemUnchanged
<1>2. CASE malloc_alloc(size)
  <2>1. vmm_alloc_pages_from(MMAP_BASE, 1) /\ UNCHANGED pages
    BY <1>2 DEF malloc_alloc, mmap_alloc
  <2>2. MMAP_BASE \in Nat /\ 1 \in 0 .. MaxPages
    BY MmapAssumption, Constants
  <2> QED BY <2>1, <2>2, RequestMemInv
<1> QED BY <1>1, <1>2

\* free, of any block.
LEMMA FreeBlockMemInv ==
  ASSUME MemInv, NEW b, free_refused(b) \/ free_inner(b) \/ free_last(b)
  PROVE  MemInv'
<1>1. CASE free_refused(b) \/ free_inner(b)
  <2>1. UNCHANGED mem
    BY <1>1 DEF free_refused, free_inner, vmm, mmaps, mem
  <2> QED BY <2>1, MemUnchanged
<1>2. CASE free_last(b)
  <2> DEFINE size == block[b].size + BLOCK_SIZE
  <2>1. call.pc = "idle" /\ syscall_munmap(Self, b, size)
    BY <1>2 DEF free_last, Running
  <2> HIDE DEF size
  <2>2. PICK w \in WindowsOf(Self) :
          /\ pages[w] # NULL
          /\ \/ /\ vmm_free_pages(pages[w])
                /\ pages' = [pages EXCEPT ![w] = NULL]
             \/ UNCHANGED <<vmm, pages>>
    BY <2>1 DEF syscall_munmap
  <2>3. CASE UNCHANGED <<vmm, pages>>
    BY <2>3, MemUnchanged DEF vmm, mem
  <2>4. CASE vmm_free_pages(pages[w]) /\ pages' = [pages EXCEPT ![w] = NULL]
    BY <2>1, <2>2, <2>4, OwnWindows, FreeMemInv
  <2> QED BY <2>2, <2>3, <2>4
<1> QED BY <1>1, <1>2

\* Every step preserves the invariant.
LEMMA NextMemInv == MemInv /\ [Next]_vars => MemInv'
<1> SUFFICES ASSUME MemInv, [Next]_vars PROVE MemInv'
  OBVIOUS
<1>1. CASE UNCHANGED vars
  BY <1>1, MemUnchanged DEF vars, vmm, mmaps, mem
<1>2. CASE VmmStep /\ UNCHANGED <<mmaps, heap>>
  BY <1>2, StepMemInv DEF mmaps
<1>3. CASE kmalloc_frame /\ UNCHANGED <<mmaps, heap>>
  BY <1>3, TakenForGood DEF mmaps
<1>4. CASE (_sched_alloc_pages \/ stack_ready) /\ UNCHANGED heap
  BY <1>4, StackMemInv
<1>5. ASSUME NEW size \in Sizes,
             \/ malloc_reuse(size) \/ malloc_window(size)
             \/ malloc_alloc(size) \/ malloc_null(size)
      PROVE  MemInv'
  BY <1>5, MallocMemInv
<1>6. CASE malloc_allocated
  BY <1>6, AllocatedMemInv DEF malloc_allocated
<1>7. CASE malloc_failed
  BY <1>7, ReturnMemInv DEF malloc_failed, mmap_failed
<1>8. ASSUME NEW b \in DOMAIN live,
             free_refused(b) \/ free_inner(b) \/ free_last(b)
      PROVE  MemInv'
  BY <1>8, FreeBlockMemInv
<1> QED BY <1>1, <1>2, <1>3, <1>4, <1>5, <1>6, <1>7, <1>8 DEF Next

(***************************************************************************)
(* The invariant holds throughout, whatever order boot, the kernel heap,   *)
(* malloc and free come in.                                                *)
(***************************************************************************)
THEOREM MemCorrect == Spec => []MemInv
BY InitMemInv, NextMemInv, PTL DEF Spec

(***************************************************************************)
(* A frame is never in two places (gmem, map_page, vmm_free_pages), for    *)
(* every layout, every size of the windows and also when frames run out.   *)
(***************************************************************************)
THEOREM FramesStayApart == Spec => []FramesApart
<1>1. MemInv => FramesApart
  BY ApartSuffices DEF MemInv
<1> QED BY <1>1, MemCorrect, PTL

\* Only map_page and the identity mapping write entries, of pages that are not
\* present.
LEMMA StepKeepsMappings ==
  ASSUME MemInv, [Next]_vars, NEW p \in present, p \in present'
  PROVE  frame'[p] = frame[p]
<1>1. p \in Pages /\ frame \in [Pages -> Int]
  BY DEF MemInv, Types
<1>2. CASE UNCHANGED frame
  BY <1>2
<1>3. CASE identity_entry
  <2>1. call.page \notin present
    BY <1>3 DEF identity_entry, MemInv, CallInv, Types, Calls
  <2> QED BY <1>1, <1>3, <2>1 DEF identity_entry, SetEntry
<1>4. CASE map_page_entry
  <2>1. call.page \notin present
    BY <1>4 DEF map_page_entry, MemInv, CallInv, Types, Calls
  <2> QED BY <1>1, <1>4, <2>1 DEF map_page_entry, SetEntry
<1>5. VmmStep => identity_entry \/ map_page_entry \/ UNCHANGED frame
  BY DEF VmmStep, identity_table, identity_done, search, search_failed,
         alloc_page, map_page_table
<1>6. kmalloc_frame \/ _sched_alloc_pages \/ stack_ready => UNCHANGED frame
  BY DEF kmalloc_frame, _sched_alloc_pages, vmm_alloc_pages_from,
         stack_ready, VmmReturn
<1>7. ASSUME NEW size \in Sizes,
             \/ malloc_reuse(size) \/ malloc_window(size)
             \/ malloc_alloc(size) \/ malloc_null(size)
      PROVE  UNCHANGED frame
  BY <1>7 DEF malloc_reuse, malloc_window, malloc_alloc, malloc_null, mmap_window,
         mmap_alloc, mmap_null, vmm_alloc_pages_from, vmm
<1>8. malloc_allocated \/ malloc_failed => UNCHANGED frame
  BY DEF malloc_allocated, malloc_failed, mmap_allocated, mmap_failed, VmmReturn
<1>9. ASSUME NEW b \in DOMAIN live,
             free_refused(b) \/ free_inner(b) \/ free_last(b)
      PROVE  UNCHANGED frame
  BY <1>9 DEF free_refused, free_inner, free_last, syscall_munmap, vmm_free_pages, vmm
<1>10. UNCHANGED vars => UNCHANGED frame
  BY DEF vars, vmm
<1>11. identity_entry \/ map_page_entry \/ UNCHANGED frame
  BY <1>5, <1>6, <1>7, <1>8, <1>9, <1>10 DEF Next
<1> QED BY <1>2, <1>3, <1>4, <1>11

(***************************************************************************)
(* A page that stays mapped keeps its frame, whatever the aliased flags of *)
(* the bitmap let the search try (alloc_pages, mappable_from, map_page).   *)
(***************************************************************************)
THEOREM MappingsStable == Spec => MappingStable
<1> DEFINE Kept == \A p \in present \cap present' : frame'[p] = frame[p]
<1>1. MemInv /\ [Next]_vars => [Kept]_vmm
  BY StepKeepsMappings
<1> QED BY <1>1, MemCorrect, PTL DEF Spec, MappingStable

-----------------------------------------------------------------------------
\* The page that a byte is in.
Page(b) == b \div VMM_PAGE_SIZE

\* The first byte of window w that is not in use.
Limit(w) == pages[w] * VMM_PAGE_SIZE + bytes_used[w]

Ptr == DOMAIN block \cup {NULL}

\* The headers and the windows, before anything is said of where blocks are.
Memory ==
  /\ DOMAIN block \subseteq Nat
  /\ block \in [DOMAIN block -> [size : Nat, free : BOOLEAN,
                                 next : Ptr, prev : Ptr]]
  /\ last_mmap \in Int
  /\ bytes_used \in [Windows -> 0 .. VMM_PAGE_SIZE]

(***************************************************************************)
(* Each block is inside a window; in each window the blocks lie end to end *)
(* from the beginning of the page up to what bytes_used counts.            *)
(***************************************************************************)
Tiled ==
  /\ \A b \in DOMAIN block : \E w \in WindowsOf(Self) :
       pages[w] = Page(b) /\ End(b) <= Limit(w)
  /\ \A w \in WindowsOf(Self) : pages[w] # NULL =>
       \E b \in DOMAIN block : Page(b) = pages[w] /\ End(b) = Limit(w)
  /\ \A b \in DOMAIN block :
       \/ b = Page(b) * VMM_PAGE_SIZE
       \/ \E c \in DOMAIN block : Page(c) = Page(b) /\ End(c) = b
  /\ \A b, c \in DOMAIN block : b < c => End(b) <= c

(***************************************************************************)
(* The blocks form a list of n blocks, q[1] to q[n], which visits those of *)
(* a page in the order of their addresses.                                 *)
(***************************************************************************)
IsList(n, q) ==
  /\ n \in Nat /\ q \in [1 .. n -> DOMAIN block]
  /\ \A b \in DOMAIN block : \E i \in 1 .. n : q[i] = b
  /\ \A i, j \in 1 .. n : q[i] = q[j] => i = j
  /\ base_addr = IF n = 0 THEN NULL ELSE q[1]
  /\ \A i \in 1 .. n : /\ block[q[i]].next = IF i = n THEN NULL ELSE q[i + 1]
                       /\ block[q[i]].prev = IF i = 1 THEN NULL ELSE q[i - 1]
  /\ \A i, j \in 1 .. n : i < j /\ Page(q[i]) = Page(q[j]) => q[i] < q[j]

Listed == \E n, q : IsList(n, q)

\* A caller's block is its own, and large enough.
Owned ==
  /\ live \in [DOMAIN live -> Sizes]
  /\ \A b \in DOMAIN live :
       b \in DOMAIN block /\ ~ block[b].free /\ block[b].size >= live[b]

\* The call under way, if it is malloc's, is for a window without a page.
RequestInv ==
  /\ stacks \in 0 .. StackRequests
  /\ request \in [window : Windows \cup {NULL}, size : 0 .. VMM_PAGE_SIZE]
  /\ ~ Booted \/ call.pc \in {"identity", "idle"} => request = None
  /\ Booted /\ call.pc \notin {"identity", "idle"} =>
       /\ request.window \in WindowsOf(Self) /\ pages[request.window] = NULL
       /\ request.size - BLOCK_SIZE \in Sizes

BlockInv == Memory /\ Tiled /\ Listed /\ Owned

-----------------------------------------------------------------------------
\* The sizes and the addresses are numbers, the null pointer is none.
LEMMA BlockConstants ==
  /\ VMM_PAGE_SIZE \in Nat /\ VMM_PAGE_SIZE > 0
  /\ BLOCK_SIZE \in Nat /\ BLOCK_SIZE > 0
  /\ MIN_ALLOC_SIZE \in Nat /\ MIN_ALLOC_SIZE > 0
  /\ NULL \notin Int
  /\ Sizes \subseteq Nat
BY VmmAssumption, MmapAssumption, UheapAssumption

\* A set of natural numbers has a least element.
LEMMA Least ==
  ASSUME NEW T, T \subseteq Nat, T # {}
  PROVE  \E x \in T : \A y \in T : x <= y
<1> DEFINE R == OpToRel(<, Nat)
<1>1. IsWellFoundedOn(R, Nat)
  BY NatLessThanWellFounded
<1>2. \A x, y \in Nat : y < x => <<y, x>> \in R
  BY DEF OpToRel
<1> HIDE DEF R
<1>3. PICK x \in T : \A y \in T : ~ (<<y, x>> \in R)
  BY <1>1, WFMin
<1>4. \A y \in T : ~ (y < x)
  BY <1>2, <1>3
<1> QED BY <1>3, <1>4

\* Pages do not overlap.
LEMMA PagesApart ==
  ASSUME NEW p \in Nat, NEW r \in Nat, p < r
  PROVE  p * VMM_PAGE_SIZE + VMM_PAGE_SIZE <= r * VMM_PAGE_SIZE
<1>1. PICK d \in Nat : r = p + 1 + d
  <2>1. r - p - 1 \in Nat /\ r = p + 1 + (r - p - 1)
    OBVIOUS
  <2> QED BY <2>1
<1>2. r * VMM_PAGE_SIZE
        = p * VMM_PAGE_SIZE + VMM_PAGE_SIZE + d * VMM_PAGE_SIZE
  BY <1>1, BlockConstants
<1>3. d * VMM_PAGE_SIZE \in Nat /\ p * VMM_PAGE_SIZE \in Nat
  BY BlockConstants
<1> QED BY <1>2, <1>3, BlockConstants

\* A byte lies in its page.
LEMMA InPage ==
  ASSUME NEW b \in Nat
  PROVE  /\ Page(b) \in Nat /\ Page(b) * VMM_PAGE_SIZE \in Nat
         /\ Page(b) * VMM_PAGE_SIZE <= b
         /\ b < Page(b) * VMM_PAGE_SIZE + VMM_PAGE_SIZE
<1>1. VMM_PAGE_SIZE \in Nat /\ VMM_PAGE_SIZE > 0
  BY BlockConstants
<1>2. /\ b % VMM_PAGE_SIZE \in 0 .. VMM_PAGE_SIZE - 1
      /\ b \div VMM_PAGE_SIZE \in Nat
      /\ b = VMM_PAGE_SIZE * (b \div VMM_PAGE_SIZE) + (b % VMM_PAGE_SIZE)
  BY <1>1
<1>3. PICK q \in Nat, m \in 0 .. VMM_PAGE_SIZE - 1 :
        q = Page(b) /\ b = VMM_PAGE_SIZE * q + m
  BY <1>2 DEF Page
<1>4. PICK u \in Nat : u = q * VMM_PAGE_SIZE /\ u = VMM_PAGE_SIZE * q
  <2>1. q * VMM_PAGE_SIZE = VMM_PAGE_SIZE * q /\ q * VMM_PAGE_SIZE \in Nat
    BY <1>1
  <2> QED BY <2>1
<1> QED BY <1>1, <1>3, <1>4

\* A byte is in one page only.
LEMMA OnePage ==
  ASSUME NEW b \in Nat, NEW p \in Nat,
         p * VMM_PAGE_SIZE <= b, b < p * VMM_PAGE_SIZE + VMM_PAGE_SIZE
  PROVE  Page(b) = p
<1>1. PICK r \in Nat : r = Page(b)
  BY InPage
<1>2. PICK u \in Nat, v \in Nat :
        u = p * VMM_PAGE_SIZE /\ v = r * VMM_PAGE_SIZE
  <2>1. p * VMM_PAGE_SIZE \in Nat /\ r * VMM_PAGE_SIZE \in Nat
    BY BlockConstants
  <2> QED BY <2>1
<1>3. /\ p < r => u + VMM_PAGE_SIZE <= v
      /\ r < p => v + VMM_PAGE_SIZE <= u
  BY <1>2, PagesApart
<1>4. u <= b /\ b < u + VMM_PAGE_SIZE /\ v <= b /\ b < v + VMM_PAGE_SIZE
  BY <1>1, <1>2, InPage
<1>5. VMM_PAGE_SIZE \in Nat
  BY BlockConstants
<1> QED BY <1>1, <1>3, <1>4, <1>5

\* Followed from base_addr, the list is q, then the null pointer.
LEMMA ChainIsList ==
  ASSUME Memory, NEW n, NEW q, IsList(n, q)
  PROVE  /\ n \in Nat
         /\ Chain \in [0 .. n -> Ptr]
         /\ \A i \in 0 .. n - 1 : Chain[i] = q[i + 1]
<1> DEFINE Eq(f) == f = [i \in 0 .. n |->
                           IF i = 0 THEN base_addr ELSE Behind(f[i - 1])]
           w == [i \in 0 .. n |-> IF i = n THEN NULL ELSE q[i + 1]]
<1>1. /\ n \in Nat /\ q \in [1 .. n -> DOMAIN block]
      /\ base_addr = IF n = 0 THEN NULL ELSE q[1]
      /\ \A i \in 1 .. n : block[q[i]].next = IF i = n THEN NULL ELSE q[i + 1]
  BY DEF IsList
<1>2. NULL \notin DOMAIN block
  BY BlockConstants DEF Memory
<1>3. Cardinality(DOMAIN block) = n
  <2>1. /\ \A b \in DOMAIN block : \E i \in 1 .. n : q[i] = b
        /\ \A i, j \in 1 .. n : q[i] = q[j] => i = j
    BY DEF IsList
  <2>2. q \in Bijection(1 .. n, DOMAIN block)
    BY <1>1, <2>1 DEF Bijection, Injection, Surjection, IsInjective
  <2>3. ExistsBijection(1 .. n, DOMAIN block)
    BY <2>2 DEF ExistsBijection
  <2> QED BY <1>1, <2>3, FS_CountingElements
<1>4. \A i \in 1 .. n : w[i] = Behind(w[i - 1])
  <2> TAKE i \in 1 .. n
  <2>1. i - 1 \in 0 .. n /\ i - 1 # n /\ i - 1 + 1 = i /\ i \in 0 .. n
    BY <1>1
  <2>2. w[i - 1] = q[i] /\ q[i] # NULL
    BY <1>1, <1>2, <2>1
  <2>3. w[i] = block[q[i]].next
    BY <1>1, <2>1
  <2> QED BY <2>2, <2>3 DEF Behind
<1>5. w[0] = base_addr
  BY <1>1
<1>6. Eq(w)
  <2>1. DOMAIN w = 0 .. n /\ w = [i \in 0 .. n |-> w[i]]
    OBVIOUS
  <2> HIDE DEF w
  <2>2. \A i \in 0 .. n : w[i] = IF i = 0 THEN base_addr ELSE Behind(w[i - 1])
    BY <1>1, <1>4, <1>5
  <2> QED BY <2>1, <2>2
<1>7. Chain = CHOOSE nth : Eq(nth)
  BY <1>3 DEF Chain
<1>8. Eq(Chain)
  BY <1>6, <1>7
<1>9. Chain[0] = base_addr /\ DOMAIN Chain = 0 .. n
      /\ \A i \in 1 .. n : Chain[i] = Behind(Chain[i - 1])
  BY <1>8, <1>1
<1>10. w \in [0 .. n -> Ptr] /\ \A i \in 0 .. n - 1 : w[i] = q[i + 1]
  BY <1>1 DEF Ptr
<1> HIDE DEF w
<1> DEFINE T == {i \in 0 .. n : Chain[i] # w[i]}
<1>11. T = {}
  <2>1. SUFFICES ASSUME T # {} PROVE FALSE
    OBVIOUS
  <2>2. PICK i \in T : \A j \in T : i <= j
    <3>1. T \subseteq Nat
      BY <1>1
    <3> HIDE DEF T
    <3> QED BY <2>1, <3>1, Least
  <2>3. i # 0
    BY <2>2, <1>5, <1>9
  <2>4. i \in 1 .. n /\ i - 1 \in 0 .. n /\ i - 1 \notin T
    BY <2>2, <2>3, <1>1
  <2>5. Chain[i - 1] = w[i - 1]
    BY <2>4
  <2>6. Chain[i] = w[i]
    BY <2>4, <2>5, <1>4, <1>9
  <2> QED BY <2>2, <2>6
<1>12. Chain = w
  <2>1. \A i \in 0 .. n : Chain[i] = w[i]
    BY <1>11
  <2>2. Chain = [i \in 0 .. n |-> Chain[i]]
    BY <1>8, <1>9
  <2>3. w = [i \in 0 .. n |-> w[i]]
    BY <1>10
  <2> QED BY <2>1, <2>2, <2>3
<1> QED BY <1>1, <1>10, <1>12

\* What find_block returns is a free block that is large enough.
LEMMA FindBlock ==
  ASSUME BlockInv, NEW size, find_block(size) # NULL
  PROVE  /\ find_block(size) \in DOMAIN block
         /\ block[find_block(size)].free
         /\ block[find_block(size)].size >= size
<1> DEFINE nth == Chain
           fitting == {i \in DOMAIN nth : /\ nth[i] # NULL
                                           /\ block[nth[i]].free
                                           /\ block[nth[i]].size >= size}
<1>1. PICK n, q : IsList(n, q)
  BY DEF BlockInv, Listed
<1>2. n \in Nat /\ nth \in [0 .. n -> Ptr]
  BY <1>1, ChainIsList DEF BlockInv
<1>3. find_block(size) = IF fitting = {} THEN NULL ELSE nth[Min(fitting)]
  BY DEF find_block
<1>4. fitting # {} /\ fitting \subseteq Nat
  <2> HIDE DEF nth
  <2> QED BY <1>2, <1>3
<1>5. Min(fitting) \in fitting
  <2> HIDE DEF fitting
  <2>1. PICK i \in fitting : \A j \in fitting : i <= j
    BY <1>4, Least
  <2> QED BY <2>1 DEF Min
<1>6. nth[Min(fitting)] \in Ptr \ {NULL}
  BY <1>2, <1>5
<1> QED BY <1>3, <1>4, <1>5, <1>6 DEF Ptr

\* The last block is the end of the list.
LEMMA LastIsEnd ==
  ASSUME Memory, NEW n, NEW q, IsList(n, q)
  PROVE  /\ n = 0 => Last = NULL
         /\ n # 0 => Last = q[n]
<1>1. /\ n \in Nat /\ q \in [1 .. n -> DOMAIN block]
      /\ base_addr = IF n = 0 THEN NULL ELSE q[1]
      /\ \A i \in 1 .. n : block[q[i]].next = IF i = n THEN NULL ELSE q[i + 1]
      /\ \A b \in DOMAIN block : \E i \in 1 .. n : q[i] = b
  BY DEF IsList
<1>2. NULL \notin DOMAIN block
  BY BlockConstants DEF Memory
<1>3. CASE n = 0
  BY <1>1, <1>3 DEF Last
<1>4. CASE n # 0
  <2>1. Last = CHOOSE b \in DOMAIN block : block[b].next = NULL
    BY <1>1, <1>2, <1>4 DEF Last
  <2>2. n \in 1 .. n /\ q[n] \in DOMAIN block /\ block[q[n]].next = NULL
    BY <1>1, <1>4
  <2>3. Last \in DOMAIN block /\ block[Last].next = NULL
    BY <2>1, <2>2
  <2>4. PICK i \in 1 .. n : q[i] = Last
    BY <1>1, <2>3
  <2>5. i = n
    <3>1. SUFFICES ASSUME i # n PROVE FALSE
      OBVIOUS
    <3>2. i + 1 \in 1 .. n
      BY <1>1, <3>1
    <3> QED BY <1>1, <1>2, <2>3, <2>4, <3>1, <3>2
  <2> QED BY <1>4, <2>4, <2>5
<1> QED BY <1>3, <1>4

\* Where a block is: in the page of a window, of which it does not stick out.
LEMMA BlockPage ==
  ASSUME MemInv, Memory, Tiled, NEW b \in DOMAIN block
  PROVE  /\ b \in Nat /\ Page(b) \in Nat /\ End(b) \in Nat /\ b < End(b)
         /\ Page(b) * VMM_PAGE_SIZE \in Nat /\ Page(b) * VMM_PAGE_SIZE <= b
         /\ b < Page(b) * VMM_PAGE_SIZE + VMM_PAGE_SIZE
         /\ End(b) <= Page(b) * VMM_PAGE_SIZE + VMM_PAGE_SIZE
<1>1. b \in Nat /\ block[b].size \in Nat
  BY DEF Memory
<1>2. End(b) \in Nat /\ b < End(b)
  BY <1>1, BlockConstants DEF End
<1>3. PICK w \in WindowsOf(Self) : pages[w] = Page(b) /\ End(b) <= Limit(w)
  BY DEF Tiled
<1>4. bytes_used[w] \in 0 .. VMM_PAGE_SIZE
  BY <1>3, OwnWindows DEF Memory
<1>5. PICK u \in Nat : u = Page(b) * VMM_PAGE_SIZE
  BY <1>1, InPage
<1>6. End(b) <= u + bytes_used[w]
  BY <1>3, <1>5 DEF Limit
<1>7. End(b) <= u + VMM_PAGE_SIZE
  BY <1>2, <1>4, <1>5, <1>6, BlockConstants
<1> QED BY <1>1, <1>2, <1>5, <1>7, InPage

\* The windows of the process whose pages are the same are the same.
LEMMA OneWindow ==
  ASSUME MemInv, NEW v \in WindowsOf(Self), NEW w \in WindowsOf(Self),
         pages[v] = pages[w], pages[v] # NULL
  PROVE  v = w
BY OwnWindows DEF MemInv, WindowInv

\* A block is taken whole or freed: only its free flag changes.
LEMMA FlagStep ==
  ASSUME BlockInv, NEW b \in DOMAIN block, NEW v \in BOOLEAN,
         block' = [block EXCEPT ![b].free = v],
         UNCHANGED <<base_addr, last_mmap, pages, bytes_used>>
  PROVE  Memory' /\ Tiled' /\ Listed'
<1>1. DOMAIN block' = DOMAIN block /\ Ptr' = Ptr
  BY DEF Ptr, BlockInv, Memory
<1>2. \A c \in DOMAIN block :
        /\ block'[c].size = block[c].size
        /\ block'[c].next = block[c].next
        /\ block'[c].prev = block[c].prev
  BY DEF BlockInv, Memory
<1>3. /\ \A c \in DOMAIN block : End(c)' = End(c)
      /\ \A w \in WindowsOf(Self) : Limit(w)' = Limit(w)
  BY <1>2 DEF End, Limit
<1>4. Memory'
  BY <1>1 DEF BlockInv, Memory
<1>5. Tiled'
  BY <1>1, <1>3 DEF BlockInv, Tiled
<1>6. PICK n, q : IsList(n, q)
  BY DEF BlockInv, Listed
<1>7. IsList(n, q)'
  BY <1>1, <1>2, <1>6 DEF IsList
<1> QED BY <1>4, <1>5, <1>7 DEF Listed

\* What a step that splits the block rest off b changes, field by field.
IsSplit(b, size, rest) ==
  /\ rest \in Nat /\ rest \notin DOMAIN block
  /\ b < rest /\ rest + BLOCK_SIZE <= End(b)
  /\ DOMAIN block' = DOMAIN block \cup {rest}
  /\ block' \in [DOMAIN block' -> [size : Nat, free : BOOLEAN,
                                   next : Ptr', prev : Ptr']]
  /\ block'[b].size = size /\ block'[b].next = rest
  /\ block'[b].prev = block[b].prev /\ ~ block'[b].free
  /\ block'[rest].size = block[b].size - size - BLOCK_SIZE
  /\ block'[rest].next = block[b].next /\ block'[rest].prev = b
  /\ \A c \in DOMAIN block \ {b} :
       /\ block'[c].size = block[c].size
       /\ block'[c].free = block[c].free
       /\ block'[c].next = block[c].next
       /\ block'[c].prev = IF c = block[b].next THEN rest ELSE block[c].prev

\* Taken splits a block that is large enough.
LEMMA TakenSplit ==
  ASSUME Memory, Tiled, NEW b \in DOMAIN block, NEW size \in Sizes,
         block[b].next # b,
         block[b].size - size >= BLOCK_SIZE + MIN_ALLOC_SIZE,
         block' = Taken(b, size)
  PROVE  IsSplit(b, size, b + BLOCK_SIZE + size)
<1> DEFINE rest == b + BLOCK_SIZE + size
           nxt  == block[b].next
           new  == [size |-> block[b].size - size - BLOCK_SIZE, free |-> TRUE,
                    next |-> block[b].next, prev |-> b]
           cut  == [block EXCEPT ![b].next = rest, ![b].size = size]
           joined == With(cut, rest, new)
           P == Ptr \cup {rest}
           H == [size : Nat, free : BOOLEAN, next : P, prev : P]
<1>1. rest \in Nat /\ b < rest /\ rest + BLOCK_SIZE <= End(b)
  BY BlockConstants DEF Memory, End
<1>2. rest \notin DOMAIN block
  <2>1. End(b) \in Int
    BY BlockConstants DEF Memory, End
  <2> QED BY <1>1, <2>1, BlockConstants DEF Tiled
<1>3. nxt \in Ptr /\ nxt # b /\ b # NULL /\ b \in Ptr
  BY BlockConstants DEF Memory, Ptr
<1>4. block \in [DOMAIN block -> H]
  BY DEF Memory
<1>5. new \in H
  BY <1>3, <1>4, BlockConstants
<1>6. cut \in [DOMAIN block -> H]
  BY <1>3, <1>4, BlockConstants
<1>7. /\ cut[b].size = size /\ cut[b].next = rest
      /\ cut[b].prev = block[b].prev
      /\ \A c \in DOMAIN block \ {b} : cut[c] = block[c]
  BY <1>3, <1>4
<1> HIDE DEF rest, cut, P, H
<1>8. joined \in [DOMAIN block \cup {rest} -> H]
  BY <1>5, <1>6 DEF With
<1>9. joined[rest] = new /\ \A c \in DOMAIN block : joined[c] = cut[c]
  BY <1>2, <1>6 DEF With
<1>10. block' = [Relink(joined, nxt, rest) EXCEPT ![b].free = FALSE]
  BY DEF Taken, split_block, rest, cut
<1> HIDE DEF joined
<1>11. b \in DOMAIN joined /\ b # rest /\ NULL \notin DOMAIN joined
  <2>1. NULL \notin DOMAIN block /\ NULL # rest
    BY <1>1, BlockConstants DEF Memory
  <2> QED BY <1>2, <1>8, <2>1
<1>12. nxt # NULL => nxt \in DOMAIN joined
  BY <1>3, <1>8 DEF Ptr
<1>13. Relink(joined, nxt, rest) \in [DOMAIN block \cup {rest} -> H]
  BY <1>8, <1>12 DEF Relink, P, H
<1>14. block' \in [DOMAIN block \cup {rest} -> H]
  <2> DEFINE linked == Relink(joined, nxt, rest)
  <2>1. ASSUME NEW h \in H PROVE [h EXCEPT !.free = FALSE] \in H
    BY DEF H
  <2>2. linked \in [DOMAIN block \cup {rest} -> H]
    BY <1>13
  <2>3. block' = [linked EXCEPT ![b].free = FALSE]
    BY <1>10
  <2> HIDE DEF linked, H
  <2> QED BY <2>1, <2>2, <2>3
<1>15. Ptr' = P
  BY <1>14 DEF Ptr, P
<1>16. \A c \in DOMAIN joined :
         /\ block'[c].size = joined[c].size
         /\ block'[c].next = joined[c].next
         /\ c # b => block'[c].free = joined[c].free
         /\ block'[c].prev = IF c = nxt THEN rest ELSE joined[c].prev
  <2> DEFINE R == Relink(joined, nxt, rest)
  <2>1. \A c \in DOMAIN joined :
          /\ R[c].size = joined[c].size
          /\ R[c].next = joined[c].next
          /\ R[c].free = joined[c].free
          /\ R[c].prev = IF c = nxt THEN rest ELSE joined[c].prev
    BY <1>8, <1>11, <1>12 DEF Relink, H
  <2> HIDE DEF R, nxt
  <2>2. \A c \in DOMAIN joined :
          /\ block'[c].size = R[c].size
          /\ block'[c].next = R[c].next
          /\ c # b => block'[c].free = R[c].free
          /\ block'[c].prev = R[c].prev
    <3>1. block' = [R EXCEPT ![b].free = FALSE] /\ b \in DOMAIN R
      BY <1>10, <1>11, <1>13, <1>8 DEF R
    <3>2. DOMAIN R = DOMAIN joined
      BY <1>8, <1>13 DEF R
    <3>3. \A c \in DOMAIN joined : c # b => block'[c] = R[c]
      BY <3>1, <3>2
    <3>4. block'[b] = [R[b] EXCEPT !.free = FALSE]
      BY <3>1
    <3>5. R[b] \in [size : Nat, free : BOOLEAN, next : P, prev : P]
      BY <1>11, <1>8, <1>13 DEF R, H
    <3>6. /\ block'[b].size = R[b].size /\ block'[b].next = R[b].next
          /\ block'[b].prev = R[b].prev
      BY <3>4, <3>5
    <3> QED BY <3>3, <3>6
  <2> QED BY <2>1, <2>2
<1>17. ~ block'[b].free
  BY <1>10, <1>11, <1>13
<1>18. nxt # rest
  BY <1>1, <1>2, <1>3, BlockConstants DEF Ptr
<1>19. /\ block'[b].size = size /\ block'[b].next = rest
       /\ block'[b].prev = block[b].prev
  BY <1>3, <1>7, <1>9, <1>11, <1>16
<1>20. /\ block'[rest].size = block[b].size - size - BLOCK_SIZE
       /\ block'[rest].next = block[b].next /\ block'[rest].prev = b
  BY <1>8, <1>9, <1>16, <1>18
<1>21. ASSUME NEW c \in DOMAIN block \ {b}
       PROVE  /\ block'[c].size = block[c].size
              /\ block'[c].free = block[c].free
              /\ block'[c].next = block[c].next
              /\ block'[c].prev = IF c = nxt THEN rest ELSE block[c].prev
  BY <1>7, <1>8, <1>9, <1>16
<1> HIDE DEF new
<1> HIDE DEF nxt
<1>22. IsSplit(b, size, rest)
  BY <1>1, <1>2, <1>14, <1>15, <1>17, <1>19, <1>20, <1>21 DEF IsSplit, P, H, nxt
<1> QED BY <1>22 DEF rest

\* A block is split: its window is tiled as before, by one block more.
LEMMA SplitTiled ==
  ASSUME MemInv, Memory, Tiled, NEW b \in DOMAIN block, NEW size \in Sizes,
         NEW rest, rest = b + BLOCK_SIZE + size, IsSplit(b, size, rest),
         UNCHANGED <<last_mmap, pages, bytes_used>>
  PROVE  Memory' /\ Tiled' /\ Page(rest) = Page(b)
<1> DEFINE D == DOMAIN block
<1>1. /\ rest \in Nat /\ rest \notin D /\ b < rest /\ rest + BLOCK_SIZE <= End(b)
      /\ DOMAIN block' = D \cup {rest}
      /\ block' \in [DOMAIN block' -> [size : Nat, free : BOOLEAN,
                                       next : Ptr', prev : Ptr']]
      /\ block'[b].size = size
      /\ block'[rest].size = block[b].size - size - BLOCK_SIZE
      /\ \A c \in D \ {b} : block'[c].size = block[c].size
  BY DEF IsSplit
<1>2. Memory'
  BY <1>1 DEF Memory
<1>3. \A c \in D : c \in Nat /\ End(c) \in Nat /\ c < End(c) /\ Page(c) \in Nat
  BY BlockPage
<1>4. End(b)' = rest /\ End(rest)' = End(b) /\ rest < End(b)
      /\ \A c \in D \ {b} : End(c)' = End(c)
  <2>1. End(rest)' = End(b)
    BY <1>1, BlockConstants DEF Memory, End
  <2>2. End(b)' = rest
    BY <1>1, BlockConstants DEF Memory, End
  <2>3. \A c \in D \ {b} : End(c)' = End(c)
    BY <1>1 DEF End
  <2> QED BY <1>1, <1>3, <2>1, <2>2, <2>3, BlockConstants
<1>5. Page(rest) = Page(b)
  <2>1. PICK p \in Nat, u \in Nat : p = Page(b) /\ u = p * VMM_PAGE_SIZE
                                    /\ u <= b /\ End(b) <= u + VMM_PAGE_SIZE
    BY BlockPage
  <2>2. u <= rest /\ rest < u + VMM_PAGE_SIZE
    BY <2>1, <1>1, <1>3, <1>4, BlockConstants
  <2> QED BY <2>1, <2>2, <1>1, OnePage
<1>6. \A w \in WindowsOf(Self) : Limit(w)' = Limit(w) /\ pages'[w] = pages[w]
  BY DEF Limit
<1>7. \A w \in WindowsOf(Self) : pages[w] # NULL => Limit(w) \in Int
  <2> TAKE w \in WindowsOf(Self)
  <2> HAVE pages[w] # NULL
  <2>1. pages[w] \in Nat /\ bytes_used[w] \in Nat
    BY OwnWindows, BlockConstants, Constants DEF MemInv, Types, Memory
  <2> QED BY <2>1, BlockConstants DEF Limit
<1> HIDE DEF D
<1>8. ASSUME NEW c \in D \cup {rest}
      PROVE  \E w \in WindowsOf(Self) : pages'[w] = Page(c) /\ End(c)' <= Limit(w)'
  <2>1. PICK d \in D : Page(d) = Page(c) /\ End(c)' <= End(d) /\ End(c)' \in Nat
    <3>1. CASE c = rest
      BY <3>1, <1>3, <1>4, <1>5 DEF D
    <3>2. CASE c = b
      BY <3>2, <1>1, <1>3, <1>4 DEF D
    <3>3. CASE c \in D \ {b}
      BY <3>3, <1>3, <1>4
    <3> QED BY <3>1, <3>2, <3>3
  <2>2. PICK w \in WindowsOf(Self) : pages[w] = Page(d) /\ End(d) <= Limit(w)
    BY DEF Tiled, D
  <2>3. pages[w] # NULL
    BY <2>1, <2>2, <1>3, BlockConstants
  <2> QED BY <2>1, <2>2, <2>3, <1>3, <1>6, <1>7
<1>9. ASSUME NEW w \in WindowsOf(Self), pages[w] # NULL
      PROVE  \E c \in D \cup {rest} : Page(c) = pages[w] /\ End(c)' = Limit(w)
  <2>1. PICK d \in D : Page(d) = pages[w] /\ End(d) = Limit(w)
    BY <1>9 DEF Tiled, D
  <2> QED BY <2>1, <1>4, <1>5
<1>10. ASSUME NEW c \in D \cup {rest}
       PROVE  \/ c = Page(c) * VMM_PAGE_SIZE
              \/ \E d \in D \cup {rest} : Page(d) = Page(c) /\ End(d)' = c
  <2>1. CASE c = rest
    BY <2>1, <1>4, <1>5 DEF D
  <2>2. CASE c \in D /\ c # Page(c) * VMM_PAGE_SIZE
    <3>1. PICK d \in D : Page(d) = Page(c) /\ End(d) = c
      BY <2>2 DEF Tiled, D
    <3> QED BY <3>1, <1>4, <1>5
  <2> QED BY <2>1, <2>2
<1>11. ASSUME NEW c \in D \cup {rest}, NEW d \in D \cup {rest}, c < d
       PROVE  End(c)' <= d
  <2>1. \A x, y \in D : x < y => End(x) <= y
    BY DEF Tiled, D
  <2>2. b \in D
    BY DEF D
  <2>3. CASE c = rest /\ d \in D
    <3>1. b < d
      BY <2>3, <1>1, <1>3, <1>11, <2>2
    <3> QED BY <2>1, <2>2, <2>3, <3>1, <1>4
  <2>4. CASE c = b /\ d \in D
    <3>1. End(b) <= d
      BY <2>1, <2>2, <2>4, <1>11
    <3> QED BY <3>1, <2>4, <1>1, <1>3, <1>4, <2>2
  <2>5. CASE c \in D \ {b} /\ d = rest
    <3>1. c < b
      <4>1. ~ (b < c)
        BY <2>1, <2>2, <2>5, <1>1, <1>3, <1>4, <1>11
      <4> QED BY <4>1, <2>2, <2>5, <1>3
    <3> QED BY <2>1, <2>2, <2>5, <3>1, <1>1, <1>3, <1>4
  <2>6. CASE c = b /\ d = rest
    BY <2>6, <1>1, <1>4
  <2>7. CASE c \in D \ {b} /\ d \in D
    BY <2>1, <2>7, <1>4, <1>11
  <2>8. CASE c = rest /\ d = rest
    BY <2>8, <1>1, <1>11
  <2> QED BY <2>3, <2>4, <2>5, <2>6, <2>7, <2>8
<1>12. Tiled'
  <2>1. \A c \in DOMAIN block' : \E w \in WindowsOf(Self) :
          pages'[w] = Page(c) /\ End(c)' <= Limit(w)'
    BY <1>1, <1>8 DEF D
  <2>2. \A w \in WindowsOf(Self) : pages'[w] # NULL =>
          \E c \in DOMAIN block' : Page(c) = pages'[w] /\ End(c)' = Limit(w)'
    BY <1>1, <1>6, <1>9 DEF D
  <2>3. \A c \in DOMAIN block' :
          \/ c = Page(c) * VMM_PAGE_SIZE
          \/ \E d \in DOMAIN block' : Page(d) = Page(c) /\ End(d)' = c
    BY <1>1, <1>10 DEF D
  <2>4. \A c, d \in DOMAIN block' : c < d => End(c)' <= d
    BY <1>1, <1>11 DEF D
  <2> QED BY <2>1, <2>2, <2>3, <2>4 DEF Tiled
<1> QED BY <1>2, <1>5, <1>12

\* A block is split: the new block comes behind it on the list.
LEMMA SplitListed ==
  ASSUME Memory, Tiled, NEW n, NEW q, IsList(n, q), NEW k \in 1 .. n,
         NEW b, b = q[k], b \in DOMAIN block,
         NEW size, NEW rest, IsSplit(b, size, rest), Page(rest) = Page(b),
         UNCHANGED base_addr
  PROVE  Listed'
<1> DEFINE D == DOMAIN block
           r == [i \in 1 .. n + 1 |-> IF i <= k THEN q[i]
                                      ELSE IF i = k + 1 THEN rest ELSE q[i - 1]]
<1>1. /\ n \in Nat /\ q \in [1 .. n -> D]
      /\ \A c \in D : \E i \in 1 .. n : q[i] = c
      /\ \A i, j \in 1 .. n : q[i] = q[j] => i = j
      /\ base_addr = IF n = 0 THEN NULL ELSE q[1]
      /\ \A i, j \in 1 .. n : i < j /\ Page(q[i]) = Page(q[j]) => q[i] < q[j]
  BY DEF IsList
<1>2. \A i \in 1 .. n : /\ block[q[i]].next = IF i = n THEN NULL ELSE q[i + 1]
                        /\ block[q[i]].prev = IF i = 1 THEN NULL ELSE q[i - 1]
  BY DEF IsList
<1>3. /\ rest \in Nat /\ rest \notin D /\ b < rest /\ rest + BLOCK_SIZE <= End(b)
      /\ DOMAIN block' = D \cup {rest}
      /\ block'[b].next = rest /\ block'[b].prev = block[b].prev
      /\ block'[rest].next = block[b].next /\ block'[rest].prev = b
      /\ \A c \in D \ {b} :
           /\ block'[c].next = block[c].next
           /\ block'[c].prev = IF c = block[b].next THEN rest ELSE block[c].prev
  BY DEF IsSplit
<1>4. /\ D \subseteq Nat /\ NULL \notin D
      /\ \A c, d \in D : c < d => End(c) <= d
      /\ \A c \in D : End(c) \in Int
  BY BlockConstants DEF Memory, Tiled, End
<1> HIDE DEF D
<1>5. /\ \A i \in 1 .. n + 1 : i <= k => i \in 1 .. n /\ r[i] = q[i]
      /\ k + 1 \in 1 .. n + 1 /\ r[k + 1] = rest
      /\ \A i \in 1 .. n + 1 : i > k + 1 => i - 1 \in 1 .. n /\ r[i] = q[i - 1]
      /\ \A i \in 1 .. n + 1 : i <= k \/ i = k + 1 \/ i > k + 1
  BY <1>1
<1>6. r \in [1 .. n + 1 -> D \cup {rest}]
  <2>1. \A i \in 1 .. n + 1 : r[i] \in D \cup {rest}
    <3> HIDE DEF r
    <3> QED BY <1>1, <1>5
  <2> QED BY <2>1
<1> HIDE DEF r
<1>7. ASSUME NEW c \in D \cup {rest} PROVE \E i \in 1 .. n + 1 : r[i] = c
  <2>1. CASE c = rest
    BY <2>1, <1>5
  <2>2. CASE c \in D
    <3>1. PICK i \in 1 .. n : q[i] = c
      BY <2>2, <1>1
    <3>2. CASE i <= k
      <4>1. i \in 1 .. n + 1
        BY <1>1
      <4> QED BY <3>1, <3>2, <4>1, <1>5
    <3>3. CASE i > k
      <4>1. i + 1 \in 1 .. n + 1 /\ i + 1 > k + 1 /\ i + 1 - 1 = i
        BY <1>1, <3>3
      <4> QED BY <3>1, <4>1, <1>5
    <3> QED BY <3>2, <3>3
  <2> QED BY <2>1, <2>2
<1>8. ASSUME NEW i \in 1 .. n + 1, NEW j \in 1 .. n + 1, r[i] = r[j]
      PROVE  i = j
  <2>1. /\ \A x \in 1 .. n : q[x] \in D /\ q[x] # rest
    BY <1>1, <1>3
  <2>2. CASE i = k + 1 \/ j = k + 1
    BY <2>1, <2>2, <1>5, <1>8
  <2>3. CASE i <= k /\ j <= k
    BY <2>3, <1>1, <1>5, <1>8
  <2>4. CASE i > k + 1 /\ j > k + 1
    <3>1. i - 1 = j - 1
      BY <2>4, <1>1, <1>5, <1>8
    <3> QED BY <3>1
  <2>5. CASE i <= k /\ j > k + 1
    <3>1. i = j - 1
      BY <2>5, <1>1, <1>5, <1>8
    <3> QED BY <3>1, <2>5
  <2>6. CASE j <= k /\ i > k + 1
    <3>1. j = i - 1
      BY <2>6, <1>1, <1>5, <1>8
    <3> QED BY <3>1, <2>6
  <2> QED BY <2>2, <2>3, <2>4, <2>5, <2>6, <1>5
<1>9. base_addr' = r[1] /\ n + 1 # 0
  <2>1. 1 \in 1 .. n + 1 /\ 1 <= k /\ n # 0
    BY <1>1
  <2> QED BY <2>1, <1>1, <1>5
<1>10. ASSUME NEW i \in 1 .. n + 1
       PROVE  /\ block'[r[i]].next = IF i = n + 1 THEN NULL ELSE r[i + 1]
              /\ block'[r[i]].prev = IF i = 1 THEN NULL ELSE r[i - 1]
  <2>0. i # n + 1 => i + 1 \in 1 .. n + 1
    BY <1>1
  <2>1. CASE i < k
    <3>1. /\ i \in 1 .. n /\ i # n + 1 /\ i # n /\ i + 1 <= k
          /\ i # 1 => i - 1 \in 1 .. n + 1 /\ i - 1 <= k
      BY <2>1, <1>1
    <3>2. r[i] = q[i] /\ r[i + 1] = q[i + 1] /\ (i # 1 => r[i - 1] = q[i - 1])
      BY <2>0, <3>1, <1>5, <2>1
    <3>3. q[i] \in D \ {b} /\ q[i] # block[b].next
      <4>1. q[i] \in D /\ q[i] # b
        BY <2>1, <3>1, <1>1
      <4>2. CASE k = n
        BY <4>1, <4>2, <1>2, <1>4
      <4>3. CASE k # n
        <5>1. k + 1 \in 1 .. n /\ block[b].next = q[k + 1]
          BY <4>3, <1>1, <1>2
        <5> QED BY <5>1, <4>1, <2>1, <3>1, <1>1
      <4> QED BY <4>1, <4>2, <4>3
    <3> QED BY <3>1, <3>2, <3>3, <1>2, <1>3
  <2>2. CASE i = k
    <3>1. /\ i \in 1 .. n /\ i # n + 1 /\ i <= k
          /\ i # 1 => i - 1 \in 1 .. n + 1 /\ i - 1 <= k
      BY <2>2, <1>1
    <3>2. r[i] = b /\ r[i + 1] = rest /\ (i # 1 => r[i - 1] = q[i - 1])
      BY <2>2, <3>1, <1>5
    <3> QED BY <2>2, <3>1, <3>2, <1>2, <1>3
  <2>3. CASE i = k + 1
    <3>1. i # 1 /\ i - 1 = k /\ k \in 1 .. n + 1 /\ k <= k
      BY <2>3, <1>1
    <3>2. r[i] = rest /\ r[i - 1] = b
      BY <2>3, <3>1, <1>5
    <3>3. CASE k = n
      BY <2>3, <3>1, <3>2, <3>3, <1>2, <1>3
    <3>4. CASE k # n
      <4>1. i # n + 1 /\ i + 1 > k + 1 /\ i + 1 - 1 = k + 1
        BY <2>3, <3>4, <1>1
      <4>2. r[i + 1] = q[k + 1]
        BY <2>0, <4>1, <1>5
      <4> QED BY <2>3, <3>1, <3>2, <3>4, <4>1, <4>2, <1>2, <1>3
    <3> QED BY <3>3, <3>4
  <2>4. CASE i > k + 1
    <3>1. PICK x \in 1 .. n : x = i - 1
      BY <2>4, <1>5
    <3>2. x > k /\ x # 1 /\ i # 1 /\ (x = n <=> i = n + 1) /\ x # k
      BY <3>1, <2>4, <1>1
    <3>3. r[i] = q[x]
      BY <3>1, <2>4, <1>5
    <3>4. q[x] \in D \ {b}
      BY <3>2, <1>1
    <3>5. block'[r[i]].next = IF i = n + 1 THEN NULL ELSE r[i + 1]
      <4>1. CASE x = n
        BY <4>1, <3>2, <3>3, <3>4, <1>2, <1>3
      <4>2. CASE x # n
        <5>1. i + 1 \in 1 .. n + 1 /\ i + 1 > k + 1 /\ i + 1 - 1 = x + 1
          BY <4>2, <3>1, <3>2, <2>0, <2>4, <1>1
        <5>2. r[i + 1] = q[x + 1]
          BY <5>1, <1>5
        <5> QED BY <4>2, <5>2, <3>2, <3>3, <3>4, <1>2, <1>3
      <4> QED BY <4>1, <4>2
    <3>6. block'[r[i]].prev = r[i - 1]
      <4>1. k # n /\ k + 1 \in 1 .. n
        BY <3>1, <3>2, <1>1
      <4>2. block[b].next = q[k + 1]
        BY <4>1, <1>2
      <4>3. CASE x = k + 1
        <5>1. i - 1 = k + 1
          BY <4>3, <3>1
        <5> QED BY <5>1, <4>2, <4>3, <3>3, <3>4, <1>3, <1>5
      <4>4. CASE x # k + 1
        <5>1. q[x] # block[b].next
          BY <4>1, <4>2, <4>4, <1>1
        <5>2. i - 1 \in 1 .. n + 1 /\ i - 1 > k + 1 /\ i - 1 - 1 = x - 1
          BY <4>4, <3>1, <3>2, <1>1
        <5>3. r[i - 1] = q[x - 1]
          BY <5>2, <1>5
        <5> QED BY <5>1, <5>3, <3>2, <3>3, <3>4, <1>2, <1>3
      <4> QED BY <4>3, <4>4
    <3> QED BY <3>2, <3>5, <3>6
  <2>5. i < k \/ i = k \/ i = k + 1 \/ i > k + 1
    BY <1>1
  <2> QED BY <2>1, <2>2, <2>3, <2>4, <2>5
<1>11. ASSUME NEW i \in 1 .. n + 1, NEW j \in 1 .. n + 1, i < j,
              Page(r[i]) = Page(r[j])
       PROVE  r[i] < r[j]
  <2>1. \A x \in 1 .. n : q[x] \in D /\ q[x] \in Nat
    BY <1>1, <1>4
  <2>2. CASE j = k + 1
    <3>1. i <= k /\ i \in 1 .. n /\ r[i] = q[i] /\ r[j] = rest
      BY <2>2, <1>11, <1>5, <1>1
    <3>2. Page(q[i]) = Page(q[k])
      BY <3>1, <1>11
    <3>3. i = k \/ q[i] < q[k]
      BY <3>1, <3>2, <1>1
    <3> QED BY <3>1, <3>3, <2>1, <1>3
  <2>3. CASE i = k + 1
    <3>1. j > k + 1 /\ j - 1 \in 1 .. n /\ k < j - 1 /\ r[j] = q[j - 1] /\ r[i] = rest
      BY <2>3, <1>11, <1>5, <1>1
    <3>2. q[k] < q[j - 1]
      BY <3>1, <1>1, <1>11
    <3>3. End(b) <= q[j - 1] /\ End(b) \in Int
      BY <3>1, <3>2, <2>1, <1>4
    <3> QED BY <3>1, <3>3, <2>1, <1>3, BlockConstants
  <2>4. CASE j <= k
    BY <2>4, <1>1, <1>5, <1>11
  <2>5. CASE i <= k /\ j > k + 1
    <3>1. i \in 1 .. n /\ j - 1 \in 1 .. n /\ i < j - 1
      BY <2>5, <1>1, <1>5
    <3> QED BY <3>1, <2>5, <1>1, <1>5, <1>11
  <2>6. CASE i > k + 1
    <3>1. i - 1 \in 1 .. n /\ j - 1 \in 1 .. n /\ i - 1 < j - 1 /\ j > k + 1
      BY <2>6, <1>1, <1>5, <1>11
    <3> QED BY <3>1, <2>6, <1>1, <1>5, <1>11
  <2>7. i <= k \/ i = k + 1 \/ i > k + 1
    BY <1>5
  <2>8. j <= k \/ j = k + 1 \/ j > k + 1
    BY <1>5
  <2> QED BY <2>2, <2>3, <2>4, <2>5, <2>6, <2>7, <2>8
<1>12. IsList(n + 1, r)'
  <2>1. n + 1 \in Nat
    BY <1>1
  <2> QED BY <2>1, <1>3, <1>6, <1>7, <1>8, <1>9, <1>10, <1>11 DEF IsList
<1> QED BY <1>12 DEF Listed

\* What expand_heap changes, field by field.
IsAppended(result, size) ==
  /\ DOMAIN block' = DOMAIN block \cup {result}
  /\ block' \in [DOMAIN block' -> [size : Nat, free : BOOLEAN,
                                   next : Ptr', prev : Ptr']]
  /\ block'[result].size = size /\ ~ block'[result].free
  /\ block'[result].next = NULL /\ block'[result].prev = Last
  /\ \A c \in DOMAIN block :
       /\ block'[c].size = block[c].size
       /\ block'[c].free = block[c].free
       /\ block'[c].prev = block[c].prev
       /\ block'[c].next = IF c = Last THEN result ELSE block[c].next

\* expand_heap appends one block, which is in use.
LEMMA ExpandHeap ==
  ASSUME Memory, NEW result, result \notin DOMAIN block, NEW size \in Sizes,
         Last \in Ptr, expand_heap(result, size)
  PROVE  IsAppended(result, size)
<1> DEFINE new == [size |-> size, free |-> FALSE, next |-> NULL, prev |-> Last]
           P == Ptr \cup {result}
           H == [size : Nat, free : BOOLEAN, next : P, prev : P]
           blk == Appended(result)
<1>1. block' = With(blk, result, new)
  BY DEF expand_heap
<1>2. block \in [DOMAIN block -> H] /\ NULL \notin DOMAIN block /\ NULL \in P
      /\ Last \in P /\ result \in P
  BY BlockConstants DEF Memory, Ptr
<1>3. new \in H
  BY <1>2, BlockConstants
<1>4. Last # NULL => Last \in DOMAIN block
  BY DEF Ptr
<1>5. blk \in [DOMAIN block -> H]
  BY <1>2, <1>4 DEF Appended
<1>6. \A c \in DOMAIN block :
        /\ blk[c].size = block[c].size
        /\ blk[c].free = block[c].free
        /\ blk[c].prev = block[c].prev
        /\ blk[c].next = IF c = Last THEN result ELSE block[c].next
  <2>1. CASE Last = NULL
    BY <2>1, <1>2 DEF Appended
  <2>2. CASE Last # NULL
    <3>1. blk = [block EXCEPT ![Last].next = result]
      BY <2>2 DEF Appended
    <3> HIDE DEF blk
    <3> QED BY <3>1, <2>2, <1>2, <1>4
  <2> QED BY <2>1, <2>2
<1> HIDE DEF blk, P, H
<1>7. block' \in [DOMAIN block \cup {result} -> H]
  BY <1>1, <1>3, <1>5 DEF With
<1>8. block'[result] = new /\ \A c \in DOMAIN block : block'[c] = blk[c]
  BY <1>1, <1>5 DEF With
<1>9. Ptr' = P
  BY <1>7 DEF Ptr, P
<1> QED BY <1>6, <1>7, <1>8, <1>9 DEF IsAppended, H

(***************************************************************************)
(* The heap grows by a block at the end of what is used of window w, which *)
(* may have got its page just now.                                         *)
(***************************************************************************)
Grows(w, result, size) ==
  /\ pages'[w] # NULL /\ pages[w] \in {NULL, pages'[w]}
  /\ \A v \in WindowsOf(Self) \ {w} :
       pages'[v] = pages[v] /\ bytes_used'[v] = bytes_used[v]
  /\ result = pages'[w] * VMM_PAGE_SIZE
                + (IF pages[w] = NULL THEN 0 ELSE bytes_used[w])
  /\ bytes_used' \in [Windows -> 0 .. VMM_PAGE_SIZE]
  /\ bytes_used'[w] = (IF pages[w] = NULL THEN 0 ELSE bytes_used[w])
                        + BLOCK_SIZE + size

\* The new block begins behind all that its page holds.
LEMMA NewBlock ==
  ASSUME MemInv, MemInv', Memory, Tiled, NEW w \in WindowsOf(Self), NEW result,
         NEW size \in Sizes, Grows(w, result, size)
  PROVE  /\ result \in Nat /\ Page(result) = pages'[w]
         /\ pages'[w] \in Nat /\ pages'[w] * VMM_PAGE_SIZE \in Nat
         /\ pages'[w] * VMM_PAGE_SIZE <= result
         /\ result + BLOCK_SIZE + size = Limit(w)' /\ Limit(w)' \in Nat
         /\ Limit(w)' <= pages'[w] * VMM_PAGE_SIZE + VMM_PAGE_SIZE
         /\ \A c \in DOMAIN block : Page(c) = Page(result) => End(c) <= result
         /\ result \notin DOMAIN block
<1>1. w \in Windows /\ WindowsOf(Self) \subseteq Windows
  BY OwnWindows
<1>2. pages'[w] \in Nat
  BY <1>1, Constants DEF MemInv, Types, Grows
<1>3. PICK u \in Nat : u = pages'[w] * VMM_PAGE_SIZE
  BY <1>2, BlockConstants
<1>4. PICK old \in Nat : old = IF pages[w] = NULL THEN 0 ELSE bytes_used[w]
  BY <1>1 DEF Memory
<1>5. /\ result = u + old /\ bytes_used'[w] = old + BLOCK_SIZE + size
      /\ bytes_used'[w] \in 0 .. VMM_PAGE_SIZE
  BY <1>1, <1>3, <1>4 DEF Grows
<1>6. size \in Nat
  BY BlockConstants
<1>7. /\ result \in Nat /\ u <= result /\ result < u + VMM_PAGE_SIZE
      /\ result + BLOCK_SIZE + size = u + bytes_used'[w]
      /\ u + bytes_used'[w] \in Nat
      /\ u + bytes_used'[w] <= u + VMM_PAGE_SIZE
  BY <1>5, <1>6, BlockConstants
<1>8. Limit(w)' = u + bytes_used'[w]
  BY <1>3 DEF Limit
<1>9. Page(result) = pages'[w]
  BY <1>2, <1>3, <1>7, OnePage
<1>10. ASSUME NEW c \in DOMAIN block, Page(c) = Page(result)
       PROVE  End(c) <= result
  <2>1. PICK v \in WindowsOf(Self) : pages[v] = Page(c) /\ End(c) <= Limit(v)
    BY DEF Tiled
  <2>2. v = w
    <3>1. SUFFICES ASSUME v # w PROVE FALSE
      OBVIOUS
    <3>2. pages'[v] = pages'[w]
      BY <3>1, <2>1, <1>9, <1>10 DEF Grows
    <3> QED BY <3>1, <3>2, <1>1 DEF MemInv, WindowInv, Grows
  <2>3. pages[w] # NULL /\ pages[w] = pages'[w]
    BY <2>1, <2>2, <1>2, <1>9, <1>10, BlockConstants
  <2>4. Limit(w) = u + old
    BY <2>3, <1>3, <1>4 DEF Limit
  <2> QED BY <2>1, <2>2, <2>4, <1>5
<1>11. result \notin DOMAIN block
  <2>1. SUFFICES ASSUME result \in DOMAIN block PROVE FALSE
    OBVIOUS
  <2>2. End(result) <= result
    BY <2>1, <1>10
  <2>3. End(result) \in Nat /\ result < End(result)
    BY <2>1, BlockPage
  <2> QED BY <2>2, <2>3, <1>7
<1> QED BY <1>2, <1>3, <1>7, <1>8, <1>9, <1>10, <1>11

\* The window stays tiled.
LEMMA GrowTiled ==
  ASSUME MemInv, MemInv', Memory, Tiled, NEW w \in WindowsOf(Self), NEW result,
         NEW size \in Sizes, Grows(w, result, size),
         IsAppended(result, size), last_mmap' \in Int
  PROVE  Memory' /\ Tiled'
<1> DEFINE D == DOMAIN block
<1>1. /\ result \in Nat /\ Page(result) = pages'[w]
      /\ pages'[w] \in Nat
      /\ result + BLOCK_SIZE + size = Limit(w)' /\ Limit(w)' \in Nat
      /\ \A c \in D : Page(c) = Page(result) => End(c) <= result
      /\ result \notin D
  BY NewBlock
<1>2. /\ DOMAIN block' = D \cup {result}
      /\ block' \in [DOMAIN block' -> [size : Nat, free : BOOLEAN,
                                       next : Ptr', prev : Ptr']]
      /\ block'[result].size = size
      /\ \A c \in D : block'[c].size = block[c].size
  BY DEF IsAppended
<1>3. Memory'
  BY <1>1, <1>2 DEF Memory, Grows
<1>4. End(result)' = Limit(w)' /\ \A c \in D : End(c)' = End(c)
  BY <1>1, <1>2 DEF End
<1>5. \A c \in D : c \in Nat /\ End(c) \in Nat /\ c < End(c) /\ Page(c) \in Nat
  BY BlockPage
<1>6. \A v \in WindowsOf(Self) \ {w} : pages'[v] = pages[v] /\ Limit(v)' = Limit(v)
  BY DEF Grows, Limit
<1>7. ASSUME NEW c \in D \cup {result}
      PROVE  \E v \in WindowsOf(Self) : pages'[v] = Page(c) /\ End(c)' <= Limit(v)'
  <2>1. CASE c = result
    BY <2>1, <1>1, <1>4
  <2>2. CASE c \in D
    <3>1. PICK v \in WindowsOf(Self) : pages[v] = Page(c) /\ End(c) <= Limit(v)
      BY <2>2 DEF Tiled
    <3>2. CASE v # w
      BY <2>2, <3>1, <3>2, <1>4, <1>6
    <3>3. CASE v = w
      <4>1. pages'[w] = Page(c)
        BY <2>2, <3>1, <3>3, <1>5, BlockConstants DEF Grows
      <4>2. End(c) <= result
        BY <2>2, <4>1, <1>1
      <4>3. result <= Limit(w)'
        BY <1>1, BlockConstants
      <4> QED BY <2>2, <4>1, <4>2, <4>3, <1>1, <1>4, <1>5
    <3> QED BY <3>2, <3>3
  <2> QED BY <2>1, <2>2
<1>8. ASSUME NEW v \in WindowsOf(Self), pages'[v] # NULL
      PROVE  \E c \in D \cup {result} : Page(c) = pages'[v] /\ End(c)' = Limit(v)'
  <2>1. CASE v = w
    BY <2>1, <1>1, <1>4
  <2>2. CASE v # w
    <3>1. PICK c \in D : Page(c) = pages[v] /\ End(c) = Limit(v)
      BY <2>2, <1>6, <1>8 DEF Tiled
    <3> QED BY <3>1, <2>2, <1>4, <1>6
  <2> QED BY <2>1, <2>2
<1>9. ASSUME NEW c \in D \cup {result}
      PROVE  \/ c = Page(c) * VMM_PAGE_SIZE
             \/ \E d \in D \cup {result} : Page(d) = Page(c) /\ End(d)' = c
  <2>1. CASE c \in D
    BY <2>1, <1>4 DEF Tiled
  <2>2. CASE c = result /\ pages[w] = NULL
    <3>1. result = pages'[w] * VMM_PAGE_SIZE + 0
      BY <2>2 DEF Grows
    <3>2. pages'[w] * VMM_PAGE_SIZE \in Nat
      BY NewBlock
    <3> QED BY <2>2, <3>1, <3>2, <1>1
  <2>3. CASE c = result /\ pages[w] # NULL
    <3>1. pages[w] = pages'[w] /\ Limit(w) = result
      BY <2>3 DEF Grows, Limit
    <3>2. PICK d \in D : Page(d) = pages[w] /\ End(d) = Limit(w)
      BY <2>3 DEF Tiled
    <3> QED BY <3>1, <3>2, <2>3, <1>1, <1>4
  <2> QED BY <2>1, <2>2, <2>3
<1>10. ASSUME NEW c \in D \cup {result}, NEW d \in D \cup {result}, c < d
       PROVE  End(c)' <= d
  <2> DEFINE u == pages'[w] * VMM_PAGE_SIZE
  <2>1. u \in Nat /\ u <= result /\ Limit(w)' <= u + VMM_PAGE_SIZE
    BY NewBlock
  <2>2. CASE c \in D /\ d \in D
    BY <2>2, <1>4, <1>10 DEF Tiled
  <2>3. CASE c \in D /\ d = result
    <3>1. CASE Page(c) = Page(result)
      BY <2>3, <3>1, <1>1, <1>4
    <3>2. CASE Page(c) # Page(result)
      <4>1. PICK x \in Nat : x = Page(c) * VMM_PAGE_SIZE /\ x <= c
                             /\ End(c) <= x + VMM_PAGE_SIZE
        BY <2>3, BlockPage
      <4>2. Page(c) < pages'[w] \/ pages'[w] < Page(c)
        BY <3>2, <2>3, <1>1, <1>5
      <4>3. \/ x + VMM_PAGE_SIZE <= u
            \/ u + VMM_PAGE_SIZE <= x
        BY <4>1, <4>2, <2>3, <1>1, <1>5, PagesApart
      <4> HIDE DEF u
      <4>4. result < u + VMM_PAGE_SIZE
        BY <2>1, <1>1, BlockConstants
      <4> QED BY <4>1, <4>3, <4>4, <2>1, <2>3, <1>1, <1>4, <1>5, <1>10, BlockConstants
    <3> QED BY <3>1, <3>2
  <2>4. CASE c = result /\ d \in D
    <3>1. Page(d) # Page(result)
      <4>1. SUFFICES ASSUME Page(d) = Page(result) PROVE FALSE
        OBVIOUS
      <4>2. End(d) <= result
        BY <4>1, <2>4, <1>1
      <4> QED BY <4>2, <2>4, <1>1, <1>5, <1>10
    <3>2. PICK x \in Nat : x = Page(d) * VMM_PAGE_SIZE /\ x <= d
                           /\ d < x + VMM_PAGE_SIZE
      BY <2>4, BlockPage
    <3>3. Page(d) < pages'[w] \/ pages'[w] < Page(d)
      BY <3>1, <2>4, <1>1, <1>5
    <3>4. \/ x + VMM_PAGE_SIZE <= u
          \/ u + VMM_PAGE_SIZE <= x
      BY <3>2, <3>3, <2>4, <1>1, <1>5, PagesApart
    <3> HIDE DEF u
    <3>5. u + VMM_PAGE_SIZE <= d
      BY <3>2, <3>4, <2>1, <2>4, <1>1, <1>5, <1>10, BlockConstants
    <3> QED BY <3>5, <2>1, <2>4, <1>1, <1>4, <1>5, BlockConstants
  <2>5. CASE c = result /\ d = result
    BY <2>5, <1>1, <1>10
  <2> QED BY <2>2, <2>3, <2>4, <2>5
<1> HIDE DEF D
<1>11. Tiled'
  <2>1. \A c \in DOMAIN block' : \E v \in WindowsOf(Self) :
          pages'[v] = Page(c) /\ End(c)' <= Limit(v)'
    BY <1>2, <1>7
  <2>2. \A v \in WindowsOf(Self) : pages'[v] # NULL =>
          \E c \in DOMAIN block' : Page(c) = pages'[v] /\ End(c)' = Limit(v)'
    BY <1>2, <1>8
  <2>3. \A c \in DOMAIN block' :
          \/ c = Page(c) * VMM_PAGE_SIZE
          \/ \E d \in DOMAIN block' : Page(d) = Page(c) /\ End(d)' = c
    BY <1>2, <1>9
  <2>4. \A c, d \in DOMAIN block' : c < d => End(c)' <= d
    BY <1>2, <1>10
  <2> QED BY <2>1, <2>2, <2>3, <2>4 DEF Tiled
<1> QED BY <1>3, <1>11

\* The new block is the last of the list.
LEMMA GrowListed ==
  ASSUME Memory, NEW n, NEW q, IsList(n, q), NEW result, NEW size,
         result \in Nat, result \notin DOMAIN block, IsAppended(result, size),
         \A c \in DOMAIN block : End(c) \in Nat /\ c < End(c),
         \A c \in DOMAIN block : Page(c) = Page(result) => End(c) <= result,
         base_addr' = IF base_addr = NULL THEN result ELSE base_addr
  PROVE  Listed'
<1> DEFINE D == DOMAIN block
           r == [i \in 1 .. n + 1 |-> IF i = n + 1 THEN result ELSE q[i]]
<1>1. /\ n \in Nat /\ q \in [1 .. n -> D]
      /\ \A c \in D : \E i \in 1 .. n : q[i] = c
      /\ \A i, j \in 1 .. n : q[i] = q[j] => i = j
      /\ base_addr = IF n = 0 THEN NULL ELSE q[1]
      /\ \A i, j \in 1 .. n : i < j /\ Page(q[i]) = Page(q[j]) => q[i] < q[j]
  BY DEF IsList
<1>2. \A i \in 1 .. n : /\ block[q[i]].next = IF i = n THEN NULL ELSE q[i + 1]
                        /\ block[q[i]].prev = IF i = 1 THEN NULL ELSE q[i - 1]
  BY DEF IsList
<1>3. /\ DOMAIN block' = D \cup {result}
      /\ block'[result].next = NULL /\ block'[result].prev = Last
      /\ \A c \in D :
           /\ block'[c].prev = block[c].prev
           /\ block'[c].next = IF c = Last THEN result ELSE block[c].next
  BY DEF IsAppended
<1>4. D \subseteq Nat /\ NULL \notin D
  BY BlockConstants DEF Memory
<1>5. (n = 0 => Last = NULL) /\ (n # 0 => Last = q[n])
  BY LastIsEnd
<1> HIDE DEF D
<1>6. /\ n + 1 \in 1 .. n + 1 /\ r[n + 1] = result
      /\ \A i \in 1 .. n : i \in 1 .. n + 1 /\ i # n + 1 /\ r[i] = q[i] /\ q[i] \in D
      /\ \A i \in 1 .. n + 1 : i = n + 1 \/ i \in 1 .. n
  BY <1>1
<1>7. r \in [1 .. n + 1 -> D \cup {result}]
  BY <1>1
<1> HIDE DEF r
<1>8. \A c \in D \cup {result} : \E i \in 1 .. n + 1 : r[i] = c
  BY <1>1, <1>6
<1>9. \A i, j \in 1 .. n + 1 : r[i] = r[j] => i = j
  <2>1. \A i \in 1 .. n : r[i] # result
    BY <1>6 DEF D
  <2> QED BY <2>1, <1>1, <1>6
<1>10. base_addr' = r[1] /\ n + 1 # 0
  <2>1. CASE n = 0
    BY <2>1, <1>1, <1>6
  <2>2. CASE n # 0
    <3>1. 1 \in 1 .. n
      BY <2>2, <1>1
    <3> QED BY <2>2, <3>1, <1>1, <1>4, <1>6
  <2> QED BY <2>1, <2>2
<1>11. ASSUME NEW i \in 1 .. n + 1
       PROVE  /\ block'[r[i]].next = IF i = n + 1 THEN NULL ELSE r[i + 1]
              /\ block'[r[i]].prev = IF i = 1 THEN NULL ELSE r[i - 1]
  <2>1. CASE i = n + 1
    <3>1. CASE n = 0
      BY <2>1, <3>1, <1>3, <1>5, <1>6
    <3>2. CASE n # 0
      <4>1. i # 1 /\ i - 1 = n /\ n \in 1 .. n
        BY <2>1, <3>2, <1>1
      <4> QED BY <2>1, <3>2, <4>1, <1>3, <1>5, <1>6
    <3> QED BY <3>1, <3>2
  <2>2. CASE i \in 1 .. n
    <3>1. i # n + 1 /\ n # 0 /\ n \in 1 .. n /\ (i # n => i + 1 \in 1 .. n)
          /\ (i # 1 => i - 1 \in 1 .. n)
      BY <2>2, <1>1
    <3>2. q[i] = Last <=> i = n
      BY <2>2, <3>1, <1>1, <1>5
    <3>3. block'[q[i]].next = IF i = n THEN result ELSE q[i + 1]
      BY <2>2, <3>2, <1>2, <1>3, <1>6
    <3>4. r[i + 1] = IF i = n THEN result ELSE q[i + 1]
      BY <2>2, <3>1, <1>6
    <3>5. block'[q[i]].prev = IF i = 1 THEN NULL ELSE r[i - 1]
      BY <2>2, <3>1, <1>2, <1>3, <1>6
    <3> QED BY <2>2, <3>1, <3>3, <3>4, <3>5, <1>6
  <2> QED BY <2>1, <2>2, <1>6
<1>12. ASSUME NEW i \in 1 .. n + 1, NEW j \in 1 .. n + 1, i < j,
              Page(r[i]) = Page(r[j])
       PROVE  r[i] < r[j]
  <2>1. i \in 1 .. n
    BY <1>1, <1>12
  <2>2. CASE j \in 1 .. n
    BY <2>1, <2>2, <1>1, <1>6, <1>12
  <2>3. CASE j = n + 1
    <3>1. q[i] \in D /\ q[i] \in Nat /\ Page(q[i]) = Page(result)
      BY <2>1, <2>3, <1>4, <1>6, <1>12
    <3>2. End(q[i]) <= result /\ End(q[i]) \in Nat /\ q[i] < End(q[i])
      BY <3>1 DEF D
    <3> QED BY <2>1, <2>3, <3>1, <3>2, <1>6
  <2> QED BY <2>2, <2>3, <1>6
<1>13. IsList(n + 1, r)'
  <2>1. n + 1 \in Nat
    BY <1>1
  <2> QED BY <2>1, <1>3, <1>7, <1>8, <1>9, <1>10, <1>11, <1>12 DEF IsList
<1> QED BY <1>13 DEF Listed

-----------------------------------------------------------------------------
(***************************************************************************)
(* The last block of the list is the last of its page: no block of the     *)
(* page lies behind it, and bytes_used counts up to its end.               *)
(***************************************************************************)
LEMMA LastIsTop ==
  ASSUME MemInv, Memory, Tiled, NEW n, NEW q, IsList(n, q),
         NEW b \in DOMAIN block, block[b].next = NULL,
         NEW w \in WindowsOf(Self), pages[w] = Page(b)
  PROVE  /\ n \in 1 .. n /\ b = q[n]
         /\ \A c \in DOMAIN block \ {b} : Page(c) = Page(b) => c < b /\ End(c) <= b
         /\ End(b) = Limit(w)
<1>1. /\ n \in Nat /\ q \in [1 .. n -> DOMAIN block]
      /\ \A c \in DOMAIN block : \E i \in 1 .. n : q[i] = c
      /\ \A i \in 1 .. n : block[q[i]].next = IF i = n THEN NULL ELSE q[i + 1]
      /\ \A i, j \in 1 .. n : i < j /\ Page(q[i]) = Page(q[j]) => q[i] < q[j]
  BY DEF IsList
<1>2. NULL \notin DOMAIN block
  BY BlockConstants DEF Memory
<1>3. PICK k \in 1 .. n : q[k] = b
  BY <1>1
<1>4. k = n
  <2>1. SUFFICES ASSUME k # n PROVE FALSE
    OBVIOUS
  <2>2. k + 1 \in 1 .. n
    BY <2>1, <1>1
  <2> QED BY <2>1, <2>2, <1>1, <1>2, <1>3
<1>5. ASSUME NEW c \in DOMAIN block \ {b}, Page(c) = Page(b)
      PROVE  c < b /\ End(c) <= b
  <2>1. PICK i \in 1 .. n : q[i] = c
    BY <1>1
  <2>2. i < n
    BY <2>1, <1>1, <1>3, <1>4
  <2>3. c < b
    BY <2>1, <2>2, <1>1, <1>3, <1>4, <1>5
  <2> QED BY <2>3 DEF Tiled
<1>6. End(b) = Limit(w)
  <2>1. pages[w] # NULL
    BY BlockPage, BlockConstants
  <2>2. PICK c \in DOMAIN block : Page(c) = pages[w] /\ End(c) = Limit(w)
    BY <2>1 DEF Tiled
  <2>3. CASE c = b
    BY <2>2, <2>3
  <2>4. CASE c # b
    <3>1. End(c) <= b
      BY <2>2, <2>4, <1>5
    <3>2. PICK v \in WindowsOf(Self) : pages[v] = Page(b) /\ End(b) <= Limit(v)
      BY DEF Tiled
    <3>3. v = w
      BY <3>2, <2>1, OneWindow
    <3>4. End(b) \in Nat /\ b \in Nat /\ b < End(b) /\ End(c) \in Nat
      BY BlockPage
    <3> QED BY <2>2, <3>1, <3>2, <3>3, <3>4
  <2> QED BY <2>3, <2>4
<1> QED BY <1>1, <1>3, <1>4, <1>5, <1>6

\* What free changes of the list, field by field.
IsDropped(b) ==
  /\ DOMAIN block' = DOMAIN block \ {b}
  /\ block' \in [DOMAIN block' -> [size : Nat, free : BOOLEAN,
                                   next : Ptr, prev : Ptr]]
  /\ \A c \in DOMAIN block \ {b} :
       /\ block'[c].size = block[c].size
       /\ block'[c].free = block[c].free
       /\ block'[c].prev = block[c].prev
       /\ block'[c].next = IF c = block[b].prev THEN NULL ELSE block[c].next

\* Dropped takes one block off the list, and clears the next of its prev.
LEMMA DroppedBlock ==
  ASSUME Memory, NEW b \in DOMAIN block, block' = Dropped(b)
  PROVE  IsDropped(b)
<1>1. PICK p : p = block[b].prev
  OBVIOUS
<1> DEFINE D == DOMAIN block \ {b}
           blk == IF p = NULL THEN block ELSE [block EXCEPT ![p].next = NULL]
           H == [size : Nat, free : BOOLEAN, next : Ptr, prev : Ptr]
<1>2. block \in [DOMAIN block -> H] /\ NULL \notin DOMAIN block
      /\ p \in Ptr /\ NULL \in Ptr
  BY <1>1, BlockConstants DEF Memory, Ptr
<1>3. DOMAIN blk = DOMAIN block
  BY <1>2
<1>4. block' = [c \in D |-> blk[c]]
  <2>1. block' = Restrict(blk, DOMAIN blk \ {b})
    BY <1>1 DEF Dropped, Without
  <2> QED BY <2>1, <1>3 DEF Restrict
<1>5. \A c \in D : /\ blk[c].size = block[c].size
                   /\ blk[c].free = block[c].free
                   /\ blk[c].prev = block[c].prev
                   /\ blk[c].next = IF c = p THEN NULL ELSE block[c].next
                   /\ blk[c] \in H
  <2>1. CASE p = NULL
    BY <2>1, <1>2
  <2>2. CASE p # NULL
    BY <2>2, <1>2 DEF Ptr
  <2> QED BY <2>1, <2>2
<1> HIDE DEF blk, H
<1>6. \A c \in D : block'[c] = blk[c]
  BY <1>4
<1>7. block' \in [D -> H] /\ DOMAIN block' = D
  BY <1>4, <1>5
<1> QED BY <1>1, <1>5, <1>6, <1>7 DEF IsDropped, H

(***************************************************************************)
(* What munmap does to the window w of the block b: its page goes when b   *)
(* was all that it held.                                                   *)
(***************************************************************************)
Shrinks(w, b) ==
  /\ \A v \in WindowsOf(Self) \ {w} :
       pages'[v] = pages[v] /\ bytes_used'[v] = bytes_used[v]
  /\ \/ /\ bytes_used[w] = block[b].size + BLOCK_SIZE
        /\ pages'[w] = NULL
     \/ /\ bytes_used[w] # block[b].size + BLOCK_SIZE
        /\ pages'[w] = pages[w]
        /\ bytes_used'[w] = bytes_used[w] - (block[b].size + BLOCK_SIZE)

\* The windows stay tiled.
LEMMA DropTiled ==
  ASSUME MemInv, Memory, Tiled, NEW n, NEW q, IsList(n, q),
         NEW b \in DOMAIN block, block[b].next = NULL,
         NEW w \in WindowsOf(Self), pages[w] = Page(b),
         IsDropped(b), Shrinks(w, b)
  PROVE  /\ Tiled'
         /\ pages'[w] # NULL => bytes_used'[w] \in 0 .. VMM_PAGE_SIZE
<1> DEFINE D == DOMAIN block
<1>1. /\ \A c \in D \ {b} : Page(c) = Page(b) => c < b /\ End(c) <= b
      /\ End(b) = Limit(w)
  BY LastIsTop
<1>2. DOMAIN block' = D \ {b} /\ \A c \in D \ {b} : End(c)' = End(c)
  BY DEF IsDropped, End
<1>3. \A c \in D : c \in Nat /\ End(c) \in Nat /\ c < End(c) /\ Page(c) \in Nat
  BY BlockPage
<1>4. \A v \in WindowsOf(Self) \ {w} : pages'[v] = pages[v] /\ Limit(v)' = Limit(v)
  BY DEF Shrinks, Limit
<1>5. PICK u \in Nat : u = Page(b) * VMM_PAGE_SIZE /\ u <= b
  BY BlockPage
<1>6. bytes_used[w] \in 0 .. VMM_PAGE_SIZE /\ block[b].size \in Nat
  BY OwnWindows DEF Memory
<1>7. u + bytes_used[w] = b + BLOCK_SIZE + block[b].size
  BY <1>1, <1>5 DEF Limit, End
<1>8. b = u <=> bytes_used[w] = block[b].size + BLOCK_SIZE
  BY <1>3, <1>5, <1>6, <1>7, BlockConstants
<1>9. b # u => /\ pages'[w] = pages[w] /\ Limit(w)' = b
               /\ bytes_used'[w] \in 0 .. VMM_PAGE_SIZE
  <2> HAVE b # u
  <2>1. pages'[w] = pages[w]
        /\ bytes_used'[w] = bytes_used[w] - (block[b].size + BLOCK_SIZE)
    BY <1>8 DEF Shrinks
  <2>2. Limit(w)' = u + (bytes_used[w] - (block[b].size + BLOCK_SIZE))
    BY <2>1, <1>5 DEF Limit
  <2>3. PICK used \in 0 .. VMM_PAGE_SIZE, s \in Nat :
          used = bytes_used[w] /\ s = block[b].size + BLOCK_SIZE
    BY <1>6, BlockConstants
  <2>4. b \in Nat /\ u + used = b + s /\ u <= b /\ VMM_PAGE_SIZE \in Nat
    BY <2>3, <1>3, <1>5, <1>6, <1>7, BlockConstants
  <2>5. u + (used - s) = b /\ used - s \in 0 .. VMM_PAGE_SIZE
    BY <2>3, <2>4
  <2> QED BY <2>1, <2>2, <2>3, <2>5
<1>10. b = u => /\ pages'[w] = NULL
                /\ \A c \in D \ {b} : Page(c) # Page(b)
  <2> HAVE b = u
  <2>1. pages'[w] = NULL
    BY <1>8 DEF Shrinks
  <2>2. ASSUME NEW c \in D \ {b}, Page(c) = Page(b) PROVE FALSE
    <3>1. c < b
      BY <2>2, <1>1
    <3>2. u <= c
      BY <2>2, <1>5, BlockPage
    <3> QED BY <3>1, <3>2, <1>3, <1>5
  <2> QED BY <2>1, <2>2
<1>11. ASSUME NEW c \in D \ {b}
       PROVE  \E v \in WindowsOf(Self) : pages'[v] = Page(c) /\ End(c)' <= Limit(v)'
  <2>1. PICK v \in WindowsOf(Self) : pages[v] = Page(c) /\ End(c) <= Limit(v)
    BY DEF Tiled
  <2>2. CASE v # w
    BY <2>1, <2>2, <1>2, <1>4
  <2>3. CASE v = w
    BY <2>1, <2>3, <1>1, <1>2, <1>9, <1>10
  <2> QED BY <2>2, <2>3
<1>12. ASSUME NEW v \in WindowsOf(Self), pages'[v] # NULL
       PROVE  \E c \in D \ {b} : Page(c) = pages'[v] /\ End(c)' = Limit(v)'
  <2>1. CASE v # w
    <3>1. PICK c \in D : Page(c) = pages[v] /\ End(c) = Limit(v)
      BY <2>1, <1>4, <1>12 DEF Tiled
    <3>2. c # b
      BY <2>1, <3>1, <1>4, <1>12, OneWindow
    <3> QED BY <2>1, <3>1, <3>2, <1>2, <1>4
  <2>2. CASE v = w
    <3>1. b # Page(b) * VMM_PAGE_SIZE
      BY <2>2, <1>5, <1>10, <1>12
    <3>2. PICK c \in D : Page(c) = Page(b) /\ End(c) = b
      BY <3>1 DEF Tiled
    <3>3. c # b
      BY <3>2, <1>3
    <3> QED BY <2>2, <3>1, <3>2, <3>3, <1>2, <1>5, <1>9
  <2> QED BY <2>1, <2>2
<1>13. ASSUME NEW c \in D \ {b}
       PROVE  \/ c = Page(c) * VMM_PAGE_SIZE
              \/ \E d \in D \ {b} : Page(d) = Page(c) /\ End(d)' = c
  <2>1. SUFFICES ASSUME c # Page(c) * VMM_PAGE_SIZE
                 PROVE  \E d \in D \ {b} : Page(d) = Page(c) /\ End(d)' = c
    OBVIOUS
  <2>2. PICK d \in D : Page(d) = Page(c) /\ End(d) = c
    BY <2>1 DEF Tiled
  <2>3. d # b
    BY <2>2, <1>1, <1>3
  <2> QED BY <2>2, <2>3, <1>2
<1>14. \A c, d \in D \ {b} : c < d => End(c)' <= d
  BY <1>2 DEF Tiled
<1> HIDE DEF D
<1>15. Tiled'
  <2>1. \A c \in DOMAIN block' : \E v \in WindowsOf(Self) :
          pages'[v] = Page(c) /\ End(c)' <= Limit(v)'
    BY <1>2, <1>11
  <2>2. \A v \in WindowsOf(Self) : pages'[v] # NULL =>
          \E c \in DOMAIN block' : Page(c) = pages'[v] /\ End(c)' = Limit(v)'
    BY <1>2, <1>12
  <2>3. \A c \in DOMAIN block' :
          \/ c = Page(c) * VMM_PAGE_SIZE
          \/ \E d \in DOMAIN block' : Page(d) = Page(c) /\ End(d)' = c
    BY <1>2, <1>13
  <2>4. \A c, d \in DOMAIN block' : c < d => End(c)' <= d
    BY <1>2, <1>14
  <2> QED BY <2>1, <2>2, <2>3, <2>4 DEF Tiled
<1> QED BY <1>9, <1>10, <1>15

\* The list ends at the block in front of the one that was dropped.
LEMMA DropListed ==
  ASSUME Memory, NEW n, NEW q, IsList(n, q), n \in 1 .. n,
         NEW b, b = q[n], IsDropped(b),
         base_addr' = IF block[b].prev = NULL THEN NULL ELSE base_addr
  PROVE  /\ Listed'
         /\ \A c \in DOMAIN block' :
              block'[c].next \in Ptr' /\ block'[c].prev \in Ptr'
<1> DEFINE D == DOMAIN block
           m == n - 1
           r == [i \in 1 .. m |-> q[i]]
<1>1. /\ n \in Nat /\ q \in [1 .. n -> D]
      /\ \A c \in D : \E i \in 1 .. n : q[i] = c
      /\ \A i, j \in 1 .. n : q[i] = q[j] => i = j
      /\ base_addr = IF n = 0 THEN NULL ELSE q[1]
      /\ \A i, j \in 1 .. n : i < j /\ Page(q[i]) = Page(q[j]) => q[i] < q[j]
  BY DEF IsList
<1>2. \A i \in 1 .. n : /\ block[q[i]].next = IF i = n THEN NULL ELSE q[i + 1]
                        /\ block[q[i]].prev = IF i = 1 THEN NULL ELSE q[i - 1]
  BY DEF IsList
<1>3. /\ DOMAIN block' = D \ {b}
      /\ \A c \in D \ {b} :
           /\ block'[c].prev = block[c].prev
           /\ block'[c].next = IF c = block[b].prev THEN NULL ELSE block[c].next
  BY DEF IsDropped
<1>4. NULL \notin D
  BY BlockConstants DEF Memory
<1> HIDE DEF D
<1>5. m \in Nat /\ \A i \in 1 .. m : i \in 1 .. n /\ i # n /\ i < n
  BY <1>1
<1>6. \A i \in 1 .. n : i = n \/ i \in 1 .. m
  BY <1>1
<1>7. \A i \in 1 .. m : r[i] = q[i] /\ q[i] \in D \ {b}
  BY <1>1, <1>5
<1>8. r \in [1 .. m -> D \ {b}]
  BY <1>7
<1>9. m = 0 <=> n = 1
  BY <1>1
<1>10. n # 1 => m \in 1 .. m /\ m \in 1 .. n
  BY <1>1
<1>11. block[b].prev = IF n = 1 THEN NULL ELSE q[m]
  BY <1>2
<1> HIDE DEF r
<1>12. \A c \in D \ {b} : \E i \in 1 .. m : r[i] = c
  BY <1>1, <1>6, <1>7
<1>13. \A i, j \in 1 .. m : r[i] = r[j] => i = j
  BY <1>1, <1>5, <1>7
<1>14. base_addr' = IF m = 0 THEN NULL ELSE r[1]
  <2>1. CASE n = 1
    BY <2>1, <1>9, <1>11
  <2>2. CASE n # 1
    <3>1. q[m] \in D /\ 1 \in 1 .. m /\ m # 0 /\ n # 0
      BY <2>2, <1>1, <1>9, <1>10
    <3> QED BY <2>2, <3>1, <1>1, <1>4, <1>7, <1>11
  <2> QED BY <2>1, <2>2
<1>15. ASSUME NEW i \in 1 .. m
       PROVE  /\ block'[r[i]].next = IF i = m THEN NULL ELSE r[i + 1]
              /\ block'[r[i]].prev = IF i = 1 THEN NULL ELSE r[i - 1]
  <2>1. /\ n # 1 /\ i \in 1 .. n /\ i # n
        /\ i # m => i + 1 \in 1 .. m
        /\ i # 1 => i - 1 \in 1 .. m
    BY <1>5, <1>9
  <2>2. q[i] = block[b].prev <=> i = m
    BY <2>1, <1>1, <1>10, <1>11
  <2>3. block'[q[i]].next = IF i = m THEN NULL ELSE q[i + 1]
    BY <2>1, <2>2, <1>2, <1>3, <1>7
  <2>4. block'[q[i]].prev = IF i = 1 THEN NULL ELSE q[i - 1]
    BY <2>1, <1>2, <1>3, <1>7
  <2> QED BY <2>1, <2>3, <2>4, <1>7
<1>16. \A i, j \in 1 .. m : i < j /\ Page(r[i]) = Page(r[j]) => r[i] < r[j]
  BY <1>1, <1>5, <1>7
<1> HIDE DEF m
<1>17. IsList(m, r)'
  BY <1>3, <1>5, <1>8, <1>12, <1>13, <1>14, <1>15, <1>16 DEF IsList
<1>18. ASSUME NEW c \in DOMAIN block'
       PROVE  block'[c].next \in Ptr' /\ block'[c].prev \in Ptr'
  <2>1. PICK i \in 1 .. m : r[i] = c
    BY <1>3, <1>12
  <2>2. /\ i # m => i + 1 \in 1 .. m
        /\ i # 1 => i - 1 \in 1 .. m
    BY <1>5
  <2> QED BY <2>1, <2>2, <1>3, <1>8, <1>15 DEF Ptr
<1> QED BY <1>17, <1>18 DEF Listed

-----------------------------------------------------------------------------
\* malloc takes a free block, whole or in part.
LEMMA ReuseStep ==
  ASSUME MemInv, BlockInv, NEW size \in Sizes, malloc_reuse(size)
  PROVE  BlockInv'
<1>1. PICK b : b = find_block(size)
  OBVIOUS
<1>2. /\ b # NULL /\ block' = Taken(b, size) /\ live' = With(live, b, size)
      /\ UNCHANGED <<base_addr, last_mmap, pages, bytes_used>>
  BY <1>1 DEF malloc_reuse, mmaps
<1>3. b \in DOMAIN block /\ block[b].free /\ block[b].size >= size
  BY <1>1, <1>2, FindBlock
<1>4. ASSUME Memory', Tiled', Listed',
             DOMAIN block \subseteq DOMAIN block',
             ~ block'[b].free, block'[b].size >= size,
             \A c \in DOMAIN block \ {b} :
               block'[c].size = block[c].size /\ block'[c].free = block[c].free
      PROVE  BlockInv'
  <2>1. DOMAIN live' = DOMAIN live \cup {b} /\ live'[b] = size
        /\ \A c \in DOMAIN live \ {b} : live'[c] = live[c]
    BY <1>2 DEF With
  <2>2. live' \in [DOMAIN live' -> Sizes]
    BY <1>2 DEF With, BlockInv, Owned
  <2>3. ASSUME NEW c \in DOMAIN live'
        PROVE  /\ c \in DOMAIN block' /\ ~ block'[c].free
               /\ block'[c].size >= live'[c]
    <3>1. CASE c = b
      BY <3>1, <2>1, <1>3, <1>4
    <3>2. CASE c # b
      BY <3>2, <2>1, <1>4 DEF BlockInv, Owned
    <3> QED BY <3>1, <3>2
  <2> QED BY <1>4, <2>2, <2>3 DEF BlockInv, Owned
<1>5. CASE block[b].size - size >= BLOCK_SIZE + MIN_ALLOC_SIZE
  <2>1. PICK n, q : IsList(n, q)
    BY DEF BlockInv, Listed
  <2>2. PICK k \in 1 .. n : q[k] = b
    BY <2>1, <1>3 DEF IsList
  <2>3. block[b].next # b
    <3>1. /\ n \in Nat
          /\ \A i, j \in 1 .. n : q[i] = q[j] => i = j
          /\ block[q[k]].next = IF k = n THEN NULL ELSE q[k + 1]
      BY <2>1, <2>2 DEF IsList
    <3>2. k # n => k + 1 \in 1 .. n /\ k + 1 # k
      BY <3>1
    <3>3. b # NULL
      BY <1>2
    <3> QED BY <2>2, <3>1, <3>2, <3>3
  <2>4. PICK rest : rest = b + BLOCK_SIZE + size
    OBVIOUS
  <2>5. IsSplit(b, size, rest)
    BY <1>2, <1>3, <1>5, <2>3, <2>4, TakenSplit DEF BlockInv
  <2>6. Memory' /\ Tiled' /\ Page(rest) = Page(b)
    BY <1>2, <1>3, <2>4, <2>5, SplitTiled DEF BlockInv
  <2>7. Listed'
    BY <1>2, <1>3, <2>1, <2>2, <2>5, <2>6, SplitListed DEF BlockInv
  <2>8. block'[b].size >= size
    BY <2>5, BlockConstants DEF IsSplit
  <2> QED BY <1>4, <2>5, <2>6, <2>7, <2>8 DEF IsSplit
<1>6. CASE ~ (block[b].size - size >= BLOCK_SIZE + MIN_ALLOC_SIZE)
  <2>1. block' = [block EXCEPT ![b].free = FALSE]
    BY <1>2, <1>6 DEF Taken
  <2>2. Memory' /\ Tiled' /\ Listed'
    BY <1>2, <1>3, <2>1, FlagStep
  <2>3. /\ DOMAIN block' = DOMAIN block /\ ~ block'[b].free
        /\ block'[b].size = block[b].size
        /\ \A c \in DOMAIN block \ {b} : block'[c] = block[c]
    BY <1>3, <2>1 DEF BlockInv, Memory
  <2> QED BY <1>3, <1>4, <2>2, <2>3
<1> QED BY <1>5, <1>6

\* The heap grows, in a window that had room or got a page.
LEMMA GrowStep ==
  ASSUME MemInv, MemInv', BlockInv, NEW w \in WindowsOf(Self), NEW result,
         NEW size \in Sizes, Grows(w, result, size), expand_heap(result, size)
  PROVE  BlockInv'
<1>1. /\ result \in Nat /\ result \notin DOMAIN block
      /\ \A c \in DOMAIN block : Page(c) = Page(result) => End(c) <= result
  BY NewBlock DEF BlockInv
<1>2. /\ last_mmap' \in Int
      /\ base_addr' = IF base_addr = NULL THEN result ELSE base_addr
      /\ live' = With(live, result, size)
  BY <1>1, BlockConstants DEF expand_heap
<1>3. PICK n, q : IsList(n, q)
  BY DEF BlockInv, Listed
<1>4. Last \in Ptr
  <2>1. n # 0 => q[n] \in DOMAIN block
    BY <1>3 DEF IsList
  <2> QED BY <1>3, <2>1, LastIsEnd DEF BlockInv, Ptr
<1>5. IsAppended(result, size)
  BY <1>1, <1>4, ExpandHeap DEF BlockInv
<1>6. Memory' /\ Tiled'
  BY <1>2, <1>5, GrowTiled DEF BlockInv
<1>7. \A c \in DOMAIN block : End(c) \in Nat /\ c < End(c)
  BY BlockPage DEF BlockInv
<1>8. Listed'
  BY <1>1, <1>2, <1>3, <1>5, <1>7, GrowListed DEF BlockInv
<1>9. Owned'
  <2>1. DOMAIN live' = DOMAIN live \cup {result} /\ live'[result] = size
        /\ \A c \in DOMAIN live \ {result} : live'[c] = live[c]
    BY <1>2 DEF With
  <2>2. live' \in [DOMAIN live' -> Sizes]
    BY <1>2 DEF With, BlockInv, Owned
  <2>3. ASSUME NEW c \in DOMAIN live'
        PROVE  /\ c \in DOMAIN block' /\ ~ block'[c].free
               /\ block'[c].size >= live'[c]
    <3>1. CASE c = result
      BY <3>1, <2>1, <1>5, BlockConstants DEF IsAppended
    <3>2. CASE c # result
      BY <3>2, <2>1, <1>5 DEF IsAppended, BlockInv, Owned
    <3> QED BY <3>1, <3>2
  <2> QED BY <2>2, <2>3 DEF Owned
<1> QED BY <1>6, <1>8, <1>9 DEF BlockInv

\* malloc, from the room that is left in a window.
LEMMA WindowStep ==
  ASSUME MemInv, BlockInv, NEW size \in Sizes, malloc_window(size)
  PROVE  BlockInv'
<1>1. PICK w \in WindowsOf(Self) :
        mmap_window(Self, w, BLOCK_SIZE + size) /\ expand_heap(MmapResult(w), size)
  BY DEF malloc_window
<1>2. /\ UNCHANGED vmm /\ UNCHANGED pages /\ pages[w] # NULL
      /\ bytes_used' = [bytes_used EXCEPT ![w] = @ + (BLOCK_SIZE + size)]
      /\ VMM_PAGE_SIZE - bytes_used[w] >= BLOCK_SIZE + size
  BY <1>1 DEF mmap_window, Serving
<1>3. MemInv'
  BY <1>2, MemUnchanged DEF mem, vmm
<1>4. w \in Windows /\ WindowsOf(Self) \subseteq Windows
  BY OwnWindows
<1>5. bytes_used \in [Windows -> 0 .. VMM_PAGE_SIZE] /\ size \in Nat
  BY BlockConstants DEF BlockInv, Memory
<1>6. /\ bytes_used'[w] = bytes_used[w] + BLOCK_SIZE + size
      /\ bytes_used' \in [Windows -> 0 .. VMM_PAGE_SIZE]
      /\ \A v \in Windows \ {w} : bytes_used'[v] = bytes_used[v]
  <2>1. bytes_used[w] + (BLOCK_SIZE + size) \in 0 .. VMM_PAGE_SIZE
        /\ bytes_used[w] + (BLOCK_SIZE + size) = bytes_used[w] + BLOCK_SIZE + size
    BY <1>2, <1>4, <1>5, BlockConstants
  <2> QED BY <2>1, <1>2, <1>4, <1>5
<1>7. Grows(w, MmapResult(w), size)
  BY <1>2, <1>4, <1>6 DEF Grows, MmapResult
<1> QED BY <1>1, <1>3, <1>7, GrowStep

\* malloc, once the page of a window has been allocated.
LEMMA AllocatedStep ==
  ASSUME MemInv, MemInv', BlockInv, RequestInv, malloc_allocated
  PROVE  BlockInv'
<1> DEFINE w == request.window
           size == request.size - BLOCK_SIZE
<1>1. /\ call.pc = "done" /\ Booted
      /\ pages' = [pages EXCEPT ![w] = call.first]
      /\ bytes_used' = [bytes_used EXCEPT ![w] = request.size]
      /\ expand_heap(call.first * VMM_PAGE_SIZE, size)
  BY DEF malloc_allocated, mmap_allocated
<1>2. /\ w \in WindowsOf(Self) /\ pages[w] = NULL /\ size \in Sizes
      /\ request.size \in 0 .. VMM_PAGE_SIZE
  BY <1>1 DEF RequestInv
<1>3. w \in Windows /\ WindowsOf(Self) \subseteq Windows
  BY <1>2, OwnWindows
<1>4. call.first \in Nat /\ pages \in [Windows -> Pages \cup {NULL}]
      /\ bytes_used \in [Windows -> 0 .. VMM_PAGE_SIZE]
  BY DEF MemInv, Types, Calls, BlockInv, Memory
<1>5. /\ pages'[w] = call.first /\ pages'[w] # NULL
      /\ bytes_used'[w] = request.size
      /\ \A v \in WindowsOf(Self) \ {w} :
           pages'[v] = pages[v] /\ bytes_used'[v] = bytes_used[v]
      /\ bytes_used' \in [Windows -> 0 .. VMM_PAGE_SIZE]
  BY <1>1, <1>2, <1>3, <1>4, BlockConstants
<1>6. /\ call.first * VMM_PAGE_SIZE = call.first * VMM_PAGE_SIZE + 0
      /\ request.size = 0 + BLOCK_SIZE + size
  <2>1. call.first * VMM_PAGE_SIZE \in Nat
    BY <1>4, BlockConstants
  <2>2. request.size = 0 + BLOCK_SIZE + size
    BY <1>2, BlockConstants
  <2> QED BY <2>1, <2>2
<1>7. Grows(w, call.first * VMM_PAGE_SIZE, size)
  <2> HIDE DEF w, size
  <2> QED BY <1>2, <1>5, <1>6 DEF Grows
<1> HIDE DEF w, size
<1> QED BY <1>1, <1>2, <1>7, GrowStep

\* free, of a block with another one behind it or of the last one.
LEMMA FreeStep ==
  ASSUME MemInv, BlockInv, NEW b \in DOMAIN live,
         free_refused(b) \/ free_inner(b) \/ free_last(b)
  PROVE  BlockInv'
<1>1. b \in DOMAIN block
  BY DEF BlockInv, Owned
<1>2. DOMAIN live' = DOMAIN live \ {b}
      /\ \A c \in DOMAIN live \ {b} : live'[c] = live[c]
  BY DEF free_refused, free_inner, free_last, Without, Restrict
<1>3. live' \in [DOMAIN live' -> Sizes]
  BY DEF free_refused, free_inner, free_last, Without, Restrict, BlockInv, Owned
<1>4. ASSUME \A c \in DOMAIN block \ {b} :
               /\ c \in DOMAIN block' /\ block'[c].free = block[c].free
               /\ block'[c].size = block[c].size
      PROVE  Owned'
  <2>1. ASSUME NEW c \in DOMAIN live'
        PROVE  /\ c \in DOMAIN block' /\ ~ block'[c].free
               /\ block'[c].size >= live'[c]
    BY <1>2, <1>4 DEF BlockInv, Owned
  <2> QED BY <1>3, <2>1 DEF Owned
<1>5. CASE free_refused(b)
  <2>1. UNCHANGED <<base_addr, last_mmap, block, pages, bytes_used>>
    BY <1>5 DEF free_refused, mmaps
  <2>2. Memory' /\ Tiled'
    BY <2>1 DEF BlockInv, Memory, Ptr, Tiled, Limit, End
  <2>3. Listed'
    BY <2>1 DEF BlockInv, Listed, IsList
  <2> QED BY <1>4, <2>1, <2>2, <2>3 DEF BlockInv
<1>6. CASE free_inner(b)
  <2>1. block' = [block EXCEPT ![b].free = TRUE]
        /\ UNCHANGED <<base_addr, last_mmap, pages, bytes_used>>
    BY <1>6 DEF free_inner, mmaps
  <2>2. \A c \in DOMAIN block \ {b} :
          c \in DOMAIN block' /\ block'[c] = block[c]
    BY <2>1 DEF BlockInv, Memory
  <2>3. Memory' /\ Tiled' /\ Listed'
    BY <1>1, <2>1, FlagStep
  <2> QED BY <1>4, <2>2, <2>3 DEF BlockInv
<1>7. CASE free_last(b)
  <2> DEFINE size == block[b].size + BLOCK_SIZE
  <2>1. /\ block[b].next = NULL /\ block' = Dropped(b)
        /\ base_addr' = IF block[b].prev = NULL THEN NULL ELSE base_addr
        /\ last_mmap' = last_mmap - block[b].size - BLOCK_SIZE
        /\ syscall_munmap(Self, b, size)
    BY <1>7 DEF free_last
  <2>2. PICK w \in WindowsOf(Self) :
          /\ pages[w] = Page(b)
          /\ \/ /\ bytes_used[w] = size
                /\ pages' = [pages EXCEPT ![w] = NULL]
                /\ bytes_used' = [bytes_used EXCEPT ![w] = 0]
             \/ /\ bytes_used[w] # size
                /\ bytes_used' = [bytes_used EXCEPT ![w] = @ - size]
                /\ UNCHANGED pages
    BY <2>1 DEF syscall_munmap, Page
  <2>3. w \in Windows /\ WindowsOf(Self) \subseteq Windows
    BY OwnWindows
  <2>4. pages \in [Windows -> Pages \cup {NULL}]
        /\ bytes_used \in [Windows -> 0 .. VMM_PAGE_SIZE]
    BY DEF MemInv, Types, BlockInv, Memory
  <2> HIDE DEF size
  <2>5. /\ \A v \in Windows \ {w} :
             pages'[v] = pages[v] /\ bytes_used'[v] = bytes_used[v]
        /\ \/ bytes_used[w] = size /\ pages'[w] = NULL /\ bytes_used'[w] = 0
           \/ /\ bytes_used[w] # size /\ pages'[w] = pages[w]
              /\ bytes_used'[w] = bytes_used[w] - size
        /\ DOMAIN bytes_used' = Windows
        /\ bytes_used' = [v \in Windows |-> bytes_used'[v]]
    BY <2>2, <2>3, <2>4
  <2>6. Shrinks(w, b)
    BY <2>3, <2>5 DEF Shrinks, size
  <2>7. IsDropped(b)
    BY <1>1, <2>1, DroppedBlock DEF BlockInv
  <2>8. PICK n, q : IsList(n, q)
    BY DEF BlockInv, Listed
  <2>9. n \in 1 .. n /\ b = q[n]
    BY <1>1, <2>1, <2>2, <2>8, LastIsTop DEF BlockInv
  <2>10. /\ Tiled'
         /\ pages'[w] # NULL => bytes_used'[w] \in 0 .. VMM_PAGE_SIZE
    BY <1>1, <2>1, <2>2, <2>6, <2>7, <2>8, DropTiled DEF BlockInv
  <2>11. /\ Listed'
         /\ \A c \in DOMAIN block' :
              block'[c].next \in Ptr' /\ block'[c].prev \in Ptr'
    BY <2>1, <2>7, <2>8, <2>9, DropListed DEF BlockInv
  <2>12. bytes_used'[w] \in 0 .. VMM_PAGE_SIZE
    <3>1. pages[w] # NULL
      BY <1>1, <2>2, BlockPage, BlockConstants DEF BlockInv
    <3> QED BY <2>5, <2>10, <3>1, BlockConstants
  <2>13. bytes_used' \in [Windows -> 0 .. VMM_PAGE_SIZE]
    BY <2>4, <2>5, <2>12
  <2>14. block' \in [DOMAIN block' -> [size : Nat, free : BOOLEAN,
                                       next : Ptr', prev : Ptr']]
    <3>1. block' \in [DOMAIN block' -> [size : Nat, free : BOOLEAN,
                                        next : Ptr, prev : Ptr]]
      BY <2>7 DEF IsDropped
    <3> QED BY <2>11, <3>1
  <2>15. last_mmap' \in Int
    BY <1>1, <2>1, BlockConstants DEF BlockInv, Memory
  <2>16. Memory'
    BY <2>7, <2>13, <2>14, <2>15 DEF Memory, IsDropped, BlockInv
  <2> QED BY <1>4, <2>7, <2>10, <2>11, <2>16 DEF BlockInv, IsDropped
<1> QED BY <1>5, <1>6, <1>7

\* Steps that leave the heap and the windows alone.
LEMMA BlocksUnchanged ==
  ASSUME BlockInv, UNCHANGED <<heap, pages, bytes_used>>
  PROVE  BlockInv'
<1>1. Memory' /\ Tiled' /\ Owned'
  BY DEF BlockInv, Memory, Ptr, Tiled, Limit, End, Owned, heap
<1>2. Listed'
  BY DEF BlockInv, Listed, IsList, heap
<1> QED BY <1>1, <1>2 DEF BlockInv

\* The steps of vmm_initialize end in no call, those of a search in a call.
LEMMA StepCalls ==
  ASSUME MemInv, VmmStep
  PROVE  \/ call.pc = "identity" /\ call'.pc \in {"identity", "idle"}
         \/ /\ call.pc \notin {"identity", "idle"}
            /\ call'.pc \notin {"identity", "idle"}
<1>1. call \in Calls
  BY DEF MemInv, Types
<1>2. CASE identity_table \/ identity_entry \/ identity_done
  BY <1>1, <1>2 DEF identity_table, identity_entry, identity_done, Idle, Calls
<1>3. CASE search
  <2>1. PICK p, q : call' = After(p, q)
    BY <1>3 DEF search
  <2> QED BY <1>1, <1>3, <2>1 DEF search, After, Calls
<1>4. CASE search_failed \/ alloc_page \/ map_page_table \/ map_page_entry
  BY <1>1, <1>4 DEF search_failed, alloc_page, map_page_table, map_page_entry, Calls
<1> QED BY <1>2, <1>3, <1>4 DEF VmmStep

\* No step loses track of the window that a page is being allocated for.
LEMMA NextRequestInv ==
  ASSUME MemInv, RequestInv, [Next]_vars
  PROVE  RequestInv'
<1> DEFINE Quiet == {"identity", "idle"}
<1>0. call \in Calls /\ StackRequests \in Nat
  BY MmapAssumption DEF MemInv, Types, StackRequests
<1>1. ASSUME UNCHANGED <<stacks, pages, request>>,
             call.pc \in Quiet <=> call'.pc \in Quiet
      PROVE  RequestInv'
  BY <1>1 DEF RequestInv, Booted
<1>2. ASSUME stacks' \in 0 .. StackRequests, call'.pc = "idle", request' = None
      PROVE  RequestInv'
  BY <1>2, BlockConstants DEF RequestInv, Booted, None
<1>3. CASE UNCHANGED vars
  BY <1>1, <1>3 DEF vars, vmm, mmaps
<1>4. CASE VmmStep /\ UNCHANGED <<mmaps, heap>>
  BY <1>1, <1>4, StepCalls DEF mmaps
<1>5. CASE kmalloc_frame /\ UNCHANGED <<mmaps, heap>>
  BY <1>1, <1>5 DEF kmalloc_frame, mmaps
<1>6. CASE _sched_alloc_pages
  BY <1>0, <1>6 DEF _sched_alloc_pages, mmaps, RequestInv, Booted
<1>7. CASE stack_ready
  BY <1>0, <1>2, <1>7 DEF stack_ready, VmmReturn, Idle, RequestInv, Booted
<1>8. ASSUME NEW size \in Sizes,
             malloc_reuse(size) \/ malloc_window(size) \/ malloc_null(size)
      PROVE  RequestInv'
  BY <1>1, <1>8 DEF malloc_reuse, malloc_window, malloc_null, mmap_window,
                    mmap_null, mmaps, vmm
<1>9. ASSUME NEW size \in Sizes, malloc_alloc(size)
      PROVE  RequestInv'
  <2>1. PICK w \in WindowsOf(Self) : mmap_alloc(Self, w, BLOCK_SIZE + size)
    BY <1>9 DEF malloc_alloc
  <2>2. /\ pages[w] = NULL /\ BLOCK_SIZE + size <= VMM_PAGE_SIZE
        /\ request' = [window |-> w, size |-> BLOCK_SIZE + size]
        /\ UNCHANGED <<stacks, pages>> /\ call'.pc = "search" /\ Booted
    BY <1>0, <1>9, <2>1
       DEF malloc_alloc, mmap_alloc, Serving, vmm_alloc_pages_from, Running, Calls
  <2>3. BLOCK_SIZE + size \in 0 .. VMM_PAGE_SIZE
        /\ (BLOCK_SIZE + size) - BLOCK_SIZE = size
    BY <2>2, BlockConstants
  <2>4. /\ request'.window = w /\ request'.size = BLOCK_SIZE + size
        /\ request' \in [window : Windows \cup {NULL}, size : 0 .. VMM_PAGE_SIZE]
    BY <2>2, <2>3, OwnWindows
  <2>5. /\ request'.window \in WindowsOf(Self) /\ pages'[request'.window] = NULL
        /\ request'.size - BLOCK_SIZE \in Sizes
    <3>1. pages'[w] = NULL
      BY <2>2
    <3>2. request'.size - BLOCK_SIZE = size
      BY <2>3, <2>4, Zenon
    <3> QED BY <2>4, <3>1, <3>2, Zenon
  <2>6. stacks' \in 0 .. StackRequests /\ Booted' /\ call'.pc = "search"
    BY <2>2 DEF RequestInv, Booted
  <2> QED BY <2>4, <2>5, <2>6 DEF RequestInv
<1>10. CASE malloc_allocated \/ malloc_failed
  BY <1>2, <1>10 DEF malloc_allocated, malloc_failed, mmap_allocated, mmap_failed,
                     VmmReturn, Idle, RequestInv
<1>11. ASSUME NEW b \in DOMAIN live,
              free_refused(b) \/ free_inner(b) \/ free_last(b)
       PROVE  RequestInv'
  <2>1. /\ call.pc = "idle" /\ call' = call /\ UNCHANGED <<stacks, request>>
    BY <1>11 DEF free_refused, free_inner, free_last, Running, syscall_munmap,
                 vmm_free_pages, mmaps, vmm
  <2> QED BY <1>2, <2>1 DEF RequestInv
<1> QED BY <1>3, <1>4, <1>5, <1>6, <1>7, <1>8, <1>9, <1>10, <1>11 DEF Next

\* Every step of the system keeps the blocks in order.
LEMMA NextBlockInv ==
  ASSUME MemInv, MemInv', RequestInv, BlockInv, [Next]_vars
  PROVE  BlockInv'
<1>1. CASE UNCHANGED vars
  BY <1>1, BlocksUnchanged DEF vars, mmaps
<1>2. CASE (VmmStep \/ kmalloc_frame) /\ UNCHANGED <<mmaps, heap>>
  BY <1>2, BlocksUnchanged DEF mmaps
<1>3. CASE (_sched_alloc_pages \/ stack_ready) /\ UNCHANGED heap
  BY <1>3, BlocksUnchanged DEF _sched_alloc_pages, stack_ready, mmaps
<1>4. ASSUME NEW size \in Sizes, malloc_reuse(size) PROVE BlockInv'
  BY <1>4, ReuseStep
<1>5. ASSUME NEW size \in Sizes, malloc_window(size) PROVE BlockInv'
  BY <1>5, WindowStep
<1>6. ASSUME NEW size \in Sizes, malloc_alloc(size) \/ malloc_null(size)
      PROVE  BlockInv'
  BY <1>6, BlocksUnchanged DEF malloc_alloc, malloc_null, mmap_alloc, mmap_null, mmaps
<1>7. CASE malloc_allocated
  BY <1>7, AllocatedStep
<1>8. CASE malloc_failed
  BY <1>8, BlocksUnchanged DEF malloc_failed, mmap_failed
<1>9. ASSUME NEW b \in DOMAIN live,
             free_refused(b) \/ free_inner(b) \/ free_last(b)
      PROVE  BlockInv'
  BY <1>9, FreeStep
<1> QED BY <1>1, <1>2, <1>3, <1>4, <1>5, <1>6, <1>7, <1>8, <1>9 DEF Next

\* At boot there is no block, and no window has a page.
LEMMA InitBlockInv == Init => RequestInv /\ BlockInv
<1> SUFFICES ASSUME Init PROVE RequestInv /\ BlockInv
  OBVIOUS
<1>1. /\ stacks = 0 /\ pages = [w \in Windows |-> NULL]
      /\ bytes_used = [w \in Windows |-> 0] /\ request = None
      /\ base_addr = NULL /\ last_mmap = 0 /\ block = <<>> /\ live = <<>>
  BY DEF Init, MmapInit
<1>2. DOMAIN block = {} /\ DOMAIN live = {}
  BY <1>1
<1>3. RequestInv
  <2>1. StackRequests \in Nat /\ StackRequests # 0
    BY MmapAssumption DEF StackRequests
  <2> QED BY <1>1, <2>1, BlockConstants DEF RequestInv, Booted, None
<1>4. Memory
  <2>1. block \in [DOMAIN block -> [size : Nat, free : BOOLEAN,
                                    next : Ptr, prev : Ptr]]
    BY <1>1
  <2> QED BY <1>1, <1>2, <2>1, BlockConstants DEF Memory
<1>5. Tiled
  BY <1>1, <1>2, OwnWindows DEF Tiled
<1>6. IsList(0, <<>>)
  <2>1. <<>> \in [1 .. 0 -> DOMAIN block]
    OBVIOUS
  <2> QED BY <1>1, <1>2, <2>1 DEF IsList
<1>7. Owned
  <2>1. live \in [DOMAIN live -> Sizes]
    BY <1>1
  <2> QED BY <1>2, <2>1 DEF Owned
<1> QED BY <1>3, <1>4, <1>5, <1>6, <1>7 DEF BlockInv, Listed

\* Whatever is allocated and freed, the heap of the process is in order.
LEMMA BlocksCorrect == Spec => [](MemInv /\ RequestInv /\ BlockInv)
<1>1. Init => MemInv /\ RequestInv /\ BlockInv
  BY InitMemInv, InitBlockInv
<1>2. MemInv /\ RequestInv /\ BlockInv /\ [Next]_vars
        => MemInv' /\ RequestInv' /\ BlockInv'
  BY NextMemInv, NextRequestInv, NextBlockInv
<1> QED BY <1>1, <1>2, PTL DEF Spec

(***************************************************************************)
(* The blocks of a window lie end to end and fill what bytes_used counts   *)
(* (expand_heap, split_block, free, syscall_munmap), for every size of a   *)
(* page, of a header and of a request and any number of windows.           *)
(***************************************************************************)
THEOREM WindowsStayTiled == Spec => []WindowsTiled
<1>1. MemInv /\ BlockInv => WindowsTiled
  <2> SUFFICES ASSUME MemInv, BlockInv, NEW w \in WindowsOf(Self), pages[w] # NULL
               PROVE  LET base == pages[w] * VMM_PAGE_SIZE
                          ends == {End(b) - base : b \in BlocksOf(w)}
                      IN  /\ BlocksOf(w) # {} /\ Max(ends) = bytes_used[w]
                          /\ \A b \in BlocksOf(w) : b = base \/ b - base \in ends
                          /\ \A b, c \in BlocksOf(w) : b < c => End(b) <= c
    BY DEF WindowsTiled
  <2> DEFINE base == pages[w] * VMM_PAGE_SIZE
             ends == {End(b) - base : b \in BlocksOf(w)}
  <2>1. BlocksOf(w) = {b \in DOMAIN block : Page(b) = pages[w]}
    BY DEF BlocksOf, Page
  <2>2. \A b \in BlocksOf(w) : End(b) \in Nat /\ b \in Nat
    BY <2>1, BlockPage DEF BlockInv
  <2>3. pages[w] \in Nat /\ bytes_used[w] \in Nat
    BY OwnWindows, Constants, BlockConstants DEF MemInv, Types, BlockInv, Memory
  <2>4. base \in Nat /\ Limit(w) = base + bytes_used[w]
    BY <2>3, BlockConstants DEF Limit
  <2> HIDE DEF base
  <2>5. PICK t \in BlocksOf(w) : End(t) = Limit(w)
    BY <2>1 DEF BlockInv, Tiled
  <2>6. \A b \in BlocksOf(w) : End(b) <= Limit(w)
    <3> TAKE b \in BlocksOf(w)
    <3>1. PICK v \in WindowsOf(Self) : pages[v] = Page(b) /\ End(b) <= Limit(v)
      BY <2>1 DEF BlockInv, Tiled
    <3>2. v = w
      BY <2>1, <3>1, OneWindow
    <3> QED BY <3>1, <3>2
  <2>7. bytes_used[w] \in ends /\ \A x \in ends : x \in Int /\ x <= bytes_used[w]
    BY <2>2, <2>3, <2>4, <2>5, <2>6
  <2>8. Max(ends) = bytes_used[w]
    <3> HIDE DEF ends
    <3>1. \E x \in ends : \A y \in ends : x >= y
      BY <2>3, <2>7
    <3>2. Max(ends) \in ends /\ \A y \in ends : Max(ends) >= y
      BY <3>1 DEF Max
    <3> QED BY <3>2, <2>3, <2>7
  <2>9. ASSUME NEW b \in BlocksOf(w) PROVE b = base \/ b - base \in ends
    <3>1. CASE b = Page(b) * VMM_PAGE_SIZE
      BY <3>1, <2>1 DEF base
    <3>2. CASE b # Page(b) * VMM_PAGE_SIZE
      <4>1. PICK c \in DOMAIN block : Page(c) = Page(b) /\ End(c) = b
        BY <3>2, <2>1 DEF BlockInv, Tiled
      <4> QED BY <4>1, <2>1
    <3> QED BY <3>1, <3>2
  <2>10. \A b, c \in BlocksOf(w) : b < c => End(b) <= c
    BY <2>1 DEF BlockInv, Tiled
  <2> QED BY <2>5, <2>8, <2>9, <2>10 DEF base
<1> QED BY <1>1, BlocksCorrect, PTL

(***************************************************************************)
(* A caller's block is on the list, not free, as large as was asked for,   *)
(* and inside a page that is mapped (malloc, free, syscall_munmap).        *)
(***************************************************************************)
THEOREM LiveStaysMapped == Spec => []LiveMapped
<1>1. MemInv /\ BlockInv => LiveMapped
  <2> SUFFICES ASSUME MemInv, BlockInv, NEW b \in DOMAIN live
               PROVE  /\ b \in Range(Chain)
                      /\ ~ block[b].free /\ block[b].size >= live[b]
                      /\ \E w \in WindowsOf(Self) : pages[w] = b \div VMM_PAGE_SIZE
                      /\ b \div VMM_PAGE_SIZE \in present
                      /\ End(b) <= (b \div VMM_PAGE_SIZE + 1) * VMM_PAGE_SIZE
    BY DEF LiveMapped
  <2>1. b \in DOMAIN block /\ ~ block[b].free /\ block[b].size >= live[b]
    BY DEF BlockInv, Owned
  <2>2. b \in Range(Chain)
    <3>1. PICK n, q : IsList(n, q)
      BY DEF BlockInv, Listed
    <3>2. PICK i \in 1 .. n : q[i] = b
      BY <2>1, <3>1 DEF IsList
    <3>3. /\ n \in Nat /\ Chain \in [0 .. n -> Ptr]
          /\ \A j \in 0 .. n - 1 : Chain[j] = q[j + 1]
      BY <3>1, ChainIsList DEF BlockInv
    <3>4. i - 1 \in 0 .. n - 1 /\ i - 1 + 1 = i /\ i - 1 \in 0 .. n
      BY <3>3
    <3>5. Chain[i - 1] = b
      BY <3>2, <3>3, <3>4
    <3> QED BY <3>3, <3>4, <3>5 DEF Range
  <2>3. PICK w \in WindowsOf(Self) : pages[w] = Page(b)
    BY <2>1 DEF BlockInv, Tiled
  <2>4. Page(b) \in Nat /\ End(b) <= Page(b) * VMM_PAGE_SIZE + VMM_PAGE_SIZE
    BY <2>1, BlockPage DEF BlockInv
  <2>5. Page(b) \in present
    BY <2>3, <2>4, BlockConstants, OwnWindows DEF MemInv, WindowInv
  <2>6. (Page(b) + 1) * VMM_PAGE_SIZE = Page(b) * VMM_PAGE_SIZE + VMM_PAGE_SIZE
    BY <2>4, BlockConstants
  <2> QED BY <2>1, <2>2, <2>3, <2>4, <2>5, <2>6 DEF Page
<1> QED BY <1>1, BlocksCorrect, PTL

-----------------------------------------------------------------------------
\* The entries, the bitmap, and a run of pages that ends where entries do.
TableInv ==
  /\ frame \in [Pages -> 0 .. ONE_GB_OF_PAGES \cup {BAD}]
  /\ cur_bitmap \subseteq Flags
  /\ fault \in BOOLEAN
  /\ call.pc \in {"gmem", "map"} => call.first + call.count <= Top + MaxPages

\* n * e up to x, for n up to x \div e.
LEMMA Products ==
  ASSUME NEW e \in Nat \ {0}, NEW x \in Nat, NEW n \in Nat, n <= x \div e
  PROVE  n * e \in Nat /\ n * e <= x /\ (n * e) \div e = n
<1>1. ASSUME NEW y \in Nat
      PROVE  \E d \in Nat, m \in 0 .. e - 1, de \in Nat :
               d = y \div e /\ de = d * e /\ y = de + m
  <2>1. /\ y % e \in 0 .. e - 1 /\ y \div e \in Nat
        /\ y = e * (y \div e) + (y % e)
    OBVIOUS
  <2>2. PICK d \in Nat, m \in 0 .. e - 1 : d = y \div e /\ y = e * d + m
    BY <2>1
  <2>3. d * e \in Nat /\ e * d = d * e
    OBVIOUS
  <2> QED BY <2>2, <2>3
<1>2. ASSUME NEW a \in Nat, NEW b \in Nat, a < b
      PROVE  a * e + e <= b * e
  <2>1. PICK d \in Nat : b = a + 1 + d
    <3>1. b - a - 1 \in Nat /\ b = a + 1 + (b - a - 1)
      BY <1>2
    <3> QED BY <3>1
  <2>2. b * e = a * e + e + d * e
    BY <2>1
  <2>3. d * e \in Nat /\ a * e \in Nat
    OBVIOUS
  <2> QED BY <2>2, <2>3
<1>3. PICK ne \in Nat : ne = n * e
  OBVIOUS
<1>4. ne <= x
  <2>1. PICK d \in Nat, m \in 0 .. e - 1, de \in Nat :
          d = x \div e /\ de = d * e /\ x = de + m
    BY <1>1
  <2>2. n < d => ne + e <= de
    BY <1>2, <1>3, <2>1
  <2>3. n = d => ne = de
    BY <1>3, <2>1
  <2> QED BY <2>1, <2>2, <2>3
<1>5. ne \div e = n
  <2>1. PICK d \in Nat, m \in 0 .. e - 1, de \in Nat :
          d = ne \div e /\ de = d * e /\ ne = de + m
    BY <1>1
  <2>2. (n < d => ne + e <= de) /\ (d < n => de + e <= ne)
    BY <1>2, <1>3, <2>1
  <2>3. ~ (n < d) /\ ~ (d < n)
    BY <2>1, <2>2
  <2> QED BY <2>1, <2>3
<1> QED BY <1>3, <1>4, <1>5

\* The tables up to that of a page have flags.
LEMMA FlagsBelow ==
  ASSUME NEW x \in Pages, NEW pt \in Nat, pt <= PT(x)
  PROVE  Flag(pt) \in Flags
<1>1. x \in Nat /\ ENTRIES_PER_TABLE \in Nat \ {0}
  BY Constants, VmmAssumption
<1>2. PICK p \in Nat : p <= x /\ PT(p) = pt
  BY <1>1, Products DEF PT
<1>3. p \in Pages
  BY <1>1, <1>2, Constants
<1> QED BY <1>2, <1>3 DEF Flags

\* At boot no page has an entry, and no flag is set.
LEMMA InitTableInv == Init => TableInv
<1> SUFFICES ASSUME Init PROVE TableInv
  OBVIOUS
<1>1. VmmInit
  BY DEF Init, MmapInit
<1>2. call.pc = "identity"
  BY <1>1 DEF VmmInit, Idle
<1>3. frame \in [Pages -> 0 .. ONE_GB_OF_PAGES \cup {BAD}]
  BY <1>1, Constants DEF VmmInit
<1> QED BY <1>1, <1>2, <1>3 DEF VmmInit, TableInv

\* The page of the call is entered.
LEMMA EntryTyped ==
  ASSUME TableInv, NEW p, NEW f \in Frames \cup {0, BAD} \cup 0 .. ONE_GB_OF_PAGES,
         SetEntry(p, f)
  PROVE  frame' \in [Pages -> 0 .. ONE_GB_OF_PAGES \cup {BAD}]
<1>1. f \in 0 .. ONE_GB_OF_PAGES \cup {BAD}
  BY VmmAssumption DEF Frames
<1> QED BY <1>1 DEF TableInv, SetEntry

\* The steps of vmm_initialize and of an allocation.
LEMMA StepTableInv ==
  ASSUME MemInv, TableInv, VmmStep
  PROVE  TableInv'
<1>0. call \in Calls
  BY DEF MemInv, Types
<1>1. CASE identity_table \/ map_page_table
  <2>1. UNCHANGED <<frame, cur_bitmap, call>> /\ fault' = (gmem = BAD)
    BY <1>1 DEF identity_table, map_page_table, AddTable
  <2> QED BY <2>1 DEF TableInv
<1>2. CASE identity_entry
  <2>1. SetEntry(call.page, call.page) /\ UNCHANGED <<cur_bitmap, fault>>
        /\ call.page \in 0 .. ONE_GB_OF_PAGES /\ call'.pc = "identity"
    BY <1>0, <1>2, Constants DEF identity_entry, Calls
  <2>2. frame' \in [Pages -> 0 .. ONE_GB_OF_PAGES \cup {BAD}]
    BY <2>1, EntryTyped
  <2> QED BY <2>1, <2>2 DEF TableInv
<1>3. CASE identity_done
  <2>1. UNCHANGED frame /\ fault' = (gmem = BAD) /\ call'.pc = "idle"
    BY <1>3 DEF identity_done, Idle
  <2>2. Marked \subseteq Flags
    <3> SUFFICES ASSUME NEW pt \in 0 .. ONE_GB_OF_PAGES \div ENTRIES_PER_TABLE - 1
                 PROVE  Flag(pt) \in Flags
      BY DEF Marked
    <3>1. ENTRIES_PER_TABLE \in Nat \ {0} /\ ONE_GB_OF_PAGES \in Nat
      BY VmmAssumption
    <3>2. PT(ONE_GB_OF_PAGES) \in Nat
          /\ PT(ONE_GB_OF_PAGES) = ONE_GB_OF_PAGES \div ENTRIES_PER_TABLE
      BY <3>1 DEF PT
    <3>3. pt \in Nat /\ pt <= PT(ONE_GB_OF_PAGES)
      BY <3>2
    <3>4. ONE_GB_OF_PAGES \in Pages
      BY Constants
    <3> QED BY <3>3, <3>4, FlagsBelow
  <2>3. cur_bitmap' \subseteq Flags
    BY <1>3, <2>2 DEF identity_done
  <2> QED BY <2>1, <2>3 DEF TableInv
<1>4. CASE search
  <2>1. PICK p \in Candidates(call.page) : \E q \in p .. p + call.count - 1 :
          call' = After(p, q)
    BY <1>4 DEF search
  <2>2. PICK q : call' = After(p, q)
    BY <2>1
  <2>3. p \in Nat /\ p <= Top
    BY <1>0, Constants DEF Candidates, Calls
  <2>4. call'.count = call.count /\ (call'.pc = "gmem" => call'.first = p)
        /\ call'.pc # "map"
    BY <1>0, <1>4, <2>2 DEF After, Calls, search
  <2>5. call'.pc = "gmem" => call'.first + call'.count <= Top + MaxPages
    BY <1>0, <2>3, <2>4, Constants DEF Calls
  <2> QED BY <1>4, <2>4, <2>5 DEF search, TableInv
<1>5. CASE search_failed
  BY <1>0, <1>5 DEF search_failed, Calls, TableInv
<1>6. CASE alloc_page
  BY <1>0, <1>6 DEF alloc_page, Calls, TableInv
<1>7. CASE map_page_entry
  <2>1. /\ SetEntry(call.page, call.got) /\ UNCHANGED fault /\ call.pc = "map"
        /\ call.got \in Frames \cup {0, BAD}
        /\ call'.first = call.first /\ call'.count = call.count
        /\ \/ UNCHANGED cur_bitmap
           \/ cur_bitmap' =
                update_bitmap(call.first, call.first + call.count, present')
    BY <1>0, <1>7 DEF map_page_entry, Calls
  <2>2. frame' \in [Pages -> 0 .. ONE_GB_OF_PAGES \cup {BAD}]
    BY <2>1, EntryTyped
  <2>3. call.first + call.count \in Pages
    BY <1>0, <2>1, Constants DEF Calls, TableInv
  <2>4. \A pt \in PT(call.first) .. PT(call.first + call.count) : Flag(pt) \in Flags
    <3> TAKE pt \in PT(call.first) .. PT(call.first + call.count)
    <3>1. PT(call.first) \in Nat /\ PT(call.first + call.count) \in Nat
      <4>1. call.first \in Nat /\ call.first + call.count \in Nat
        BY <1>0, <2>3, Constants DEF Calls
      <4>2. ENTRIES_PER_TABLE \in Nat \ {0}
        BY VmmAssumption
      <4>3. \A x \in Nat : PT(x) \in Nat
        BY <4>2 DEF PT
      <4> QED BY <4>1, <4>3
    <3>2. pt \in Nat /\ pt <= PT(call.first + call.count)
      BY <3>1
    <3> QED BY <2>3, <3>2, FlagsBelow
  <2>5. cur_bitmap' \subseteq Flags
    <3> HIDE DEF Flags, PT, Flag
    <3> QED BY <2>1, <2>4 DEF update_bitmap, TableInv
  <2> QED BY <2>1, <2>2, <2>5 DEF TableInv
<1> QED BY <1>1, <1>2, <1>3, <1>4, <1>5, <1>6, <1>7 DEF VmmStep

\* Every step of the system keeps the entries and the flags in range.
LEMMA NextTableInv ==
  ASSUME MemInv, TableInv, [Next]_vars
  PROVE  TableInv'
<1>0. call \in Calls
  BY DEF MemInv, Types
<1>1. ASSUME UNCHANGED <<frame, cur_bitmap>>, fault' \in BOOLEAN,
             call' = call \/ call'.pc \in {"idle", "search"}
      PROVE  TableInv'
  BY <1>1 DEF TableInv
<1>2. CASE UNCHANGED vars
  BY <1>1, <1>2 DEF vars, vmm, TableInv
<1>3. CASE VmmStep
  BY <1>3, StepTableInv
<1>4. CASE kmalloc_frame
  BY <1>1, <1>4 DEF kmalloc_frame
<1>5. CASE _sched_alloc_pages \/ stack_ready
  <2>1. CASE _sched_alloc_pages
    <3>1. UNCHANGED <<frame, cur_bitmap, fault>> /\ call'.pc = "search"
      BY <1>0, <2>1 DEF _sched_alloc_pages, vmm_alloc_pages_from, Calls
    <3> QED BY <1>1, <3>1 DEF TableInv
  <2>2. CASE stack_ready
    <3>1. UNCHANGED <<frame, cur_bitmap>> /\ call'.pc = "idle"
      BY <2>2 DEF stack_ready, VmmReturn, Idle
    <3>2. fault' \in BOOLEAN
      BY <2>2, Zenon DEF stack_ready
    <3> QED BY <1>1, <3>1, <3>2
  <2> QED BY <1>5, <2>1, <2>2
<1>6. ASSUME NEW size \in Sizes,
             malloc_reuse(size) \/ malloc_window(size) \/ malloc_null(size)
      PROVE  TableInv'
  BY <1>1, <1>6 DEF malloc_reuse, malloc_window, malloc_null, mmap_window,
                    mmap_null, vmm, TableInv
<1>7. ASSUME NEW size \in Sizes, malloc_alloc(size)
      PROVE  TableInv'
  BY <1>0, <1>1, <1>7 DEF malloc_alloc, mmap_alloc, vmm_alloc_pages_from, Calls, TableInv
<1>8. CASE malloc_allocated \/ malloc_failed
  <2>1. UNCHANGED <<frame, cur_bitmap>> /\ call'.pc = "idle"
    BY <1>8 DEF malloc_allocated, malloc_failed, mmap_allocated, mmap_failed,
                VmmReturn, Idle
  <2>2. fault' = (frame[call.first] = BAD) \/ fault' = fault
    BY <1>8, Zenon DEF malloc_allocated, malloc_failed, mmap_failed
  <2>3. fault' \in BOOLEAN
    BY <2>2 DEF TableInv
  <2> QED BY <1>1, <2>1, <2>3
<1>9. ASSUME NEW b \in DOMAIN live,
             free_refused(b) \/ free_inner(b) \/ free_last(b)
      PROVE  TableInv'
  <2>1. CASE free_refused(b) \/ free_inner(b)
    BY <1>1, <2>1 DEF free_refused, free_inner, vmm, TableInv
  <2>2. CASE free_last(b)
    <3>1. \/ UNCHANGED vmm
          \/ \E w : vmm_free_pages(pages[w])
      BY <2>2 DEF free_last, syscall_munmap
    <3>2. \/ UNCHANGED vmm
          \/ /\ UNCHANGED <<frame, call>> /\ fault' \in BOOLEAN
             /\ cur_bitmap' \subseteq cur_bitmap
      BY <3>1 DEF vmm_free_pages
    <3> QED BY <3>2 DEF vmm, TableInv
  <2> QED BY <1>9, <2>1, <2>2
<1> QED BY <1>2, <1>3, <1>4, <1>5, <1>6, <1>7, <1>8, <1>9 DEF Next

(***************************************************************************)
(* Every variable of the page tables, the windows and the heap keeps its   *)
(* type: update_bitmap flags no table outside the bitmap, map_page writes  *)
(* no entry but a frame or the mark of a failed gmem, and bytes_used never *)
(* leaves 0 .. VMM_PAGE_SIZE, though syscall_munmap subtracts unsigned.    *)
(***************************************************************************)
THEOREM MemoryTyped == Spec => []TypeOK
<1>1. MemInv /\ RequestInv /\ BlockInv /\ TableInv => TypeOK
  <2> SUFFICES ASSUME MemInv, RequestInv, BlockInv, TableInv PROVE TypeOK
    OBVIOUS
  <2>1. VmmTypeOK
    BY DEF VmmTypeOK, MemInv, Types, Calls, TableInv
  <2>2. MmapTypeOK
    BY <2>1 DEF MmapTypeOK, MemInv, Types, RequestInv, BlockInv, Memory
  <2>3. PICK n, q : IsList(n, q)
    BY DEF BlockInv, Listed
  <2>4. DOMAIN block \subseteq Int
    BY DEF BlockInv, Memory
  <2>5. base_addr \in Int \cup {NULL}
    <3>1. n # 0 => q[1] \in DOMAIN block
      BY <2>3 DEF IsList
    <3> QED BY <2>3, <2>4, <3>1 DEF IsList
  <2>6. \A b \in DOMAIN block :
          block[b] \in [size : Nat, free : BOOLEAN,
                        next : Int \cup {NULL}, prev : Int \cup {NULL}]
    <3>1. Ptr \subseteq Int \cup {NULL}
      BY <2>4 DEF Ptr
    <3> QED BY <3>1 DEF BlockInv, Memory
  <2>7. last_mmap \in Int /\ \A b \in DOMAIN live : live[b] \in Sizes
    BY DEF BlockInv, Memory, Owned
  <2> QED BY <2>2, <2>5, <2>6, <2>7 DEF TypeOK
<1>2. Init => TableInv
  BY InitTableInv
<1>3. MemInv /\ TableInv /\ [Next]_vars => TableInv'
  BY NextTableInv
<1> QED BY <1>1, <1>2, <1>3, BlocksCorrect, PTL DEF Spec

-----------------------------------------------------------------------------
\* The first page behind the stacks that were searched from page 0 on, when
\* k stacks have been allocated.
Frontier(k) ==
  ONE_GB_OF_PAGES +
    IF k = 0 THEN 0 ELSE k \div 2 + ((k - 1) \div 2) * STACK_PAGES

\* The first page of the k-th stack.
Place(k) == IF k = 0 THEN PROC_BASE_STACK ELSE Frontier(k)

\* The pages in use before the k-th stack.
Before(k) ==
  0 .. Frontier(k) - 1 \cup IF k = 0 THEN {} ELSE {PROC_BASE_STACK}

\* The flags at which the next searches arrive are not set.
Open(k) ==
  /\ Flag(PT(Frontier(k))) \notin cur_bitmap
  /\ k = 0 => Flag(PT(PROC_BASE_STACK)) \notin cur_bitmap

(***************************************************************************)
(* The kernel boots: each stack is found at the frontier, which it moves   *)
(* on; afterwards only single pages are asked for, and no hole is too      *)
(* small for one.                                                          *)
(***************************************************************************)
BootInv ==
  /\ call.pc # "loop"
  /\ call.pc = "identity" => stacks = 0
  /\ Booted /\ call.pc = "search" => call.count = 1
  /\ stacks < StackRequests =>
       /\ call.pc # "failed"
       /\ call.pc \in {"idle", "search"} =>
            present = Before(stacks) /\ Open(stacks)
       /\ call.pc = "search" =>
            /\ call.page = StackRequest(stacks).from
            /\ call.count = StackRequest(stacks).count
       /\ call.pc \in {"gmem", "map"} =>
            /\ call.first = Place(stacks)
            /\ call.count = StackRequest(stacks).count
            /\ call.first <= call.page
            /\ call.page <= call.first + call.count - 1
            /\ present = Before(stacks) \cup
                           call.page + 1 .. call.first + call.count - 1
            /\ Open(stacks)
       /\ call.pc = "done" =>
            /\ present = Before(stacks + 1)
            /\ stacks + 1 < StackRequests => Open(stacks + 1)

\* The constants of the layout.
LEMMA BootConstants ==
  /\ ENTRIES_PER_TABLE \in Nat \ {0}
  /\ ONE_GB_OF_PAGES \in Nat /\ PROC_BASE_STACK \in Nat
  /\ STACK_PAGES \in Nat \ {0} /\ Spawns \in Nat \ {0}
  /\ STACK_PAGES <= MaxPages /\ MaxPages \in Nat
  /\ StackRequests \in Nat \ {0} /\ StackRequests = 2 + 2 * Spawns
  /\ ONE_GB_OF_PAGES < PROC_BASE_STACK
<1>1. /\ ENTRIES_PER_TABLE \in Nat \ {0}
      /\ ONE_GB_OF_PAGES \in Nat /\ PROC_BASE_STACK \in Nat
      /\ STACK_PAGES \in Nat \ {0} /\ Spawns \in Nat \ {0}
      /\ STACK_PAGES <= MaxPages /\ MaxPages \in Nat
  BY VmmAssumption, MmapAssumption
<1>2. StackRequests \in Nat \ {0} /\ StackRequests = 2 + 2 * Spawns
  BY <1>1 DEF StackRequests
<1>3. PICK n \in Nat : n = Spawns * (STACK_PAGES + 1)
  BY <1>1
<1>4. ONE_GB_OF_PAGES + 1 + n <= PROC_BASE_STACK
  BY <1>3, LayoutAssumption
<1>5. ONE_GB_OF_PAGES < PROC_BASE_STACK
  BY <1>1, <1>4
<1> QED BY <1>1, <1>2, <1>5

\* The k-th stack moves the frontier on by its pages, up to the idle stack.
LEMMA Frontiers ==
  ASSUME NEW k \in Nat, 1 <= k, k < StackRequests
  PROVE  /\ StackRequest(k).from = 0
         /\ StackRequest(k).count \in 1 .. MaxPages
         /\ Frontier(k) \in Nat /\ ONE_GB_OF_PAGES <= Frontier(k)
         /\ Frontier(k + 1) = Frontier(k) + StackRequest(k).count
         /\ Frontier(k + 1) <= PROC_BASE_STACK
         /\ k + 1 < StackRequests => Frontier(k + 1) < PROC_BASE_STACK
<1>1. PICK h \in Nat : k = 2 * h \/ k = 2 * h + 1
  <2>1. k \div 2 \in Nat /\ (k = 2 * (k \div 2) \/ k = 2 * (k \div 2) + 1)
    OBVIOUS
  <2> QED BY <2>1
<1>2. h <= Spawns /\ (k = 2 * h => 1 <= h)
  BY <1>1, BootConstants
<1>3. PICK hs \in Nat : hs = h * STACK_PAGES
  BY BootConstants
<1>4. PICK d \in Nat : Spawns = h + d
  <2>1. Spawns - h \in Nat /\ Spawns = h + (Spawns - h)
    BY <1>2, BootConstants
  <2> QED BY <2>1
<1>5. PICK ds \in Nat : ds = d * STACK_PAGES
  BY BootConstants
<1>6. Spawns * (STACK_PAGES + 1) = hs + ds + h + d
  BY <1>3, <1>4, <1>5, BootConstants
<1>7. ONE_GB_OF_PAGES + 1 + hs + ds + h + d <= PROC_BASE_STACK
  BY <1>6, LayoutAssumption, BootConstants
<1>8. CASE k = 2 * h
  <2>1. k \div 2 = h /\ (k - 1) \div 2 = h - 1 /\ (k + 1) \div 2 = h
        /\ (k + 1) - 1 = k /\ k % 2 = 0 /\ k > 1 /\ k # 0 /\ k + 1 # 0
    BY <1>2, <1>8
  <2>2. (h - 1) * STACK_PAGES = hs - STACK_PAGES /\ STACK_PAGES <= hs
    <3>1. PICK j \in Nat : h = j + 1
      <4>1. h - 1 \in Nat /\ h = (h - 1) + 1
        BY <1>2, <1>8
      <4> QED BY <4>1
    <3>2. j * STACK_PAGES \in Nat /\ hs = j * STACK_PAGES + STACK_PAGES
      BY <1>3, <3>1, BootConstants
    <3>3. h - 1 = j
      BY <3>1
    <3> QED BY <3>2, <3>3, BootConstants
  <2>3. Frontier(k) = ONE_GB_OF_PAGES + (h + (hs - STACK_PAGES))
    BY <2>1, <2>2 DEF Frontier
  <2>4. Frontier(k + 1) = ONE_GB_OF_PAGES + (h + hs)
    BY <1>3, <2>1 DEF Frontier
  <2>5. StackRequest(k).from = 0 /\ StackRequest(k).count = STACK_PAGES
    BY <2>1 DEF StackRequest
  <2> HIDE DEF Frontier, StackRequest
  <2> QED BY <1>7, <2>2, <2>3, <2>4, <2>5, BootConstants
<1>9. CASE k = 2 * h + 1
  <2>1. k \div 2 = h /\ (k - 1) \div 2 = h /\ (k + 1) \div 2 = h + 1
        /\ (k + 1) - 1 = k /\ k % 2 # 0 /\ k # 0 /\ k + 1 # 0
    BY <1>9
  <2>2. Frontier(k) = ONE_GB_OF_PAGES + (h + hs)
    BY <1>3, <2>1 DEF Frontier
  <2>3. Frontier(k + 1) = ONE_GB_OF_PAGES + (h + 1 + hs)
    BY <1>3, <2>1 DEF Frontier
  <2>4. StackRequest(k).from = 0 /\ StackRequest(k).count = 1
    BY <2>1 DEF StackRequest
  <2>5. k + 1 < StackRequests => 1 <= d
    BY <1>4, <1>9, BootConstants
  <2>6. 1 <= MaxPages
    BY Constants
  <2> HIDE DEF Frontier, StackRequest
  <2> QED BY <1>7, <2>2, <2>3, <2>4, <2>5, <2>6, BootConstants
<1> QED BY <1>1, <1>8, <1>9

\* The first stack lies apart from the frontier and leaves it where it is.
LEMMA FirstStack ==
  /\ Frontier(0) = ONE_GB_OF_PAGES /\ Frontier(1) = ONE_GB_OF_PAGES
  /\ StackRequest(0).from = PROC_BASE_STACK /\ StackRequest(0).count = 1
  /\ Place(0) = PROC_BASE_STACK
<1>1. 1 \div 2 = 0 /\ (1 - 1) \div 2 = 0
  OBVIOUS
<1>2. 0 * STACK_PAGES = 0
  BY BootConstants
<1>3. Frontier(0) = ONE_GB_OF_PAGES + 0 /\ Frontier(1) = ONE_GB_OF_PAGES + (0 + 0)
  BY <1>1, <1>2 DEF Frontier
<1>4. Frontier(0) = ONE_GB_OF_PAGES /\ Frontier(1) = ONE_GB_OF_PAGES
  BY <1>3, BootConstants
<1> QED BY <1>4 DEF StackRequest, Place

\* A free page makes its table incomplete.
LEMMA Incomplete ==
  ASSUME NEW x \in Nat, NEW S, x \notin S
  PROVE  is_pt_incomplete(PT(x), S)
<1> DEFINE e == ENTRIES_PER_TABLE
<1>1. e \in Nat \ {0}
  BY BootConstants
<1>2. /\ x % e \in 0 .. e - 1 /\ x \div e \in Nat
      /\ x = e * (x \div e) + (x % e)
  BY <1>1
<1>3. PICK d \in Nat, m \in 0 .. e - 1 : d = x \div e /\ x = e * d + m
  BY <1>2
<1>4. PICK de \in Nat : de = d * e
  BY <1>1
<1>5. e * d = de /\ (d + 1) * e = de + e
  BY <1>1, <1>4
<1>6. x \in de .. (de + e) - 1
  BY <1>1, <1>3, <1>5
<1>7. x \in d * e .. (d + 1) * e - 1
  BY <1>4, <1>5, <1>6
<1>8. PT(x) = d
  BY <1>3 DEF PT
<1> QED BY <1>7, <1>8 DEF is_pt_incomplete

-----------------------------------------------------------------------------
\* At boot, nothing is mapped.
LEMMA InitBootInv == Init => BootInv
<1> SUFFICES ASSUME Init PROVE BootInv
  OBVIOUS
<1>1. stacks = 0 /\ call.pc = "identity"
  BY DEF Init, MmapInit, VmmInit, Idle
<1> QED BY <1>1 DEF BootInv

\* The identity mapping is complete; both places in the bitmap are clean.
LEMMA IdentityBootInv ==
  ASSUME MemInv, BootInv, identity_done, UNCHANGED stacks
  PROVE  BootInv'
<1>1. /\ call.pc = "identity" /\ call.page = ONE_GB_OF_PAGES
      /\ call'.pc = "idle" /\ UNCHANGED present
  BY DEF identity_done, Idle
<1>2. stacks = 0 /\ stacks' = 0 /\ present' = 0 .. ONE_GB_OF_PAGES - 1
  BY <1>1 DEF BootInv, MemInv, CallInv
<1>3. present' = Before(0)
  BY <1>2, FirstStack DEF Before
<1>4. \A f \in Cleaned \ Marked : f \notin cur_bitmap'
  BY DEF identity_done
<1>5. /\ Flag(PT(Frontier(0))) \in Cleaned \ Marked
      /\ Flag(PT(PROC_BASE_STACK)) \in Cleaned \ Marked
  BY LayoutAssumption, FirstStack
<1>6. Flag(PT(Frontier(0))) \notin cur_bitmap'
      /\ Flag(PT(PROC_BASE_STACK)) \notin cur_bitmap'
  BY <1>4, <1>5
<1>7. stacks' # StackRequests
  BY <1>2, BootConstants
<1> HIDE DEF Before, Frontier, StackRequest, Flag, PT
<1> QED BY <1>1, <1>2, <1>3, <1>6, <1>7 DEF BootInv, Booted, Open

\* While the kernel boots, a stack is found at its place.
LEMMA SearchBoots ==
  ASSUME MemInv, BootInv, stacks \in Nat, stacks < StackRequests,
         call.pc = "search"
  PROVE  /\ Place(stacks) \in Nat /\ StackRequest(stacks).count \in Nat \ {0}
         /\ call.count = StackRequest(stacks).count
         /\ Candidate(Place(stacks))
         /\ \A q \in Place(stacks) .. Place(stacks) + call.count - 1 :
              q \notin present
         /\ present = Before(stacks) /\ Open(stacks)
<1> DEFINE p == Place(stacks)
           n == StackRequest(stacks).count
<1>1. /\ present = Before(stacks) /\ Open(stacks)
      /\ call.page = StackRequest(stacks).from /\ call.count = n
  BY DEF BootInv
<1>2. Top \in Nat /\ PROC_BASE_STACK < Top
  BY LayoutAssumption, Constants
<1>3. CASE stacks = 0
  <2>1. p = PROC_BASE_STACK /\ n = 1 /\ call.page = PROC_BASE_STACK
        /\ present = 0 .. ONE_GB_OF_PAGES - 1
    BY <1>1, <1>3, FirstStack DEF Before
  <2>2. ~ pt_is_complete(PT(PROC_BASE_STACK))
    BY <1>1, <1>3 DEF Open, pt_is_complete
  <2>3. p \in Nat /\ p \notin present
    BY <2>1, BootConstants
  <2>4. p \in Candidates(call.page)
    BY <1>2, <2>1, <2>2, <2>3, BootConstants DEF Candidates
  <2>5. \A q \in Candidates(call.page) : p <= q
    BY <1>2, <2>1, BootConstants DEF Candidates
  <2>6. \A q \in p .. p + n - 1 : q \notin present
    BY <2>1, <2>3
  <2> HIDE DEF p, n
  <2> QED BY <1>1, <2>1, <2>3, <2>4, <2>5, <2>6 DEF Candidate, p, n
<1>4. CASE stacks # 0
  <2>1. 1 <= stacks
    BY <1>4
  <2>2. p = Frontier(stacks)
    BY <1>4 DEF Place
  <2>3. /\ call.page = 0 /\ n \in 1 .. MaxPages
        /\ p \in Nat /\ p + n <= PROC_BASE_STACK
    <3>1. /\ StackRequest(stacks).from = 0
          /\ StackRequest(stacks).count \in 1 .. MaxPages
          /\ Frontier(stacks) \in Nat
          /\ Frontier(stacks + 1) = Frontier(stacks) + StackRequest(stacks).count
          /\ Frontier(stacks + 1) <= PROC_BASE_STACK
      BY <2>1, Frontiers
    <3> QED BY <1>1, <2>2, <3>1
  <2>4. present = 0 .. p - 1 \cup {PROC_BASE_STACK}
    BY <1>1, <1>4, <2>2 DEF Before
  <2>5. ~ pt_is_complete(PT(p))
    BY <1>1, <2>2 DEF Open, pt_is_complete
  <2> HIDE DEF p, n
  <2>6. n \in Nat \ {0}
    BY <2>3, BootConstants
  <2>7. \A q \in p .. p + n - 1 : q \notin present
    BY <2>3, <2>4, <2>6, BootConstants
  <2>8. p \notin present /\ p < Top
    BY <1>2, <2>3, <2>4, <2>6, BootConstants
  <2>9. p \in Candidates(call.page)
    BY <1>2, <2>3, <2>5, <2>8 DEF Candidates
  <2>10. \A q \in Candidates(call.page) : p <= q
    BY <1>2, <2>3, <2>4 DEF Candidates
  <2> QED BY <1>1, <2>3, <2>6, <2>7, <2>9, <2>10 DEF Candidate, p, n
<1> QED BY <1>3, <1>4

\* The search for a stack succeeds at once; that for a single page never
\* meets a hole that is too small.
LEMMA SearchBootInv ==
  ASSUME MemInv, RequestInv, BootInv, search \/ search_failed, UNCHANGED stacks
  PROVE  BootInv'
<1>0. /\ call \in Calls /\ call.pc = "search" /\ UNCHANGED <<present, cur_bitmap>>
      /\ stacks \in Nat /\ stacks <= StackRequests
  BY BootConstants DEF MemInv, Types, RequestInv, search, search_failed
<1>1. CASE search_failed
  <2>1. call'.pc = "failed"
    BY <1>0, <1>1 DEF search_failed, Calls
  <2>2. ~ (stacks < StackRequests)
    <3> SUFFICES ASSUME stacks < StackRequests PROVE FALSE
      OBVIOUS
    <3>1. Candidate(Place(stacks))
      BY <1>0, SearchBoots
    <3> QED BY <1>1, <3>1 DEF Candidate, search_failed
  <2> QED BY <2>1, <2>2 DEF BootInv
<1>2. CASE search
  <2>1. PICK p, q : /\ p \in Candidates(call.page)
                    /\ q \in p .. p + call.count - 1
                    /\ Candidate(p) /\ FreeRun(p, q) /\ call' = After(p, q)
    BY <1>2 DEF search
  <2>2. p \in Nat /\ call.count \in Nat
    BY <1>0, <2>1, Constants DEF Candidates, Calls
  <2>3. CASE stacks = StackRequests
    <3>1. call.count = 1
      BY <1>0, <2>3 DEF BootInv, Booted
    <3>2. q = p + call.count - 1
      BY <2>1, <2>2, <3>1
    <3>3. call'.pc = "gmem"
      BY <1>0, <2>1, <3>2 DEF After, Calls
    <3>4. ~ (stacks < StackRequests)
      BY <1>0, <2>3
    <3> QED BY <3>3, <3>4 DEF BootInv
  <2>4. CASE stacks < StackRequests
    <3> DEFINE r == Place(stacks)
               n == StackRequest(stacks).count
    <3>1. /\ r \in Nat /\ n \in Nat \ {0} /\ call.count = n
          /\ Candidate(r)
          /\ \A x \in r .. r + n - 1 : x \notin present
          /\ present = Before(stacks) /\ Open(stacks)
      BY <1>0, <2>4, SearchBoots
    <3> HIDE DEF r, n
    <3>2. p = r
      <4>1. p <= r /\ r <= p
        BY <2>1, <3>1 DEF Candidate
      <4> QED BY <2>2, <3>1, <4>1
    <3>3. q = r + n - 1
      <4>1. q \in r .. r + n - 1
        BY <2>1, <3>1, <3>2
      <4>2. q # r + n - 1 => q + 1 \in r .. r + n - 1
        BY <3>1, <4>1
      <4>3. q = r + n - 1 \/ q + 1 \in present
        BY <2>1, <3>1, <3>2 DEF FreeRun
      <4> QED BY <3>1, <4>2, <4>3
    <3>4. call' = [call EXCEPT !.pc = "gmem", !.first = r, !.page = q]
      BY <2>1, <3>1, <3>2, <3>3 DEF After
    <3>5. /\ call'.pc = "gmem" /\ call'.first = r /\ call'.page = r + n - 1
          /\ call'.count = n
      BY <1>0, <3>1, <3>3, <3>4 DEF Calls
    <3>6. (r + n - 1) + 1 .. r + n - 1 = {}
      BY <3>1
    <3>7. present' = Before(stacks) \cup call'.page + 1 .. call'.first + call'.count - 1
      BY <1>0, <3>1, <3>5, <3>6
    <3>8. call'.first <= call'.page /\ call'.page <= call'.first + call'.count - 1
      BY <3>1, <3>5
    <3>9. Open(stacks)'
      BY <1>0, <3>1 DEF Open
    <3>10. ~ Booted'
      BY <2>4, BootConstants, <1>0 DEF Booted
    <3> HIDE DEF Before, Open, Place, StackRequest
    <3> QED BY <3>5, <3>7, <3>8, <3>9, <3>10 DEF BootInv, r, n
  <2> QED BY <1>0, <2>3, <2>4, BootConstants
<1> QED BY <1>1, <1>2

\* update_bitmap leaves the flag clear behind a run that ends before a free
\* page.
LEMMA FlagCleared ==
  ASSUME NEW first, NEW finish \in Nat, NEW S, finish \notin S
  PROVE  /\ Flag(PT(finish)) \notin update_bitmap(first, finish, S)
         /\ PT(first) = PT(finish) =>
              update_bitmap(first, finish, S) \subseteq cur_bitmap
<1>1. is_pt_incomplete(PT(finish), S)
  BY Incomplete
<1> DEFINE set == cur_bitmap \cup {Flag(pt) : pt \in PT(first) .. PT(finish)}
<1>2. update_bitmap(first, finish, S) = set \ {Flag(PT(finish))}
  BY <1>1 DEF update_bitmap
<1>3. ASSUME PT(first) = PT(finish)
      PROVE  set \ {Flag(PT(finish))} \subseteq cur_bitmap
  <2>1. PT(finish) \in Nat
    BY BootConstants DEF PT
  <2>2. \A pt \in PT(first) .. PT(finish) : pt = PT(finish)
    BY <1>3, <2>1
  <2> HIDE DEF Flag, PT
  <2> QED BY <2>2
<1> HIDE DEF set
<1> QED BY <1>2, <1>3

\* The run of pages from r on, of which the upper ones are mapped already.
LEMMA RunGrows ==
  ASSUME NEW r \in Nat, NEW n \in Nat, NEW x \in Nat,
         r <= x, x <= r + n - 1
  PROVE  /\ (x + 1 .. r + n - 1) \cup {x} = x .. r + n - 1
         /\ x > r => (x - 1) + 1 = x /\ x - 1 \in Nat
OBVIOUS

\* A page of a stack is mapped; with the last one the frontier moves on.
LEMMA MapBootInv ==
  ASSUME MemInv, RequestInv, BootInv, map_page_entry, UNCHANGED stacks
  PROVE  BootInv'
<1>0. /\ call \in Calls /\ call.pc = "map"
      /\ stacks \in Nat /\ stacks <= StackRequests
      /\ call.first \in Nat /\ call.page \in Nat /\ call.count \in Nat
  BY BootConstants DEF MemInv, Types, RequestInv, map_page_entry, Calls
<1>1. /\ present' = present \cup {call.page}
      /\ call'.first = call.first /\ call'.count = call.count
      /\ \/ /\ call.page > call.first /\ call'.pc = "gmem"
            /\ call'.page = call.page - 1 /\ UNCHANGED cur_bitmap
         \/ /\ call.page = call.first /\ call'.pc = "done"
            /\ cur_bitmap' =
                 update_bitmap(call.first, call.first + call.count, present')
  BY <1>0 DEF map_page_entry, SetEntry, Calls
<1>2. CASE stacks = StackRequests
  <2>1. ~ (stacks < StackRequests)
    BY <1>0, <1>2
  <2> QED BY <1>1, <2>1 DEF BootInv
<1>3. CASE stacks < StackRequests
  <2> DEFINE x == call.page
             r == call.first
             n == call.count
  <2>1. /\ r = Place(stacks) /\ n = StackRequest(stacks).count
        /\ r <= x /\ x <= r + n - 1
        /\ present = Before(stacks) \cup x + 1 .. r + n - 1
        /\ Open(stacks)
    BY <1>0, <1>3 DEF BootInv
  <2>2. present' = Before(stacks) \cup x .. r + n - 1
    <3>1. (x + 1 .. r + n - 1) \cup {x} = x .. r + n - 1
      BY <1>0, <2>1, RunGrows
    <3> QED BY <1>1, <2>1, <3>1
  <2>3. ~ Booted'
    BY <1>0, <1>3, BootConstants DEF Booted
  <2>4. CASE x > r
    <3>1. call'.pc = "gmem" /\ call'.page = x - 1 /\ UNCHANGED cur_bitmap
      BY <1>0, <1>1, <2>4
    <3>2. (x - 1) + 1 = x
      BY <1>0
    <3>3. present' = Before(stacks) \cup call'.page + 1 .. r + n - 1
      BY <2>2, <3>1, <3>2
    <3>4. r <= call'.page /\ call'.page <= r + n - 1
      BY <1>0, <2>1, <2>4, <3>1
    <3>5. Open(stacks)'
      BY <2>1, <3>1 DEF Open
    <3> HIDE DEF Before, Open, Place, StackRequest
    <3> QED BY <1>1, <2>1, <2>3, <3>1, <3>3, <3>4, <3>5 DEF BootInv
  <2>5. CASE x = r
    <3>1. /\ call'.pc = "done"
          /\ cur_bitmap' = update_bitmap(r, r + n, present')
      BY <1>0, <1>1, <2>5
    <3>2. present' = Before(stacks) \cup r .. r + n - 1
      BY <2>2, <2>5
    <3>3. CASE stacks = 0
      <4>1. r = PROC_BASE_STACK /\ n = 1 /\ stacks + 1 = 1
        BY <2>1, <3>3, FirstStack
      <4>2. r .. r + n - 1 = {PROC_BASE_STACK}
        BY <4>1, BootConstants
      <4>3. present' = 0 .. ONE_GB_OF_PAGES - 1 \cup {PROC_BASE_STACK}
        BY <3>2, <3>3, <4>2, FirstStack DEF Before
      <4>4. present' = Before(1)
        BY <4>3, FirstStack DEF Before
      <4>5. r + n \in Nat /\ r + n \notin present' /\ PT(r) = PT(r + n)
        BY <4>1, <4>3, LayoutAssumption, BootConstants
      <4>6. cur_bitmap' \subseteq cur_bitmap
        BY <3>1, <4>5, FlagCleared
      <4>7. Open(1)'
        <5>1. Flag(PT(Frontier(1))) \notin cur_bitmap
          BY <2>1, <3>3, FirstStack DEF Open
        <5> QED BY <4>6, <5>1 DEF Open
      <4> HIDE DEF Before, Open
      <4> QED BY <2>3, <3>1, <4>1, <4>4, <4>7 DEF BootInv
    <3>4. CASE stacks # 0
      <4>1. /\ Frontier(stacks) \in Nat /\ n \in 1 .. MaxPages
            /\ Frontier(stacks + 1) = Frontier(stacks) + n
            /\ stacks + 1 < StackRequests => Frontier(stacks + 1) < PROC_BASE_STACK
        BY <1>0, <1>3, <2>1, <3>4, Frontiers
      <4>2. r = Frontier(stacks) /\ r + n = Frontier(stacks + 1)
        BY <2>1, <3>4, <4>1 DEF Place
      <4>3. present' = 0 .. (r + n) - 1 \cup {PROC_BASE_STACK}
        <5>1. Before(stacks) = 0 .. r - 1 \cup {PROC_BASE_STACK}
          BY <3>4, <4>2 DEF Before
        <5>2. 0 .. r - 1 \cup r .. r + n - 1 = 0 .. (r + n) - 1
          BY <1>0
        <5> HIDE DEF r, n, Before
        <5> QED BY <3>2, <5>1, <5>2
      <4>4. present' = Before(stacks + 1)
        <5>1. stacks + 1 # 0
          BY <1>0
        <5> QED BY <4>2, <4>3, <5>1 DEF Before
      <4>5. ASSUME stacks + 1 < StackRequests PROVE Open(stacks + 1)'
        <5>1. r + n \in Nat /\ r + n \notin present'
          BY <1>0, <4>1, <4>2, <4>3, <4>5, BootConstants
        <5>2. Flag(PT(r + n)) \notin cur_bitmap'
          BY <3>1, <5>1, FlagCleared
        <5>3. stacks + 1 # 0
          BY <1>0
        <5> QED BY <4>2, <5>2, <5>3 DEF Open
      <4> HIDE DEF Before, Open
      <4> QED BY <2>3, <3>1, <4>4, <4>5 DEF BootInv
    <3> QED BY <3>3, <3>4
  <2> QED BY <1>0, <2>1, <2>4, <2>5
<1> QED BY <1>0, <1>2, <1>3, BootConstants

\* Every step of the system keeps the boot in order.
LEMMA NextBootInv ==
  ASSUME MemInv, RequestInv, BootInv, [Next]_vars
  PROVE  BootInv'
<1>0. call \in Calls /\ stacks \in Nat /\ stacks <= StackRequests
  BY BootConstants DEF MemInv, Types, RequestInv
<1>1. ASSUME UNCHANGED <<call, stacks, present, cur_bitmap>>
      PROVE  BootInv'
  BY <1>1 DEF BootInv, Booted, Open
<1>2. ASSUME Booted, stacks' = stacks, call'.pc \notin {"loop", "identity"},
             call'.pc = "search" => call'.count = 1
      PROVE  BootInv'
  <2>1. ~ (stacks' < StackRequests)
    BY <1>0, <1>2, BootConstants DEF Booted
  <2> QED BY <1>2, <2>1 DEF BootInv
<1>3. CASE UNCHANGED vars
  BY <1>1, <1>3 DEF vars, vmm, mmaps
<1>4. CASE VmmStep /\ UNCHANGED mmaps
  <2>0. UNCHANGED stacks
    BY <1>4 DEF mmaps
  <2>1. CASE identity_table \/ map_page_table
    BY <1>1, <2>0, <2>1 DEF identity_table, map_page_table
  <2>2. CASE identity_entry
    <3>1. call.pc = "identity" /\ call'.pc = "identity"
      BY <1>0, <2>2 DEF identity_entry, Calls
    <3> QED BY <2>0, <3>1 DEF BootInv
  <2>3. CASE identity_done
    BY <2>0, <2>3, IdentityBootInv
  <2>4. CASE search \/ search_failed
    BY <2>0, <2>4, SearchBootInv
  <2>5. CASE alloc_page
    <3>1. /\ call.pc = "gmem" /\ call'.pc = "map" /\ call'.first = call.first
          /\ call'.page = call.page /\ call'.count = call.count
          /\ UNCHANGED <<present, cur_bitmap>>
      BY <1>0, <2>5 DEF alloc_page, Calls
    <3> HIDE DEF Before, Place, StackRequest
    <3> QED BY <2>0, <3>1 DEF BootInv, Booted, Open
  <2>6. CASE map_page_entry
    BY <2>0, <2>6, MapBootInv
  <2> QED BY <1>4, <2>1, <2>2, <2>3, <2>4, <2>5, <2>6 DEF VmmStep
<1>5. CASE kmalloc_frame /\ UNCHANGED mmaps
  BY <1>1, <1>5 DEF kmalloc_frame, mmaps
<1>6. CASE _sched_alloc_pages
  <2>1. /\ stacks < StackRequests /\ call.pc = "idle" /\ call'.pc = "search"
        /\ call'.page = StackRequest(stacks).from
        /\ call'.count = StackRequest(stacks).count
        /\ UNCHANGED <<present, cur_bitmap, stacks>>
    BY <1>0, <1>6 DEF _sched_alloc_pages, vmm_alloc_pages_from, mmaps, Calls
  <2>2. ~ Booted'
    BY <1>0, <2>1, BootConstants DEF Booted
  <2> HIDE DEF Before, StackRequest
  <2> QED BY <2>1, <2>2 DEF BootInv, Open
<1>7. CASE stack_ready
  <2>1. /\ stacks < StackRequests /\ call.pc \in {"done", "failed"}
        /\ stacks' = stacks + 1 /\ call'.pc = "idle"
        /\ UNCHANGED <<present, cur_bitmap>>
    BY <1>7 DEF stack_ready, VmmReturn, Idle
  <2> HIDE DEF Before
  <2> QED BY <2>1 DEF BootInv, Open
<1>8. ASSUME NEW size \in Sizes,
             malloc_reuse(size) \/ malloc_window(size) \/ malloc_null(size)
      PROVE  BootInv'
  BY <1>1, <1>8 DEF malloc_reuse, malloc_window, malloc_null, mmap_window,
                    mmap_null, mmaps, vmm
<1>9. ASSUME NEW size \in Sizes, malloc_alloc(size)
      PROVE  BootInv'
  BY <1>0, <1>2, <1>9 DEF malloc_alloc, mmap_alloc, vmm_alloc_pages_from,
                          Running, Calls
<1>10. CASE malloc_allocated \/ malloc_failed
  BY <1>2, <1>10 DEF malloc_allocated, malloc_failed, mmap_allocated,
                     mmap_failed, VmmReturn, Idle
<1>11. ASSUME NEW b \in DOMAIN live,
              free_refused(b) \/ free_inner(b) \/ free_last(b)
       PROVE  BootInv'
  <2>1. Booted /\ call.pc = "idle" /\ call' = call /\ stacks' = stacks
    BY <1>11 DEF free_refused, free_inner, free_last, Running, syscall_munmap,
                 vmm_free_pages, mmaps, vmm
  <2> QED BY <1>2, <2>1
<1> QED BY <1>3, <1>4, <1>5, <1>6, <1>7, <1>8, <1>9, <1>10, <1>11 DEF Next

(***************************************************************************)
(* The search for pages always ends: alloc_pages never meets a hole that   *)
(* is too small, where it would try for ever.  The stacks of any number of *)
(* processes, of any size, lie end to end in front of the idle stack, as   *)
(* long as the layout of LayoutAssumption leaves them room there.          *)
(***************************************************************************)
THEOREM SearchAlwaysEnds == Spec => []SearchEnds
<1>1. Init => BootInv
  BY InitBootInv
<1>2. MemInv /\ RequestInv /\ BootInv /\ [Next]_vars => BootInv'
  BY NextBootInv
<1>3. BootInv => SearchEnds
  BY DEF BootInv, SearchEnds
<1> QED BY <1>1, <1>2, <1>3, BlocksCorrect, PTL DEF Spec

=============================================================================
