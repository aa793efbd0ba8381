-------------------------------- MODULE Uheap --------------------------------
(***************************************************************************)
(* The heap of a user process (malloc and free of Userland/libc/memory.c): *)
(* a doubly linked list of blocks, each a header of BLOCK_SIZE bytes and   *)
(* its data, in the windows that the process gets from mmap.  With Mmap    *)
(* and Vmm below it this is the path of a user's byte down to its frame.   *)
(* The heap belongs to the shell, the only process that main spawns.       *)
(***************************************************************************)
EXTENDS Mmap, FiniteSetsExt, Functions

CONSTANTS
  Self,           \* the process
  BLOCK_SIZE,     \* bytes of a header
  MIN_ALLOC_SIZE, \* the least data that a block is split off for
  Sizes           \* the sizes that are asked for

ASSUME UheapAssumption ==
  /\ Self \in Pids
  /\ {BLOCK_SIZE, MIN_ALLOC_SIZE} \subseteq Nat \ {0}
  /\ Sizes \subseteq Nat

VARIABLES
  base_addr, \* the first block
  last_mmap, \* the data of the block that was mapped last
  block,     \* the headers of the blocks on the list, by address
  live       \* history: the size asked for, by block that a caller has

heap == <<base_addr, last_mmap, block, live>>
vars == <<vmm, mmaps, heap>>

\* The function f with v at x, whether or not x is new to it.
With(f, x, v) == [y \in DOMAIN f \cup {x} |-> IF y = x THEN v ELSE f[y]]

\* The function f without x.
Without(f, x) == Restrict(f, DOMAIN f \ {x})

\* The block behind b.
Behind(b) == IF b = NULL THEN NULL ELSE block[b].next

\* The list, followed from base_addr: its blocks by position.
Chain ==
  LET nth[i \in 0 .. Cardinality(DOMAIN block)] ==
        IF i = 0 THEN base_addr ELSE Behind(nth[i - 1])
  IN  nth

\* The last block of the list.
Last == IF base_addr = NULL THEN NULL
        ELSE CHOOSE b \in DOMAIN block : block[b].next = NULL

Init ==
  /\ MmapInit
  /\ base_addr = NULL
  /\ last_mmap = 0
  /\ block = <<>>
  /\ live = <<>>

\* The process runs: no system call of its is under way.
Running == Booted /\ call.pc = "idle"

-----------------------------------------------------------------------------
\* The first free block that is large enough, NULL if there is none.
find_block(size) ==
  LET nth     == Chain
      fitting == {i \in DOMAIN nth : /\ nth[i] # NULL
                                      /\ block[nth[i]].free
                                      /\ block[nth[i]].size >= size}
  IN  IF fitting = {} THEN NULL ELSE nth[Min(fitting)]

\* The headers blk with p as the prev of b, unless b is the null pointer.
Relink(blk, b, p) == IF b = NULL THEN blk ELSE [blk EXCEPT ![b].prev = p]

\* The headers after the data of b beyond size has become a block of its own.
split_block(b, size) ==
  LET rest == b + BLOCK_SIZE + size
      new  == [size |-> block[b].size - size - BLOCK_SIZE, free |-> TRUE,
               next |-> block[b].next, prev |-> b]
  IN  Relink(With([block EXCEPT ![b].next = rest, ![b].size = size],
                  rest, new), block[b].next, rest)

\* The headers after malloc has taken the free block b.
Taken(b, size) ==
  LET blk == IF block[b].size - size >= BLOCK_SIZE + MIN_ALLOC_SIZE
               THEN split_block(b, size) ELSE block
  IN  [blk EXCEPT ![b].free = FALSE]

\* malloc, when a free block serves.
malloc_reuse(size) ==
  LET b == find_block(size)
  IN  /\ Running /\ b # NULL
      /\ block' = Taken(b, size)
      /\ live' = With(live, b, size)
      /\ UNCHANGED <<vmm, mmaps, base_addr, last_mmap>>

\* The headers after the last block, if any, has been pointed at result.
Appended(result) ==
  IF Last = NULL THEN block ELSE [block EXCEPT ![Last].next = result]

\* The rest of expand_heap, once mmap has answered result.
expand_heap(result, size) ==
  /\ last_mmap' = result + BLOCK_SIZE
  /\ block' = With(Appended(result), result,
                   [size |-> size, free |-> FALSE,
                    next |-> NULL, prev |-> Last])
  /\ base_addr' = IF base_addr = NULL THEN result ELSE base_addr
  /\ live' = With(live, result, size)

\* malloc, when the heap grows inside a window.
malloc_window(size) ==
  /\ Running /\ find_block(size) = NULL
  /\ \E w \in WindowsOf(Self) :
       /\ mmap_window(Self, w, BLOCK_SIZE + size)
       /\ expand_heap(MmapResult(w), size)

\* malloc, when a window needs a page: the call goes on below.
malloc_alloc(size) ==
  /\ Running /\ find_block(size) = NULL
  /\ \E w \in WindowsOf(Self) : mmap_alloc(Self, w, BLOCK_SIZE + size)
  /\ UNCHANGED heap

\* The header is written into the new page; without a frame that faults.
malloc_allocated ==
  /\ Booted
  /\ mmap_allocated
  /\ fault' = (frame[call.first] = BAD)
  /\ expand_heap(call.first * VMM_PAGE_SIZE, request.size - BLOCK_SIZE)

\* malloc answers NULL.
malloc_failed ==
  /\ Booted
  /\ mmap_failed
  /\ UNCHANGED heap

malloc_null(size) ==
  /\ Running /\ find_block(size) = NULL
  /\ mmap_null(Self, BLOCK_SIZE + size)
  /\ UNCHANGED heap

-----------------------------------------------------------------------------
valid_address(address) ==
  base_addr # NULL /\ base_addr <= address /\ address <= last_mmap

\* free, of an address that valid_address refuses: nothing happens.
free_refused(b) ==
  /\ Running /\ ~ valid_address(b + BLOCK_SIZE)
  /\ live' = Without(live, b)
  /\ UNCHANGED <<vmm, mmaps, base_addr, last_mmap, block>>

\* free, of a block with another one behind it.
free_inner(b) ==
  /\ Running /\ valid_address(b + BLOCK_SIZE)
  /\ block[b].next # NULL
  /\ block' = [block EXCEPT ![b].free = TRUE]
  /\ live' = Without(live, b)
  /\ UNCHANGED <<vmm, mmaps, base_addr, last_mmap>>

\* The headers after the last block, b, has left the list.
Dropped(b) ==
  LET p == block[b].prev
  IN  Without(IF p = NULL THEN block
              ELSE [block EXCEPT ![p].next = NULL], b)

\* free, of the last block: it leaves the list and is unmapped.
free_last(b) ==
  /\ Running /\ valid_address(b + BLOCK_SIZE)
  /\ block[b].next = NULL
  /\ block' = Dropped(b)
  /\ base_addr' = IF block[b].prev = NULL THEN NULL ELSE base_addr
  /\ last_mmap' = last_mmap - block[b].size - BLOCK_SIZE
  /\ live' = Without(live, b)
  /\ syscall_munmap(Self, b, block[b].size + BLOCK_SIZE)

Next ==
  /\ ~ fault
  /\ \/ (VmmStep \/ kmalloc_frame) /\ UNCHANGED <<mmaps, heap>>
     \/ (_sched_alloc_pages \/ stack_ready) /\ UNCHANGED heap
     \/ \E size \in Sizes :
          \/ malloc_reuse(size) \/ malloc_window(size)
          \/ malloc_alloc(size) \/ malloc_null(size)
     \/ malloc_allocated \/ malloc_failed
     \/ \E b \in DOMAIN live :
          free_refused(b) \/ free_inner(b) \/ free_last(b)

Spec == Init /\ [][Next]_vars

-----------------------------------------------------------------------------
TypeOK ==
  /\ MmapTypeOK
  /\ base_addr \in Int \cup {NULL}
  /\ last_mmap \in Int
  /\ \A b \in DOMAIN block :
       block[b] \in [size : Nat, free : BOOLEAN,
                     next : Int \cup {NULL}, prev : Int \cup {NULL}]
  /\ \A b \in DOMAIN live : live[b] \in Sizes

\* The first byte behind block b.
End(b) == b + BLOCK_SIZE + block[b].size

\* The blocks of window w.
BlocksOf(w) == {b \in DOMAIN block : b \div VMM_PAGE_SIZE = pages[w]}

(***************************************************************************)
(* The blocks of a window lie end to end and fill what bytes_used counts:  *)
(* free gives blocks back in the reverse of the order in which mmap handed *)
(* them out, although the list runs through both windows (expand_heap,     *)
(* split_block, free, syscall_munmap).                                     *)
(***************************************************************************)
WindowsTiled ==
  \A w \in WindowsOf(Self) : pages[w] # NULL =>
    LET base == pages[w] * VMM_PAGE_SIZE
        ends == {End(b) - base : b \in BlocksOf(w)}
    IN  /\ BlocksOf(w) # {} /\ Max(ends) = bytes_used[w]
        /\ \A b \in BlocksOf(w) : b = base \/ b - base \in ends
        /\ \A b, c \in BlocksOf(w) : b < c => End(b) <= c

(***************************************************************************)
(* A block that a caller has is on the list, is not handed out again, and  *)
(* keeps the size asked for, inside a page that is mapped: the heap never  *)
(* unmaps memory in use (malloc, free, syscall_munmap, vmm_free_pages).    *)
(***************************************************************************)
LiveMapped ==
  \A b \in DOMAIN live :
    /\ b \in Range(Chain)
    /\ ~ block[b].free /\ block[b].size >= live[b]
    /\ \E w \in WindowsOf(Self) : pages[w] = b \div VMM_PAGE_SIZE
    /\ b \div VMM_PAGE_SIZE \in present
    /\ End(b) <= (b \div VMM_PAGE_SIZE + 1) * VMM_PAGE_SIZE

(***************************************************************************)
(* "Check if its a value in the heap" (valid_address): the address of      *)
(* every block that a caller has passes the check, so that free frees it.  *)
(***************************************************************************)
FreeAccepts == \A b \in DOMAIN live : valid_address(b + BLOCK_SIZE)

=============================================================================
