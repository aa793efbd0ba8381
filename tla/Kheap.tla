-------------------------------- MODULE Kheap --------------------------------
(***************************************************************************)
(* The kernel heap (mmu_kmalloc and mmu_kfree of Kernel/mmu.c): a doubly   *)
(* linked list of blocks, each a header of BLOCK_SIZE bytes and its data,  *)
(* inside frames of the physical memory manager.  Its callers are the      *)
(* pipes and their semaphores, with interrupts off.                        *)
(*                                                                         *)
(* An address is a byte of one of the frames that gmem has handed to the   *)
(* heap, numbered in the order they came; Pmm shows that they are distinct.*)
(***************************************************************************)
EXTENDS Integers, FiniteSets, FiniteSetsExt, Functions

CONSTANTS
  VMM_PAGE_SIZE,  \* bytes of a frame
  BLOCK_SIZE,     \* bytes of a header
  MIN_ALLOC_SIZE, \* the least data that a block is split off for
  Sizes,          \* the sizes that are asked for
  MaxFrames,      \* bound: frames of the heap
  NULL            \* the null pointer

ASSUME KheapAssumption ==
  /\ {VMM_PAGE_SIZE, BLOCK_SIZE, MIN_ALLOC_SIZE} \subseteq Nat \ {0}
  /\ Sizes \subseteq 1 .. VMM_PAGE_SIZE
  \* sizes of the callers: a frame has room for one, what expand_heap takes
  \* for the rest of the frame, and a header (4096, 32 and 16, 24, 56, 200)
  /\ \A size \in Sizes :
       BLOCK_SIZE + size + (VMM_PAGE_SIZE % size) <= VMM_PAGE_SIZE
  /\ MaxFrames \in Nat
  /\ NULL \notin Int

VARIABLES
  base_addr, \* the first block
  block,     \* the headers of the blocks that the heap knows, by address
  frames,    \* how many frames gmem has handed over; none goes back
  live       \* history: the size asked for, by block that a caller has

vars == <<base_addr, block, frames, live>>

Headers ==
  [size : Nat, free : BOOLEAN, next : Int \cup {NULL}, prev : Int \cup {NULL}]

\* The function f with v at x, whether or not x is new to it.
With(f, x, v) == [y \in DOMAIN f \cup {x} |-> IF y = x THEN v ELSE f[y]]

\* The block behind b.
Behind(b) == IF b = NULL THEN NULL ELSE block[b].next

\* The list, followed from base_addr: its blocks by position.
Chain ==
  LET nth[i \in 0 .. Cardinality(DOMAIN block)] ==
        IF i = 0 THEN base_addr ELSE Behind(nth[i - 1])
  IN  nth

\* The last block of the list.
Last == IF base_addr = NULL THEN NULL
        ELSE CHOOSE b \in DOMAIN block : block[b].next = NULL

-----------------------------------------------------------------------------
Init ==
  /\ base_addr = NULL
  /\ block = <<>>
  /\ frames = 0
  /\ live = <<>>

\* The first free block that is large enough, NULL if there is none.
find_block(size) ==
  LET nth     == Chain
      fitting == {i \in DOMAIN nth : /\ nth[i] # NULL
                                      /\ block[nth[i]].free
                                      /\ block[nth[i]].size >= size}
  IN  IF fitting = {} THEN NULL ELSE nth[Min(fitting)]

\* The headers blk with p as the prev of b, unless b is the null pointer.
Relink(blk, b, p) == IF b = NULL THEN blk ELSE [blk EXCEPT ![b].prev = p]

\* Fault: the block behind keeps pointing back at b.
split_block_unlinked(b, size) ==
  LET rest == b + BLOCK_SIZE + size
      new  == [size |-> block[b].size - size - BLOCK_SIZE, free |-> TRUE,
               next |-> block[b].next, prev |-> b]
  IN  With([block EXCEPT ![b].next = rest, ![b].size = size], rest, new)

\* The headers after the data of b beyond size has become a block of its own.
split_block(b, size) ==
  LET rest == b + BLOCK_SIZE + size
      new  == [size |-> block[b].size - size - BLOCK_SIZE, free |-> TRUE,
               next |-> block[b].next, prev |-> b]
  IN  Relink(With([block EXCEPT ![b].next = rest, ![b].size = size],
                  rest, new), block[b].next, rest)

\* Fault: a free block is handed out whole, but stays marked as free.
Taken_free(b, size) ==
  IF block[b].size - size >= BLOCK_SIZE + MIN_ALLOC_SIZE
    THEN split_block(b, size) ELSE block

\* The headers after mmu_kmalloc has taken the free block b.
Taken(b, size) ==
  LET blk == IF block[b].size - size >= BLOCK_SIZE + MIN_ALLOC_SIZE
               THEN split_block(b, size) ELSE block
  IN  [blk EXCEPT ![b].free = FALSE]

\* The headers after the last block, if any, has been pointed at result.
Appended(result) ==
  IF Last = NULL THEN block ELSE [block EXCEPT ![Last].next = result]

\* Fault: what is left of the frame is counted without the new block's header.
expand_heap_headless(result, size) ==
  LET free_bytes == VMM_PAGE_SIZE - size
      rest  == result + size + BLOCK_SIZE
      new   == [size |-> size, free |-> FALSE, prev |-> Last, next |-> rest]
      free  == [size |-> free_bytes - BLOCK_SIZE, free |-> TRUE,
                prev |-> result, next |-> NULL]
  IN  With(With(Appended(result), result, new), rest, free)

\* The headers after expand_heap has laid out the frame at result.
expand_heap(result, size) ==
  LET free_bytes == VMM_PAGE_SIZE % size
      rest  == result + size + BLOCK_SIZE
      extra == free_bytes > BLOCK_SIZE + MIN_ALLOC_SIZE
      new   == [size |-> size, free |-> FALSE, prev |-> Last,
                next |-> IF extra THEN rest ELSE NULL]
      blk   == With(Appended(result), result, new)
      free  == [size |-> free_bytes - BLOCK_SIZE, free |-> TRUE,
                prev |-> result, next |-> NULL]
  IN  IF extra THEN With(blk, rest, free) ELSE blk

\* mmu_kmalloc, when a free block serves.
kmalloc_reuse(size) ==
  LET b == find_block(size)
  IN  /\ b # NULL
      /\ block' = Taken(b, size)
      /\ live' = With(live, b, size)
      /\ UNCHANGED <<base_addr, frames>>

\* mmu_kmalloc, when a frame is needed.
kmalloc_expand(size) ==
  LET result == frames * VMM_PAGE_SIZE
  IN  /\ find_block(size) = NULL
      /\ frames < MaxFrames
      /\ block' = expand_heap(result, size)
      /\ base_addr' = IF base_addr = NULL THEN result ELSE base_addr
      /\ frames' = frames + 1
      /\ live' = With(live, result, size)

\* The headers after the last block has been dropped from the list.
Dropped(b) ==
  LET p   == block[b].prev
      blk == IF p = NULL THEN block ELSE [block EXCEPT ![p].next = NULL]
  IN  Restrict(blk, DOMAIN block \ {b})

(***************************************************************************)
(* mmu_kfree of a block that its caller has.  The last block of the list   *)
(* is dropped from it, and its memory with it: fmem is commented out.      *)
(***************************************************************************)
kfree(b) ==
  /\ live' = Restrict(live, DOMAIN live \ {b})
  /\ \/ /\ block[b].next # NULL
        /\ block' = [block EXCEPT ![b].free = TRUE]
        /\ UNCHANGED base_addr
     \/ /\ block[b].next = NULL
        /\ block' = Dropped(b)
        /\ base_addr' = IF block[b].prev = NULL THEN NULL ELSE base_addr
  /\ UNCHANGED frames

Next ==
  \/ \E size \in Sizes : kmalloc_reuse(size) \/ kmalloc_expand(size)
  \/ \E b \in DOMAIN live : kfree(b)

Spec == Init /\ [][Next]_vars

-----------------------------------------------------------------------------
TypeOK ==
  /\ base_addr \in Int \cup {NULL}
  /\ \A b \in DOMAIN block : block[b] \in Headers
  /\ frames \in 0 .. MaxFrames
  /\ \A b \in DOMAIN live : live[b] \in Sizes

(***************************************************************************)
(* The blocks form one doubly linked list: no header is broken, no size    *)
(* negative, prev undoes next, the list ends, and every block the heap     *)
(* knows is on it, whatever has been split, dropped and appended           *)
(* (split_block, expand_heap, mmu_kfree).                                  *)
(***************************************************************************)
ListSound ==
  /\ TypeOK
  /\ Range(Chain) \ {NULL} = DOMAIN block
  /\ base_addr # NULL => block[base_addr].prev = NULL
  /\ \A b \in DOMAIN block :
       block[b].next # NULL => block[block[b].next].prev = b

\* The first byte behind the header and the data of block b.
End(b) == b + BLOCK_SIZE + block[b].size

(***************************************************************************)
(* No two blocks overlap, and each lies inside one frame: neither          *)
(* splitting nor laying out a new frame puts a header into the data of     *)
(* another block or data behind the end of the frame, for the sizes that   *)
(* the callers of mmu_kmalloc ask for (split_block, expand_heap).          *)
(***************************************************************************)
BlocksDisjoint ==
  /\ \A b, c \in DOMAIN block : b < c => End(b) <= c
  /\ \A b \in DOMAIN block :
       (b % VMM_PAGE_SIZE) + BLOCK_SIZE + block[b].size <= VMM_PAGE_SIZE

(***************************************************************************)
(* A block that a caller has stays on the list, so that mmu_kfree finds    *)
(* it, is not handed out again, and keeps at least the size asked for.     *)
(***************************************************************************)
LiveIntact ==
  \A b \in DOMAIN live :
    b \in DOMAIN block /\ ~ block[b].free /\ block[b].size >= live[b]

=============================================================================
