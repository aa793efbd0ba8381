--------------------------------- MODULE Pmm ---------------------------------
(***************************************************************************)
(* The physical memory manager (Kernel/pmm.c): a stack of free frames and  *)
(* a map with one flag per frame.  An address is modelled by its frame     *)
(* number, addr / PMM_BLOCK_SIZE.                                          *)
(*                                                                         *)
(* The map is an array of WORD-bit words, but its masks are built from the *)
(* int constant 1: the shift count of 1 << (bit % 64) is taken modulo the  *)
(* width of int by the x86 shift, so two frames of a word share a flag.    *)
(* (The mask of the top bit of an int is sign-extended and covers the rest *)
(* of the word as well; those bits are only ever written together.)        *)
(*                                                                         *)
(* gmem and fmem are called by the page tables (Kernel/vmm.c) and the      *)
(* kernel heap (Kernel/mmu.c), with interrupts off.                        *)
(***************************************************************************)
EXTENDS Integers, FiniteSets

CONSTANTS
  PMM_TOTAL_BLOCKS, \* frames of the machine
  PMM_BLOCK_SIZE,   \* bytes per frame
  _reserved_pages,  \* frames below the first one that is ever free
  WORD,             \* bits per word of the map: 64
  INT,              \* bits of an int: 32
  BYTE              \* bits per byte: 8

ASSUME PmmAssumption ==
  /\ {PMM_TOTAL_BLOCKS, PMM_BLOCK_SIZE, _reserved_pages, WORD, INT, BYTE}
       \subseteq Nat \ {0}
  /\ _reserved_pages < PMM_TOTAL_BLOCKS

Frames == 0 .. PMM_TOTAL_BLOCKS - 1

VARIABLES
  _pmm_map,     \* the flags that are set
  _mem_stack,   \* the free frames; entry 0 is never used
  _free_blocks, \* index of the top entry
  owned,        \* history: the frames in the hands of callers
  lost          \* history: the frames a caller gave back and fmem kept out

pmm == <<_pmm_map, _mem_stack, _free_blocks, owned, lost>>

\* The flag that stands for a frame: a word, and a bit of an int.
Flag(b) == <<b \div WORD, b % INT>>

mmap_alloc(map, b) == map \cup {Flag(b)}
mmap_free(map, b)  == map \ {Flag(b)}
mmap_is_occ(b)     == Flag(b) \in _pmm_map

\* The frames on the stack.
Free == {_mem_stack[i] : i \in 1 .. _free_blocks}

\* The entries that init_mem leaves on the stack.
Capacity == PMM_TOTAL_BLOCKS - _reserved_pages - 1

-----------------------------------------------------------------------------
(***************************************************************************)
(* init_mem.  The loop that clears the map advances one byte at a time but *)
(* counts words, so only the first words are cleared and the others hold   *)
(* whatever the memory held.  The loop that marks the reserved frames      *)
(* passes addresses where mmap_alloc expects frame numbers; marks beyond   *)
(* the map fall into memory that is still free.                            *)
(***************************************************************************)
ClearedWords ==
  ((PMM_TOTAL_BLOCKS \div WORD + WORD \div BYTE) * BYTE) \div WORD

Uncleared == {Flag(b) : b \in {f \in Frames : f \div WORD >= ClearedWords}}

Marked ==
  {Flag(b) : b \in {i * PMM_BLOCK_SIZE : i \in 0 .. _reserved_pages - 1}
                     \cap Frames}

PmmInit ==
  /\ \E garbage \in SUBSET Uncleared : _pmm_map = garbage \cup Marked
  /\ _mem_stack =
       [i \in Frames |-> IF i + _reserved_pages < PMM_TOTAL_BLOCKS
                           THEN i + _reserved_pages ELSE 0]
  /\ _free_blocks = Capacity
  /\ owned = {} /\ lost = {}

\* Fault: push does not count the new entry.
push_uncounted(f) ==
  /\ _mem_stack' = [_mem_stack EXCEPT ![_free_blocks + 1] = f]
  /\ UNCHANGED _free_blocks

push(f) ==
  /\ _mem_stack' = [_mem_stack EXCEPT ![_free_blocks + 1] = f]
  /\ _free_blocks' = _free_blocks + 1

\* Fault: the top entry is read after _free_blocks has been decremented.
pop_late == _mem_stack[_free_blocks - 1]

\* The frame that pop returns.
pop == _mem_stack[_free_blocks]

\* Fault: gmem does not look whether a frame is left.
gmem_unguarded ==
  /\ _free_blocks' = _free_blocks - 1
  /\ _pmm_map' = mmap_alloc(_pmm_map, pop)
  /\ owned' = owned \cup {pop}
  /\ UNCHANGED <<_mem_stack, lost>>

\* gmem, when a frame is left.
gmem ==
  /\ _free_blocks > 0
  /\ _free_blocks' = _free_blocks - 1
  /\ _pmm_map' = mmap_alloc(_pmm_map, pop)
  /\ owned' = owned \cup {pop}
  /\ UNCHANGED <<_mem_stack, lost>>

\* gmem, when it answers -1.
gmem_empty ==
  /\ _free_blocks = 0
  /\ UNCHANGED pmm

\* What fmem answers for the address of frame f.
fmem_answer(f) == IF mmap_is_occ(f) THEN 1 ELSE 0

\* fmem, called for a frame that its caller owns.
fmem(f) ==
  /\ owned' = owned \ {f}
  /\ \/ /\ fmem_answer(f) = 1
        /\ _pmm_map' = mmap_free(_pmm_map, f)
        /\ push(f)
        /\ UNCHANGED lost
     \/ /\ fmem_answer(f) = 0
        /\ lost' = lost \cup {f}
        /\ UNCHANGED <<_pmm_map, _mem_stack, _free_blocks>>

PmmNext ==
  \/ gmem
  \/ gmem_empty
  \/ \E f \in owned : fmem(f)

PmmSpec == PmmInit /\ [][PmmNext]_pmm

-----------------------------------------------------------------------------
PmmTypeOK ==
  /\ _pmm_map \subseteq {Flag(b) : b \in Frames}
  /\ _mem_stack \in [Frames -> Frames]
  /\ _free_blocks \in 0 .. Capacity
  /\ owned \subseteq Frames /\ lost \subseteq Frames

(***************************************************************************)
(* A frame is in one place only: no frame is on the free stack twice, none *)
(* is free while a caller has it, and the reserved frames, the first free  *)
(* entry included, never come up.  So gmem never hands out a frame that is *)
(* in use, although fmem decides by flags that two frames share.           *)
(***************************************************************************)
FreeListSound ==
  /\ \A i, j \in 1 .. _free_blocks : _mem_stack[i] = _mem_stack[j] => i = j
  /\ Free \cap (owned \cup lost) = {} /\ owned \cap lost = {}
  /\ \A f \in Free \cup owned \cup lost : f > _reserved_pages

(***************************************************************************)
(* The stack has room for every frame that can come back: its height and   *)
(* the frames outside it always add up to the entries init_mem made, so    *)
(* push stays inside the table that init_mem reserved.                     *)
(***************************************************************************)
FramesConserved ==
  _free_blocks + Cardinality(owned \cup lost) = Capacity

=============================================================================
