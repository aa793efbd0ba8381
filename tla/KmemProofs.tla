----------------------------- MODULE KmemProofs -----------------------------
(***************************************************************************)
(* Proofs about the memory of the kernel.  Of the physical memory manager, *)
(* for every size of the memory and whatever the uncleared part of the map *)
(* holds: a frame is in one place.  Of the kernel heap that takes frames   *)
(* from it, for every size of a frame and of a header and every mix of     *)
(* sizes that its callers ask for: the list of blocks is never broken,     *)
(* blocks never overlap and a caller keeps what it has.                    *)
(***************************************************************************)
EXTENDS Pmm, Kheap, FiniteSetTheorems, WellFoundedInduction, TLAPS

-----------------------------------------------------------------------------
\* The frames.
PmmInv == PmmTypeOK /\ FreeListSound /\ FramesConserved

\* The frames outside the stack are finitely many.
LEMMA OutsideFinite ==
  ASSUME PmmTypeOK
  PROVE  IsFiniteSet(owned \cup lost) /\ Cardinality(owned \cup lost) \in Nat
<1>1. IsFiniteSet(Frames)
  BY PmmAssumption, FS_Interval DEF Frames
<1>2. owned \cup lost \in SUBSET Frames
  BY DEF PmmTypeOK
<1>3. IsFiniteSet(owned \cup lost)
  BY <1>1, <1>2, FS_Subset
<1> QED BY <1>3, FS_CardinalityType

\* init_mem establishes the invariant.
LEMMA InitPmmInv == PmmInit => PmmInv
<1> SUFFICES ASSUME PmmInit PROVE PmmInv
  OBVIOUS
<1> USE PmmAssumption
<1>1. Capacity \in Nat /\ Capacity < PMM_TOTAL_BLOCKS
  BY DEF Capacity
<1>2. \A i \in 1 .. Capacity : i \in Frames /\ _mem_stack[i] = i + _reserved_pages
  BY DEF PmmInit, Frames, Capacity
<1>3. Uncleared \subseteq {Flag(b) : b \in Frames}
  BY DEF Uncleared
<1>4. Marked \subseteq {Flag(b) : b \in Frames}
  BY DEF Marked
<1>5. _mem_stack \in [Frames -> Frames]
  BY DEF PmmInit, Frames
<1>6. PmmTypeOK
  BY <1>1, <1>3, <1>4, <1>5 DEF PmmInit, PmmTypeOK
<1>7. FreeListSound
  <2>1. \A i, j \in 1 .. _free_blocks : _mem_stack[i] = _mem_stack[j] => i = j
    BY <1>1, <1>2 DEF PmmInit
  <2>2. \A i \in 1 .. _free_blocks : _mem_stack[i] > _reserved_pages
    BY <1>1, <1>2 DEF PmmInit
  <2> QED BY <2>1, <2>2 DEF PmmInit, FreeListSound, Free
<1>8. FramesConserved
  <2>1. Cardinality(owned \cup lost) = 0
    BY FS_EmptySet DEF PmmInit
  <2> QED BY <1>1, <2>1 DEF PmmInit, FramesConserved
<1> QED BY <1>6, <1>7, <1>8 DEF PmmInv

\* gmem preserves the invariant.
LEMMA GmemPmmInv == PmmInv /\ gmem => PmmInv'
<1> SUFFICES ASSUME PmmInv, gmem PROVE PmmInv'
  OBVIOUS
<1> USE PmmAssumption
<1>1. /\ _free_blocks \in 1 .. Capacity /\ _free_blocks' = _free_blocks - 1
      /\ Capacity \in Nat /\ Capacity < PMM_TOTAL_BLOCKS
      /\ _mem_stack' = _mem_stack /\ lost' = lost
      /\ owned' = owned \cup {pop}
      /\ _free_blocks' \in 0 .. Capacity
  BY DEF PmmInv, PmmTypeOK, gmem, Capacity
<1>2. pop \in Free /\ pop \in Frames
  BY <1>1 DEF Free, pop, PmmInv, PmmTypeOK, Frames
<1>3. PmmTypeOK'
  BY <1>1, <1>2 DEF PmmInv, PmmTypeOK, gmem, mmap_alloc
<1>4. Free' = Free \ {pop}
  <2>1. 1 .. _free_blocks = (1 .. _free_blocks') \cup {_free_blocks}
    BY <1>1
  <2>2. \A i \in 1 .. _free_blocks' : _mem_stack[i] # pop
    BY <1>1 DEF pop, PmmInv, FreeListSound
  <2> QED BY <1>1, <2>1, <2>2 DEF Free, pop
<1>5. FreeListSound'
  <2>1. \A i, j \in 1 .. _free_blocks' : _mem_stack'[i] = _mem_stack'[j] => i = j
    BY <1>1 DEF PmmInv, FreeListSound
  <2>2. Free' \cap (owned' \cup lost') = {} /\ owned' \cap lost' = {}
    BY <1>1, <1>2, <1>4 DEF PmmInv, FreeListSound
  <2>3. \A f \in Free' \cup owned' \cup lost' : f > _reserved_pages
    BY <1>1, <1>2, <1>4 DEF PmmInv, FreeListSound
  <2> QED BY <2>1, <2>2, <2>3 DEF FreeListSound
<1>6. FramesConserved'
  <2>1. owned' \cup lost' = (owned \cup lost) \cup {pop}
    BY <1>1
  <2>2. pop \notin owned \cup lost
    BY <1>2 DEF PmmInv, FreeListSound
  <2>3. /\ IsFiniteSet(owned \cup lost)
        /\ Cardinality(owned \cup lost) \in Nat
    BY OutsideFinite DEF PmmInv
  <2>4. Cardinality(owned' \cup lost') = Cardinality(owned \cup lost) + 1
    BY <2>1, <2>2, <2>3, FS_AddElement
  <2> QED BY <1>1, <2>3, <2>4 DEF PmmInv, FramesConserved
<1> QED BY <1>3, <1>5, <1>6 DEF PmmInv

\* fmem preserves the invariant, whatever it answers.
LEMMA FmemPmmInv ==
  ASSUME PmmInv, NEW f \in owned, fmem(f)
  PROVE  PmmInv'
<1> USE PmmAssumption
<1>1. /\ f \in Frames /\ f > _reserved_pages /\ f \notin lost /\ f \notin Free
      /\ owned' = owned \ {f}
      /\ _free_blocks \in 0 .. Capacity
      /\ Capacity \in Nat /\ Capacity < PMM_TOTAL_BLOCKS
  BY DEF PmmInv, PmmTypeOK, FreeListSound, fmem, Capacity
<1>2. /\ IsFiniteSet(owned \cup lost)
      /\ Cardinality(owned \cup lost) \in Nat
  BY OutsideFinite DEF PmmInv
<1>3. CASE /\ _pmm_map' = mmap_free(_pmm_map, f)
           /\ push(f)
           /\ UNCHANGED lost
  <2> DEFINE top == _free_blocks + 1
  <2>1. /\ _mem_stack' = [_mem_stack EXCEPT ![top] = f]
        /\ _free_blocks' = top /\ lost' = lost
    BY <1>3 DEF push
  <2>2. Cardinality(owned' \cup lost') = Cardinality(owned \cup lost) - 1
    <3>1. owned' \cup lost' = (owned \cup lost) \ {f}
      BY <1>1, <2>1
    <3> QED BY <1>2, <3>1, FS_RemoveElement
  <2>3. FramesConserved'
    BY <1>1, <1>2, <2>1, <2>2 DEF PmmInv, FramesConserved
  <2>4. top \in 1 .. Capacity /\ top \in Frames
    <3>1. Cardinality(owned' \cup lost') \in Nat
      <4>1. IsFiniteSet(owned' \cup lost')
        BY <1>1, <1>2, <2>1, FS_Subset
      <4> QED BY <4>1, FS_CardinalityType
    <3> QED BY <1>1, <1>2, <2>2, <3>1 DEF PmmInv, FramesConserved, Frames
  <2>5. /\ \A i \in 1 .. _free_blocks : _mem_stack'[i] = _mem_stack[i]
        /\ _mem_stack'[top] = f
        /\ _mem_stack' \in [Frames -> Frames]
    BY <1>1, <2>1, <2>4 DEF PmmInv, PmmTypeOK, Frames
  <2>6. PmmTypeOK'
    BY <1>1, <1>3, <2>1, <2>4, <2>5 DEF PmmInv, PmmTypeOK, mmap_free
  <2>7. 1 .. _free_blocks' = (1 .. _free_blocks) \cup {top}
    BY <1>1, <2>1
  <2>8. Free' = Free \cup {f}
    BY <2>5, <2>7 DEF Free
  <2>9. FreeListSound'
    <3>1. \A i \in 1 .. _free_blocks : _mem_stack[i] # f
      BY <1>1 DEF Free
    <3>2. \A i, j \in 1 .. _free_blocks' :
            _mem_stack'[i] = _mem_stack'[j] => i = j
      BY <2>5, <2>7, <3>1 DEF PmmInv, FreeListSound
    <3>3. Free' \cap (owned' \cup lost') = {} /\ owned' \cap lost' = {}
      BY <1>1, <2>1, <2>8 DEF PmmInv, FreeListSound
    <3>4. \A g \in Free' \cup owned' \cup lost' : g > _reserved_pages
      BY <1>1, <2>1, <2>8 DEF PmmInv, FreeListSound
    <3> QED BY <3>2, <3>3, <3>4 DEF FreeListSound
  <2> QED BY <2>3, <2>6, <2>9 DEF PmmInv
<1>4. CASE /\ lost' = lost \cup {f}
           /\ UNCHANGED <<_pmm_map, _mem_stack, _free_blocks>>
  <2>1. owned' \cup lost' = owned \cup lost
    BY <1>1, <1>4
  <2>2. Free' = Free
    BY <1>4 DEF Free
  <2>3. PmmTypeOK'
    BY <1>1, <1>4 DEF PmmInv, PmmTypeOK
  <2>4. FreeListSound'
    BY <1>1, <1>4, <2>1, <2>2 DEF PmmInv, FreeListSound
  <2>5. FramesConserved'
    BY <1>4, <2>1 DEF PmmInv, FramesConserved
  <2> QED BY <2>3, <2>4, <2>5 DEF PmmInv
<1> QED BY <1>3, <1>4 DEF fmem

\* The invariant holds in every reachable state.
THEOREM PmmInvariance == PmmSpec => []PmmInv
<1>1. PmmInit => PmmInv
  BY InitPmmInv
<1>2. PmmInv /\ [PmmNext]_pmm => PmmInv'
  <2> SUFFICES ASSUME PmmInv, [PmmNext]_pmm PROVE PmmInv'
    OBVIOUS
  <2>1. CASE gmem
    BY <2>1, GmemPmmInv
  <2>2. ASSUME NEW f \in owned, fmem(f) PROVE PmmInv'
    BY <2>2, FmemPmmInv
  <2>3. CASE gmem_empty \/ UNCHANGED pmm
    <3>1. /\ _pmm_map' = _pmm_map /\ _mem_stack' = _mem_stack
          /\ _free_blocks' = _free_blocks /\ owned' = owned /\ lost' = lost
      BY <2>3 DEF gmem_empty, pmm
    <3>2. Free' = Free
      BY <3>1 DEF Free
    <3>3. PmmTypeOK' /\ FramesConserved'
      BY <3>1 DEF PmmInv, PmmTypeOK, FramesConserved
    <3>4. FreeListSound'
      BY <3>1, <3>2 DEF PmmInv, FreeListSound
    <3> QED BY <3>3, <3>4 DEF PmmInv
  <2> QED BY <2>1, <2>2, <2>3 DEF PmmNext
<1> QED BY <1>1, <1>2, PTL DEF PmmSpec

(***************************************************************************)
(* The stack index stays inside the table that init_mem reserved.          *)
(***************************************************************************)
THEOREM PmmTypeCorrect == PmmSpec => []PmmTypeOK
<1>1. PmmInv => PmmTypeOK
  BY DEF PmmInv
<1> QED BY <1>1, PmmInvariance, PTL

(***************************************************************************)
(* gmem never hands out a frame that is in use or reserved.                *)
(***************************************************************************)
THEOREM FreeListCorrect == PmmSpec => []FreeListSound
<1>1. PmmInv => FreeListSound
  BY DEF PmmInv
<1> QED BY <1>1, PmmInvariance, PTL

(***************************************************************************)
(* No frame is created or forgotten by the stack.                          *)
(***************************************************************************)
THEOREM FramesCorrect == PmmSpec => []FramesConserved
<1>1. PmmInv => FramesConserved
  BY DEF PmmInv
<1> QED BY <1>1, PmmInvariance, PTL

-----------------------------------------------------------------------------
\* The heap.
Ptr == DOMAIN block \cup {NULL}

\* The headers, before anything is said of what they point at.
Memory ==
  /\ frames \in 0 .. MaxFrames
  /\ DOMAIN block \subseteq Nat
  /\ IsFiniteSet(DOMAIN block)
  /\ block \in [DOMAIN block -> [size : Nat, free : BOOLEAN,
                                 next : Ptr, prev : Ptr]]
  /\ base_addr \in Ptr

\* Each block lies inside one of the frames of the heap.
InFrames ==
  \A b \in DOMAIN block : \E k \in 0 .. frames - 1 :
    k * VMM_PAGE_SIZE <= b /\ End(b) <= (k + 1) * VMM_PAGE_SIZE

\* next and prev undo each other, and the list has a beginning and an end.
Linked ==
  /\ \A b, c \in DOMAIN block : block[b].next = c <=> block[c].prev = b
  /\ \A b \in DOMAIN block : block[b].prev = NULL <=> b = base_addr
  /\ base_addr # NULL => \E b \in DOMAIN block : block[b].next = NULL
  /\ base_addr = NULL => DOMAIN block = {}

(***************************************************************************)
(* The list is in the order of the addresses: the block behind b is the    *)
(* next one in memory, and begins behind the end of b.                     *)
(***************************************************************************)
Sorted ==
  /\ \A b \in DOMAIN block : base_addr <= b
  /\ \A b \in DOMAIN block : block[b].next # NULL => b < block[b].next
  /\ \A b, c \in DOMAIN block : b < c =>
       /\ block[b].next # NULL
       /\ block[b].next <= c
       /\ End(b) <= c

Owned ==
  /\ live \in [DOMAIN live -> Sizes]
  /\ LiveIntact

HeapInv == Memory /\ InFrames /\ Linked /\ Sorted /\ Owned

-----------------------------------------------------------------------------
\* A set of natural numbers has a least element.
LEMMA Least ==
  ASSUME NEW T, T \subseteq Nat, T # {}
  PROVE  \E x \in T : \A y \in T : x <= y
<1> DEFINE R == OpToRel(<, Nat)
<1>1. IsWellFoundedOn(R, Nat)
  BY NatLessThanWellFounded
<1>2. \A x, y \in Nat : y < x => <<y, x>> \in R
  BY DEF OpToRel
<1> HIDE DEF R
<1>3. PICK x \in T : \A y \in T : ~ (<<y, x>> \in R)
  BY <1>1, WFMin
<1>4. \A y \in T : ~ (y < x)
  BY <1>2, <1>3
<1> QED BY <1>3, <1>4

\* f is a, F[a], F[F[a]]... up to position n.
IsIterated(f, a, F, S, n) ==
  /\ f \in [0 .. n -> S]
  /\ f[0] = a
  /\ \A i \in 1 .. n : f[i] = F[f[i - 1]]

\* A function can be iterated to any position.
LEMMA Iterates ==
  ASSUME NEW S, NEW a \in S, NEW F \in [S -> S], NEW n \in Nat
  PROVE  \E f : IsIterated(f, a, F, S, n)
<1> USE DEF IsIterated
<1> DEFINE Good(m, f) == IsIterated(f, a, F, S, m)
           T == {m \in Nat : \A f : ~ Good(m, f)}
<1>1. Good(0, [i \in 0 .. 0 |-> a])
  OBVIOUS
<1>2. ASSUME NEW m \in Nat, NEW f, Good(m, f)
      PROVE  \E g : Good(m + 1, g)
  <2> DEFINE g == [i \in 0 .. m + 1 |-> IF i = m + 1 THEN F[f[m]] ELSE f[i]]
  <2>1. g \in [0 .. m + 1 -> S]
    BY <1>2
  <2>2. g[0] = a
    BY <1>2
  <2>3. ASSUME NEW i \in 1 .. m + 1 PROVE g[i] = F[g[i - 1]]
    <3>1. CASE i = m + 1
      BY <3>1
    <3>2. CASE i # m + 1
      <4>1. i \in 1 .. m /\ i - 1 \in 0 .. m + 1 /\ i - 1 # m + 1
        BY <3>2
      <4> QED BY <4>1, <1>2
    <3> QED BY <3>1, <3>2
  <2> QED BY <2>1, <2>2, <2>3
<1>3. T = {}
  <2>1. SUFFICES ASSUME T # {} PROVE FALSE
    OBVIOUS
  <2>2. PICK m \in T : \A y \in T : m <= y
    BY <2>1, Least
  <2>3. m # 0
    BY <1>1, <2>2
  <2>4. m - 1 \in Nat /\ ~ (m <= m - 1)
    BY <2>2, <2>3
  <2>5. PICK f : Good(m - 1, f)
    <3>1. m - 1 \notin T
      <4> HIDE DEF T
      <4> QED BY <2>2, <2>4
    <3> HIDE DEF IsIterated
    <3> QED BY <2>4, <3>1
  <2>6. \E g : Good(m - 1 + 1, g)
    BY <1>2, <2>4, <2>5
  <2>7. m - 1 + 1 = m
    BY <2>2
  <2> QED BY <2>2, <2>6, <2>7
<1> QED BY <1>3

\* What Chain computes: the blocks behind one another, then the null pointer.
LEMMA ChainStep ==
  ASSUME Memory
  PROVE  /\ Cardinality(DOMAIN block) \in Nat
         /\ Chain \in [0 .. Cardinality(DOMAIN block) -> Ptr]
         /\ Chain[0] = base_addr
         /\ \A i \in 1 .. Cardinality(DOMAIN block) :
              Chain[i] = Behind(Chain[i - 1])
<1> DEFINE n == Cardinality(DOMAIN block)
           F == [b \in Ptr |-> Behind(b)]
           Eq(f) == f = [i \in 0 .. n |->
                           IF i = 0 THEN base_addr ELSE Behind(f[i - 1])]
<1>1. n \in Nat
  BY FS_CardinalityType DEF Memory
<1>2. base_addr \in Ptr /\ F \in [Ptr -> Ptr]
  BY DEF Memory, Behind, Ptr
<1>3. PICK f : IsIterated(f, base_addr, F, Ptr, n)
  <2> HIDE DEF n, F
  <2> QED BY <1>1, <1>2, Iterates
<1>4. \A i \in 1 .. n : i - 1 \in 0 .. n
  <2> HIDE DEF n
  <2> QED BY <1>1
<1>5. Eq(f)
  <2>1. \A i \in 1 .. n : f[i] = Behind(f[i - 1])
    BY <1>3, <1>4 DEF IsIterated
  <2> HIDE DEF n, F
  <2> QED BY <1>1, <1>3, <2>1 DEF IsIterated
<1>6. Chain = CHOOSE nth : Eq(nth)
  BY DEF Chain
<1>7. Eq(Chain)
  BY <1>5, <1>6
<1> HIDE DEF n
<1>8. Chain[0] = base_addr /\ DOMAIN Chain = 0 .. n
      /\ \A i \in 1 .. n : Chain[i] = Behind(Chain[i - 1])
  BY <1>7, <1>1
<1> DEFINE T == {i \in 0 .. n : Chain[i] \notin Ptr}
<1>9. T = {}
  <2>1. SUFFICES ASSUME T # {} PROVE FALSE
    OBVIOUS
  <2>2. PICK i \in T : \A j \in T : i <= j
    <3>1. T \subseteq Nat
      BY <1>1
    <3> HIDE DEF T
    <3> QED BY <2>1, <3>1, Least
  <2>3. i # 0
    BY <2>2, <1>8, <1>2
  <2>4. i \in 1 .. n /\ i - 1 \in 0 .. n /\ i - 1 \notin T
    BY <2>2, <2>3, <1>1
  <2>5. Chain[i - 1] \in Ptr /\ Chain[i] = Behind(Chain[i - 1])
    BY <2>4, <1>8
  <2>6. Chain[i] \in Ptr
    BY <2>5 DEF Memory, Behind, Ptr
  <2> QED BY <2>2, <2>6
<1>10. Chain \in [0 .. n -> Ptr]
  <2>1. \A i \in 0 .. n : Chain[i] \in Ptr
    BY <1>9
  <2>2. Chain = [i \in 0 .. n |-> Chain[i]]
    BY <1>7, <1>8
  <2> QED BY <2>1, <2>2
<1> QED BY <1>1, <1>8, <1>10 DEF n

\* What find_block returns is a free block that is large enough.
LEMMA FindBlock ==
  ASSUME Memory, NEW size, find_block(size) # NULL
  PROVE  /\ find_block(size) \in DOMAIN block
         /\ block[find_block(size)].free
         /\ block[find_block(size)].size >= size
<1> DEFINE n == Cardinality(DOMAIN block)
           nth == Chain
           fitting == {i \in DOMAIN nth : /\ nth[i] # NULL
                                           /\ block[nth[i]].free
                                           /\ block[nth[i]].size >= size}
<1>1. n \in Nat /\ nth \in [0 .. n -> Ptr]
  BY ChainStep
<1>2. find_block(size) = IF fitting = {} THEN NULL ELSE nth[Min(fitting)]
  BY DEF find_block
<1>3. fitting # {} /\ fitting \subseteq Nat
  <2> HIDE DEF nth, n
  <2> QED BY <1>1, <1>2
<1>4. Min(fitting) \in fitting
  <2> HIDE DEF fitting
  <2>1. PICK i \in fitting : \A j \in fitting : i <= j
    BY <1>3, Least
  <2> QED BY <2>1 DEF Min
<1>5. nth[Min(fitting)] \in Ptr \ {NULL}
  <2> HIDE DEF n
  <2> QED BY <1>1, <1>4
<1> QED BY <1>2, <1>3, <1>4, <1>5 DEF Ptr

\* The end of the list, and of the heap: no block lies behind it.
LEMMA LastBlock ==
  ASSUME Memory, Linked, Sorted
  PROVE  /\ base_addr = NULL => Last = NULL
         /\ base_addr # NULL =>
              /\ Last \in DOMAIN block
              /\ block[Last].next = NULL
              /\ \A b \in DOMAIN block : b # Last =>
                   b < Last /\ block[b].next # NULL
<1>1. CASE base_addr # NULL
  <2>1. Last = CHOOSE b \in DOMAIN block : block[b].next = NULL
    BY <1>1 DEF Last
  <2>2. \E b \in DOMAIN block : block[b].next = NULL
    BY <1>1 DEF Linked
  <2>3. Last \in DOMAIN block /\ block[Last].next = NULL
    BY <2>1, <2>2
  <2>4. DOMAIN block \subseteq Int
    BY DEF Memory
  <2>5. ASSUME NEW b \in DOMAIN block, b # Last
        PROVE  b < Last /\ block[b].next # NULL
    <3>1. ~ (Last < b)
      BY <2>3, <2>5 DEF Sorted
    <3>2. b < Last
      BY <2>3, <2>4, <2>5, <3>1
    <3> QED BY <2>3, <3>2 DEF Sorted
  <2> QED BY <1>1, <2>3, <2>5
<1> QED BY <1>1 DEF Last

-----------------------------------------------------------------------------
\* Followed from base_addr, the addresses only grow.
LEMMA ChainGrows ==
  ASSUME Memory, Sorted,
         NEW i \in 0 .. Cardinality(DOMAIN block),
         NEW j \in 0 .. Cardinality(DOMAIN block),
         i < j, Chain[j] # NULL
  PROVE  Chain[i] # NULL /\ Chain[i] < Chain[j]
<1> DEFINE n == Cardinality(DOMAIN block)
           T == {k \in i + 1 .. n : /\ Chain[k] # NULL
                                    /\ ~ (Chain[i] # NULL /\ Chain[i] < Chain[k])}
<1>1. n \in Nat /\ Chain \in [0 .. n -> Ptr]
      /\ \A k \in 1 .. n : Chain[k] = Behind(Chain[k - 1])
  BY ChainStep
<1> HIDE DEF n
<1>2. i \in 0 .. n /\ j \in 0 .. n /\ j \in i + 1 .. n
  BY <1>1 DEF n
<1>3. T = {}
  <2>1. SUFFICES ASSUME T # {} PROVE FALSE
    OBVIOUS
  <2>2. PICK k \in T : \A m \in T : k <= m
    <3>1. T \subseteq Nat
      BY <1>1
    <3> HIDE DEF T
    <3> QED BY <2>1, <3>1, Least
  <2>3. k \in 1 .. n /\ k - 1 \in 0 .. n /\ ~ (k <= k - 1) /\ k - 1 >= i
    BY <1>1, <2>2
  <2> DEFINE a == Chain[k - 1]
  <2>4. a \in Ptr /\ Chain[k] = Behind(a) /\ Chain[k] # NULL
    BY <1>1, <2>2, <2>3
  <2>5. a \in DOMAIN block /\ a # NULL /\ a < Chain[k]
    BY <2>4 DEF Behind, Ptr, Sorted
  <2>6. Chain[k] \in Int /\ a \in Int
    BY <1>1, <2>3, <2>4, <2>5 DEF Ptr, Memory
  <2>7. CASE k - 1 = i
    BY <2>2, <2>5, <2>7
  <2>8. CASE k - 1 # i
    <3>1. k - 1 \in i + 1 .. n /\ k - 1 \notin T
      BY <2>2, <2>3, <2>8, <1>1
    <3>2. Chain[i] # NULL /\ Chain[i] < a
      BY <3>1, <2>5
    <3>3. Chain[i] \in Int
      BY <3>2, <1>1, <1>2 DEF Ptr, Memory
    <3> QED BY <3>2, <3>3, <2>2, <2>5, <2>6
  <2> QED BY <2>7, <2>8
<1> QED BY <1>2, <1>3

\* Every block that the heap knows is on the list.
LEMMA ChainCovers ==
  ASSUME Memory, Linked, Sorted
  PROVE  Range(Chain) \ {NULL} = DOMAIN block
<1> DEFINE n == Cardinality(DOMAIN block)
           Off == DOMAIN block \ Range(Chain)
<1>1. n \in Nat /\ Chain \in [0 .. n -> Ptr] /\ Chain[0] = base_addr
      /\ \A k \in 1 .. n : Chain[k] = Behind(Chain[k - 1])
  BY ChainStep
<1> HIDE DEF n
<1>2. Range(Chain) \subseteq Ptr
  BY <1>1 DEF Range
<1>3. NULL \notin DOMAIN block
  BY KheapAssumption DEF Memory
<1>4. Off = {}
  <2>1. SUFFICES ASSUME Off # {} PROVE FALSE
    OBVIOUS
  <2>2. PICK b \in Off : \A c \in Off : b <= c
    <3>1. Off \subseteq Nat
      BY DEF Memory
    <3> HIDE DEF Off
    <3> QED BY <2>1, <3>1, Least
  <2>3. b # base_addr
    BY <1>1, <2>2 DEF Range
  <2> DEFINE p == block[b].prev
  <2>4. p \in DOMAIN block /\ block[p].next = b /\ p < b
    BY <2>2, <2>3, <1>3 DEF Memory, Ptr, Linked, Sorted
  <2>5. p \in Range(Chain)
    <3>1. ~ (b <= p)
      BY <2>2, <2>4 DEF Memory
    <3> QED BY <2>2, <2>4, <3>1
  <2>6. PICK i \in 0 .. n : Chain[i] = p
    BY <1>1, <2>5 DEF Range
  <2>7. CASE i < n
    <3>1. i + 1 \in 1 .. n /\ i + 1 - 1 = i /\ i + 1 \in 0 .. n
      BY <1>1, <2>7
    <3>2. Chain[i + 1] = b
      BY <1>1, <3>1, <2>6, <2>4, <1>3 DEF Behind
    <3>3. b \in Range(Chain)
      BY <1>1, <3>1, <3>2 DEF Range
    <3> QED BY <2>2, <3>3
  <2>8. CASE i = n
    <3>1. Chain[n] # NULL /\ n \in 0 .. n
      BY <1>1, <1>3, <2>4, <2>6, <2>8
    <3>2. ASSUME NEW k \in 0 .. n PROVE Chain[k] # NULL
      <4>1. CASE k = n BY <3>1, <4>1
      <4>2. CASE k # n
        <5>1. k < n
          BY <1>1, <4>2
        <5> QED BY <3>1, <5>1, ChainGrows DEF n
      <4> QED BY <4>1, <4>2
    <3>3. ASSUME NEW k \in 0 .. n, NEW m \in 0 .. n, k < m
          PROVE  Chain[k] # Chain[m]
      <4>1. Chain[k] < Chain[m]
        BY <3>2, <3>3, ChainGrows DEF n
      <4>2. Chain[k] \in Int
        BY <1>1, <3>2 DEF Ptr, Memory
      <4> QED BY <4>1, <4>2
    <3>4. Chain \in [0 .. n -> DOMAIN block]
      BY <1>1, <3>2 DEF Ptr
    <3>5. IsFiniteSet(0 .. n) /\ Cardinality(0 .. n) = n + 1
      BY <1>1, FS_Interval
    <3>6. IsFiniteSet(DOMAIN block) /\ Cardinality(DOMAIN block) < n + 1
      BY <1>1 DEF Memory, n
    <3>7. PICK k, m \in 0 .. n : k # m /\ Chain[k] = Chain[m]
      BY <3>4, <3>5, <3>6, FS_PigeonHole
    <3>8. k < m \/ m < k
      BY <3>7
    <3> QED BY <3>3, <3>7, <3>8
  <2> QED BY <2>7, <2>8, <1>1
<1> QED BY <1>2, <1>3, <1>4 DEF Ptr

-----------------------------------------------------------------------------
LEMMA Constants ==
  /\ VMM_PAGE_SIZE \in Nat /\ VMM_PAGE_SIZE > 0
  /\ BLOCK_SIZE \in Nat /\ BLOCK_SIZE > 0
  /\ MIN_ALLOC_SIZE \in Nat /\ MIN_ALLOC_SIZE > 0
  /\ MaxFrames \in Nat
  /\ NULL \notin Int
  /\ \A size \in Sizes : size \in Nat /\ size > 0
BY KheapAssumption

\* A block is taken whole or freed: only its free flag changes.
LEMMA FlagStep ==
  ASSUME HeapInv, NEW b \in DOMAIN block, NEW v \in BOOLEAN,
         block' = [block EXCEPT ![b].free = v],
         UNCHANGED <<base_addr, frames>>
  PROVE  Memory' /\ InFrames' /\ Linked' /\ Sorted'
<1>1. DOMAIN block' = DOMAIN block /\ Ptr' = Ptr
  BY DEF Ptr, HeapInv, Memory
<1>2. \A c \in DOMAIN block :
        /\ block'[c].size = block[c].size
        /\ block'[c].next = block[c].next
        /\ block'[c].prev = block[c].prev
        /\ block'[c].free \in BOOLEAN
  BY DEF HeapInv, Memory
<1>3. \A c \in DOMAIN block : End(c)' = End(c)
  BY <1>2 DEF End
<1>4. Memory'
  BY <1>1 DEF HeapInv, Memory
<1>5. InFrames'
  BY <1>1, <1>3 DEF HeapInv, InFrames
<1>6. Linked'
  BY <1>1, <1>2 DEF HeapInv, Linked
<1>7. Sorted'
  BY <1>1, <1>2, <1>3 DEF HeapInv, Sorted
<1> QED BY <1>4, <1>5, <1>6, <1>7

\* What a step that splits the block rest off b changes, field by field.
IsSplit(b, size, rest) ==
  /\ rest \in Nat /\ rest \notin DOMAIN block
  /\ b < rest /\ rest + BLOCK_SIZE <= End(b)
  /\ DOMAIN block' = DOMAIN block \cup {rest}
  /\ block' \in [DOMAIN block' -> [size : Nat, free : BOOLEAN,
                                   next : Ptr', prev : Ptr']]
  /\ block'[b].size = size /\ block'[b].next = rest
  /\ block'[b].prev = block[b].prev /\ ~ block'[b].free
  /\ block'[rest].size = block[b].size - size - BLOCK_SIZE
  /\ block'[rest].next = block[b].next /\ block'[rest].prev = b
  /\ \A c \in DOMAIN block \ {b} :
       /\ block'[c].size = block[c].size
       /\ block'[c].free = block[c].free
       /\ block'[c].next = block[c].next
       /\ block'[c].prev = IF c = block[b].next THEN rest ELSE block[c].prev

\* Taken splits a block that is large enough.
LEMMA TakenSplit ==
  ASSUME HeapInv, NEW b \in DOMAIN block, NEW size \in Sizes,
         block[b].size - size >= BLOCK_SIZE + MIN_ALLOC_SIZE,
         block' = Taken(b, size)
  PROVE  IsSplit(b, size, b + BLOCK_SIZE + size)
<1> DEFINE rest == b + BLOCK_SIZE + size
           nxt  == block[b].next
           new  == [size |-> block[b].size - size - BLOCK_SIZE, free |-> TRUE,
                    next |-> block[b].next, prev |-> b]
           cut  == [block EXCEPT ![b].next = rest, ![b].size = size]
           joined == With(cut, rest, new)
           P == Ptr \cup {rest}
           H == [size : Nat, free : BOOLEAN, next : P, prev : P]
<1>1. rest \in Nat /\ b < rest /\ rest + BLOCK_SIZE <= End(b)
  BY Constants DEF HeapInv, Memory, End
<1>2. rest \notin DOMAIN block
  <2>1. End(b) \in Int
    BY Constants DEF HeapInv, Memory, End
  <2> QED BY <1>1, <2>1, Constants DEF HeapInv, Sorted
<1>3. nxt \in Ptr /\ nxt # b /\ b # NULL /\ b \in Ptr
  BY Constants DEF HeapInv, Memory, Sorted, Ptr
<1>4. block \in [DOMAIN block -> H]
  BY DEF HeapInv, Memory
<1>5. new \in H
  BY <1>3, <1>4, Constants
<1>6. cut \in [DOMAIN block -> H]
  BY <1>3, <1>4, Constants
<1>7. /\ cut[b].size = size /\ cut[b].next = rest
      /\ cut[b].prev = block[b].prev
      /\ \A c \in DOMAIN block \ {b} : cut[c] = block[c]
  BY <1>3, <1>4
<1> HIDE DEF rest, cut, P, H
<1>8. joined \in [DOMAIN block \cup {rest} -> H]
  BY <1>5, <1>6 DEF With
<1>9. joined[rest] = new /\ \A c \in DOMAIN block : joined[c] = cut[c]
  BY <1>2, <1>6 DEF With
<1>10. block' = [Relink(joined, nxt, rest) EXCEPT ![b].free = FALSE]
  BY DEF Taken, split_block, rest, cut
<1> HIDE DEF joined
<1>11. b \in DOMAIN joined /\ b # rest /\ NULL \notin DOMAIN joined
  <2>1. NULL \notin DOMAIN block /\ NULL # rest
    BY <1>1, Constants DEF HeapInv, Memory
  <2> QED BY <1>2, <1>8, <2>1
<1>12. nxt # NULL => nxt \in DOMAIN joined
  BY <1>3, <1>8 DEF Ptr
<1>13. Relink(joined, nxt, rest) \in [DOMAIN block \cup {rest} -> H]
  BY <1>8, <1>12 DEF Relink, P, H
<1>14. block' \in [DOMAIN block \cup {rest} -> H]
  BY <1>10, <1>13 DEF H
<1>15. Ptr' = P
  BY <1>14 DEF Ptr, P
<1>16. \A c \in DOMAIN joined :
         /\ block'[c].size = joined[c].size
         /\ block'[c].next = joined[c].next
         /\ c # b => block'[c].free = joined[c].free
         /\ block'[c].prev = IF c = nxt THEN rest ELSE joined[c].prev
  <2> DEFINE R == Relink(joined, nxt, rest)
  <2>1. \A c \in DOMAIN joined :
          /\ R[c].size = joined[c].size
          /\ R[c].next = joined[c].next
          /\ R[c].free = joined[c].free
          /\ R[c].prev = IF c = nxt THEN rest ELSE joined[c].prev
    BY <1>8, <1>11, <1>12 DEF Relink, H
  <2> HIDE DEF R, nxt
  <2>2. \A c \in DOMAIN joined :
          /\ block'[c].size = R[c].size
          /\ block'[c].next = R[c].next
          /\ c # b => block'[c].free = R[c].free
          /\ block'[c].prev = R[c].prev
    <3>1. block' = [R EXCEPT ![b].free = FALSE] /\ b \in DOMAIN R
      BY <1>10, <1>11, <1>13, <1>8 DEF R
    <3>2. DOMAIN R = DOMAIN joined
      BY <1>8, <1>13 DEF R
    <3>3. \A c \in DOMAIN joined : c # b => block'[c] = R[c]
      BY <3>1, <3>2
    <3>4. block'[b] = [R[b] EXCEPT !.free = FALSE]
      BY <3>1
    <3>5. R[b] \in [size : Nat, free : BOOLEAN, next : P, prev : P]
      BY <1>11, <1>8, <1>13 DEF R, H
    <3>6. /\ block'[b].size = R[b].size /\ block'[b].next = R[b].next
          /\ block'[b].prev = R[b].prev
      BY <3>4, <3>5
    <3> QED BY <3>3, <3>6
  <2> QED BY <2>1, <2>2
<1>17. ~ block'[b].free
  BY <1>10, <1>11, <1>13
<1>18. nxt # rest
  BY <1>1, <1>2, <1>3, Constants DEF Ptr
<1>19. /\ block'[b].size = size /\ block'[b].next = rest
       /\ block'[b].prev = block[b].prev
  BY <1>3, <1>7, <1>9, <1>11, <1>16
<1>20. /\ block'[rest].size = block[b].size - size - BLOCK_SIZE
       /\ block'[rest].next = block[b].next /\ block'[rest].prev = b
  BY <1>8, <1>9, <1>16, <1>18
<1>21. ASSUME NEW c \in DOMAIN block \ {b}
       PROVE  /\ block'[c].size = block[c].size
              /\ block'[c].free = block[c].free
              /\ block'[c].next = block[c].next
              /\ block'[c].prev = IF c = nxt THEN rest ELSE block[c].prev
  BY <1>7, <1>8, <1>9, <1>16
<1> HIDE DEF new
<1> HIDE DEF nxt
<1>22. IsSplit(b, size, rest)
  BY <1>1, <1>2, <1>14, <1>15, <1>17, <1>19, <1>20, <1>21 DEF IsSplit, P, H, nxt
<1> QED BY <1>22 DEF rest

\* A block is split: the list stays in order, with one block more.
LEMMA SplitStep ==
  ASSUME HeapInv, NEW b \in DOMAIN block, NEW size \in Sizes,
         block[b].size - size >= BLOCK_SIZE + MIN_ALLOC_SIZE,
         block' = Taken(b, size),
         UNCHANGED <<base_addr, frames>>
  PROVE  Memory' /\ InFrames' /\ Linked' /\ Sorted'
<1> DEFINE rest == b + BLOCK_SIZE + size
           nxt == block[b].next
<1>0. IsSplit(b, size, rest)
  BY TakenSplit
<1> HIDE DEF rest
<1>1. /\ rest \in Nat /\ rest \notin DOMAIN block
      /\ b < rest /\ rest + BLOCK_SIZE <= End(b)
      /\ DOMAIN block' = DOMAIN block \cup {rest}
      /\ block' \in [DOMAIN block' -> [size : Nat, free : BOOLEAN,
                                       next : Ptr', prev : Ptr']]
      /\ block'[b].size = size /\ block'[b].next = rest
      /\ block'[b].prev = block[b].prev
      /\ block'[rest].size = block[b].size - size - BLOCK_SIZE
      /\ block'[rest].next = nxt /\ block'[rest].prev = b
  BY <1>0 DEF IsSplit
<1>2. \A c \in DOMAIN block \ {b} :
        /\ block'[c].size = block[c].size
        /\ block'[c].next = block[c].next
        /\ block'[c].prev = IF c = nxt THEN rest ELSE block[c].prev
  BY <1>0 DEF IsSplit
<1>3. End(b)' = rest /\ End(rest)' = End(b) /\ rest <= End(b)
      /\ \A c \in DOMAIN block \ {b} : End(c)' = End(c)
  <2>1. End(rest)' = End(b)
    BY <1>1, Constants DEF HeapInv, Memory, End, rest
  <2> QED BY <1>1, <1>2, <2>1, Constants DEF HeapInv, Memory, End, rest
<1>4. /\ DOMAIN block \subseteq Nat
      /\ block \in [DOMAIN block -> [size : Nat, free : BOOLEAN,
                                     next : Ptr, prev : Ptr]]
      /\ base_addr \in Ptr /\ IsFiniteSet(DOMAIN block)
      /\ frames \in 0 .. MaxFrames
      /\ \A c \in DOMAIN block : End(c) \in Int
  BY Constants DEF HeapInv, Memory, End
<1>5. Memory'
  <2>1. IsFiniteSet(DOMAIN block')
    BY <1>1, <1>4, FS_AddElement
  <2> QED BY <1>1, <1>4, <2>1 DEF Memory, Ptr
<1>6. InFrames'
  <2>1. PICK k \in 0 .. frames - 1 :
          k * VMM_PAGE_SIZE <= b /\ End(b) <= (k + 1) * VMM_PAGE_SIZE
    BY DEF HeapInv, InFrames
  <2>2. k * VMM_PAGE_SIZE \in Int /\ (k + 1) * VMM_PAGE_SIZE \in Int
    BY Constants, <1>4
  <2>3. /\ k * VMM_PAGE_SIZE <= b /\ End(b)' <= (k + 1) * VMM_PAGE_SIZE
        /\ k * VMM_PAGE_SIZE <= rest /\ End(rest)' <= (k + 1) * VMM_PAGE_SIZE
    <3> DEFINE lo == k * VMM_PAGE_SIZE
               hi == (k + 1) * VMM_PAGE_SIZE
    <3>1. lo \in Int /\ hi \in Int /\ lo <= b /\ End(b) <= hi
      BY <2>1, <2>2
    <3> HIDE DEF lo, hi
    <3>2. lo <= b /\ End(b)' <= hi /\ lo <= rest /\ End(rest)' <= hi
      BY <3>1, <1>1, <1>3, <1>4
    <3> QED BY <3>2 DEF lo, hi
  <2>4. ASSUME NEW c \in DOMAIN block \ {b}
        PROVE  \E m \in 0 .. frames' - 1 :
                 m * VMM_PAGE_SIZE <= c /\ End(c)' <= (m + 1) * VMM_PAGE_SIZE
    BY <1>3 DEF HeapInv, InFrames
  <2> QED BY <1>1, <2>3, <2>4 DEF InFrames
<1>7. /\ b # NULL /\ rest # NULL /\ rest \notin Ptr /\ nxt # b /\ nxt # rest
      /\ nxt # NULL => nxt \in DOMAIN block /\ b < nxt /\ block[nxt].prev = b
      /\ \A c \in DOMAIN block : block[c].prev # rest /\ block[c].next # rest
  <2>1. b # NULL /\ rest # NULL /\ rest \notin Ptr
    BY <1>1, <1>4, Constants DEF Ptr
  <2>2. nxt # b /\ nxt \in Ptr
    BY <2>1, <1>4 DEF HeapInv, Sorted
  <2>3. nxt # NULL => nxt \in DOMAIN block /\ b < nxt /\ block[nxt].prev = b
    BY <2>2 DEF Ptr, HeapInv, Sorted, Linked
  <2>4. \A c \in DOMAIN block : block[c].prev \in Ptr /\ block[c].next \in Ptr
    BY <1>4
  <2> QED BY <2>1, <2>2, <2>3, <2>4
<1>8. Linked'
  <2>1. ASSUME NEW c \in DOMAIN block', NEW d \in DOMAIN block'
        PROVE  block'[c].next = d <=> block'[d].prev = c
    <3>1. CASE c = b /\ d = b
      BY <3>1, <1>1, <1>7 DEF HeapInv, Sorted, Linked
    <3>2. CASE c = b /\ d = rest
      BY <3>2, <1>1
    <3>3. CASE c = rest /\ d = b
      BY <3>3, <1>1, <1>7
    <3>4. CASE c = rest /\ d = rest
      BY <3>4, <1>1, <1>7
    <3>5. CASE c = b /\ d \notin {b, rest}
      BY <3>5, <1>1, <1>2, <1>7 DEF HeapInv, Linked
    <3>6. CASE c = rest /\ d \notin {b, rest}
      BY <3>6, <1>1, <1>2, <1>7 DEF HeapInv, Linked
    <3>7. CASE c \notin {b, rest} /\ d = b
      BY <3>7, <1>1, <1>2, <1>7 DEF HeapInv, Linked
    <3>8. CASE c \notin {b, rest} /\ d = rest
      BY <3>8, <1>1, <1>2, <1>7 DEF HeapInv, Linked
    <3>9. CASE c \notin {b, rest} /\ d \notin {b, rest}
      BY <3>9, <1>1, <1>2, <1>7 DEF HeapInv, Linked
    <3> QED BY <3>1, <3>2, <3>3, <3>4, <3>5, <3>6, <3>7, <3>8, <3>9
  <2>2. ASSUME NEW c \in DOMAIN block'
        PROVE  block'[c].prev = NULL <=> c = base_addr'
    <3>1. base_addr' = base_addr /\ base_addr # rest
      BY <1>4, <1>7
    <3>2. \A d \in DOMAIN block : block[d].prev = NULL <=> d = base_addr
      BY DEF HeapInv, Linked
    <3>3. CASE c = rest
      BY <3>1, <3>3, <1>1, <1>7
    <3>4. CASE c = b
      BY <3>1, <3>2, <3>4, <1>1
    <3>5. CASE c \in DOMAIN block \ {b} /\ c = nxt
      <4>1. block'[c].prev = rest /\ block[c].prev = b
        BY <3>5, <1>2, <1>4, <1>7, Constants
      <4> QED BY <3>1, <3>2, <3>5, <4>1, <1>7
    <3>6. CASE c \in DOMAIN block \ {b} /\ c # nxt
      BY <3>1, <3>2, <3>6, <1>2
    <3> QED BY <3>3, <3>4, <3>5, <3>6, <1>1
  <2>3. base_addr' # NULL => \E c \in DOMAIN block' : block'[c].next = NULL
    <3> SUFFICES ASSUME base_addr # NULL
                 PROVE  \E c \in DOMAIN block' : block'[c].next = NULL
      OBVIOUS
    <3>1. PICK c \in DOMAIN block : block[c].next = NULL
      BY DEF HeapInv, Linked
    <3> QED BY <3>1, <1>1, <1>2
  <2>4. base_addr' = NULL => DOMAIN block' = {}
    BY DEF HeapInv, Linked
  <2> QED BY <2>1, <2>2, <2>3, <2>4 DEF Linked
<1>9. Sorted'
  <2>1. \A c \in DOMAIN block' : base_addr' <= c
    <3>1. base_addr <= b /\ base_addr \in DOMAIN block
      BY <1>4 DEF HeapInv, Sorted, Linked, Ptr
    <3> QED BY <3>1, <1>1, <1>4 DEF HeapInv, Sorted
  <2>2. ASSUME NEW c \in DOMAIN block', block'[c].next # NULL
        PROVE  c < block'[c].next
    <3>1. CASE c = rest
      <4>1. nxt \in DOMAIN block /\ End(b) <= nxt
        BY <3>1, <2>2, <1>1, <1>7 DEF HeapInv, Sorted
      <4> QED BY <4>1, <3>1, <1>1, <1>4, Constants
    <3>2. CASE c # rest
      BY <2>2, <3>2, <1>1, <1>2 DEF HeapInv, Sorted
    <3> QED BY <3>1, <3>2
  <2>3. ASSUME NEW c \in DOMAIN block', NEW d \in DOMAIN block', c < d
        PROVE  /\ block'[c].next # NULL
               /\ block'[c].next <= d
               /\ End(c)' <= d
    <3>1. CASE c = b /\ d = rest
      BY <3>1, <1>1, <1>3, <1>7
    <3>2. CASE c = b /\ d # rest
      <4>1. d \in DOMAIN block /\ End(b) <= d
        BY <2>3, <3>2, <1>1 DEF HeapInv, Sorted
      <4>2. rest <= d
        BY <4>1, <1>1, <1>3, <1>4, Constants
      <4> QED BY <3>2, <4>2, <1>1, <1>3, <1>7
    <3>3. CASE c = rest
      <4>1. d \in DOMAIN block /\ b < d
        BY <2>3, <3>3, <1>1, <1>4
      <4>2. nxt # NULL /\ nxt <= d /\ End(b) <= d
        BY <4>1 DEF HeapInv, Sorted
      <4> QED BY <3>3, <4>2, <1>1, <1>3
    <3>4. CASE c \notin {b, rest} /\ d = rest
      <4>1. c \in DOMAIN block /\ ~ (b < c)
        <5>1. b < c => End(b) <= c
          BY <3>4, <1>1 DEF HeapInv, Sorted
        <5> QED BY <2>3, <3>4, <5>1, <1>1, <1>4, Constants
      <4>2. c < b
        BY <3>4, <4>1, <1>4
      <4>3. block[c].next # NULL /\ block[c].next <= b /\ End(c) <= b
        BY <4>1, <4>2 DEF HeapInv, Sorted
      <4>4. block[c].next \in Int /\ End(c) \in Int
        BY <4>1, <4>3, <1>4 DEF Ptr
      <4> QED BY <3>4, <4>1, <4>3, <4>4, <1>1, <1>2, <1>3, <1>4
    <3>5. CASE c \notin {b, rest} /\ d # rest
      BY <2>3, <3>5, <1>1, <1>2, <1>3 DEF HeapInv, Sorted
    <3> QED BY <3>1, <3>2, <3>3, <3>4, <3>5
  <2> QED BY <2>1, <2>2, <2>3 DEF Sorted
<1> QED BY <1>5, <1>6, <1>8, <1>9

LEMMA ReuseStep ==
  ASSUME HeapInv, NEW size \in Sizes, kmalloc_reuse(size)
  PROVE  HeapInv'
<1> DEFINE b == find_block(size)
<1>1. b # NULL /\ block' = Taken(b, size) /\ live' = With(live, b, size)
      /\ UNCHANGED <<base_addr, frames>>
  BY DEF kmalloc_reuse
<1>2. b \in DOMAIN block /\ block[b].free /\ block[b].size >= size
  BY <1>1, FindBlock DEF HeapInv
<1> HIDE DEF b
<1>3. DOMAIN live' = DOMAIN live \cup {b} /\ live'[b] = size
      /\ \A c \in DOMAIN live \ {b} : live'[c] = live[c]
  BY <1>1 DEF With
<1>4. live' \in [DOMAIN live' -> Sizes]
  BY <1>1 DEF With, HeapInv, Owned
<1>5. \A c \in DOMAIN live : /\ c \in DOMAIN block /\ c # b
                             /\ ~ block[c].free /\ block[c].size >= live[c]
  BY <1>2 DEF HeapInv, Owned, LiveIntact
<1>6. CASE block[b].size - size >= BLOCK_SIZE + MIN_ALLOC_SIZE
  <2>1. IsSplit(b, size, b + BLOCK_SIZE + size)
    BY <1>1, <1>2, <1>6, TakenSplit
  <2> DEFINE rest == b + BLOCK_SIZE + size
  <2> HIDE DEF rest
  <2>2. /\ b \in DOMAIN block' /\ ~ block'[b].free /\ block'[b].size >= size
        /\ \A c \in DOMAIN block \ {b} :
             /\ c \in DOMAIN block' /\ block'[c].free = block[c].free
             /\ block'[c].size = block[c].size
    <3>1. IsSplit(b, size, rest) /\ size >= size
      BY <2>1, Constants DEF rest
    <3> QED BY <1>2, <3>1 DEF IsSplit
  <2>3. ASSUME NEW c \in DOMAIN live'
        PROVE  /\ c \in DOMAIN block' /\ ~ block'[c].free
               /\ block'[c].size >= live'[c]
    <3>1. CASE c = b
      BY <3>1, <1>3, <2>2
    <3>2. CASE c # b
      BY <3>2, <1>3, <1>5, <2>2
    <3> QED BY <3>1, <3>2
  <2>4. Owned'
    BY <1>4, <2>3 DEF Owned, LiveIntact
  <2> QED BY <1>1, <1>2, <1>6, <2>4, SplitStep DEF HeapInv
<1>7. CASE ~ (block[b].size - size >= BLOCK_SIZE + MIN_ALLOC_SIZE)
  <2>1. block' = [block EXCEPT ![b].free = FALSE]
    BY <1>1, <1>7 DEF Taken
  <2>2. /\ b \in DOMAIN block' /\ ~ block'[b].free /\ block'[b].size >= size
        /\ \A c \in DOMAIN block \ {b} :
             c \in DOMAIN block' /\ block'[c] = block[c]
    BY <1>2, <2>1 DEF HeapInv, Memory
  <2>3. ASSUME NEW c \in DOMAIN live'
        PROVE  /\ c \in DOMAIN block' /\ ~ block'[c].free
               /\ block'[c].size >= live'[c]
    <3>1. CASE c = b
      BY <3>1, <1>3, <2>2
    <3>2. CASE c # b
      BY <3>2, <1>3, <1>5, <2>2
    <3> QED BY <3>1, <3>2
  <2>4. Owned'
    BY <1>4, <2>3 DEF Owned, LiveIntact
  <2> QED BY <1>1, <1>2, <2>1, <2>4, FlagStep DEF HeapInv
<1> QED BY <1>6, <1>7

-----------------------------------------------------------------------------
(***************************************************************************)
(* What a step that lays out a new frame at result changes: a block of the *)
(* size asked for behind the last one, and in its frame, if there is room, *)
(* a free block at rest.                                                   *)
(***************************************************************************)
IsExpansion(result, size, rest, extra) ==
  /\ result \in Nat /\ rest = result + BLOCK_SIZE + size
  /\ \A c \in DOMAIN block : End(c) <= result
  /\ DOMAIN block' = DOMAIN block \cup {result}
                       \cup (IF extra THEN {rest} ELSE {})
  /\ block' \in [DOMAIN block' -> [size : Nat, free : BOOLEAN,
                                   next : Ptr', prev : Ptr']]
  /\ block'[result].size = size /\ ~ block'[result].free
  /\ block'[result].next = (IF extra THEN rest ELSE NULL)
  /\ block'[result].prev = Last
  /\ rest <= result + VMM_PAGE_SIZE
  /\ extra => /\ block'[rest].next = NULL /\ block'[rest].prev = result
              /\ rest + BLOCK_SIZE + block'[rest].size
                   <= result + VMM_PAGE_SIZE
  /\ \A c \in DOMAIN block :
       /\ block'[c].size = block[c].size
       /\ block'[c].free = block[c].free
       /\ block'[c].prev = block[c].prev
       /\ block'[c].next = IF c = Last THEN result ELSE block[c].next

\* The blocks lie in the frames that the heap has.
LEMMA FramesEnd ==
  ASSUME HeapInv
  PROVE  /\ frames * VMM_PAGE_SIZE \in Nat
         /\ (frames + 1) * VMM_PAGE_SIZE = frames * VMM_PAGE_SIZE + VMM_PAGE_SIZE
         /\ \A b \in DOMAIN block : End(b) <= frames * VMM_PAGE_SIZE
<1>1. frames \in Nat /\ \A b \in DOMAIN block : End(b) \in Int
  BY Constants DEF HeapInv, Memory, End
<1>2. ASSUME NEW k \in 0 .. frames - 1
      PROVE  (k + 1) * VMM_PAGE_SIZE <= frames * VMM_PAGE_SIZE
  <2>1. PICK d \in Nat : frames = k + 1 + d
    <3>1. frames - k - 1 \in Nat /\ frames = k + 1 + (frames - k - 1)
      BY <1>1
    <3> QED BY <3>1
  <2>2. frames * VMM_PAGE_SIZE = (k + 1) * VMM_PAGE_SIZE + d * VMM_PAGE_SIZE
    BY <2>1, Constants
  <2>3. d * VMM_PAGE_SIZE \in Nat /\ (k + 1) * VMM_PAGE_SIZE \in Nat
    BY Constants, <1>1
  <2> QED BY <2>2, <2>3
<1>3. frames * VMM_PAGE_SIZE \in Nat
      /\ (frames + 1) * VMM_PAGE_SIZE = frames * VMM_PAGE_SIZE + VMM_PAGE_SIZE
  BY <1>1, Constants
<1>4. ASSUME NEW b \in DOMAIN block PROVE End(b) <= frames * VMM_PAGE_SIZE
  <2>1. PICK k \in 0 .. frames - 1 : End(b) <= (k + 1) * VMM_PAGE_SIZE
    BY DEF HeapInv, InFrames
  <2>2. (k + 1) * VMM_PAGE_SIZE \in Int
    BY <1>1, Constants
  <2> DEFINE x == (k + 1) * VMM_PAGE_SIZE
             y == frames * VMM_PAGE_SIZE
  <2>3. x \in Int /\ y \in Int /\ End(b) <= x /\ x <= y /\ End(b) \in Int
    BY <1>1, <1>2, <1>3, <2>1, <2>2
  <2> HIDE DEF x, y
  <2>4. End(b) <= y
    BY <2>3
  <2> QED BY <2>4 DEF y
<1> QED BY <1>3, <1>4

\* expand_heap lays the frame out so, whether or not it adds a free block.
LEMMA ExpandHeap ==
  ASSUME HeapInv, NEW size \in Sizes,
         block' = expand_heap(frames * VMM_PAGE_SIZE, size)
  PROVE  \E rest, extra : IsExpansion(frames * VMM_PAGE_SIZE, size, rest, extra)
<1> DEFINE result == frames * VMM_PAGE_SIZE
           free_bytes == VMM_PAGE_SIZE % size
           rest  == result + size + BLOCK_SIZE
           extra == free_bytes > BLOCK_SIZE + MIN_ALLOC_SIZE
           new   == [size |-> size, free |-> FALSE, prev |-> Last,
                     next |-> IF extra THEN rest ELSE NULL]
           free  == [size |-> free_bytes - BLOCK_SIZE, free |-> TRUE,
                     prev |-> result, next |-> NULL]
           blk   == With(Appended(result), result, new)
           P     == Ptr \cup {result, rest}
           H     == [size : Nat, free : BOOLEAN, next : P, prev : P]
<1>1. block' = IF extra THEN With(blk, rest, free) ELSE blk
  BY DEF expand_heap
<1>2. result \in Nat /\ \A c \in DOMAIN block : End(c) <= result
  BY FramesEnd
<1>3. size \in Nat /\ free_bytes \in Nat
      /\ BLOCK_SIZE + size + free_bytes <= VMM_PAGE_SIZE
  BY KheapAssumption
<1> HIDE DEF result, free_bytes
<1>4. /\ rest \in Nat /\ rest = result + BLOCK_SIZE + size /\ rest # result
      /\ rest <= result + VMM_PAGE_SIZE
      /\ extra => /\ free_bytes - BLOCK_SIZE \in Nat
                  /\ rest + BLOCK_SIZE + (free_bytes - BLOCK_SIZE)
                       <= result + VMM_PAGE_SIZE
  BY <1>2, <1>3, Constants
<1>5. \A c \in DOMAIN block : c # result /\ c # rest /\ c # NULL
  <2>1. \A c \in DOMAIN block : c < End(c) /\ c \in Int /\ End(c) \in Int
    BY Constants DEF HeapInv, Memory, End
  <2> QED BY <1>2, <1>3, <2>1, Constants
<1>6. Last \in Ptr /\ (Last = NULL \/ Last \in DOMAIN block)
  BY LastBlock DEF HeapInv, Ptr
<1> HIDE DEF rest, extra, P, H
<1>7. block \in [DOMAIN block -> H]
  BY DEF HeapInv, Memory, H, P
<1>8. Appended(result) \in [DOMAIN block -> H]
  BY <1>6, <1>7 DEF Appended, H, P
<1>9. \A c \in DOMAIN block :
        /\ Appended(result)[c].size = block[c].size
        /\ Appended(result)[c].free = block[c].free
        /\ Appended(result)[c].prev = block[c].prev
        /\ Appended(result)[c].next = IF c = Last THEN result
                                                  ELSE block[c].next
  BY <1>5, <1>6, <1>7 DEF Appended, H
<1>10. new \in H /\ (extra => free \in H)
  BY <1>3, <1>4, <1>6 DEF H, P, Ptr
<1>11. new.size = size /\ ~ new.free /\ new.prev = Last
       /\ new.next = (IF extra THEN rest ELSE NULL)
       /\ free.size = free_bytes - BLOCK_SIZE /\ free.next = NULL
       /\ free.prev = result
  OBVIOUS
<1> HIDE DEF new, free
<1>12. blk \in [DOMAIN block \cup {result} -> H] /\ blk[result] = new
       /\ \A c \in DOMAIN block : blk[c] = Appended(result)[c]
  BY <1>5, <1>8, <1>10 DEF With
<1> HIDE DEF blk
<1>13. CASE ~ extra
  <2>1. block' = blk /\ DOMAIN block' = DOMAIN block \cup {result}
    BY <1>1, <1>12, <1>13
  <2>2. Ptr' = Ptr \cup {result}
    BY <2>1 DEF Ptr
  <2>3. \A c \in DOMAIN block : block[c].next \in Ptr /\ block[c].prev \in Ptr
    BY DEF HeapInv, Memory
  <2>4. \A c \in DOMAIN block' : /\ block'[c] \in H
                                 /\ block'[c].next \in Ptr'
                                 /\ block'[c].prev \in Ptr'
    BY <1>6, <1>9, <1>11, <1>12, <1>13, <2>1, <2>2, <2>3 DEF Ptr
  <2>5. block' \in [DOMAIN block' -> [size : Nat, free : BOOLEAN,
                                      next : Ptr', prev : Ptr']]
    <3>1. \A c \in DOMAIN block' : block'[c] \in [size : Nat, free : BOOLEAN,
                                                  next : Ptr', prev : Ptr']
      BY <2>4 DEF H
    <3>2. block' = [c \in DOMAIN block' |-> block'[c]]
      BY <2>1, <1>12
    <3> QED BY <3>1, <3>2
  <2>6. IsExpansion(result, size, rest, extra)
    BY <1>2, <1>4, <1>9, <1>11, <1>12, <1>13, <2>1, <2>5 DEF IsExpansion
  <2> QED BY <2>6 DEF result
<1>14. CASE extra
  <2>1. block' \in [DOMAIN block \cup {result, rest} -> H]
    BY <1>1, <1>10, <1>12, <1>14 DEF With
  <2>2. Ptr' = P
    BY <2>1 DEF Ptr, P
  <2>3. block'[rest] = free /\ block'[result] = new
        /\ \A c \in DOMAIN block : block'[c] = Appended(result)[c]
    BY <1>1, <1>4, <1>5, <1>12, <1>14 DEF With
  <2>4. DOMAIN block' = DOMAIN block \cup {result} \cup {rest}
    BY <2>1
  <2>5. block' \in [DOMAIN block' -> [size : Nat, free : BOOLEAN,
                                      next : Ptr', prev : Ptr']]
    BY <2>1, <2>2 DEF H
  <2>6. IsExpansion(result, size, rest, extra)
    BY <1>2, <1>4, <1>9, <1>11, <1>14, <2>3, <2>4, <2>5 DEF IsExpansion
  <2> QED BY <2>6 DEF result
<1> QED BY <1>13, <1>14

LEMMA ExpandStep ==
  ASSUME HeapInv, NEW size \in Sizes, kmalloc_expand(size)
  PROVE  HeapInv'
<1>0. PICK result : result = frames * VMM_PAGE_SIZE
  OBVIOUS
<1>1. /\ frames < MaxFrames /\ frames' = frames + 1
      /\ block' = expand_heap(result, size)
      /\ base_addr' = IF base_addr = NULL THEN result ELSE base_addr
      /\ live' = With(live, result, size)
  BY <1>0 DEF kmalloc_expand
<1>2. PICK rest, extra : IsExpansion(result, size, rest, extra)
  BY <1>0, <1>1, ExpandHeap
<1>3. /\ frames' * VMM_PAGE_SIZE = result + VMM_PAGE_SIZE
      /\ frames \in Nat /\ frames' \in 0 .. MaxFrames /\ size \in Nat
      /\ frames \in 0 .. frames' - 1
  BY <1>0, <1>1, FramesEnd, Constants DEF HeapInv, Memory
<1>4. /\ result = frames * VMM_PAGE_SIZE
      /\ (frames + 1) * VMM_PAGE_SIZE = result + VMM_PAGE_SIZE
  BY <1>0, <1>1, <1>3
<1> DEFINE D == DOMAIN block
<1>5. /\ result \in Nat /\ rest = result + BLOCK_SIZE + size /\ rest \in Nat
      /\ result < rest /\ rest <= result + VMM_PAGE_SIZE
      /\ block'[result].size = size /\ ~ block'[result].free
      /\ block'[result].next = (IF extra THEN rest ELSE NULL)
      /\ block'[result].prev = Last
  BY <1>2, <1>3, Constants DEF IsExpansion
<1>6. /\ extra => /\ rest \in DOMAIN block'
                  /\ block'[rest].next = NULL /\ block'[rest].prev = result
                  /\ rest + BLOCK_SIZE + block'[rest].size
                       <= result + VMM_PAGE_SIZE
      /\ \A c \in D : /\ block'[c].size = block[c].size
                      /\ block'[c].free = block[c].free
                      /\ block'[c].prev = block[c].prev
                      /\ block'[c].next = IF c = Last THEN result
                                                      ELSE block[c].next
  BY <1>2 DEF IsExpansion
<1>7. /\ result \in DOMAIN block' /\ D \subseteq DOMAIN block'
      /\ \A c \in DOMAIN block' : c \in D \/ c = result \/ (extra /\ c = rest)
      /\ DOMAIN block' \subseteq D \cup {result} \cup {rest}
  BY <1>2 DEF IsExpansion
<1>8. block' \in [DOMAIN block' -> [size : Nat, free : BOOLEAN,
                                    next : Ptr', prev : Ptr']]
  BY <1>2 DEF IsExpansion
<1>9. /\ D \subseteq Nat /\ IsFiniteSet(D) /\ base_addr \in Ptr
      /\ \A c \in D : /\ End(c) \in Int /\ c < End(c)
                      /\ End(c) <= result /\ c < result
                      /\ block[c].next \in Ptr /\ block[c].prev \in Ptr
  <2>1. \A c \in D : End(c) \in Int /\ c < End(c) /\ c \in Int
    BY Constants DEF HeapInv, Memory, End
  <2>2. \A c \in D : End(c) <= result
    BY <1>2 DEF IsExpansion
  <2> QED BY <2>1, <2>2, <1>5 DEF HeapInv, Memory
<1>10. /\ NULL \notin Nat /\ result \notin Ptr /\ rest \notin Ptr
       /\ rest # NULL /\ result # NULL
  BY <1>5, <1>9, Constants DEF Ptr
<1>11. /\ base_addr = NULL => Last = NULL /\ D = {}
       /\ base_addr # NULL =>
            /\ base_addr \in D /\ Last \in D /\ block[Last].next = NULL
            /\ \A c \in D : c # Last => c < Last /\ block[c].next # NULL
  BY LastBlock, <1>9 DEF HeapInv, Linked, Ptr
<1>12. Memory'
  <2>1. IsFiniteSet(D \cup {result} \cup {rest})
    BY <1>9, FS_AddElement
  <2>2. IsFiniteSet(DOMAIN block')
    BY <1>7, <2>1, FS_Subset
  <2>3. DOMAIN block' \subseteq Nat
    BY <1>5, <1>7, <1>9
  <2>4. base_addr' \in Ptr'
    BY <1>1, <1>7, <1>11 DEF Ptr
  <2> QED BY <1>3, <1>8, <2>2, <2>3, <2>4 DEF Memory
<1>13. \A c \in D : End(c)' = End(c)
  BY <1>6 DEF End
<1>14. End(result)' = rest /\ (extra => End(rest)' <= result + VMM_PAGE_SIZE)
  <2>1. End(result)' = result + BLOCK_SIZE + block'[result].size
        /\ End(rest)' = rest + BLOCK_SIZE + block'[rest].size
    BY DEF End
  <2> QED BY <2>1, <1>5, <1>6
<1>15. InFrames'
  <2>1. ASSUME NEW c \in D
        PROVE  \E k \in 0 .. frames' - 1 :
                 k * VMM_PAGE_SIZE <= c /\ End(c)' <= (k + 1) * VMM_PAGE_SIZE
    <3>1. PICK k \in 0 .. frames - 1 :
            k * VMM_PAGE_SIZE <= c /\ End(c) <= (k + 1) * VMM_PAGE_SIZE
      BY DEF HeapInv, InFrames
    <3>2. k \in 0 .. frames' - 1
      BY <1>1, <1>3
    <3> QED BY <3>1, <3>2, <1>13
  <2>2. /\ frames * VMM_PAGE_SIZE <= result
        /\ End(result)' <= (frames + 1) * VMM_PAGE_SIZE
        /\ frames * VMM_PAGE_SIZE <= rest
        /\ extra => End(rest)' <= (frames + 1) * VMM_PAGE_SIZE
    BY <1>4, <1>5, <1>14
  <2>3. ASSUME NEW c \in DOMAIN block'
        PROVE  \E k \in 0 .. frames' - 1 :
                 k * VMM_PAGE_SIZE <= c /\ End(c)' <= (k + 1) * VMM_PAGE_SIZE
    <3>1. CASE c \in D BY <2>1, <3>1
    <3>2. CASE c = result
      <4>1. frames \in 0 .. frames' - 1
        BY <1>3
      <4> QED BY <4>1, <2>2, <3>2
    <3>3. CASE extra /\ c = rest
      <4>1. frames \in 0 .. frames' - 1
        BY <1>3
      <4> QED BY <4>1, <2>2, <3>3
    <3> QED BY <3>1, <3>2, <3>3, <1>7
  <2> QED BY <2>3 DEF InFrames
<1>16. Linked'
  <2>1. ASSUME NEW c \in DOMAIN block', NEW d \in DOMAIN block'
        PROVE  block'[c].next = d <=> block'[d].prev = c
    <3>1. CASE c \in D /\ d \in D
      <4>1. block[c].next = d <=> block[d].prev = c
        BY <3>1 DEF HeapInv, Linked
      <4>2. CASE c = Last
        <5>1. base_addr # NULL
          BY <3>1, <1>11
        <5> QED BY <3>1, <4>1, <4>2, <5>1, <1>6, <1>9, <1>10, <1>11 DEF Ptr
      <4>3. CASE c # Last
        BY <3>1, <4>1, <4>3, <1>6
      <4> QED BY <4>2, <4>3
    <3>2. CASE c \in D /\ d = result
      <4>1. block'[c].next = d <=> c = Last
        BY <3>2, <1>6, <1>9, <1>10
      <4> QED BY <3>2, <4>1, <1>5
    <3>3. CASE c \in D /\ extra /\ d = rest
      <4>1. block'[c].next # rest
        BY <3>3, <1>5, <1>6, <1>9, <1>10
      <4>2. block'[rest].prev = result /\ c # result
        BY <3>3, <1>6, <1>9, <1>10 DEF Ptr
      <4> QED BY <3>3, <4>1, <4>2
    <3>4. CASE c = result /\ d \in D
      <4>1. d # rest /\ d # NULL /\ block[d].prev # result
        BY <3>4, <1>9, <1>10 DEF Ptr
      <4> QED BY <3>4, <4>1, <1>5, <1>6
    <3>5. CASE c = result /\ d = result
      <4>1. Last # result
        BY <1>10, <1>11 DEF Ptr
      <4> QED BY <3>5, <4>1, <1>5, <1>10
    <3>6. CASE c = result /\ extra /\ d = rest
      BY <3>6, <1>5, <1>6
    <3>7. CASE extra /\ c = rest /\ d \in D
      <4>1. d # NULL /\ block[d].prev # rest
        BY <3>7, <1>9, <1>10 DEF Ptr
      <4> QED BY <3>7, <4>1, <1>6
    <3>8. CASE extra /\ c = rest /\ d = result
      <4>1. Last # rest
        BY <1>10, <1>11 DEF Ptr
      <4> QED BY <3>8, <4>1, <1>5, <1>6, <1>10
    <3>9. CASE extra /\ c = rest /\ d = rest
      <4>1. rest # result
        BY <1>5
      <4> QED BY <3>9, <4>1, <1>6, <1>10
    <3> QED
      BY <1>7, <3>1, <3>2, <3>3, <3>4, <3>5, <3>6, <3>7, <3>8, <3>9
  <2>2. ASSUME NEW c \in DOMAIN block'
        PROVE  block'[c].prev = NULL <=> c = base_addr'
    <3>1. CASE c \in D
      <4>1. base_addr # NULL
        BY <3>1, <1>11
      <4>2. block[c].prev = NULL <=> c = base_addr
        BY <3>1 DEF HeapInv, Linked
      <4> QED BY <3>1, <4>1, <4>2, <1>1, <1>6
    <3>2. CASE c = result
      <4>1. Last = NULL <=> base_addr = NULL
        BY <1>9, <1>10, <1>11
      <4>2. result # base_addr
        BY <1>9, <1>10
      <4> QED BY <3>2, <4>1, <4>2, <1>1, <1>5
    <3>3. CASE extra /\ c = rest
      <4>1. rest # base_addr /\ rest # result
        BY <1>5, <1>9, <1>10
      <4> QED BY <3>3, <4>1, <1>1, <1>6, <1>10
    <3> QED BY <3>1, <3>2, <3>3, <1>7
  <2>3. \E c \in DOMAIN block' : block'[c].next = NULL
    BY <1>5, <1>6, <1>7
  <2>4. base_addr' # NULL
    BY <1>1, <1>10
  <2> QED BY <2>1, <2>2, <2>3, <2>4 DEF Linked
<1>17. Sorted'
  <2>1. \A c \in DOMAIN block' : base_addr' <= c
    <3>1. CASE base_addr = NULL
      BY <3>1, <1>1, <1>5, <1>7, <1>11
    <3>2. CASE base_addr # NULL
      <4>1. \A c \in D : base_addr <= c
        BY DEF HeapInv, Sorted
      <4>2. base_addr \in Int /\ base_addr < result
        BY <3>2, <1>9, <1>11
      <4> QED BY <3>2, <4>1, <4>2, <1>1, <1>5, <1>7
    <3> QED BY <3>1, <3>2
  <2>2. ASSUME NEW c \in DOMAIN block', block'[c].next # NULL
        PROVE  c < block'[c].next
    <3>1. CASE c \in D
      BY <3>1, <2>2, <1>6, <1>9 DEF HeapInv, Sorted
    <3>2. CASE c = result
      BY <3>2, <2>2, <1>5
    <3>3. CASE extra /\ c = rest
      BY <3>3, <2>2, <1>6
    <3> QED BY <3>1, <3>2, <3>3, <1>7
  <2>3. ASSUME NEW c \in DOMAIN block', NEW d \in DOMAIN block', c < d
        PROVE  /\ block'[c].next # NULL
               /\ block'[c].next <= d
               /\ End(c)' <= d
    <3>1. CASE c \in D /\ d \in D
      <4>1. block[c].next # NULL /\ block[c].next <= d /\ End(c) <= d
        BY <2>3, <3>1 DEF HeapInv, Sorted
      <4>2. c # Last
        BY <3>1, <4>1, <1>11
      <4> QED BY <3>1, <4>1, <4>2, <1>6, <1>13
    <3>2. CASE c \in D /\ d \notin D
      <4>1. result <= d
        BY <3>2, <1>5, <1>7
      <4>2. block'[c].next \in Int /\ block'[c].next <= result
            /\ block'[c].next # NULL
        <5>1. CASE c = Last
          BY <3>2, <5>1, <1>5, <1>6, <1>10
        <5>2. CASE c # Last
          <6>1. block[c].next # NULL
            BY <3>2, <5>2, <1>11
          <6>2. block[c].next \in D
            BY <3>2, <6>1, <1>9 DEF Ptr
          <6> QED BY <3>2, <5>2, <6>1, <6>2, <1>5, <1>6, <1>9
        <5> QED BY <5>1, <5>2
      <4>3. d \in Int
        BY <3>2, <1>5, <1>7
      <4> QED BY <3>2, <4>1, <4>2, <4>3, <1>5, <1>9, <1>13
    <3>3. CASE c = result
      <4>1. extra /\ d = rest
        BY <2>3, <3>3, <1>5, <1>7, <1>9
      <4> QED BY <3>3, <4>1, <1>5, <1>10, <1>14
    <3>4. CASE extra /\ c = rest
      BY <2>3, <3>4, <1>5, <1>7, <1>9
    <3>5. c \in D \/ c = result \/ (extra /\ c = rest)
      BY <1>7
    <3> HIDE DEF D
    <3> QED BY <3>1, <3>2, <3>3, <3>4, <3>5
  <2> QED BY <2>1, <2>2, <2>3 DEF Sorted
<1>18. Owned'
  <2>1. DOMAIN live' = DOMAIN live \cup {result} /\ live'[result] = size
        /\ \A c \in DOMAIN live \ {result} : live'[c] = live[c]
    BY <1>1 DEF With
  <2>2. live' \in [DOMAIN live' -> Sizes]
    BY <1>1 DEF With, HeapInv, Owned
  <2>3. ASSUME NEW c \in DOMAIN live'
        PROVE  /\ c \in DOMAIN block' /\ ~ block'[c].free
               /\ block'[c].size >= live'[c]
    <3>1. CASE c = result
      BY <3>1, <2>1, <1>3, <1>5, <1>7
    <3>2. CASE c # result
      <4>1. c \in D /\ ~ block[c].free /\ block[c].size >= live[c]
        BY <3>2, <2>1 DEF HeapInv, Owned, LiveIntact
      <4> QED BY <3>2, <4>1, <2>1, <1>6, <1>7
    <3> QED BY <3>1, <3>2
  <2> QED BY <2>2, <2>3 DEF Owned, LiveIntact
<1> QED BY <1>12, <1>15, <1>16, <1>17, <1>18 DEF HeapInv

-----------------------------------------------------------------------------
\* The last block is dropped from the list, and its predecessor is the last.
LEMMA DropStep ==
  ASSUME HeapInv, NEW b \in DOMAIN block, block[b].next = NULL,
         block' = Dropped(b),
         base_addr' = IF block[b].prev = NULL THEN NULL ELSE base_addr,
         UNCHANGED frames
  PROVE  /\ Memory' /\ InFrames' /\ Linked' /\ Sorted'
         /\ \A c \in DOMAIN block \ {b} :
              /\ c \in DOMAIN block' /\ block'[c].free = block[c].free
              /\ block'[c].size = block[c].size
<1>1. PICK p : p = block[b].prev
  OBVIOUS
<1> DEFINE D == DOMAIN block \ {b}
           blk == IF p = NULL THEN block ELSE [block EXCEPT ![p].next = NULL]
           H == [size : Nat, free : BOOLEAN, next : Ptr, prev : Ptr]
<1>2. block' = [c \in D |-> blk[c]]
  BY <1>1 DEF Dropped, Restrict
<1>3. /\ DOMAIN block \subseteq Nat /\ block \in [DOMAIN block -> H]
      /\ NULL \notin DOMAIN block /\ NULL \in Ptr
      /\ IsFiniteSet(DOMAIN block) /\ base_addr \in Ptr /\ p \in Ptr
  BY <1>1, Constants DEF HeapInv, Memory, Ptr
<1>4. base_addr # NULL /\ \A c \in D : c < b /\ block[c].next # NULL
  <2>1. base_addr # NULL
    BY DEF HeapInv, Linked
  <2>2. Last = b
    BY <2>1, LastBlock DEF HeapInv
  <2> QED BY <2>1, <2>2, LastBlock DEF HeapInv
<1>5. /\ p = NULL <=> b = base_addr
      /\ p # NULL => p \in D /\ block[p].next = b
      /\ \A c \in D : (block[c].next = b <=> c = p) /\ block[c].prev # b
  <2>1. p = NULL <=> b = base_addr
    BY <1>1 DEF HeapInv, Linked
  <2>2. \A c \in DOMAIN block : block[c].next = b <=> c = p
    BY <1>1 DEF HeapInv, Linked
  <2>3. \A c \in DOMAIN block : block[c].prev # b
    BY <1>3 DEF HeapInv, Linked
  <2>4. p # b
    BY <1>1, <2>3
  <2> QED BY <2>1, <2>2, <2>3, <2>4, <1>3 DEF Ptr
<1>6. DOMAIN block' = D /\ Ptr' = Ptr \ {b}
  BY <1>2, <1>3 DEF Ptr
<1>7. \A c \in D : /\ block'[c].size = block[c].size
                   /\ block'[c].free = block[c].free
                   /\ block'[c].prev = block[c].prev
                   /\ block'[c].next = IF c = p THEN NULL ELSE block[c].next
                   /\ block'[c] \in H
  <2>1. \A c \in D : /\ blk[c].size = block[c].size
                     /\ blk[c].free = block[c].free
                     /\ blk[c].prev = block[c].prev
                     /\ blk[c].next = IF c = p THEN NULL ELSE block[c].next
                     /\ blk[c] \in H
    BY <1>3, <1>5
  <2>2. \A c \in D : block'[c] = blk[c]
    BY <1>2
  <2> QED BY <2>1, <2>2
<1> HIDE DEF blk
<1>8. Memory'
  <2>1. \A c \in D : /\ block[c].next \in Ptr /\ block[c].prev \in Ptr
    BY <1>3
  <2>2. \A c \in D : block'[c].next \in Ptr' /\ block'[c].prev \in Ptr'
    BY <1>3, <1>5, <1>6, <1>7, <2>1
  <2>3. \A c \in D : block'[c] \in [size : Nat, free : BOOLEAN,
                                    next : Ptr', prev : Ptr']
    BY <1>7, <2>2
  <2>4. block' \in [DOMAIN block' -> [size : Nat, free : BOOLEAN,
                                      next : Ptr', prev : Ptr']]
    BY <1>2, <1>6, <2>3
  <2>5. IsFiniteSet(DOMAIN block')
    BY <1>3, <1>6, FS_RemoveElement
  <2>6. base_addr' \in Ptr'
    BY <1>1, <1>3, <1>5, <1>6
  <2> QED BY <1>3, <1>6, <2>4, <2>5, <2>6 DEF Memory, HeapInv
<1>9. \A c \in D : End(c)' = End(c)
  BY <1>7 DEF End
<1>10. InFrames'
  BY <1>6, <1>9 DEF HeapInv, InFrames
<1>11. Linked'
  <2>1. ASSUME NEW c \in D, NEW d \in D
        PROVE  block'[c].next = d <=> block'[d].prev = c
    <3>1. block[c].next = d <=> block[d].prev = c
      BY DEF HeapInv, Linked
    <3> QED BY <3>1, <1>3, <1>5, <1>7
  <2>2. CASE p = NULL
    <3>1. D = {}
      <4>1. \A c \in D : b <= c /\ c < b
        BY <2>2, <1>4, <1>5 DEF HeapInv, Sorted
      <4> QED BY <4>1, <1>3
    <3> QED BY <2>2, <3>1, <1>1, <1>6 DEF Linked
  <2>3. CASE p # NULL
    <3>1. base_addr' = base_addr /\ block'[p].next = NULL /\ p \in D
      BY <2>3, <1>1, <1>5, <1>7
    <3>2. \A c \in D : block'[c].prev = NULL <=> c = base_addr'
      BY <3>1, <1>7 DEF HeapInv, Linked
    <3> QED BY <2>1, <3>1, <3>2, <1>4, <1>6 DEF Linked
  <2> QED BY <2>2, <2>3
<1>12. Sorted'
  <2>1. \A c \in D : base_addr' <= c
    <3>1. ASSUME NEW c \in D PROVE p # NULL
      <4>1. base_addr <= c /\ c < b
        BY <1>4 DEF HeapInv, Sorted
      <4> QED BY <4>1, <1>3, <1>5
    <3> QED BY <3>1, <1>1 DEF HeapInv, Sorted
  <2>2. \A c \in D : block'[c].next # NULL => c < block'[c].next
    BY <1>7 DEF HeapInv, Sorted
  <2>3. ASSUME NEW c \in D, NEW d \in D, c < d
        PROVE  /\ block'[c].next # NULL
               /\ block'[c].next <= d
               /\ End(c)' <= d
    <3>1. block[c].next # NULL /\ block[c].next <= d /\ End(c) <= d
      BY <2>3 DEF HeapInv, Sorted
    <3>2. c # p
      BY <3>1, <1>3, <1>4, <1>5
    <3> QED BY <3>1, <3>2, <1>7, <1>9
  <2> QED BY <2>1, <2>2, <2>3, <1>6 DEF Sorted
<1> QED BY <1>6, <1>7, <1>8, <1>10, <1>11, <1>12

LEMMA FreeStep ==
  ASSUME HeapInv, NEW b \in DOMAIN live, kfree(b)
  PROVE  HeapInv'
<1>1. b \in DOMAIN block
  BY DEF HeapInv, Owned, LiveIntact
<1>2. DOMAIN live' = DOMAIN live \ {b}
      /\ \A c \in DOMAIN live \ {b} : live'[c] = live[c]
  BY DEF kfree, Restrict
<1>3. live' \in [DOMAIN live' -> Sizes]
  BY DEF kfree, Restrict, HeapInv, Owned
<1>4. ASSUME \A c \in DOMAIN block \ {b} :
               /\ c \in DOMAIN block' /\ block'[c].free = block[c].free
               /\ block'[c].size = block[c].size
      PROVE  Owned'
  <2>1. ASSUME NEW c \in DOMAIN live'
        PROVE  /\ c \in DOMAIN block' /\ ~ block'[c].free
               /\ block'[c].size >= live'[c]
    BY <1>2, <1>4 DEF HeapInv, Owned, LiveIntact
  <2> QED BY <1>3, <2>1 DEF Owned, LiveIntact
<1>5. CASE block[b].next # NULL
  <2>1. block' = [block EXCEPT ![b].free = TRUE]
        /\ UNCHANGED <<base_addr, frames>>
    BY <1>5 DEF kfree
  <2>2. \A c \in DOMAIN block \ {b} :
          c \in DOMAIN block' /\ block'[c] = block[c]
    BY <2>1 DEF HeapInv, Memory
  <2>3. Memory' /\ InFrames' /\ Linked' /\ Sorted'
    BY <1>1, <2>1, FlagStep
  <2> QED BY <1>4, <2>2, <2>3 DEF HeapInv
<1>6. CASE block[b].next = NULL
  <2>1. block' = Dropped(b) /\ UNCHANGED frames
        /\ base_addr' = IF block[b].prev = NULL THEN NULL ELSE base_addr
    BY <1>6 DEF kfree
  <2>2. /\ Memory' /\ InFrames' /\ Linked' /\ Sorted'
        /\ \A c \in DOMAIN block \ {b} :
              /\ c \in DOMAIN block' /\ block'[c].free = block[c].free
              /\ block'[c].size = block[c].size
    BY <1>1, <1>6, <2>1, DropStep
  <2> QED BY <1>4, <2>2 DEF HeapInv
<1> QED BY <1>5, <1>6

-----------------------------------------------------------------------------
\* The invariant holds throughout.
LEMMA Invariance == Spec => []HeapInv
<1>1. Init => HeapInv
  <2> SUFFICES ASSUME Init PROVE HeapInv
    OBVIOUS
  <2>1. DOMAIN block = {} /\ DOMAIN live = {} /\ IsFiniteSet({})
    BY FS_EmptySet DEF Init
  <2>2. block \in [DOMAIN block -> [size : Nat, free : BOOLEAN,
                                    next : Ptr, prev : Ptr]]
    BY DEF Init
  <2>3. live \in [DOMAIN live -> Sizes]
    BY DEF Init
  <2>4. Memory
    BY <2>1, <2>2, Constants DEF Init, Memory, Ptr
  <2> QED BY <2>1, <2>3, <2>4
           DEF Init, HeapInv, InFrames, Linked, Sorted, Owned, LiveIntact
<1>2. HeapInv /\ [Next]_vars => HeapInv'
  <2> SUFFICES ASSUME HeapInv, [Next]_vars PROVE HeapInv'
    OBVIOUS
  <2>1. CASE UNCHANGED vars
    BY <2>1 DEF vars, HeapInv, Memory, InFrames, Linked, Sorted, Owned,
                LiveIntact, Ptr, End
  <2>2. ASSUME NEW size \in Sizes, kmalloc_reuse(size) PROVE HeapInv'
    BY <2>2, ReuseStep
  <2>3. ASSUME NEW size \in Sizes, kmalloc_expand(size) PROVE HeapInv'
    BY <2>3, ExpandStep
  <2>4. ASSUME NEW b \in DOMAIN live, kfree(b) PROVE HeapInv'
    BY <2>4, FreeStep
  <2> QED BY <2>1, <2>2, <2>3, <2>4 DEF Next
<1> QED BY <1>1, <1>2, PTL DEF Spec

\* Where in its frame a byte is.
LEMMA FrameOffset ==
  ASSUME NEW P \in Nat, P > 0, NEW k \in Nat, NEW r \in 0 .. P - 1
  PROVE  (k * P + r) % P = r
<1>1. PICK b \in Nat : b = k * P + r
  <2>1. k * P \in Nat
    OBVIOUS
  <2> QED BY <2>1
<1>2. PICK q \in Nat, m \in 0 .. P - 1 : b = P * q + m /\ m = b % P
  <2>1. b % P \in 0 .. P - 1 /\ b \div P \in Nat
        /\ b = P * (b \div P) + (b % P)
    OBVIOUS
  <2> QED BY <2>1
<1>3. ASSUME NEW x \in Nat, NEW y \in Nat, x < y PROVE x * P + P <= y * P
  <2>1. PICK d \in Nat : y = x + 1 + d
    <3>1. y - x - 1 \in Nat /\ y = x + 1 + (y - x - 1)
      BY <1>3
    <3> QED BY <3>1
  <2>2. y * P = x * P + P + d * P
    BY <2>1
  <2>3. d * P \in Nat /\ x * P \in Nat
    OBVIOUS
  <2> QED BY <2>2, <2>3
<1>4. PICK u \in Nat, v \in Nat : u = k * P /\ v = q * P
  <2>1. k * P \in Nat /\ q * P \in Nat
    OBVIOUS
  <2> QED BY <2>1
<1>5. u + r = v + m
  <2>1. P * q = q * P
    OBVIOUS
  <2> QED BY <1>1, <1>2, <1>4, <2>1
<1>6. ~ (k < q) /\ ~ (q < k)
  BY <1>3, <1>4, <1>5
<1>7. k = q
  BY <1>6
<1>8. m = r
  BY <1>4, <1>5, <1>7
<1> QED BY <1>1, <1>2, <1>8

(***************************************************************************)
(* Whatever is allocated and freed, and in whatever order, the blocks form *)
(* one doubly linked list that ends and holds them all (mmu_kmalloc,       *)
(* mmu_kfree).                                                             *)
(***************************************************************************)
THEOREM ListIsSound == Spec => []ListSound
<1>1. HeapInv => ListSound
  <2> SUFFICES ASSUME HeapInv PROVE ListSound
    OBVIOUS
  <2>1. Ptr \subseteq Int \cup {NULL} /\ NULL \notin DOMAIN block
    BY Constants DEF HeapInv, Memory, Ptr
  <2>2. TypeOK
    BY <2>1 DEF TypeOK, HeapInv, Memory, Owned, Headers
  <2>3. Range(Chain) \ {NULL} = DOMAIN block
    BY ChainCovers DEF HeapInv
  <2>4. base_addr # NULL => block[base_addr].prev = NULL
    BY DEF HeapInv, Memory, Ptr, Linked
  <2>5. \A b \in DOMAIN block :
          block[b].next # NULL => block[block[b].next].prev = b
    BY DEF HeapInv, Memory, Ptr, Linked
  <2> QED BY <2>2, <2>3, <2>4, <2>5 DEF ListSound
<1> QED BY <1>1, Invariance, PTL

\* No two blocks overlap, and none leaves its frame (split_block, expand_heap).
THEOREM BlocksAreDisjoint == Spec => []BlocksDisjoint
<1>1. HeapInv => BlocksDisjoint
  <2> SUFFICES ASSUME HeapInv PROVE BlocksDisjoint
    OBVIOUS
  <2>1. \A b, c \in DOMAIN block : b < c => End(b) <= c
    BY DEF HeapInv, Sorted
  <2>2. ASSUME NEW b \in DOMAIN block
        PROVE  (b % VMM_PAGE_SIZE) + BLOCK_SIZE + block[b].size
                 <= VMM_PAGE_SIZE
    <3>1. PICK k \in 0 .. frames - 1 :
            k * VMM_PAGE_SIZE <= b /\ End(b) <= (k + 1) * VMM_PAGE_SIZE
      BY DEF HeapInv, InFrames
    <3>2. k \in Nat /\ b \in Nat /\ block[b].size \in Nat
      BY DEF HeapInv, Memory
    <3>3. PICK lo \in Nat : lo = k * VMM_PAGE_SIZE
      BY <3>2, Constants
    <3>4. (k + 1) * VMM_PAGE_SIZE = lo + VMM_PAGE_SIZE
      BY <3>2, <3>3, Constants
    <3>5. lo <= b /\ b + BLOCK_SIZE + block[b].size <= lo + VMM_PAGE_SIZE
      BY <3>1, <3>3, <3>4 DEF End
    <3>6. b - lo \in 0 .. VMM_PAGE_SIZE - 1
      BY <3>2, <3>3, <3>5, Constants
    <3>7. b % VMM_PAGE_SIZE = b - lo
      <4>1. PICK r \in 0 .. VMM_PAGE_SIZE - 1 : r = b - lo
        BY <3>6
      <4>2. b = k * VMM_PAGE_SIZE + r
        BY <4>1, <3>2, <3>3
      <4>3. r \in Int
        BY <4>1, Constants
      <4>4. VMM_PAGE_SIZE \in Nat /\ VMM_PAGE_SIZE > 0
        BY Constants
      <4>5. (k * VMM_PAGE_SIZE + r) % VMM_PAGE_SIZE = r
        BY <4>1, <4>4, <3>2, FrameOffset
      <4> QED BY <4>1, <4>2, <4>5
    <3> QED BY <3>2, <3>5, <3>7, Constants
  <2> QED BY <2>1, <2>2 DEF BlocksDisjoint
<1> QED BY <1>1, Invariance, PTL

\* What a caller has stays its own until it frees it (mmu_kmalloc, mmu_kfree).
THEOREM LiveStaysIntact == Spec => []LiveIntact
<1>1. HeapInv => LiveIntact
  BY DEF HeapInv, Owned
<1> QED BY <1>1, Invariance, PTL
=============================================================================
