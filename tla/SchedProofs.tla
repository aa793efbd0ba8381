----------------------------- MODULE SchedProofs -----------------------------
(***************************************************************************)
(* Proofs about the scheduler, for every number of process slots.          *)
(***************************************************************************)
EXTENDS SchedRefinement, Integers, FiniteSetTheorems, SequenceTheorems,
        WellFoundedInduction, TLAPS

-----------------------------------------------------------------------------
(***************************************************************************)
(* Rings of pointers.                                                      *)
(***************************************************************************)

(***************************************************************************)
(* A walk along the next pointers from a process of a ring visits exactly  *)
(* the ring: the loops of sched_terminate_process see every live process.  *)
(***************************************************************************)
LEMMA WalkOfRing ==
  ASSUME NEW L \in SUBSET Slots, NEW nx, IsRing(L, nx), NEW a \in L
  PROVE  Walk(a, nx) = L
<1>1. Walk(a, nx) \subseteq L
  BY DEF Walk, IsRing
<1>2. ASSUME NEW S \in SUBSET Slots,
             a \in S, \A q \in S : nx[q] \in S \cup {NULL},
             NEW s \in L
      PROVE  s \in S
  <2>1. \A q \in S \cap L : nx[q] \in S \cap L
    BY <1>2, SchedAssumption DEF IsRing, Contexts
  <2>2. S \cap L = L
    <3>1. S \cap L \in SUBSET L /\ S \cap L # {}
      BY <1>2
    <3> QED BY <2>1, <3>1 DEF IsRing
  <2> QED BY <2>2
<1> QED BY <1>1, <1>2 DEF Walk

(***************************************************************************)
(* Every process of a ring has a predecessor on it, which is what the      *)
(* search loops of sched.c compute.                                        *)
(***************************************************************************)
LEMMA PrevOnRing ==
  ASSUME NEW L \in SUBSET Slots, NEW nx, IsRing(L, nx),
         NEW a \in L, NEW s \in L
  PROVE  Prev(a, nx, s) \in L /\ nx[Prev(a, nx, s)] = s
<1> DEFINE Img == {nx[q] : q \in L}
<1>1. Img \in SUBSET L /\ Img # {}
  BY DEF IsRing
<1>2. \A t \in Img : nx[t] \in Img
  BY <1>1
<1>3. Img = L
  BY <1>1, <1>2 DEF IsRing
<1>4. \E q \in L : nx[q] = s
  BY <1>3
<1> QED BY <1>4, WalkOfRing DEF Prev

(***************************************************************************)
(* Unlinking a process of a ring of at least two leaves a ring of the      *)
(* others (sched_terminate_process).                                       *)
(***************************************************************************)
LEMMA UnlinkKeepsRing ==
  ASSUME NEW L \in SUBSET Slots, NEW nx \in [Slots -> Slots \cup {NULL}],
         IsRing(L, nx), NEW p \in L, NEW q \in L, nx[q] = p, q # p
  PROVE  /\ IsRing(L \ {p}, [nx EXCEPT ![q] = nx[p]])
         /\ \A s \in L : [nx EXCEPT ![q] = nx[p]][s] \in L \ {p}
<1> DEFINE M  == L \ {p}
           my == [nx EXCEPT ![q] = nx[p]]
<1>1. my[q] = nx[p] /\ \A s \in L : s # q => my[s] = nx[s]
  OBVIOUS
<1>2. nx[p] \in M
  BY DEF IsRing
<1>3. \A s \in L : my[s] \in M
  BY <1>1, <1>2 DEF IsRing
<1>4. \A s, t \in M : my[s] = my[t] => s = t
  BY <1>1 DEF IsRing
<1>5. ASSUME NEW S \in SUBSET M, S # {}, \A s \in S : my[s] \in S
      PROVE  S = M
  <2>1. CASE q \in S
    <3>1. \A s \in S \cup {p} : nx[s] \in S \cup {p}
      BY <1>1, <1>5, <2>1
    <3>2. S \cup {p} \in SUBSET L /\ S \cup {p} # {}
      OBVIOUS
    <3>3. S \cup {p} = L
      BY <3>1, <3>2 DEF IsRing
    <3> QED BY <3>3
  <2>2. CASE q \notin S
    <3>1. \A s \in S : nx[s] \in S
      BY <1>1, <1>5, <2>2
    <3>2. S = L
      BY <1>5, <3>1 DEF IsRing
    <3> QED BY <3>2
  <2> QED BY <2>1, <2>2
<1> HIDE DEF M, my
<1>6. IsRing(M, my)
  <2>1. \A s \in M : my[s] \in M
    BY <1>3 DEF M
  <2> QED BY <1>4, <1>5, <2>1 DEF IsRing
<1> QED BY <1>3, <1>6 DEF M, my

(***************************************************************************)
(* sched_spawn_module links the new process between the last process of    *)
(* the round and the first.                                                *)
(***************************************************************************)
LEMMA InsertLinks ==
  ASSUME NEW L \in SUBSET Slots, NEW nx \in [Slots -> Slots \cup {NULL}],
         IsRing(L, nx), NEW a \in L, NEW s \in Slots \ L
  PROVE  /\ Insert(a, nx, s) \in [Slots -> Slots \cup {NULL}]
         /\ Insert(a, nx, s)[s] = a
         /\ \E q \in L :
              /\ nx[q] = a /\ Insert(a, nx, s)[q] = s
              /\ \A t \in L : t # q => Insert(a, nx, s)[t] = nx[t]
<1> DEFINE linked == [nx EXCEPT ![s] = a]
           q  == Prev(a, linked, a)
           my == Insert(a, nx, s)
<1>1. \A t \in L : linked[t] = nx[t]
  OBVIOUS
<1>2. IsRing(L, linked)
  <2> HIDE DEF linked
  <2> QED BY <1>1 DEF IsRing
<1>3. q \in L /\ linked[q] = a
  <2> HIDE DEF linked
  <2> QED BY <1>2, PrevOnRing
<1>4. my = [linked EXCEPT ![q] = s]
  BY DEF Insert
<1>5. my \in [Slots -> Slots \cup {NULL}]
  BY <1>3, <1>4
<1>6. /\ my[s] = a /\ my[q] = s /\ nx[q] = a
      /\ \A t \in L : t # q => my[t] = nx[t]
  BY <1>1, <1>3, <1>4
<1> HIDE DEF q, my
<1> QED BY <1>3, <1>5, <1>6 DEF my

(***************************************************************************)
(* Inserting a process in front of a process of a ring gives a ring        *)
(* (sched_spawn_module).                                                   *)
(***************************************************************************)
LEMMA InsertKeepsRing ==
  ASSUME NEW L \in SUBSET Slots, NEW nx \in [Slots -> Slots \cup {NULL}],
         IsRing(L, nx), NEW a \in L, NEW s \in Slots \ L
  PROVE  /\ Insert(a, nx, s) \in [Slots -> Slots \cup {NULL}]
         /\ IsRing(L \cup {s}, Insert(a, nx, s))
<1> DEFINE M  == L \cup {s}
           my == Insert(a, nx, s)
<1>1. PICK q \in L : /\ nx[q] = a /\ my[q] = s
                     /\ \A t \in L : t # q => my[t] = nx[t]
  BY InsertLinks
<1>2. my \in [Slots -> Slots \cup {NULL}] /\ my[s] = a
  BY InsertLinks
<1>3. /\ my[s] = a /\ my[q] = s /\ nx[q] = a
      /\ \A t \in L : t # q => my[t] = nx[t]
  BY <1>1, <1>2
<1> HIDE DEF my
<1>4. \A t \in M : my[t] \in M
  BY <1>1, <1>3 DEF IsRing
<1>5. \A t, u \in M : my[t] = my[u] => t = u
  BY <1>1, <1>3 DEF IsRing
<1>6. ASSUME NEW S \in SUBSET M, S # {}, \A t \in S : my[t] \in S
      PROVE  S = M
  <2>1. S \ {s} \in SUBSET L /\ S \ {s} # {}
    BY <1>3, <1>6
  <2>2. \A t \in S \ {s} : nx[t] \in S \ {s}
    BY <1>1, <1>3, <1>6, <2>1 DEF IsRing
  <2>3. S \ {s} = L
    BY <2>1, <2>2 DEF IsRing
  <2>4. s \in S
    BY <1>1, <1>3, <1>6, <2>3
  <2> QED BY <2>3, <2>4
<1> HIDE DEF M
<1>7. IsRing(M, my)
  BY <1>4, <1>5, <1>6 DEF IsRing
<1> QED BY <1>2, <1>7 DEF M, my

(***************************************************************************)
(* The first process of the ring points at itself (sched_spawn_module,     *)
(* called with active = NULL).                                             *)
(***************************************************************************)
LEMMA FirstOnRing ==
  ASSUME NEW nx \in [Slots -> Slots \cup {NULL}], NEW s \in Slots
  PROVE  /\ Insert(s, nx, s) \in [Slots -> Slots \cup {NULL}]
         /\ IsRing({s}, Insert(s, nx, s))
<1> DEFINE linked == [nx EXCEPT ![s] = s]
<1>1. linked[s] = s
  OBVIOUS
<1>2. IsRing({s}, linked)
  BY <1>1 DEF IsRing
<1>3. Prev(s, linked, s) = s
  BY <1>2, PrevOnRing
<1>4. Insert(s, nx, s) = linked
  BY <1>1, <1>3 DEF Insert
<1> QED BY <1>2, <1>4

-----------------------------------------------------------------------------
(***************************************************************************)
(* The inductive invariant.  The type invariant is not inductive on its    *)
(* own: that the CPU holds a frame after a switch needs the ring (the next *)
(* process is live) and the parked frames (a live process has one).        *)
(***************************************************************************)
BootInv == mode = "boot" => defunct = {}

IInv == TypeOK /\ BootInv /\ RingInv /\ ContextIntegrity

\* The invariant holds when main() has called sched_init.
LEMMA InitIInv == Init => IInv
<1> SUFFICES ASSUME Init PROVE IInv
  OBVIOUS
<1> USE SchedAssumption DEF Init
<1>1. Live = {}
  BY DEF Live, Slots
<1>2. NewFrame(Idle) \in Frames /\ NewFrame(Idle) # NULL
  BY DEF NewFrame, Frames, Calls, Results, Contexts
<1>3. TypeOK
  BY <1>2 DEF TypeOK, Contexts
<1>4. RingInv
  BY <1>1 DEF RingInv, IsRing
<1>5. ContextIntegrity
  BY <1>1, <1>2 DEF ContextIntegrity, Contexts, NewFrame
<1> QED BY <1>3, <1>4, <1>5 DEF IInv, BootInv

\* sched_spawn_module preserves the invariant.
LEMMA SpawnIInv == IInv /\ Spawn => IInv'
<1> SUFFICES ASSUME IInv, Spawn PROVE IInv'
  OBVIOUS
<1> USE SchedAssumption
<1> DEFINE s   == proc_idx
           act == IF active = NULL THEN s ELSE active
<1>1. /\ TypeOK /\ RingInv /\ ContextIntegrity
      /\ mode = "boot" /\ mode' = "boot" /\ defunct = {} /\ defunct' = {}
      /\ s \in Slots /\ s \notin Live
      /\ proc_idx' = proc_idx + 1 /\ proc_idx' \in 0 .. Modules
      /\ active' = act /\ next' = Insert(act, next, s)
      /\ stack' = [stack EXCEPT ![s] = NewFrame(s)]
      /\ cpu' = cpu
  BY DEF IInv, BootInv, Spawn, TypeOK, Live, Slots
<1>2. Live \in SUBSET Slots /\ Live' = Live \cup {s}
  BY <1>1 DEF Live, Slots, TypeOK
<1>3. next' \in [Slots -> Slots \cup {NULL}] /\ IsRing(Live', next')
  <2>1. CASE active = NULL
    <3>1. act = s /\ Live' = {s}
      BY <1>1, <1>2, <2>1 DEF RingInv
    <3> QED BY <1>1, <3>1, FirstOnRing DEF TypeOK
  <2>2. CASE active # NULL
    <3>1. act \in Live /\ next' = Insert(act, next, s)
      BY <1>1, <2>2 DEF RingInv
    <3> QED BY <1>1, <1>2, <3>1, InsertKeepsRing DEF RingInv, TypeOK
  <2> QED BY <2>1, <2>2
<1>4. active' \in Live'
  BY <1>1, <1>2 DEF RingInv
<1>5. RingInv'
  <2>1. active' # NULL
    BY <1>1, <1>4, <1>2 DEF Contexts
  <2> QED BY <1>3, <1>4, <2>1 DEF RingInv
<1>6. NewFrame(s) \in Frames /\ NewFrame(s) # NULL /\ NewFrame(s).owner = s
  BY <1>1 DEF NewFrame, Frames, Calls, Results, Contexts
<1>7. TypeOK'
  BY <1>1, <1>3, <1>4, <1>6, <1>2 DEF TypeOK, Spawn, Contexts
<1>8. ContextIntegrity'
  BY <1>1, <1>2, <1>6 DEF ContextIntegrity, TypeOK, Contexts
<1> QED BY <1>1, <1>5, <1>7, <1>8 DEF IInv, BootInv

\* sched_drop_to_user preserves the invariant.
LEMMA DropIInv == IInv /\ Drop => IInv'
<1> SUFFICES ASSUME IInv, Drop PROVE IInv'
  OBVIOUS
<1> USE SchedAssumption
<1>1. Live' = Live /\ Current' = Current
  BY DEF Drop, Live, Current, table
<1>2. Current \in Live \cup {Idle}
  BY DEF IInv, RingInv, Current
<1>3. stack[Current] # NULL /\ stack[Current].owner = Current
  BY <1>2 DEF IInv, ContextIntegrity, Drop
<1>4. TypeOK'
  BY <1>2 DEF IInv, TypeOK, Drop, table, Live, Contexts
<1>5. RingInv'
  BY <1>1 DEF IInv, RingInv, Drop
<1>6. ContextIntegrity'
  BY <1>1, <1>3 DEF IInv, ContextIntegrity, Drop
<1> QED BY <1>4, <1>5, <1>6 DEF IInv, BootInv, Drop

(***************************************************************************)
(* A kernel exit preserves the invariant when the handler leaves a ring of *)
(* the processes that are live after it, and the interrupted context has   *)
(* been parked on its own frame.                                           *)
(***************************************************************************)
LEMMA ResumeIInv ==
  ASSUME IInv, mode = "user",
         NEW act \in Slots \cup {NULL},
         NEW nx \in [Slots -> Slots \cup {NULL}],
         NEW f \in Frames, f.owner = Current,
         Resume(act, nx, [stack EXCEPT ![Current] = f]),
         defunct \subseteq defunct', defunct' \in SUBSET Slots,
         IsRing(Live', nx),
         act = NULL <=> Live' = {},
         act # NULL => nx[act] \in Live'
  PROVE  IInv'
<1> USE SchedAssumption
<1> DEFINE stk == [stack EXCEPT ![Current] = f]
           entering == IF act = NULL THEN Idle ELSE nx[act]
           leaving  == IF act = NULL THEN Idle ELSE act
<1>1. /\ active' = IF act = NULL THEN NULL ELSE nx[act]
      /\ next' = nx /\ stack' = stk /\ cpu' = stk[entering]
      /\ kernel_stack' =
           [kernel_stack EXCEPT ![leaving] = kernel_stack[Current]]
      /\ mode' = mode /\ pid' = pid /\ proc_idx' = proc_idx
      /\ max_pid' = max_pid
  BY DEF Resume, SwitchTo, table
<1>2. Live \in SUBSET Slots /\ Live' \in SUBSET Live
  BY <1>1 DEF Live
<1>3. Current \in Contexts
  BY DEF IInv, TypeOK, Current, Contexts
<1>4. \A c \in Live \cup {Idle} : stk[c] # NULL /\ stk[c].owner = c
  <2>1. f # NULL
    OBVIOUS
  <2> QED BY <1>2, <1>3, <2>1 DEF IInv, TypeOK, ContextIntegrity, Contexts
<1>5. entering \in Live' \cup {Idle} /\ entering \in Contexts
  BY <1>2 DEF Contexts
<1>6. stk \in [Contexts -> Frames \cup {NULL}]
  BY <1>3 DEF IInv, TypeOK
<1>7. TypeOK'
  <2>1. kernel_stack' \in [Contexts -> Contexts \cup {NULL}]
    BY <1>1, <1>3 DEF IInv, TypeOK, Contexts
  <2>2. active' \in Slots \cup {NULL}
    BY <1>1, <1>2
  <2>3. cpu' \in Frames \cup {NULL}
    BY <1>1, <1>5, <1>6
  <2> QED BY <1>1, <1>6, <2>1, <2>2, <2>3 DEF IInv, TypeOK
<1>8. RingInv'
  <2>1. Live' # {} => active' \in Live' /\ active' # NULL
    BY <1>1, <1>2 DEF Contexts
  <2> QED BY <1>1, <2>1 DEF RingInv
<1>9. ContextIntegrity'
  <2>1. Current' = entering
    BY <1>1, <1>2 DEF Current, Contexts
  <2> QED BY <1>1, <1>2, <1>4, <1>5, <2>1 DEF ContextIntegrity
<1> QED BY <1>1, <1>7, <1>8, <1>9 DEF IInv, BootInv

\* What an interrupt or a syscall finds on entry.
LEMMA OnEntry ==
  ASSUME IInv, mode = "user"
  PROVE  /\ cpu \in Frames /\ cpu.owner = Current
         /\ \A c \in Calls, r \in Results :
              LET f == [owner |-> cpu.owner, call |-> c, rax |-> r]
              IN  f \in Frames /\ f.owner = Current
         /\ active \in Slots \cup {NULL}
         /\ next \in [Slots -> Slots \cup {NULL}]
         /\ defunct \in SUBSET Slots
         /\ active # NULL => next[active] \in Live
  BY SchedAssumption
     DEF IInv, TypeOK, RingInv, IsRing, ContextIntegrity, Frames, Current

\* A handler that leaves the process table alone.
LEMMA PassIInv ==
  ASSUME IInv, mode = "user",
         NEW f \in Frames, f.owner = Current,
         Resume(active, next, [stack EXCEPT ![Current] = f]),
         UNCHANGED defunct
  PROVE  IInv'
<1>1. Live' = Live
  BY DEF Resume, SwitchTo, table, Live
<1> QED BY <1>1, OnEntry, ResumeIInv DEF IInv, RingInv

\* An interrupt preserves the invariant.
LEMMA IrqIInv == IInv /\ Irq => IInv'
  BY OnEntry, PassIInv DEF Irq, Saved

\* A syscall that leaves the process table alone preserves the invariant.
LEMMA OtherIInv ==
  ASSUME IInv, NEW r \in {0, Failure}, Other(r)
  PROVE  IInv'
  BY OnEntry, PassIInv DEF Other, InSyscall, Answered, Calls, Results

\* The getpid syscall preserves the invariant.
LEMMA GetpidIInv == IInv /\ Getpid => IInv'
<1> SUFFICES ASSUME IInv, Getpid PROVE IInv'
  OBVIOUS
<1>1. sched_getpid \in Results
  BY DEF IInv, TypeOK, sched_getpid, Results
<1> QED BY <1>1, OnEntry, PassIInv DEF Getpid, InSyscall, Answered, Calls

(***************************************************************************)
(* The processes that kill and exit look for are sought on the whole ring. *)
(***************************************************************************)
LEMMA MatchingIsLive ==
  ASSUME IInv, NEW pd
  PROVE  Matching(pd) = {p \in Live : pid[p] = pd}
<1>1. CASE active = NULL
  BY <1>1 DEF IInv, RingInv, Matching
<1>2. CASE active # NULL
  <2>1. Live \in SUBSET Slots
    BY DEF Live
  <2>2. Walk(active, next) = Live
    BY <1>2, <2>1, WalkOfRing DEF IInv, RingInv
  <2> QED BY <1>2, <2>2 DEF Matching
<1> QED BY <1>1, <1>2

\* kill and exit preserve the invariant, whether they find a process or not.
LEMMA TerminateIInv ==
  ASSUME IInv, InSyscall, NEW pd, NEW c \in Calls, Terminate(pd, c)
  PROVE  IInv'
<1> USE SchedAssumption
<1>1. mode = "user" /\ active # NULL
  BY DEF InSyscall
<1>2. CASE /\ Resume(active, next, Answered(c, Failure))
           /\ UNCHANGED defunct
  BY <1>1, <1>2, OnEntry, PassIInv DEF Answered, Results
<1>3. ASSUME NEW p \in Matching(pd),
             IF active = next[active]
               THEN Resume(NULL, next, Answered(c, 0))
               ELSE Resume(active, Unlink(p), Answered(c, 0)),
             defunct' = defunct \cup {p}
      PROVE  IInv'
  <2>1. Live \in SUBSET Slots /\ active \in Live /\ p \in Live
    BY <1>1, <1>3, MatchingIsLive DEF IInv, RingInv, Live
  <2>2. defunct \subseteq defunct' /\ defunct' \in SUBSET Slots
    BY <1>3, <2>1 DEF IInv, TypeOK
  <2>3. Live' = Live \ {p}
    BY <1>3 DEF Resume, SwitchTo, table, Live
  <2>4. IsRing(Live, next)
    BY DEF IInv, RingInv
  <2> DEFINE f == [owner |-> cpu.owner, call |-> c, rax |-> 0]
  <2>5. f \in Frames /\ f.owner = Current
    BY <1>1, OnEntry DEF Results
  <2>6. CASE active = next[active]
    <3>1. \A s \in {active} : next[s] \in {active}
      BY <2>6
    <3>2. {active} \in SUBSET Live /\ {active} # {}
      BY <2>1
    <3>3. Live = {active}
      BY <2>4, <3>1, <3>2 DEF IsRing
    <3>4. Live' = {}
      BY <2>1, <2>3, <3>3
    <3>5. IsRing(Live', next)
      BY <3>4 DEF IsRing
    <3>6. Resume(NULL, next, [stack EXCEPT ![Current] = f])
      BY <1>3, <2>6 DEF Answered
    <3> QED BY <1>1, <2>2, <2>5, <3>4, <3>5, <3>6, OnEntry, ResumeIInv
  <2>7. CASE active # next[active]
    <3> DEFINE q == Prev(active, next, p)
    <3>1. q \in Live /\ next[q] = p
      BY <2>1, <2>4, PrevOnRing
    <3>2. q # p
      <4>1. ASSUME q = p PROVE FALSE
        <5>1. \A s \in {p} : next[s] \in {p}
          BY <3>1, <4>1
        <5>2. {p} \in SUBSET Live /\ {p} # {}
          BY <2>1
        <5>3. Live = {p}
          BY <2>4, <5>1, <5>2 DEF IsRing
        <5> QED BY <2>1, <2>7, <3>1, <4>1, <5>3
      <4> QED BY <4>1
    <3>3. Unlink(p) = [next EXCEPT ![q] = next[p]]
      BY DEF Unlink
    <3>4. next \in [Slots -> Slots \cup {NULL}]
      BY DEF IInv, TypeOK
    <3> HIDE DEF q
    <3>5. /\ IsRing(Live', Unlink(p))
          /\ \A s \in Live : Unlink(p)[s] \in Live'
      <4>1. /\ IsRing(Live \ {p}, [next EXCEPT ![q] = next[p]])
            /\ \A s \in Live : [next EXCEPT ![q] = next[p]][s] \in Live \ {p}
        BY <2>1, <2>4, <3>1, <3>2, <3>4, UnlinkKeepsRing
      <4> QED BY <2>3, <3>3, <4>1
    <3>6. Unlink(p) \in [Slots -> Slots \cup {NULL}]
      BY <2>1, <3>3, <3>4
    <3>7. Unlink(p)[active] \in Live'
      BY <2>1, <3>5
    <3>8. Resume(active, Unlink(p), [stack EXCEPT ![Current] = f])
      BY <1>3, <2>7 DEF Answered
    <3> QED BY <1>1, <2>1, <2>2, <2>5, <3>5, <3>6, <3>7, <3>8, ResumeIInv
  <2> QED BY <2>6, <2>7
<1> QED BY <1>2, <1>3 DEF Terminate

\* The halt syscall preserves the invariant.
LEMMA HaltIInv == IInv /\ Halt => IInv'
<1> SUFFICES ASSUME IInv, Halt PROVE IInv'
  OBVIOUS
<1>1. Live' = Live /\ Current' = Current
  BY DEF Halt, Live, Current, table
<1>2. TypeOK' /\ RingInv'
  BY <1>1 DEF IInv, TypeOK, RingInv, Halt, table
<1>3. ContextIntegrity'
  BY <1>1 DEF IInv, ContextIntegrity, Halt, InSyscall
<1> QED BY <1>2, <1>3 DEF IInv, BootInv, Halt

\* Every step of the scheduler preserves the invariant.
LEMMA NextIInv == IInv /\ [Next]_vars => IInv'
<1> SUFFICES ASSUME IInv, [Next]_vars PROVE IInv'
  OBVIOUS
<1>1. CASE Spawn
  BY <1>1, SpawnIInv
<1>2. CASE Drop
  BY <1>2, DropIInv
<1>3. CASE Irq
  BY <1>3, IrqIInv
<1>4. ASSUME NEW r \in {0, Failure}, Other(r) PROVE IInv'
  BY <1>4, OtherIInv
<1>5. CASE Getpid
  BY <1>5, GetpidIInv
<1>6. ASSUME NEW pd \in KillArgs, Kill(pd) PROVE IInv'
  BY <1>6, TerminateIInv DEF Kill, Calls
<1>7. CASE Exit
  BY <1>7, TerminateIInv DEF Exit, Calls
<1>8. CASE Halt
  BY <1>8, HaltIInv
<1>9. CASE UNCHANGED vars
  <2>1. Live' = Live /\ Current' = Current
    BY <1>9 DEF vars, Live, Current
  <2> QED BY <1>9, <2>1
          DEF vars, IInv, BootInv, TypeOK, RingInv, ContextIntegrity
<1> QED BY <1>1, <1>2, <1>3, <1>4, <1>5, <1>6, <1>7, <1>8, <1>9 DEF Next

\* The inductive invariant holds in every reachable state.
THEOREM Invariance == Spec => []IInv
<1>1. Init => IInv
  BY InitIInv
<1>2. IInv /\ [Next]_vars => IInv'
  BY NextIInv
<1> QED BY <1>1, <1>2, PTL DEF Spec

(***************************************************************************)
(* The kernel variables always have their types.                           *)
(***************************************************************************)
THEOREM TypeCorrect == Spec => []TypeOK
<1>1. IInv => TypeOK
  BY DEF IInv
<1> QED BY <1>1, Invariance, PTL

(***************************************************************************)
(* The live processes always form one ring through active.                 *)
(***************************************************************************)
THEOREM RingCorrect == Spec => []RingInv
<1>1. IInv => RingInv
  BY DEF IInv
<1> QED BY <1>1, Invariance, PTL

(***************************************************************************)
(* No context switch ever loses or mixes up the context of a live process. *)
(***************************************************************************)
THEOREM ContextsCorrect == Spec => []ContextIntegrity
<1>1. IInv => ContextIntegrity
  BY DEF IInv
<1> QED BY <1>1, Invariance, PTL

-----------------------------------------------------------------------------
(***************************************************************************)
(* Kernel stacks, pids and answers.  The second inductive invariant: every *)
(* process has the kernel stack page it was given, idle has its own or     *)
(* that of a terminated process, and pids are handed out in slot order.    *)
(***************************************************************************)
KStackInv ==
  /\ \A s \in Live : kernel_stack[s] = s
  /\ kernel_stack[Idle] \in {Idle} \cup defunct

PidInv ==
  /\ max_pid = proc_idx
  /\ \A s \in Slots : s < proc_idx => pid[s] = s + 1

JInv == KStackInv /\ PidInv /\ OwnAnswer

\* JInv holds when main() has called sched_init.
LEMMA InitJInv == Init => JInv
<1> SUFFICES ASSUME Init PROVE JInv
  OBVIOUS
<1>1. Live = {}
  BY DEF Init, Live, Slots
<1> QED BY <1>1 DEF Init, JInv, KStackInv, PidInv, OwnAnswer, Slots, Contexts

\* sched_spawn_module preserves JInv.
LEMMA SpawnJInv == IInv /\ JInv /\ Spawn => JInv'
<1> SUFFICES ASSUME IInv, JInv, Spawn PROVE JInv'
  OBVIOUS
<1> USE SchedAssumption
<1> DEFINE s == proc_idx
<1>1. /\ s \in Slots /\ s \in Nat /\ s \notin Live
      /\ mode = "boot" /\ mode' = "boot" /\ defunct' = defunct
      /\ proc_idx' = proc_idx + 1 /\ max_pid' = max_pid + 1
      /\ pid' = [pid EXCEPT ![s] = max_pid + 1]
      /\ stack' = [stack EXCEPT ![s] = NewFrame(s)]
      /\ kernel_stack' = [kernel_stack EXCEPT ![s] = s]
  BY DEF IInv, TypeOK, Spawn, Live, Slots
<1>2. Live' = Live \cup {s} /\ Live \in SUBSET Slots
  <2>1. Live' \subseteq Live \cup {s}
    BY <1>1 DEF Live, Slots
  <2>2. s \notin defunct
    BY <1>1 DEF IInv, BootInv
  <2>3. Live \cup {s} \subseteq Live'
    BY <1>1, <2>2 DEF Live, Slots
  <2> QED BY <2>1, <2>3 DEF Live
<1>3. KStackInv'
  BY <1>1, <1>2 DEF JInv, KStackInv, IInv, TypeOK, Contexts
<1>4. PidInv'
  BY <1>1 DEF JInv, PidInv, IInv, TypeOK, Slots
<1>5. OwnAnswer'
  <2>1. \A c \in Live' : FrameOf(c)' = stack'[c]
    BY <1>1 DEF FrameOf
  <2>2. \A c \in Live : FrameOf(c) = stack[c]
    BY <1>1 DEF FrameOf
  <2>3. NewFrame(s).call # "getpid"
    BY DEF NewFrame
  <2> QED BY <1>1, <1>2, <2>1, <2>2, <2>3
          DEF JInv, OwnAnswer, IInv, TypeOK, Contexts
<1> QED BY <1>3, <1>4, <1>5 DEF JInv

\* sched_drop_to_user preserves JInv.
LEMMA DropJInv == IInv /\ JInv /\ Drop => JInv'
<1> SUFFICES ASSUME IInv, JInv, Drop PROVE JInv'
  OBVIOUS
<1>1. Live' = Live
  BY DEF Drop, Live, table
<1>2. KStackInv' /\ PidInv'
  BY <1>1 DEF JInv, KStackInv, PidInv, Drop, table
<1>3. \A c \in Live : FrameOf(c)' = FrameOf(c)
  BY DEF Drop, FrameOf, Current
<1>4. OwnAnswer'
  BY <1>1, <1>3 DEF JInv, OwnAnswer, Drop, table
<1> QED BY <1>2, <1>4 DEF JInv

(***************************************************************************)
(* A kernel exit preserves JInv when the context interrupted is parked on  *)
(* a frame with its own answer, and active has been left alone or its      *)
(* process was the last one and has been terminated.                       *)
(***************************************************************************)
LEMMA ResumeJInv ==
  ASSUME IInv, JInv, mode = "user",
         NEW act, NEW nx, NEW f,
         Resume(act, nx, [stack EXCEPT ![Current] = f]),
         defunct \subseteq defunct',
         f.call = "getpid" => f.rax = pid[Current],
         \/ act = active
         \/ act = NULL /\ active \in defunct'
  PROVE  JInv'
<1> USE SchedAssumption
<1> DEFINE stk == [stack EXCEPT ![Current] = f]
           entering == IF act = NULL THEN Idle ELSE nx[act]
           leaving  == IF act = NULL THEN Idle ELSE act
<1>1. /\ active' = IF act = NULL THEN NULL ELSE nx[act]
      /\ stack' = stk /\ cpu' = stk[entering]
      /\ kernel_stack' =
           [kernel_stack EXCEPT ![leaving] = kernel_stack[Current]]
      /\ mode' = mode /\ pid' = pid /\ proc_idx' = proc_idx
      /\ max_pid' = max_pid
  BY DEF Resume, SwitchTo, table
<1>2. Live \in SUBSET Slots /\ Live' \in SUBSET Live
  BY <1>1 DEF Live
<1>3. /\ Current \in Contexts
      /\ active # NULL => active \in Live /\ Current = active
      /\ active = NULL => Current = Idle
  BY DEF IInv, TypeOK, RingInv, Current, Contexts
<1>4. KStackInv'
  <2>1. CASE leaving = Current
    <3>1. kernel_stack' = kernel_stack
      BY <1>1, <2>1 DEF IInv, TypeOK
    <3> QED BY <1>2, <3>1 DEF JInv, KStackInv
  <2>2. CASE leaving # Current
    <3>1. active \in defunct' /\ leaving = Idle /\ active # NULL
      BY <1>3, <2>2
    <3>2. kernel_stack[Current] = active
      BY <1>3, <3>1 DEF JInv, KStackInv
    <3> QED BY <1>1, <1>2, <3>1, <3>2
            DEF JInv, KStackInv, IInv, TypeOK, Contexts
  <2> QED BY <2>1, <2>2
<1>5. PidInv'
  BY <1>1 DEF JInv, PidInv
<1>6. OwnAnswer'
  <2>1. ASSUME NEW c \in Live'
        PROVE  FrameOf(c)' = stk[c]
    <3>1. CASE c = Current'
      <4>1. c \in Slots /\ c # Idle
        BY <1>2
      <4>2. c = entering
        BY <1>1, <3>1, <4>1 DEF Current
      <4> QED BY <1>1, <3>1, <4>2 DEF FrameOf
    <3>2. CASE c # Current'
      BY <1>1, <3>2 DEF FrameOf
    <3> QED BY <3>1, <3>2
  <2>2. ASSUME NEW c \in Live', stk[c].call = "getpid"
        PROVE  stk[c].rax = pid[c]
    <3>1. CASE c = Current
      <4>1. stk[c] = f
        BY <1>3, <3>1 DEF IInv, TypeOK
      <4> QED BY <2>2, <3>1, <4>1
    <3>2. CASE c # Current
      <4>1. stk[c] = stack[c] /\ FrameOf(c) = stack[c] /\ c \in Live
        BY <1>2, <3>2 DEF FrameOf, IInv, TypeOK, Contexts
      <4> QED BY <2>2, <4>1 DEF JInv, OwnAnswer
    <3> QED BY <3>1, <3>2
  <2> QED BY <1>1, <2>1, <2>2 DEF OwnAnswer
<1> QED BY <1>4, <1>5, <1>6 DEF JInv

\* An interrupt preserves JInv.
LEMMA IrqJInv == IInv /\ JInv /\ Irq => JInv'
<1> SUFFICES ASSUME IInv, JInv, Irq PROVE JInv'
  OBVIOUS
<1>1. mode = "user" /\ defunct' = defunct
      /\ Resume(active, next, [stack EXCEPT ![Current] = cpu])
  BY DEF Irq, Saved
<1>2. CASE active = NULL
  \* Idle has made no call: its frame is not looked at, Live being empty.
  <2>1. Live' = {}
    BY <1>1, <1>2 DEF IInv, RingInv, Live, Resume, SwitchTo, table
  <2>2. kernel_stack' = kernel_stack
    BY <1>1, <1>2 DEF Resume, SwitchTo, Current, IInv, TypeOK
  <2>3. KStackInv' /\ OwnAnswer'
    BY <1>1, <2>1, <2>2 DEF JInv, KStackInv, OwnAnswer
  <2>4. PidInv'
    BY <1>1 DEF JInv, PidInv, Resume, SwitchTo, table
  <2> QED BY <2>3, <2>4 DEF JInv
<1>3. CASE active # NULL
  <2>1. Current \in Live /\ FrameOf(Current) = cpu
    BY <1>1, <1>3 DEF IInv, RingInv, Current, FrameOf
  <2>2. cpu.call = "getpid" => cpu.rax = pid[Current]
    BY <2>1 DEF JInv, OwnAnswer
  <2> QED BY <1>1, <2>2, ResumeJInv
<1> QED BY <1>2, <1>3

\* kill and exit preserve JInv.
LEMMA TerminateJInv ==
  ASSUME IInv, JInv, InSyscall, NEW pd,
         NEW c \in {"kill", "exit"}, Terminate(pd, c)
  PROVE  JInv'
<1>1. mode = "user" /\ active # NULL
  BY DEF InSyscall
<1>2. CASE /\ Resume(active, next, Answered(c, Failure))
           /\ UNCHANGED defunct
  BY <1>1, <1>2, ResumeJInv DEF Answered
<1>3. ASSUME NEW p \in Matching(pd),
             IF active = next[active]
               THEN Resume(NULL, next, Answered(c, 0))
               ELSE Resume(active, Unlink(p), Answered(c, 0)),
             defunct' = defunct \cup {p}
      PROVE  JInv'
  <2> DEFINE f == [owner |-> cpu.owner, call |-> c, rax |-> 0]
  <2>1. f.call # "getpid"
    OBVIOUS
  <2>2. CASE active = next[active]
    <3>1. {active} = Live
      <4>1. {active} \in SUBSET Live /\ \A s \in {active} : next[s] \in {active}
        BY <1>1, <2>2 DEF IInv, RingInv
      <4> QED BY <4>1 DEF IInv, RingInv, IsRing
    <3>2. p = active
      BY <1>3, <3>1, MatchingIsLive
    <3>3. Resume(NULL, next, [stack EXCEPT ![Current] = f])
      BY <1>3, <2>2 DEF Answered
    <3>4. active \in defunct' /\ defunct \subseteq defunct'
      BY <1>3, <3>2
    <3> HIDE DEF f
    <3> QED BY <1>1, <2>1, <3>3, <3>4, ResumeJInv
  <2>3. CASE active # next[active]
    <3>1. Resume(active, Unlink(p), [stack EXCEPT ![Current] = f])
      BY <1>3, <2>3 DEF Answered
    <3>2. defunct \subseteq defunct'
      BY <1>3
    <3> HIDE DEF f
    <3> QED BY <1>1, <2>1, <3>1, <3>2, ResumeJInv
  <2> QED BY <2>2, <2>3
<1> QED BY <1>2, <1>3 DEF Terminate

\* Every step of the scheduler preserves JInv.
LEMMA NextJInv == IInv /\ JInv /\ [Next]_vars => JInv'
<1> SUFFICES ASSUME IInv, JInv, [Next]_vars PROVE JInv'
  OBVIOUS
<1>1. CASE Spawn
  BY <1>1, SpawnJInv
<1>2. CASE Drop
  BY <1>2, DropJInv
<1>3. CASE Irq
  BY <1>3, IrqJInv
<1>4. ASSUME NEW r \in {0, Failure}, Other(r) PROVE JInv'
  BY <1>4, ResumeJInv DEF Other, InSyscall, Answered
<1>5. CASE Getpid
  <2>1. sched_getpid = pid[Current]
    BY <1>5 DEF Getpid, InSyscall, sched_getpid, Current
  <2> QED BY <1>5, <2>1, ResumeJInv DEF Getpid, InSyscall, Answered
<1>6. ASSUME NEW pd \in KillArgs, Kill(pd) PROVE JInv'
  BY <1>6, TerminateJInv DEF Kill
<1>7. CASE Exit
  BY <1>7, TerminateJInv DEF Exit
<1>8. CASE Halt
  <2>1. Live' = Live /\ Current' = Current
    BY <1>8 DEF Halt, Live, Current, table
  <2> QED BY <1>8, <2>1 DEF Halt, InSyscall, table, JInv, KStackInv, PidInv,
             OwnAnswer, FrameOf
<1>9. CASE UNCHANGED vars
  <2>1. Live' = Live /\ Current' = Current
    BY <1>9 DEF vars, Live, Current
  <2> QED BY <1>9, <2>1 DEF vars, JInv, KStackInv, PidInv, OwnAnswer, FrameOf
<1> QED BY <1>1, <1>2, <1>3, <1>4, <1>5, <1>6, <1>7, <1>8, <1>9 DEF Next

\* Both inductive invariants hold in every reachable state.
THEOREM Invariance2 == Spec => [](IInv /\ JInv)
<1>1. Init => JInv
  BY InitJInv
<1>2. IInv /\ JInv /\ [Next]_vars => JInv'
  BY NextJInv
<1> QED BY <1>1, <1>2, Invariance, PTL DEF Spec

(***************************************************************************)
(* Live contexts never share a kernel stack page.                          *)
(***************************************************************************)
THEOREM KernelStacksCorrect == Spec => []KernelStacksDisjoint
<1>1. IInv /\ JInv => KernelStacksDisjoint
  <2> SUFFICES ASSUME IInv, JInv PROVE KernelStacksDisjoint
    OBVIOUS
  <2>1. \A c \in Live \cup {Idle} : kernel_stack[c] # NULL
    BY SchedAssumption DEF JInv, KStackInv, IInv, TypeOK, Live, Contexts
  <2>2. \A c \in Live : kernel_stack[Idle] # c
    BY SchedAssumption DEF JInv, KStackInv, Live
  <2> QED BY <2>1, <2>2 DEF JInv, KStackInv, KernelStacksDisjoint
<1> QED BY <1>1, Invariance2, PTL

(***************************************************************************)
(* A process that asks for its pid is told its own.                        *)
(***************************************************************************)
THEOREM AnswersCorrect == Spec => []OwnAnswer
<1>1. IInv /\ JInv => OwnAnswer
  BY DEF JInv
<1> QED BY <1>1, Invariance2, PTL

-----------------------------------------------------------------------------
(***************************************************************************)
(* Action properties.                                                      *)
(***************************************************************************)

\* Once boot is over no step hands out a pid, and no step revives a process.
LEMMA Onward ==
  ASSUME IInv, [Next]_vars, NEW s \in defunct
  PROVE  mode' # "boot" /\ s \in defunct' /\ pid'[s] = pid[s]
<1>1. mode # "boot"
  BY DEF IInv, BootInv
<1>2. ASSUME NEW act, NEW nx, NEW stk, Resume(act, nx, stk)
      PROVE  mode' # "boot" /\ pid' = pid
  BY <1>1, <1>2 DEF Resume, SwitchTo, table
<1>3. CASE Irq \/ Getpid \/ \E r \in {0, Failure} : Other(r)
  BY <1>2, <1>3 DEF Irq, Getpid, Other
<1>4. ASSUME NEW pd, NEW c, Terminate(pd, c)
      PROVE  mode' # "boot" /\ s \in defunct' /\ pid' = pid
  BY <1>2, <1>4 DEF Terminate
<1>5. CASE Exit \/ \E pd \in KillArgs : Kill(pd)
  BY <1>4, <1>5 DEF Exit, Kill
<1>6. CASE Halt \/ UNCHANGED vars
  BY <1>1, <1>6 DEF Halt, table, vars
<1>7. CASE Spawn \/ Drop
  BY <1>1, <1>7 DEF Spawn, Drop
<1> QED BY <1>3, <1>5, <1>6, <1>7 DEF Next

(***************************************************************************)
(* A terminated process never comes back.                                  *)
(***************************************************************************)
THEOREM DeathIsFinal == Spec => NoResurrection
<1>1. ASSUME IInv, IInv', [Next]_vars, NEW s \in defunct
      PROVE  s \in defunct' /\ cpu'.owner # s /\ pid'[s] = pid[s]
  <2>1. mode' # "boot" /\ s \in defunct' /\ pid'[s] = pid[s]
    BY <1>1, Onward
  <2>2. cpu'.owner = Current'
    BY <1>1, <2>1 DEF IInv, ContextIntegrity
  <2>3. s \in Slots
    BY <1>1 DEF IInv, TypeOK
  <2>4. Current' # s
    <3>1. CASE active' = NULL
      BY <2>3, <3>1, SchedAssumption DEF Current
    <3>2. CASE active' # NULL
      BY <1>1, <2>1, <3>2 DEF Current, IInv, RingInv, Live
    <3> QED BY <3>1, <3>2
  <2> QED BY <2>1, <2>2, <2>4
<1>2. IInv /\ IInv' /\ [Next]_vars =>
        [\A s \in defunct : /\ s \in defunct'
                            /\ cpu'.owner # s
                            /\ pid'[s] = pid[s]]_vars
  BY <1>1
<1> QED BY <1>2, Invariance, PTL DEF Spec, NoResurrection

\* What kill and exit do, by the live processes that have the pid.
LEMMA TerminateEffect ==
  ASSUME IInv, JInv, InSyscall, NEW pd, NEW c, Terminate(pd, c)
  PROVE  /\ defunct' = defunct \cup Named(pd)
         /\ stack'[Current].rax = (IF Named(pd) = {} THEN Failure ELSE 0)
<1> DEFINE Frame(r) == [owner |-> cpu.owner, call |-> c, rax |-> r]
<1>1. Matching(pd) = Named(pd)
  BY MatchingIsLive DEF Named
<1>2. \A s, t \in Named(pd) : s = t
  BY DEF JInv, PidInv, Named, Live, Slots
<1>3. Current \in Contexts
  BY DEF IInv, TypeOK, Current, Contexts
<1>4. ASSUME NEW act, NEW nx, NEW r, Resume(act, nx, Answered(c, r))
      PROVE  stack'[Current].rax = r
  <2>1. stack' = [stack EXCEPT ![Current] = Frame(r)]
    BY <1>4 DEF Resume, SwitchTo, Answered
  <2>2. stack'[Current] = Frame(r)
    BY <1>3, <2>1 DEF IInv, TypeOK
  <2> QED BY <2>2
<1>5. CASE /\ Matching(pd) = {}
           /\ Resume(active, next, Answered(c, Failure))
           /\ UNCHANGED defunct
  <2>1. Named(pd) = {} /\ defunct' = defunct
    BY <1>1, <1>5
  <2>2. stack'[Current].rax = Failure
    BY <1>4, <1>5
  <2> QED BY <2>1, <2>2
<1>6. ASSUME NEW p \in Matching(pd),
             IF active = next[active]
               THEN Resume(NULL, next, Answered(c, 0))
               ELSE Resume(active, Unlink(p), Answered(c, 0)),
             defunct' = defunct \cup {p}
      PROVE  /\ defunct' = defunct \cup Named(pd)
             /\ stack'[Current].rax = (IF Named(pd) = {} THEN Failure ELSE 0)
  <2>1. Named(pd) = {p}
    BY <1>1, <1>2, <1>6
  <2>2. stack'[Current].rax = 0
    BY <1>4, <1>6
  <2> QED BY <1>6, <2>1, <2>2
<1> QED BY <1>5, <1>6 DEF Terminate

(***************************************************************************)
(* kill and exit end the processes they name, and no other, and kill says  *)
(* truly whether there was one.                                            *)
(***************************************************************************)
THEOREM KillIsTruthful == Spec => KillAnswersTruth
<1> DEFINE KillOK == \A pd \in KillArgs : Kill(pd) =>
             /\ defunct' = defunct \cup Named(pd)
             /\ stack'[Current].rax = (IF Named(pd) = {} THEN Failure ELSE 0)
           ExitOK == Exit => defunct' = defunct \cup {Current}
<1>1. IInv /\ JInv => KillOK
  BY TerminateEffect DEF Kill
<1>2. IInv /\ JInv => ExitOK
  <2> SUFFICES ASSUME IInv, JInv, Exit PROVE defunct' = defunct \cup {Current}
    OBVIOUS
  <2>1. active # NULL /\ Current = active /\ active \in Live
        /\ sched_getpid = pid[active]
    BY DEF Exit, InSyscall, Current, IInv, RingInv, sched_getpid
  <2>2. Named(pid[active]) = {active}
    BY <2>1 DEF JInv, PidInv, Named, Live, Slots
  <2> QED BY <2>1, <2>2, TerminateEffect DEF Exit
<1>3. IInv /\ JInv /\ [Next]_vars => [KillOK /\ ExitOK]_vars
  BY <1>1, <1>2
<1> QED BY <1>3, Invariance2, PTL DEF Spec, KillAnswersTruth

-----------------------------------------------------------------------------
(***************************************************************************)
(* The round: the ring read as a sequence.                                 *)
(***************************************************************************)

\* Every set of natural numbers that is not empty has a least element.
LEMMA Least ==
  ASSUME NEW T, T \subseteq Nat, T # {}
  PROVE  \E x \in T : \A y \in T : x <= y
<1> DEFINE R == OpToRel(<, Nat)
<1>1. IsWellFoundedOn(R, Nat)
  BY NatLessThanWellFounded
<1>2. \A x, y \in Nat : y < x => <<y, x>> \in R
  BY DEF OpToRel
<1> HIDE DEF R
<1>3. PICK x \in T : \A y \in T : ~ (<<y, x>> \in R)
  BY <1>1, WFMin
<1>4. \A y \in T : ~ (y < x)
  BY <1>2, <1>3
<1> QED BY <1>3, <1>4

\* f lists n processes of L, a first, each one pointing at the one behind it.
IsPath(f, a, nx, L, n) ==
  /\ f \in [1 .. n -> L]
  /\ f[1] = a
  /\ \A i \in 1 .. n - 1 : f[i + 1] = nx[f[i]]

\* Pointers that stay in L can be followed any number of times.
LEMMA PathExists ==
  ASSUME NEW L, NEW nx, \A s \in L : nx[s] \in L, NEW a \in L,
         NEW n \in Nat \ {0}
  PROVE  \E f : IsPath(f, a, nx, L, n)
<1> DEFINE Short == {m \in Nat \ {0} : ~ \E f : IsPath(f, a, nx, L, m)}
<1>1. IsPath([i \in 1 .. 1 |-> a], a, nx, L, 1)
  BY DEF IsPath
<1>2. ASSUME NEW m \in Nat \ {0}, NEW f, IsPath(f, a, nx, L, m)
      PROVE  \E g : IsPath(g, a, nx, L, m + 1)
  <2> DEFINE g == [i \in 1 .. m + 1 |-> IF i = m + 1 THEN nx[f[m]] ELSE f[i]]
  <2>1. f \in [1 .. m -> L] /\ f[1] = a /\ f[m] \in L
        /\ \A i \in 1 .. m - 1 : f[i + 1] = nx[f[i]]
    BY <1>2 DEF IsPath
  <2>2. g \in [1 .. m + 1 -> L]
    BY <2>1
  <2>3. g[1] = a
    BY <2>1
  <2>4. ASSUME NEW i \in 1 .. m + 1 - 1 PROVE g[i + 1] = nx[g[i]]
    <3>1. g[i] = f[i] /\ i \in 1 .. m
      OBVIOUS
    <3>2. CASE i = m
      BY <3>1, <3>2
    <3>3. CASE i # m
      <4>1. i \in 1 .. m - 1 /\ g[i + 1] = f[i + 1]
        BY <3>3
      <4> QED BY <2>1, <3>1, <4>1
    <3> QED BY <3>2, <3>3
  <2> HIDE DEF g
  <2>5. IsPath(g, a, nx, L, m + 1)
    BY <2>2, <2>3, <2>4 DEF IsPath
  <2> QED BY <2>5
<1>3. ASSUME Short # {} PROVE FALSE
  <2>1. PICK m \in Short : \A k \in Short : m <= k
    BY <1>3, Least
  <2>2. m # 1
    BY <1>1, <2>1
  <2>3. m - 1 \in Nat \ {0} /\ ~ (m <= m - 1) /\ m - 1 + 1 = m
    BY <2>1, <2>2
  <2>4. m - 1 \notin Short
    <3> HIDE DEF Short
    <3> QED BY <2>1, <2>3
  <2>5. PICK f : IsPath(f, a, nx, L, m - 1)
    BY <2>3, <2>4
  <2>6. \E g : IsPath(g, a, nx, L, m - 1 + 1)
    BY <1>2, <2>3, <2>5
  <2> QED BY <2>1, <2>3, <2>6
<1> QED BY <1>3

\* There is one way to follow the pointers, and Follow is it.
LEMMA FollowIsPath ==
  ASSUME NEW L, NEW nx, NEW a \in L, NEW n \in Nat \ {0},
         NEW f, IsPath(f, a, nx, L, n)
  PROVE  Follow(a, nx, n) = f
<1> DEFINE Eq(g) == g = [i \in 1 .. n |-> IF i = 1 THEN a ELSE nx[g[i - 1]]]
<1>1. f \in [1 .. n -> L] /\ f[1] = a
      /\ \A i \in 1 .. n - 1 : f[i + 1] = nx[f[i]]
  BY DEF IsPath
<1>2. Eq(f)
  <2>1. ASSUME NEW i \in 1 .. n, i # 1 PROVE f[i] = nx[f[i - 1]]
    <3>1. i - 1 \in 1 .. n - 1 /\ i - 1 + 1 = i
      BY <2>1
    <3> QED BY <1>1, <3>1
  <2> QED BY <1>1, <2>1
<1>3. ASSUME NEW g, Eq(g) PROVE g = f
  <2> DEFINE Off == {i \in 1 .. n : g[i] # f[i]}
  <2>1. g = [i \in 1 .. n |-> g[i]] /\ f = [i \in 1 .. n |-> f[i]]
        /\ DOMAIN g = 1 .. n
    BY <1>1, <1>3
  <2>2. ASSUME Off # {} PROVE FALSE
    <3>1. PICK i \in Off : \A k \in Off : i <= k
      <4>1. Off \subseteq Nat
        OBVIOUS
      <4> HIDE DEF Off
      <4> QED BY <2>2, <4>1, Least
    <3>2. i \in 1 .. n /\ i # 1
      BY <1>1, <1>3, <3>1
    <3>3. i - 1 \in 1 .. n /\ i - 1 \notin Off
      <4>1. i - 1 \in 1 .. n /\ ~ (i <= i - 1)
        BY <3>2
      <4> HIDE DEF Off
      <4> QED BY <3>1, <4>1
    <3>4. g[i] = nx[g[i - 1]] /\ f[i] = nx[f[i - 1]]
      BY <1>2, <1>3, <3>2
    <3> QED BY <3>1, <3>3, <3>4
  <2>3. \A i \in 1 .. n : g[i] = f[i]
    BY <2>2
  <2> QED BY <2>1, <2>3
<1>4. Follow(a, nx, n) = CHOOSE g : Eq(g)
  BY DEF Follow
<1> HIDE DEF Eq
<1> QED BY <1>2, <1>3, <1>4

(***************************************************************************)
(* A path as long as a ring meets every process of it once, and its last   *)
(* process points at the first one.                                        *)
(***************************************************************************)
LEMMA PathIsRound ==
  ASSUME NEW L, IsFiniteSet(L), NEW nx, IsRing(L, nx), NEW a \in L,
         NEW f, IsPath(f, a, nx, L, Cardinality(L))
  PROVE  /\ \A i, j \in 1 .. Cardinality(L) : f[i] = f[j] => i = j
         /\ \A s \in L : \E i \in 1 .. Cardinality(L) : f[i] = s
         /\ nx[f[Cardinality(L)]] = a
<1> DEFINE n == Cardinality(L)
<1>1. n \in Nat \ {0}
  BY FS_CardinalityType, FS_EmptySet
<1>2. f \in [1 .. n -> L] /\ f[1] = a
      /\ \A i \in 1 .. n - 1 : f[i + 1] = nx[f[i]]
  BY DEF IsPath
<1> HIDE DEF n
<1>3. ASSUME NEW i \in 1 .. n, NEW j \in 1 .. n, i < j, f[i] = f[j]
      PROVE  FALSE
  <2> DEFINE D == i .. j - 1
             g == [k \in D |-> f[k]]
             S == {f[k] : k \in D}
  <2>1. D \subseteq 1 .. n - 1 /\ i \in D
    BY <1>1, <1>3
  <2>2. S \in SUBSET L /\ S # {}
    BY <1>1, <1>2, <2>1
  <2>3. ASSUME NEW k \in D PROVE nx[f[k]] \in S
    <3>1. nx[f[k]] = f[k + 1]
      BY <1>2, <2>1
    <3>2. CASE k = j - 1
      <4>1. f[k + 1] = f[i]
        BY <1>3, <3>2, <1>1
      <4> QED BY <2>1, <3>1, <4>1
    <3>3. CASE k # j - 1
      <4>1. k + 1 \in D
        BY <1>3, <3>3, <1>1
      <4> QED BY <3>1, <4>1
    <3> QED BY <3>2, <3>3
  <2>4. \A s \in S : nx[s] \in S
    BY <2>3
  <2>5. S = L
    <3> HIDE DEF S
    <3> QED BY <2>2, <2>4 DEF IsRing
  <2>6. g \in Surjection(D, L)
    BY <2>5 DEF Surjection
  <2>7. IsFiniteSet(D) /\ Cardinality(D) = j - i
    BY <1>1, <1>3, FS_Interval
  <2>8. Cardinality(L) <= Cardinality(D)
    <3> HIDE DEF D, g
    <3> QED BY <2>6, <2>7, FS_Surjection
  <2>9. j - i < n
    BY <1>1, <1>3
  <2> QED BY <1>1, <1>3, <2>7, <2>8, <2>9 DEF n
<1>4. \A i, j \in 1 .. n : f[i] = f[j] => i = j
  <2> SUFFICES ASSUME NEW i \in 1 .. n, NEW j \in 1 .. n, f[i] = f[j], i # j
               PROVE  FALSE
    OBVIOUS
  <2>1. i < j \/ j < i
    BY <1>1
  <2> QED BY <1>3, <2>1
<1>5. f \in Surjection(1 .. n, L)
  <2>1. f \in Injection(1 .. n, L)
    BY <1>2, <1>4 DEF Injection, IsInjective
  <2>2. Cardinality(1 .. n) = Cardinality(L)
    BY <1>1, FS_Interval DEF n
  <2> QED BY <2>1, <2>2, FS_Injection
<1>6. \A s \in L : \E i \in 1 .. n : f[i] = s
  BY <1>5 DEF Surjection
<1>7. nx[f[n]] = a
  <2>1. f[n] \in L /\ nx[f[n]] \in L
    BY <1>1, <1>2 DEF IsRing
  <2>2. PICK k \in 1 .. n : f[k] = nx[f[n]]
    BY <1>6, <2>1
  <2>3. CASE k # 1
    <3>1. k - 1 \in 1 .. n - 1 /\ k - 1 + 1 = k /\ k - 1 # n /\ k - 1 \in 1 .. n
          /\ n \in 1 .. n
      BY <1>1, <2>3
    <3>2. nx[f[k - 1]] = nx[f[n]] /\ f[k - 1] \in L
      BY <1>2, <2>2, <3>1
    <3>3. f[k - 1] = f[n]
      BY <2>1, <3>2 DEF IsRing
    <3> QED BY <1>4, <3>1, <3>3
  <2> QED BY <1>2, <2>2, <2>3
<1> QED BY <1>4, <1>6, <1>7 DEF n

(***************************************************************************)
(* Passing the CPU on rotates the round (sched_switch_to_user_stack).      *)
(***************************************************************************)
LEMMA RotatedPath ==
  ASSUME NEW L, IsFiniteSet(L), NEW nx, IsRing(L, nx), NEW a \in L,
         NEW f, IsPath(f, a, nx, L, Cardinality(L))
  PROVE  IsPath(RR!Rotate(f), nx[a], nx, L, Cardinality(L))
<1> DEFINE n == Cardinality(L)
           g == RR!Rotate(f)
<1>1. n \in Nat \ {0}
  BY FS_CardinalityType, FS_EmptySet
<1>2. f \in [1 .. n -> L] /\ f[1] = a
      /\ \A i \in 1 .. n - 1 : f[i + 1] = nx[f[i]]
  BY DEF IsPath
<1>3. nx[f[n]] = a /\ nx[a] \in L
  BY PathIsRound DEF IsRing
<1> HIDE DEF n
<1>4. f \in Seq(L) /\ Len(f) = n /\ f # <<>>
  BY <1>1, <1>2
<1>5. g = Append(Tail(f), Head(f))
  BY <1>4 DEF RR!Rotate
<1>6. Tail(f) \in Seq(L) /\ Len(Tail(f)) = n - 1 /\ Head(f) = a
      /\ \A i \in 1 .. n - 1 : Tail(f)[i] = f[i + 1]
  BY <1>1, <1>2, <1>4
<1>7. g \in [1 .. n -> L] /\ g[n] = a /\ \A i \in 1 .. n - 1 : g[i] = f[i + 1]
  <2>1. g \in Seq(L) /\ Len(g) = n - 1 + 1 /\ g[n - 1 + 1] = a
        /\ \A i \in 1 .. n - 1 : g[i] = f[i + 1]
    BY <1>5, <1>6, AppendProperties
  <2>2. n - 1 + 1 = n
    BY <1>1
  <2> HIDE DEF g
  <2> QED BY <2>1, <2>2, LenProperties
<1> HIDE DEF g
<1>8. g[1] = nx[a]
  <2>1. CASE n = 1
    BY <1>2, <1>3, <1>7, <2>1
  <2>2. CASE n # 1
    BY <1>1, <1>2, <1>7, <2>2
  <2> QED BY <2>1, <2>2
<1>9. ASSUME NEW i \in 1 .. n - 1 PROVE g[i + 1] = nx[g[i]]
  <2>1. g[i] = f[i + 1]
    BY <1>7
  <2>2. CASE i = n - 1
    <3>1. i + 1 = n
      BY <1>1, <2>2
    <3> QED BY <1>3, <1>7, <2>1, <3>1
  <2>3. CASE i # n - 1
    <3>1. i + 1 \in 1 .. n - 1
      BY <1>1, <2>3
    <3> QED BY <1>2, <1>7, <2>1, <3>1
  <2> QED BY <2>2, <2>3
<1> QED BY <1>7, <1>8, <1>9 DEF IsPath, n, g

(***************************************************************************)
(* Unlinking the first process of a round leaves the others in order       *)
(* (sched_terminate_process called by exit).                               *)
(***************************************************************************)
LEMMA TailPath ==
  ASSUME NEW L \in SUBSET Slots, IsFiniteSet(L),
         NEW nx \in [Slots -> Slots \cup {NULL}], IsRing(L, nx), NEW a \in L,
         NEW f, IsPath(f, a, nx, L, Cardinality(L)),
         NEW q \in L, nx[q] = a, q # a
  PROVE  IsPath(Tail(f), nx[a], [nx EXCEPT ![q] = nx[a]],
                L \ {a}, Cardinality(L) - 1)
<1> DEFINE n == Cardinality(L)
           my == [nx EXCEPT ![q] = nx[a]]
           g == Tail(f)
<1>1. n \in Nat \ {0}
  BY FS_CardinalityType, FS_EmptySet
<1>2. f \in [1 .. n -> L] /\ f[1] = a
      /\ \A i \in 1 .. n - 1 : f[i + 1] = nx[f[i]]
  BY DEF IsPath
<1>3. /\ \A i, j \in 1 .. n : f[i] = f[j] => i = j
      /\ nx[f[n]] = a /\ f[n] = q
  <2>1. /\ \A i, j \in 1 .. n : f[i] = f[j] => i = j
        /\ nx[f[n]] = a
    BY PathIsRound
  <2>2. f[n] \in L
    BY <1>1, <1>2
  <2> QED BY <2>1, <2>2 DEF IsRing
<1>4. \A s \in L : s # q => my[s] = nx[s]
  OBVIOUS
<1> HIDE DEF n, my
<1>5. n # 1
  BY <1>2, <1>3
<1>6. f \in Seq(L) /\ Len(f) = n
  BY <1>1, <1>2
<1>7. g \in [1 .. n - 1 -> L] /\ \A i \in 1 .. n - 1 : g[i] = f[i + 1]
  <2>1. f # <<>>
    BY <1>1, <1>6
  <2>2. g \in Seq(L) /\ Len(g) = n - 1
        /\ \A i \in 1 .. n - 1 : g[i] = f[i + 1]
    BY <1>6, <2>1, HeadTailProperties
  <2> HIDE DEF g
  <2> QED BY <2>2, LenProperties
<1> HIDE DEF g
<1>8. g \in [1 .. n - 1 -> L \ {a}]
  <2>1. ASSUME NEW i \in 1 .. n - 1 PROVE g[i] \in L \ {a}
    <3>1. i + 1 \in 1 .. n /\ i + 1 # 1 /\ 1 \in 1 .. n
      BY <1>1
    <3> QED BY <1>2, <1>3, <1>7, <3>1
  <2> QED BY <1>7, <2>1
<1>9. g[1] = nx[a]
  BY <1>1, <1>2, <1>5, <1>7
<1>10. ASSUME NEW i \in 1 .. n - 1 - 1 PROVE g[i + 1] = my[g[i]]
  <2>1. i \in 1 .. n - 1 /\ i + 1 \in 1 .. n - 1 /\ i + 1 \in 1 .. n
        /\ i + 1 # n /\ n \in 1 .. n
    BY <1>1
  <2>2. g[i + 1] = nx[f[i + 1]] /\ g[i] = f[i + 1] /\ f[i + 1] \in L
    BY <1>2, <1>7, <2>1
  <2>3. f[i + 1] # q
    BY <1>3, <2>1
  <2> QED BY <1>4, <2>2, <2>3
<1> QED BY <1>8, <1>9, <1>10 DEF IsPath, n, g, my

(***************************************************************************)
(* Unlinking any other process of a round leaves the others in order       *)
(* (sched_terminate_process called by kill).                               *)
(***************************************************************************)
LEMMA RemovedPath ==
  ASSUME NEW L \in SUBSET Slots, IsFiniteSet(L),
         NEW nx \in [Slots -> Slots \cup {NULL}], IsRing(L, nx), NEW a \in L,
         NEW f, IsPath(f, a, nx, L, Cardinality(L)),
         NEW i \in 2 .. Cardinality(L),
         NEW q \in L, nx[q] = f[i]
  PROVE  IsPath(RR!RemoveAt(f, i), a, [nx EXCEPT ![q] = nx[f[i]]],
                L \ {f[i]}, Cardinality(L) - 1)
<1> DEFINE n == Cardinality(L)
           p == f[i]
           my == [nx EXCEPT ![q] = nx[p]]
           g == RR!RemoveAt(f, i)
<1>1. n \in Nat \ {0} /\ i \in 2 .. n
  BY FS_CardinalityType, FS_EmptySet
<1>2. f \in [1 .. n -> L] /\ f[1] = a
      /\ \A j \in 1 .. n - 1 : f[j + 1] = nx[f[j]]
  BY DEF IsPath
<1>3. \A j, k \in 1 .. n : f[j] = f[k] => j = k
  BY PathIsRound
<1> HIDE DEF n
<1>4. q = f[i - 1] /\ i - 1 \in 1 .. n - 1 /\ i - 1 \in 1 .. n
  <2>1. i - 1 \in 1 .. n - 1 /\ i - 1 + 1 = i /\ i - 1 \in 1 .. n
    BY <1>1
  <2>2. nx[f[i - 1]] = f[i] /\ f[i - 1] \in L
    BY <1>2, <2>1
  <2> QED BY <2>1, <2>2 DEF IsRing
<1>5. my[q] = nx[p] /\ \A s \in L : s # q => my[s] = nx[s]
  OBVIOUS
<1>6. f \in Seq(L) /\ Len(f) = n
  BY <1>1, <1>2
<1>7. g = SubSeq(f, 1, i - 1) \o SubSeq(f, i + 1, n)
  BY <1>6 DEF RR!RemoveAt
<1> HIDE DEF g, my
<1>8. /\ SubSeq(f, 1, i - 1) \in Seq(L) /\ Len(SubSeq(f, 1, i - 1)) = i - 1
      /\ \A k \in 1 .. i - 1 : SubSeq(f, 1, i - 1)[k] = f[k]
  BY <1>1, <1>2, <1>6, SubSeqProperties
<1>9. /\ SubSeq(f, i + 1, n) \in Seq(L) /\ Len(SubSeq(f, i + 1, n)) = n - i
      /\ \A k \in 1 .. n - i : SubSeq(f, i + 1, n)[k] = f[k + i]
  <2>1. /\ SubSeq(f, i + 1, n) \in Seq(L)
        /\ Len(SubSeq(f, i + 1, n)) = IF i + 1 <= n THEN n - (i + 1) + 1 ELSE 0
        /\ \A k \in 1 .. n - (i + 1) + 1 :
             SubSeq(f, i + 1, n)[k] = f[i + 1 + k - 1]
    <3>1. i + 1 \in 1 .. n + 1 /\ n \in i + 1 - 1 .. n
      BY <1>1
    <3> QED BY <1>1, <1>6, <3>1, SubSeqProperties
  <2> QED BY <1>1, <2>1
<1>10. /\ g \in Seq(L) /\ Len(g) = n - 1
       /\ \A k \in 1 .. i - 1 : g[k] = f[k]
       /\ \A k \in i .. n - 1 : g[k] = f[k + 1]
  <2>1. /\ g \in Seq(L) /\ Len(g) = (i - 1) + (n - i)
        /\ \A k \in 1 .. (i - 1) + (n - i) :
             g[k] = IF k <= i - 1 THEN SubSeq(f, 1, i - 1)[k]
                                  ELSE SubSeq(f, i + 1, n)[k - (i - 1)]
    BY <1>7, <1>8, <1>9, ConcatProperties
  <2>2. ASSUME NEW k \in 1 .. i - 1 PROVE g[k] = f[k]
    BY <1>1, <1>8, <2>1
  <2>3. ASSUME NEW k \in i .. n - 1 PROVE g[k] = f[k + 1]
    <3>1. k - (i - 1) \in 1 .. n - i /\ (k - (i - 1)) + i = k + 1
          /\ k \in 1 .. (i - 1) + (n - i) /\ ~ (k <= i - 1)
      BY <1>1
    <3>2. g[k] = SubSeq(f, i + 1, n)[k - (i - 1)]
      BY <2>1, <3>1
    <3>3. SubSeq(f, i + 1, n)[k - (i - 1)] = f[(k - (i - 1)) + i]
      BY <1>9, <3>1
    <3> QED BY <3>1, <3>2, <3>3
  <2> QED BY <1>1, <2>1, <2>2, <2>3
<1>11. g \in [1 .. n - 1 -> L \ {p}]
  <2>1. ASSUME NEW k \in 1 .. n - 1 PROVE g[k] \in L \ {p}
    <3>1. CASE k \in 1 .. i - 1
      <4>1. k \in 1 .. n /\ k # i
        BY <1>1, <3>1
      <4> QED BY <1>1, <1>2, <1>3, <1>10, <3>1, <4>1
    <3>2. CASE k \in i .. n - 1
      <4>1. k + 1 \in 1 .. n /\ k + 1 # i
        BY <1>1, <3>2
      <4> QED BY <1>1, <1>2, <1>3, <1>10, <3>2, <4>1
    <3> QED BY <1>1, <3>1, <3>2
  <2>2. DOMAIN g = 1 .. n - 1 /\ g = [k \in 1 .. n - 1 |-> g[k]]
    BY <1>1, <1>10
  <2> QED BY <2>1, <2>2
<1>12. g[1] = a
  BY <1>1, <1>2, <1>10
<1>13. ASSUME NEW k \in 1 .. n - 1 - 1 PROVE g[k + 1] = my[g[k]]
  <2>1. CASE k + 1 < i
    <3>1. k \in 1 .. i - 1 /\ k + 1 \in 1 .. i - 1 /\ k # i - 1
          /\ k \in 1 .. n - 1 /\ k \in 1 .. n
      BY <1>1, <2>1
    <3>2. g[k] = f[k] /\ g[k + 1] = nx[f[k]] /\ f[k] \in L
      BY <1>2, <1>10, <3>1
    <3>3. f[k] # q
      BY <1>3, <1>4, <3>1
    <3> QED BY <1>5, <3>2, <3>3
  <2>2. CASE k + 1 = i
    <3>1. k = i - 1 /\ k \in 1 .. i - 1 /\ i \in i .. n - 1 /\ i \in 1 .. n - 1
      BY <1>1, <2>2
    <3>2. g[k] = q /\ g[i] = f[i + 1] /\ f[i + 1] = nx[p]
      BY <1>2, <1>4, <1>10, <3>1
    <3> QED BY <1>5, <2>2, <3>2
  <2>3. CASE k + 1 > i
    <3>1. k \in i .. n - 1 /\ k + 1 \in i .. n - 1 /\ k + 1 # i - 1
          /\ k + 1 \in 1 .. n - 1 /\ k + 1 \in 1 .. n
      BY <1>1, <2>3
    <3>2. g[k] = f[k + 1] /\ g[k + 1] = f[k + 1 + 1]
          /\ f[k + 1 + 1] = nx[f[k + 1]] /\ f[k + 1] \in L
      BY <1>2, <1>10, <3>1
    <3>3. f[k + 1] # q
      BY <1>3, <1>4, <3>1
    <3> QED BY <1>5, <3>2, <3>3
  <2> QED BY <1>1, <2>1, <2>2, <2>3
<1> QED BY <1>11, <1>12, <1>13 DEF IsPath, n, g, my

(***************************************************************************)
(* A process inserted in front of the first one is the last of the round   *)
(* (sched_spawn_module).                                                   *)
(***************************************************************************)
LEMMA AppendedPath ==
  ASSUME NEW L, IsFiniteSet(L), NEW nx, IsRing(L, nx), NEW a \in L,
         NEW f, IsPath(f, a, nx, L, Cardinality(L)),
         NEW q \in L, nx[q] = a, NEW s, NEW my, my[q] = s,
         \A t \in L : t # q => my[t] = nx[t]
  PROVE  IsPath(Append(f, s), a, my, L \cup {s}, Cardinality(L) + 1)
<1> DEFINE n == Cardinality(L)
           g == Append(f, s)
<1>1. n \in Nat \ {0}
  BY FS_CardinalityType, FS_EmptySet
<1>2. f \in [1 .. n -> L] /\ f[1] = a
      /\ \A i \in 1 .. n - 1 : f[i + 1] = nx[f[i]]
  BY DEF IsPath
<1>3. /\ \A i, j \in 1 .. n : f[i] = f[j] => i = j
      /\ nx[f[n]] = a /\ f[n] = q
  <2>1. /\ \A i, j \in 1 .. n : f[i] = f[j] => i = j
        /\ nx[f[n]] = a
    BY PathIsRound
  <2>2. f[n] \in L
    BY <1>1, <1>2
  <2> QED BY <2>1, <2>2 DEF IsRing
<1> HIDE DEF n
<1>4. f \in Seq(L) /\ Len(f) = n
  BY <1>1, <1>2
<1>5. g \in [1 .. n + 1 -> L \cup {s}] /\ g[n + 1] = s
      /\ \A i \in 1 .. n : g[i] = f[i]
  <2>1. f \in Seq(L \cup {s})
    BY <1>4, SeqMonotonic
  <2>2. g \in Seq(L \cup {s}) /\ Len(g) = n + 1 /\ g[n + 1] = s
        /\ \A i \in 1 .. n : g[i] = f[i]
    BY <1>4, <2>1, AppendProperties
  <2> HIDE DEF g
  <2> QED BY <2>2, LenProperties
<1> HIDE DEF g
<1>6. g[1] = a
  BY <1>1, <1>2, <1>5
<1>7. ASSUME NEW i \in 1 .. n PROVE g[i + 1] = my[g[i]]
  <2>1. i \in 1 .. n /\ g[i] = f[i] /\ f[i] \in L
    BY <1>1, <1>2, <1>5
  <2>2. CASE i = n
    BY <1>3, <1>5, <2>1, <2>2
  <2>3. CASE i # n
    <3>1. i \in 1 .. n - 1 /\ i + 1 \in 1 .. n /\ n \in 1 .. n
      BY <1>1, <2>1, <2>3
    <3>2. f[i] # q /\ g[i + 1] = nx[f[i]]
      BY <1>2, <1>3, <1>5, <2>1, <2>3, <3>1
    <3> QED BY <2>1, <3>2
  <2> QED BY <2>2, <2>3
<1>8. IsPath(g, a, my, L \cup {s}, n + 1)
  <2> DEFINE M == L \cup {s}
             m == n + 1
  <2>1. g \in [1 .. m -> M]
    BY <1>5
  <2>2. \A i \in 1 .. m - 1 : g[i + 1] = my[g[i]]
    <3>1. m - 1 = n
      BY <1>1
    <3> HIDE DEF m
    <3> QED BY <1>7, <3>1
  <2> HIDE DEF M, m
  <2>3. IsPath(g, a, my, M, m)
    BY <1>6, <2>1, <2>2 DEF IsPath
  <2> QED BY <2>3 DEF M, m
<1> QED BY <1>8 DEF n, g

-----------------------------------------------------------------------------
(***************************************************************************)
(* The refinement of RoundRobin.                                           *)
(***************************************************************************)

\* There are finitely many live processes.
LEMMA FiniteRing ==
  ASSUME NEW L \in SUBSET Slots
  PROVE  /\ IsFiniteSet(L) /\ Cardinality(L) \in Nat
         /\ L # {} => Cardinality(L) \in Nat \ {0}
<1>1. IsFiniteSet(Slots)
  BY SchedAssumption, FS_Interval DEF Slots
<1>2. IsFiniteSet(L)
  BY <1>1, FS_Subset
<1> QED BY <1>2, FS_CardinalityType, FS_EmptySet

\* Two paths over the same ring are the same.
LEMMA PathIsUnique ==
  ASSUME NEW L \in SUBSET Slots, NEW nx, NEW a \in L,
         NEW f, IsPath(f, a, nx, L, Cardinality(L)),
         NEW g, IsPath(g, a, nx, L, Cardinality(L))
  PROVE  f = g
<1>1. Cardinality(L) \in Nat \ {0}
  BY FiniteRing
<1> QED BY <1>1, FollowIsPath

(***************************************************************************)
(* The queue of the refinement is the ring read from active, and the CPU   *)
(* runs the head of the queue.                                             *)
(***************************************************************************)
RoundInv ==
  /\ active = NULL => Order = <<>>
  /\ active # NULL =>
       /\ active \in Live /\ Live \in SUBSET Slots
       /\ IsPath(Order, active, next, Live, Cardinality(Live))
       /\ Order \in Seq(Live) /\ Order # <<>> /\ Head(Order) = active
  /\ mode # "boot" =>
       (IF cpu = NULL THEN NULL ELSE cpu.owner) = RR!First(Order)

\* RoundInv follows from the inductive invariant.
LEMMA RoundOfRing == IInv => RoundInv
<1> SUFFICES ASSUME IInv PROVE RoundInv
  OBVIOUS
<1>1. ASSUME active # NULL
      PROVE  /\ active \in Live /\ Live \in SUBSET Slots
             /\ IsPath(Order, active, next, Live, Cardinality(Live))
             /\ Order \in Seq(Live) /\ Order # <<>> /\ Head(Order) = active
  <2>1. active \in Live /\ Live \in SUBSET Slots /\ IsRing(Live, next)
    BY <1>1 DEF IInv, RingInv, Live
  <2> DEFINE n == Cardinality(Live)
  <2>2. n \in Nat \ {0}
    BY <2>1, FiniteRing
  <2> HIDE DEF n
  <2>3. \A s \in Live : next[s] \in Live
    BY <2>1 DEF IsRing
  <2>4. PICK f : IsPath(f, active, next, Live, n)
    BY <2>1, <2>2, <2>3, PathExists
  <2>5. Follow(active, next, n) = f
    BY <2>1, <2>2, <2>4, FollowIsPath
  <2>6. Order = f
    BY <1>1, <2>5 DEF Order, n
  <2>7. f \in Seq(Live) /\ f # <<>> /\ Head(f) = active
    <3>1. f \in [1 .. n -> Live] /\ f[1] = active
      BY <2>4 DEF IsPath
    <3>2. f \in Seq(Live) /\ Len(f) = n
      BY <2>2, <3>1
    <3>3. f # <<>>
      BY <2>2, <3>2
    <3> QED BY <3>1, <3>2, <3>3
  <2> QED BY <2>1, <2>4, <2>6, <2>7 DEF n
<1>2. active = NULL => Order = <<>>
  BY DEF Order
<1>3. mode # "boot" =>
        (IF cpu = NULL THEN NULL ELSE cpu.owner) = RR!First(Order)
  BY <1>1, <1>2 DEF IInv, ContextIntegrity, Current, RR!First
<1> QED BY <1>1, <1>2, <1>3 DEF RoundInv

\* The same of the next state.
LEMMA RoundOfRingNext == IInv' => RoundInv'
  BY RoundOfRing, PTL

(***************************************************************************)
(* When the pointers list the live processes in the order f, the next      *)
(* queue is f and its head runs.                                           *)
(***************************************************************************)
LEMMA NextOrder ==
  ASSUME IInv', mode' # "boot", active' # NULL,
         NEW f, IsPath(f, active', next', Live', Cardinality(Live'))
  PROVE  /\ Order' = f
         /\ (IF cpu' = NULL THEN NULL ELSE cpu'.owner) = RR!First(f)
<1>1. RoundInv'
  BY RoundOfRingNext
<1>2. active' \in Live' /\ Live' \in SUBSET Slots
      /\ IsPath(Order', active', next', Live', Cardinality(Live'))
      /\ (IF cpu' = NULL THEN NULL ELSE cpu'.owner) = RR!First(Order')
  BY <1>1 DEF RoundInv
<1>3. Order' = f
  BY <1>2, PathIsUnique
<1> QED BY <1>2, <1>3

\* When the last process has ended, the queue is empty and idle runs.
LEMMA LastOrder ==
  ASSUME IInv', mode' # "boot", active' = NULL
  PROVE  /\ Order' = <<>>
         /\ (IF cpu' = NULL THEN NULL ELSE cpu'.owner) = RR!First(<<>>)
  BY RoundOfRingNext DEF RoundInv

\* A handler that leaves the process table alone is a turn.
LEMMA PassRefines ==
  ASSUME IInv, IInv', mode = "user", NEW stk, Resume(active, next, stk),
         UNCHANGED defunct
  PROVE  RR!Turn
<1>1. /\ active' = IF active = NULL THEN NULL ELSE next[active]
      /\ next' = next /\ Live' = Live /\ mode' = "user" /\ mode' # "boot"
  BY DEF Resume, SwitchTo, table, Live
<1>2. RoundInv /\ IsRing(Live, next)
  BY RoundOfRing DEF IInv, RingInv
<1>3. CASE active = NULL
  <2>1. Order = <<>> /\ RR!Rotate(Order) = <<>>
    BY <1>2, <1>3 DEF RoundInv, RR!Rotate
  <2>2. /\ Order' = <<>>
        /\ (IF cpu' = NULL THEN NULL ELSE cpu'.owner) = RR!First(<<>>)
    BY <1>1, <1>3, LastOrder
  <2> QED BY <1>1, <2>1, <2>2 DEF RR!Turn, RR!Switch
<1>4. CASE active # NULL
  <2>1. active \in Live /\ Live \in SUBSET Slots
        /\ IsPath(Order, active, next, Live, Cardinality(Live))
    BY <1>2, <1>4 DEF RoundInv
  <2>2. IsFiniteSet(Live)
    BY <2>1, FiniteRing
  <2>3. PICK f : f = RR!Rotate(Order)
    OBVIOUS
  <2>4. IsPath(f, next[active], next, Live, Cardinality(Live))
    BY <1>2, <2>1, <2>2, <2>3, RotatedPath
  <2>5. active' = next[active] /\ active' # NULL
    <3>1. next[active] \in Slots
      BY <1>2, <2>1 DEF IsRing
    <3> QED BY <1>1, <1>4, <3>1, SchedAssumption DEF Contexts
  <2>6. IsPath(f, active', next', Live', Cardinality(Live'))
    BY <1>1, <2>4, <2>5
  <2>7. /\ Order' = f
        /\ (IF cpu' = NULL THEN NULL ELSE cpu'.owner) = RR!First(f)
    BY <1>1, <2>5, <2>6, NextOrder
  <2> QED BY <1>1, <2>3, <2>7 DEF RR!Turn, RR!Switch
<1> QED BY <1>3, <1>4

\* sched_spawn_module puts the new process at the end of the round.
LEMMA SpawnRefines ==
  ASSUME IInv, IInv', Spawn
  PROVE  \E p \in Slots : RR!Admit(p)
<1> USE SchedAssumption
<1> DEFINE act == IF active = NULL THEN proc_idx ELSE active
<1>1. PICK s \in Slots : s = proc_idx
  BY DEF IInv, TypeOK, Spawn, Slots
<1>2. /\ mode = "boot" /\ mode' = mode /\ cpu' = cpu /\ cpu = cpu'
      /\ s \notin Live /\ Live' = Live \cup {s} /\ Live \in SUBSET Slots
      /\ active' = (IF active = NULL THEN s ELSE active)
      /\ next' = Insert(IF active = NULL THEN s ELSE active, next, s)
      /\ next \in [Slots -> Slots \cup {NULL}]
  <2>1. proc_idx \in Nat /\ proc_idx' = proc_idx + 1 /\ defunct' = {}
        /\ defunct = {}
    BY DEF IInv, TypeOK, Spawn, BootInv
  <2>2. s \notin Live /\ Live' = Live \cup {s} /\ Live \in SUBSET Slots
    BY <1>1, <2>1 DEF Live, Slots
  <2> QED BY <1>1, <2>2 DEF IInv, TypeOK, Spawn
<1>3. RoundInv /\ RoundInv'
  BY RoundOfRing, RoundOfRingNext
<1>4. active' \in Live' /\ active' # NULL /\ Live' \in SUBSET Slots
      /\ IsPath(Order', active', next', Live', Cardinality(Live'))
  <2>1. active' # NULL
    BY <1>1, <1>2 DEF Contexts
  <2> QED BY <1>3, <2>1 DEF RoundInv
<1>5. CASE active = NULL
  <2>1. Live = {} /\ Live' = {s} /\ active' = s
    BY <1>2, <1>5 DEF IInv, RingInv
  <2>2. Order = <<>>
    BY <1>3, <1>5 DEF RoundInv
  <2>3. Cardinality(Live') = 1
    BY <2>1, FS_Singleton
  <2>4. Order' \in [1 .. 1 -> {s}]
    BY <1>4, <2>1, <2>3 DEF IsPath
  <2>5. Order' = <<s>>
    BY <2>4
  <2>6. Order' = Append(Order, s)
    BY <2>2, <2>5
  <2> QED BY <1>2, <2>2, <2>6 DEF RR!Admit, RR!Contains
<1>6. CASE active # NULL
  <2>1. active \in Live /\ IsRing(Live, next) /\ IsFiniteSet(Live)
        /\ IsPath(Order, active, next, Live, Cardinality(Live))
        /\ Order \in Seq(Live)
    BY <1>2, <1>3, <1>6, FiniteRing DEF RoundInv, IInv, RingInv
  <2>2. active' = active /\ next' = Insert(active, next, s)
    BY <1>2, <1>6
  <2>3. PICK q \in Live :
          /\ next[q] = active /\ next'[q] = s
          /\ \A t \in Live : t # q => next'[t] = next[t]
    <3>1. s \in Slots \ Live /\ Live \in SUBSET Slots
          /\ active \in Live /\ IsRing(Live, next)
          /\ next \in [Slots -> Slots \cup {NULL}]
      BY <1>2, <2>1
    <3>2. PICK L, nx, a : L = Live /\ nx = next /\ a = active
      OBVIOUS
    <3>3. s \in Slots \ L /\ L \in SUBSET Slots /\ a \in L /\ IsRing(L, nx)
          /\ nx \in [Slots -> Slots \cup {NULL}]
      BY <3>1, <3>2
    <3>4. PICK q \in L :
            /\ nx[q] = a /\ Insert(a, nx, s)[q] = s
            /\ \A t \in L : t # q => Insert(a, nx, s)[t] = nx[t]
      BY <3>3, InsertLinks
    <3> QED BY <2>2, <3>2, <3>4
  <2>4. IsPath(Append(Order, s), active, next', Live \cup {s},
               Cardinality(Live) + 1)
    BY <2>1, <2>3, AppendedPath
  <2>5. Cardinality(Live') = Cardinality(Live) + 1
    BY <1>2, <2>1, FS_AddElement
  <2>6. Order' = Append(Order, s)
    <3>1. PICK g : g = Append(Order, s)
      OBVIOUS
    <3>2. IsPath(g, active', next', Live', Cardinality(Live'))
      BY <1>2, <2>2, <2>4, <2>5, <3>1
    <3> QED BY <1>4, <3>1, <3>2, PathIsUnique
  <2>7. ~ RR!Contains(Order, s)
    BY <1>2, <2>1 DEF RR!Contains
  <2> QED BY <1>2, <2>6, <2>7 DEF RR!Admit
<1> QED BY <1>5, <1>6

(***************************************************************************)
(* The pointers my lead from the process behind a through the round f of   *)
(* the processes L, with p taken out; a has the last turn if it is left.   *)
(***************************************************************************)
LeadsWithout(my, f, L, a, p) ==
  /\ my[a] \in L \ {p}
  /\ p = a => IsPath(Tail(f), my[a], my, L \ {p}, Cardinality(L \ {p}))
  /\ p # a => \E i \in 2 .. Len(f) :
       /\ f[i] = p
       /\ IsPath(RR!Rotate(RR!RemoveAt(f, i)), my[a], my,
                 L \ {p}, Cardinality(L \ {p}))

(***************************************************************************)
(* Unlinking a process of a ring of several, and passing the CPU on, takes *)
(* the process out of the round and changes nothing else in it.            *)
(***************************************************************************)
LEMMA UnlinkedPath ==
  ASSUME NEW L \in SUBSET Slots, NEW nx \in [Slots -> Slots \cup {NULL}],
         IsRing(L, nx), NEW a \in L, nx[a] # a, NEW p \in L,
         NEW f, IsPath(f, a, nx, L, Cardinality(L)),
         NEW q \in L, nx[q] = p, NEW my, my = [nx EXCEPT ![q] = nx[p]]
  PROVE  LeadsWithout(my, f, L, a, p)
<1>1. q # p
  <2> SUFFICES ASSUME q = p PROVE FALSE
    OBVIOUS
  <2>1. \A s \in {p} : nx[s] \in {p}
    OBVIOUS
  <2>2. {p} \in SUBSET L /\ {p} # {}
    OBVIOUS
  <2>3. L = {p}
    BY <2>1, <2>2 DEF IsRing
  <2> QED BY <2>3
<1>2. IsRing(L \ {p}, my) /\ \A s \in L : my[s] \in L \ {p}
  BY <1>1, UnlinkKeepsRing
<1>3. IsFiniteSet(L) /\ IsFiniteSet(L \ {p})
      /\ Cardinality(L) \in Nat
      /\ Cardinality(L \ {p}) = Cardinality(L) - 1
  BY FiniteRing, FS_RemoveElement
<1>4. ASSUME p = a
      PROVE  IsPath(Tail(f), my[a], my, L \ {p}, Cardinality(L \ {p}))
  <2>1. my[a] = nx[a]
    BY <1>1, <1>4
  <2>2. IsPath(Tail(f), nx[a], [nx EXCEPT ![q] = nx[a]],
               L \ {a}, Cardinality(L) - 1)
    BY <1>1, <1>3, <1>4, TailPath
  <2> QED BY <1>3, <1>4, <2>1, <2>2
<1>5. ASSUME p # a
      PROVE  \E i \in 2 .. Len(f) :
               /\ f[i] = p
               /\ IsPath(RR!Rotate(RR!RemoveAt(f, i)), my[a], my,
                         L \ {p}, Cardinality(L \ {p}))
  <2>1. PICK i \in 1 .. Cardinality(L) : f[i] = p
    BY <1>3, PathIsRound
  <2>2. f \in [1 .. Cardinality(L) -> L] /\ f[1] = a
    BY DEF IsPath
  <2>3. Len(f) = Cardinality(L) /\ i \in 2 .. Cardinality(L)
    BY <1>3, <1>5, <2>1, <2>2
  <2>4. IsPath(RR!RemoveAt(f, i), a, my, L \ {p}, Cardinality(L \ {p}))
    <3>1. IsPath(RR!RemoveAt(f, i), a, [nx EXCEPT ![q] = nx[f[i]]],
                 L \ {f[i]}, Cardinality(L) - 1)
      BY <1>3, <2>1, <2>3, RemovedPath
    <3> QED BY <1>3, <2>1, <3>1
  <2>5. a \in L \ {p}
    BY <1>5
  <2>6. IsPath(RR!Rotate(RR!RemoveAt(f, i)), my[a], my,
               L \ {p}, Cardinality(L \ {p}))
    BY <1>2, <1>3, <2>4, <2>5, RotatedPath
  <2> QED BY <2>1, <2>3, <2>6
<1> QED BY <1>2, <1>4, <1>5 DEF LeadsWithout

(***************************************************************************)
(* kill and exit take their victim out of the round, and end the turn of   *)
(* the caller.                                                             *)
(***************************************************************************)
LEMMA TerminateRefines ==
  ASSUME IInv, IInv', InSyscall, NEW pd, NEW c, Terminate(pd, c)
  PROVE  RR!Turn \/ RR!Quit \/ \E p \in Slots : RR!Slay(p)
<1> USE SchedAssumption
<1>1. mode = "user" /\ active # NULL
  BY DEF InSyscall
<1>2. CASE /\ Resume(active, next, Answered(c, Failure))
           /\ UNCHANGED defunct
  BY <1>1, <1>2, PassRefines
<1>3. ASSUME NEW p \in Matching(pd),
             IF active = next[active]
               THEN Resume(NULL, next, Answered(c, 0))
               ELSE Resume(active, Unlink(p), Answered(c, 0)),
             defunct' = defunct \cup {p}
      PROVE  RR!Quit \/ \E t \in Slots : RR!Slay(t)
  <2>1. Live \in SUBSET Slots /\ active \in Live /\ p \in Live
        /\ IsRing(Live, next) /\ next \in [Slots -> Slots \cup {NULL}]
    BY <1>1, <1>3, MatchingIsLive DEF IInv, RingInv, Live, TypeOK
  <2>2. Live' = Live \ {p} /\ mode' = mode /\ mode' # "boot"
    BY <1>1, <1>3 DEF Resume, SwitchTo, table, Live
  <2>3. IsPath(Order, active, next, Live, Cardinality(Live))
        /\ Order \in Seq(Live) /\ Order # <<>>
    BY <1>1, RoundOfRing DEF RoundInv
  <2>4. CASE active = next[active]
    <3>1. active' = NULL
      BY <1>3, <2>4 DEF Resume, SwitchTo
    <3>2. Live = {active}
      <4>1. {active} \in SUBSET Live /\ {active} # {}
            /\ \A s \in {active} : next[s] \in {active}
        BY <2>1, <2>4
      <4> QED BY <2>1, <4>1 DEF IsRing
    <3>3. Cardinality(Live) = 1
      BY <3>2, FS_Singleton
    <3>4. Order \in [1 .. 1 -> Live]
      BY <2>3, <3>3 DEF IsPath
    <3>5. Len(Order) = 1
      BY <2>3, <3>4
    <3>6. Tail(Order) = <<>>
      <4>1. Tail(Order) \in Seq(Live) /\ Len(Tail(Order)) = 0
        BY <2>3, <3>5, HeadTailProperties
      <4> QED BY <4>1, EmptySeq
    <3>7. /\ Order' = <<>>
          /\ (IF cpu' = NULL THEN NULL ELSE cpu'.owner) = RR!First(<<>>)
      BY <2>2, <3>1, LastOrder
    <3>8. RR!Quit
      BY <1>1, <2>2, <2>3, <3>6, <3>7 DEF RR!Quit, RR!Switch
    <3> QED BY <3>8
  <2>5. CASE active # next[active]
    <3>1. PICK L, nx, a, f, q :
            L = Live /\ nx = next /\ a = active /\ f = Order
            /\ q = Prev(active, next, p)
      OBVIOUS
    <3>2. q \in L /\ nx[q] = p
      BY <2>1, <3>1, PrevOnRing
    <3>3. PICK my : my = [nx EXCEPT ![q] = nx[p]]
      OBVIOUS
    <3>4. next' = my /\ active' = my[a]
      BY <1>1, <1>3, <2>5, <3>1, <3>3 DEF Resume, SwitchTo, Unlink
    <3>5. L \in SUBSET Slots /\ nx \in [Slots -> Slots \cup {NULL}]
          /\ IsRing(L, nx) /\ a \in L /\ nx[a] # a /\ p \in L
          /\ IsPath(f, a, nx, L, Cardinality(L))
          /\ Live' = L \ {p}
      BY <2>1, <2>2, <2>3, <2>5, <3>1
    <3>6. LeadsWithout(my, f, L, a, p)
      BY <3>2, <3>3, <3>5, UnlinkedPath
    <3>7. active' # NULL
      BY <3>4, <3>5, <3>6 DEF LeadsWithout, Contexts
    <3>8. ASSUME NEW g, IsPath(g, my[a], my, L \ {p}, Cardinality(L \ {p}))
          PROVE  /\ Order' = g
                 /\ (IF cpu' = NULL THEN NULL ELSE cpu'.owner) = RR!First(g)
      <4>1. IsPath(g, active', next', Live', Cardinality(Live'))
        BY <3>4, <3>5, <3>8
      <4> QED BY <2>2, <3>7, <4>1, NextOrder
    <3>9. CASE p = a
      <4>1. /\ Order' = Tail(f)
            /\ (IF cpu' = NULL THEN NULL ELSE cpu'.owner) = RR!First(Tail(f))
        BY <3>6, <3>8, <3>9 DEF LeadsWithout
      <4>2. RR!Quit
        BY <1>1, <2>2, <2>3, <3>1, <4>1 DEF RR!Quit, RR!Switch
      <4> QED BY <4>2
    <3>10. CASE p # a
      <4>1. PICK i \in 2 .. Len(f) :
              /\ f[i] = p
              /\ IsPath(RR!Rotate(RR!RemoveAt(f, i)), my[a], my,
                        L \ {p}, Cardinality(L \ {p}))
        BY <3>6, <3>10 DEF LeadsWithout
      <4>2. PICK g : g = RR!Rotate(RR!RemoveAt(f, i))
        OBVIOUS
      <4>3. /\ Order' = g
            /\ (IF cpu' = NULL THEN NULL ELSE cpu'.owner) = RR!First(g)
        BY <3>8, <4>1, <4>2
      <4>4. RR!Slay(p)
        BY <1>1, <2>2, <3>1, <4>1, <4>2, <4>3 DEF RR!Slay, RR!Switch
      <4> QED BY <2>1, <4>4
    <3> QED BY <3>9, <3>10
  <2> QED BY <2>4, <2>5
<1> QED BY <1>2, <1>3 DEF Terminate

(***************************************************************************)
(* The scheduler is round-robin: seen through Order, each of its steps is  *)
(* a step of RoundRobin, whatever processes are spawned, exit and kill     *)
(* each other in whatever order.                                           *)
(***************************************************************************)
THEOREM SchedulerIsRoundRobin == Spec => KeepsRoundRobin
<1>1. Init => RR!RRInit
  BY DEF Init, RR!RRInit, Order
<1>2. ASSUME IInv, IInv', [Next]_vars PROVE [RR!RRNext]_(RR!rrvars)
  <2>1. CASE Spawn
    BY <1>2, <2>1, SpawnRefines DEF RR!RRNext
  <2>2. CASE Drop
    <3>1. RoundInv /\ RoundInv'
      BY <1>2, RoundOfRing, RoundOfRingNext
    <3>2. Order' = Order /\ mode = "boot" /\ mode' = "user" /\ active # NULL
      <4>1. Live' = Live /\ active' = active /\ next' = next
        BY <2>2 DEF Drop, Live, table
      <4>2. 0 \in Live
        BY <1>2, <2>2, SchedAssumption
           DEF Drop, IInv, BootInv, TypeOK, Live, Slots
      <4> QED BY <1>2, <2>2, <4>1, <4>2 DEF Drop, Order, IInv, RingInv
    <3>3. RR!Start
      BY <3>1, <3>2 DEF RoundInv, RR!Start
    <3> QED BY <3>3 DEF RR!RRNext
  <2>3. CASE Irq
    BY <1>2, <2>3, PassRefines DEF Irq, RR!RRNext
  <2>4. ASSUME NEW r \in {0, Failure}, Other(r) PROVE RR!RRNext
    BY <1>2, <2>4, PassRefines DEF Other, InSyscall, RR!RRNext
  <2>5. CASE Getpid
    BY <1>2, <2>5, PassRefines DEF Getpid, InSyscall, RR!RRNext
  <2>6. ASSUME NEW pd \in KillArgs, Kill(pd) PROVE RR!RRNext
    BY <1>2, <2>6, TerminateRefines DEF Kill, RR!RRNext
  <2>7. CASE Exit
    BY <1>2, <2>7, TerminateRefines DEF Exit, RR!RRNext
  <2>8. CASE Halt
    <3>1. Order' = Order
      BY <2>8 DEF Halt, Order, Live, table
    <3>2. Order # <<>>
      BY <1>2, <2>8, RoundOfRing DEF RoundInv, Halt, InSyscall
    <3>3. RR!Stop
      BY <2>8, <3>1, <3>2 DEF Halt, InSyscall, RR!Stop
    <3> QED BY <3>3 DEF RR!RRNext
  <2>9. CASE UNCHANGED vars
    <3>1. Order' = Order
      BY <2>9 DEF vars, Order, Live
    <3> QED BY <2>9, <3>1 DEF vars, RR!rrvars
  <2> QED BY <1>2, <2>1, <2>2, <2>3, <2>4, <2>5, <2>6, <2>7, <2>8, <2>9
          DEF Next
<1> QED BY <1>1, <1>2, Invariance, PTL DEF Spec, KeepsRoundRobin, RR!RRSafety

=============================================================================
