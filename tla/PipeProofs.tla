----------------------------- MODULE PipeProofs -----------------------------
(***************************************************************************)
(* Proofs about the pipes, for every number and size of pipes and every    *)
(* width of unsigned.                                                      *)
(***************************************************************************)
EXTENDS Pipe, TLAPS

(***************************************************************************)
(* As long as a pipe has seen fewer than INT_MAX writes, the count of its  *)
(* semaphore is the unit it was created with and one for each of them, for *)
(* PutPipe signals without waiting, and nobody is queued.                  *)
(***************************************************************************)
Counts(sem, w) == w < INT_MAX => sem.value = 1 + w /\ sem.queue = <<>>

CountInv == \A fd \in fds : IsOpen(fd) => Counts(pipes[fd].sem, writes[fd])

\* A wait leaves a semaphore, whether it takes a unit or queues.
LEMMA WaitType ==
  ASSUME NEW sem \in Semaphores, NEW pid \in Pids
  PROVE  WaitSem(sem, pid) \in Semaphores
<1>1. /\ sem.value \in -INT_MAX - 1 .. INT_MAX /\ sem.queue \in Seq(Pids)
      /\ sem = [value |-> sem.value, queue |-> sem.queue]
  BY DEF Semaphores
<1>2. CASE sem.value > 0
  <2>1. sem.value - 1 \in -INT_MAX - 1 .. INT_MAX
    BY <1>1, <1>2, PipeAssumption
  <2>2. WaitSem(sem, pid) = [value |-> sem.value - 1, queue |-> sem.queue]
    BY <1>1, <1>2 DEF WaitSem, Semaphores
  <2> QED BY <1>1, <2>1, <2>2 DEF Semaphores
<1>3. CASE ~ (sem.value > 0)
  <2>1. Append(sem.queue, pid) \in Seq(Pids)
    BY <1>1
  <2>2. WaitSem(sem, pid) = [value |-> sem.value, queue |-> Append(sem.queue, pid)]
    BY <1>1, <1>3 DEF WaitSem
  <2> QED BY <1>1, <2>1, <2>2 DEF Semaphores
<1> QED BY <1>2, <1>3

\* So does a signal, the one at the largest count included.
LEMMA SignalType ==
  ASSUME NEW sem \in Semaphores
  PROVE  SignalSem(sem) \in Semaphores
<1>1. /\ sem.value \in -INT_MAX - 1 .. INT_MAX /\ sem.queue \in Seq(Pids)
      /\ sem = [value |-> sem.value, queue |-> sem.queue]
  BY DEF Semaphores
<1>2. CASE sem.queue = <<>>
  <2>1. PICK v : v = IF sem.value = INT_MAX THEN -INT_MAX - 1 ELSE sem.value + 1
    OBVIOUS
  <2>2. v \in -INT_MAX - 1 .. INT_MAX
    BY <1>1, <2>1, PipeAssumption
  <2>3. SignalSem(sem) = [value |-> v, queue |-> sem.queue]
    BY <1>1, <1>2, <2>1 DEF SignalSem, Semaphores
  <2> QED BY <1>1, <2>2, <2>3 DEF Semaphores
<1>3. CASE sem.queue # <<>>
  <2>1. Tail(sem.queue) \in Seq(Pids)
    BY <1>1, <1>3
  <2>2. SignalSem(sem) = [value |-> sem.value, queue |-> Tail(sem.queue)]
    BY <1>1, <1>3 DEF SignalSem
  <2> QED BY <1>1, <2>1, <2>2 DEF Semaphores
<1> QED BY <1>2, <1>3

\* A read takes a unit and gives it back; until the overflow it finds one.
LEMMA WaitThenSignal ==
  ASSUME NEW sem \in Semaphores, NEW pid \in Pids, NEW w \in Nat, Counts(sem, w)
  PROVE  /\ Counts(SignalSem(WaitSem(sem, pid)), w)
         /\ w < INT_MAX => WaitAnswer(sem) = 1
<1> SUFFICES ASSUME w < INT_MAX
             PROVE  /\ WaitAnswer(sem) = 1
                    /\ SignalSem(WaitSem(sem, pid)).value = 1 + w
                    /\ SignalSem(WaitSem(sem, pid)).queue = <<>>
  BY DEF Counts
<1>1. sem = [value |-> 1 + w, queue |-> <<>>]
  BY DEF Counts, Semaphores
<1>2. WaitSem(sem, pid) = [value |-> w, queue |-> <<>>]
  BY <1>1 DEF WaitSem
<1>3. SignalSem([value |-> w, queue |-> <<>>]) = [value |-> w + 1, queue |-> <<>>]
  BY PipeAssumption DEF SignalSem
<1>4. WaitAnswer(sem) = 1
  BY <1>1 DEF WaitAnswer
<1> QED BY <1>2, <1>3, <1>4

\* A write counts one up.
LEMMA SignalCounts ==
  ASSUME NEW sem \in Semaphores, NEW w \in Nat, Counts(sem, w)
  PROVE  Counts(SignalSem(sem), w + 1)
<1> SUFFICES ASSUME w + 1 < INT_MAX
             PROVE  /\ SignalSem(sem).value = 1 + (w + 1)
                    /\ SignalSem(sem).queue = <<>>
  BY DEF Counts
<1>1. sem = [value |-> 1 + w, queue |-> <<>>]
  BY PipeAssumption DEF Counts, Semaphores
<1>2. SignalSem([value |-> 1 + w, queue |-> <<>>])
        = [value |-> (1 + w) + 1, queue |-> <<>>]
  BY PipeAssumption DEF SignalSem
<1> QED BY <1>1, <1>2

\* The semaphore of a new pipe.
LEMMA CreateCounts == CreateSem(1) \in Semaphores /\ Counts(CreateSem(1), 0)
  BY PipeAssumption DEF Counts, CreateSem, Semaphores

\* The head that Wrap returns is an index of the buffer.
LEMMA WrapType ==
  ASSUME NEW h \in Nat
  PROVE  Wrap(h) \in 0 .. PIPE_SIZE - 1
  BY PipeAssumption DEF Wrap

\* The inductive invariant.
PipeInv == TypeOK /\ CountInv

\* No pipe is open at first.
LEMMA PipeInit == Init => PipeInv
  BY DEF Init, PipeInv, TypeOK, CountInv, IsOpen, fds

\* Every operation keeps the counts of the semaphores and the heads in the
\* buffers.
LEMMA PipeNext == PipeInv /\ [Next]_vars => PipeInv'
<1> SUFFICES ASSUME PipeInv, [Next]_vars PROVE PipeInv'
  OBVIOUS
<1> USE DEF PipeInv
<1>1. ASSUME NEW fd \in fds, NEW p, p \in Pipes, NEW w \in Nat, Counts(p.sem, w),
             pipes' = [pipes EXCEPT ![fd] = p],
             writes' = [writes EXCEPT ![fd] = w], unread' \in [fds -> Int]
      PROVE  PipeInv'
  <2>1. TypeOK'
    BY <1>1 DEF TypeOK
  <2>2. ASSUME NEW f \in fds, IsOpen(f)' PROVE Counts(pipes'[f].sem, writes'[f])
    <3>1. CASE f = fd
      BY <1>1, <3>1 DEF TypeOK
    <3>2. CASE f # fd
      <4>1. pipes'[f] = pipes[f] /\ writes'[f] = writes[f]
        BY <1>1, <3>2 DEF TypeOK
      <4>2. IsOpen(f)
        BY <2>2, <4>1 DEF IsOpen
      <4> QED BY <4>1, <4>2 DEF CountInv
    <3> QED BY <3>1, <3>2
  <2> QED BY <2>1, <2>2 DEF CountInv
<1>2. ASSUME NEW fd \in fds, IsOpen(fd)
      PROVE  /\ pipes[fd] \in Pipes /\ pipes[fd].sem \in Semaphores
             /\ writes[fd] \in Nat /\ Counts(pipes[fd].sem, writes[fd])
             /\ writes = [writes EXCEPT ![fd] = writes[fd]]
  BY <1>2 DEF TypeOK, CountInv, IsOpen, Pipes
<1>3. ASSUME NEW fd \in fds, Join(fd) PROVE PipeInv'
  <2> DEFINE p == [pipes[fd] EXCEPT !.users = @ + 1]
  <2>1. p \in Pipes /\ p.sem = pipes[fd].sem
    BY <1>2, <1>3 DEF Join, Pipes
  <2>2. pipes' = [pipes EXCEPT ![fd] = p] /\ unread' \in [fds -> Int]
    BY <1>3 DEF Join, TypeOK
  <2>3. /\ writes[fd] \in Nat /\ Counts(p.sem, writes[fd])
        /\ writes' = [writes EXCEPT ![fd] = writes[fd]]
    BY <1>2, <1>3, <2>1 DEF Join
  <2> HIDE DEF p
  <2> QED BY <1>1, <2>1, <2>2, <2>3
<1>4. ASSUME NEW fd \in fds, NEW a \in 0 .. UINT - 1, Create(fd, a) PROVE PipeInv'
  <2> DEFINE p == [sem |-> CreateSem(1), avail |-> a, head |-> 0, users |-> 1]
  <2>1. p \in Pipes /\ Counts(p.sem, 0)
    BY CreateCounts, PipeAssumption DEF Pipes
  <2>2. pipes' = [pipes EXCEPT ![fd] = p]
    BY <1>4 DEF Create
  <2>3. writes' = [writes EXCEPT ![fd] = 0] /\ unread' \in [fds -> Int]
    BY <1>4 DEF Create, TypeOK
  <2> HIDE DEF p
  <2> QED BY <1>1, <2>1, <2>2, <2>3
<1>5. ASSUME NEW fd \in fds, NEW pid \in Pids, NEW size \in 1 .. PIPE_SIZE,
             GetPipe(fd, pid, size)
      PROVE  PipeInv'
  <2>1. /\ pipes[fd] \in Pipes /\ pipes[fd].sem \in Semaphores
        /\ writes[fd] \in Nat /\ Counts(pipes[fd].sem, writes[fd])
        /\ writes' = [writes EXCEPT ![fd] = writes[fd]]
    BY <1>2, <1>5 DEF GetPipe
  <2>2. ASSUME Read(fd, pid, Readable(pipes[fd])) PROVE PipeInv'
    <3> DEFINE n == Readable(pipes[fd])
               s == SignalSem(WaitSem(pipes[fd].sem, pid))
               p == [pipes[fd] EXCEPT !.sem = s,
                                      !.head = Wrap(@ + n),
                                      !.avail = @ - n]
    <3>1. n \in 0 .. 1 /\ pipes[fd].avail - n \in 0 .. UINT - 1
      BY <2>1, PipeAssumption DEF Readable, Pipes
    <3>2. Wrap(pipes[fd].head + n) \in 0 .. PIPE_SIZE - 1
      BY <2>1, <3>1, WrapType DEF Pipes
    <3>3. s \in Semaphores /\ Counts(s, writes[fd])
      BY <2>1, WaitType, SignalType, WaitThenSignal
    <3>4. pipes' = [pipes EXCEPT ![fd] = p]
      BY <2>2 DEF Read
    <3>5. unread' \in [fds -> Int]
      BY <2>2, <3>1 DEF Read, TypeOK
    <3> HIDE DEF s
    <3>6. p \in Pipes /\ p.sem = s
      BY <2>1, <3>1, <3>2, <3>3 DEF Pipes
    <3> HIDE DEF p
    <3> QED BY <1>1, <2>1, <3>3, <3>4, <3>5, <3>6
  <2>3. ASSUME WaitAnswer(pipes[fd].sem) = 0,
               pipes' = [pipes EXCEPT ![fd].sem = WaitSem(@, pid)],
               UNCHANGED unread
        PROVE  PipeInv'
    <3> DEFINE s == WaitSem(pipes[fd].sem, pid)
               p == [pipes[fd] EXCEPT !.sem = s]
    <3>1. s \in Semaphores
      BY <2>1, WaitType
    <3>2. ~ (writes[fd] < INT_MAX)
      BY <2>1, <2>3, WaitThenSignal
    <3>3. Counts(s, writes[fd])
      BY <3>2 DEF Counts
    <3>4. pipes' = [pipes EXCEPT ![fd] = p]
      BY <2>3
    <3>5. unread' \in [fds -> Int]
      BY <2>3 DEF TypeOK
    <3> HIDE DEF s
    <3>6. p \in Pipes /\ p.sem = s
      BY <2>1, <3>1 DEF Pipes
    <3> HIDE DEF p
    <3> QED BY <1>1, <2>1, <3>3, <3>4, <3>5, <3>6
  <2> QED BY <1>5, <2>2, <2>3 DEF GetPipe
<1>6. ASSUME NEW fd \in fds, NEW size \in 0 .. PIPE_SIZE, PutPipe(fd, size)
      PROVE  PipeInv'
  <2>1. /\ pipes[fd] \in Pipes /\ pipes[fd].sem \in Semaphores
        /\ writes[fd] \in Nat /\ Counts(pipes[fd].sem, writes[fd])
    BY <1>2, <1>6 DEF PutPipe
  <2> DEFINE s == SignalSem(pipes[fd].sem)
             p == [pipes[fd] EXCEPT !.sem = s,
                                    !.head = Wrap(@ + size),
                                    !.avail = (@ + size) % UINT]
  <2>2. Wrap(pipes[fd].head + size) \in 0 .. PIPE_SIZE - 1
    BY <2>1, WrapType, PipeAssumption DEF Pipes
  <2>3. (pipes[fd].avail + size) % UINT \in 0 .. UINT - 1
    BY <2>1, PipeAssumption DEF Pipes
  <2>4. s \in Semaphores /\ Counts(s, writes[fd] + 1)
    BY <2>1, SignalType, SignalCounts
  <2>5. pipes' = [pipes EXCEPT ![fd] = p]
    BY <1>6 DEF PutPipe
  <2>6. /\ writes' = [writes EXCEPT ![fd] = writes[fd] + 1]
        /\ writes[fd] + 1 \in Nat /\ unread' \in [fds -> Int]
    BY <1>6, <2>1, PipeAssumption DEF PutPipe, TypeOK
  <2> HIDE DEF s
  <2>7. p \in Pipes /\ p.sem = s
    BY <2>1, <2>2, <2>3, <2>4 DEF Pipes
  <2> HIDE DEF p
  <2> QED BY <1>1, <2>4, <2>5, <2>6, <2>7
<1>7. ASSUME UNCHANGED vars PROVE PipeInv'
  BY <1>7 DEF vars, TypeOK, CountInv, IsOpen
<1>8. ASSUME NEW fd \in fds, ClosePipe(fd) PROVE PipeInv'
  <2>1. CASE ~ IsOpen(fd) /\ UNCHANGED pipes
    BY <1>7, <1>8, <2>1 DEF ClosePipe, vars
  <2>2. CASE pipes' = [pipes EXCEPT ![fd] = NULL]
    <3>1. TypeOK'
      BY <1>8, <2>2 DEF ClosePipe, TypeOK
    <3>2. ASSUME NEW f \in fds, IsOpen(f)' PROVE Counts(pipes'[f].sem, writes'[f])
      <4>1. f # fd /\ pipes'[f] = pipes[f] /\ writes'[f] = writes[f]
        BY <1>8, <2>2, <3>2 DEF IsOpen, TypeOK, ClosePipe
      <4> QED BY <3>2, <4>1 DEF IsOpen, CountInv
    <3> QED BY <3>1, <3>2 DEF CountInv
  <2>3. CASE IsOpen(fd) /\ pipes' = [pipes EXCEPT ![fd].users = 0]
    <3> DEFINE p == [pipes[fd] EXCEPT !.users = 0]
    <3>1. p \in Pipes /\ p.sem = pipes[fd].sem
      BY <1>2, <2>3 DEF Pipes
    <3>2. pipes' = [pipes EXCEPT ![fd] = p] /\ unread' \in [fds -> Int]
      BY <1>8, <2>3 DEF ClosePipe, TypeOK
    <3>3. /\ writes[fd] \in Nat /\ Counts(p.sem, writes[fd])
          /\ writes' = [writes EXCEPT ![fd] = writes[fd]]
      BY <1>2, <1>8, <2>3, <3>1 DEF ClosePipe
    <3> HIDE DEF p
    <3> QED BY <1>1, <3>1, <3>2, <3>3
  <2> QED BY <1>8, <2>1, <2>2, <2>3 DEF ClosePipe, DeletePipe
<1> QED BY <1>3, <1>4, <1>5, <1>6, <1>7, <1>8 DEF Next, Refused

\* The invariant holds in every reachable state.
THEOREM PipeInvariance == Spec => []PipeInv
  BY PipeInit, PipeNext, PTL DEF Spec

(***************************************************************************)
(* No read or write moves the head of a pipe out of its buffer.            *)
(***************************************************************************)
THEOREM PipeTypeCorrect == Spec => []TypeOK
<1>1. PipeInv => TypeOK
  BY DEF PipeInv
<1> QED BY <1>1, PipeInvariance, PTL

(***************************************************************************)
(* No process is queued on the semaphore of a pipe, or refused by it,      *)
(* before the write that overflows its count, whatever the width of int.   *)
(***************************************************************************)
THEOREM SemaphoresIdle == Spec => []SemaphoreIdle
<1>1. PipeInv => SemaphoreIdle
  <2> SUFFICES ASSUME PipeInv, NEW fd \in fds, IsOpen(fd), writes[fd] < INT_MAX
               PROVE  pipes[fd].sem.value >= 1 /\ pipes[fd].sem.queue = <<>>
    BY DEF SemaphoreIdle
  <2>1. writes[fd] \in Nat /\ Counts(pipes[fd].sem, writes[fd])
    BY DEF PipeInv, TypeOK, CountInv
  <2> QED BY <2>1 DEF Counts
<1> QED BY <1>1, PipeInvariance, PTL

=============================================================================
