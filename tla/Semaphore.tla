------------------------------ MODULE Semaphore ------------------------------
(***************************************************************************)
(* The operations of a semaphore (Kernel/semaphore.c), as functions of its *)
(* record: the count and the pids of the queue, first one first.  The      *)
(* calls that would put a process to sleep or wake it are commented out in *)
(* the code, so a process that is queued goes on running.                  *)
(***************************************************************************)
EXTENDS Integers, Sequences

CONSTANT INT_MAX \* the largest int

CreateSem(v) == [value |-> v, queue |-> <<>>]

\* What WaitSem answers: 1 when it has taken a unit, 0 when it has queued.
WaitAnswer(sem) == IF sem.value > 0 THEN 1 ELSE 0

\* A caller that finds no unit is queued under its pid.  (For the first one
\* the code also stores the pid through the null queue pointer.)
WaitSem(sem, pid) ==
  IF sem.value > 0 THEN [sem EXCEPT !.value = @ - 1]
                   ELSE [sem EXCEPT !.queue = Append(@, pid)]

\* value is an int and nothing bounds it: the one after the largest is the
\* smallest, as the increment of the build's machine wraps.
SignalSem(sem) ==
  IF sem.queue = <<>>
    THEN [sem EXCEPT !.value = IF @ = INT_MAX THEN -INT_MAX - 1 ELSE @ + 1]
    ELSE [sem EXCEPT !.queue = Tail(@)]

=============================================================================
