----------------------------- MODULE RoundRobin -----------------------------
(***************************************************************************)
(* What the scheduler promises: round-robin over the processes that boot   *)
(* admitted.  The head of the queue runs; every kernel entry ends its      *)
(* turn.  A process leaves when it exits or is killed, and never returns.  *)
(***************************************************************************)
EXTENDS Naturals, Sequences, SequencesExt

CONSTANTS Processes, Nobody, Idler

VARIABLES
  phase,   \* "boot", "user" or "halted"
  queue,   \* the admitted processes, in the order in which they will run
  running  \* who has the CPU: Nobody in boot, Idler when the queue is empty

rrvars == <<phase, queue, running>>

First(q)  == IF q = <<>> THEN Idler ELSE Head(q)
Rotate(q) == IF q = <<>> THEN q ELSE Append(Tail(q), Head(q))

RRInit == phase = "boot" /\ queue = <<>> /\ running = Nobody

Admit(p) ==
  /\ phase = "boot"
  /\ ~ Contains(queue, p)
  /\ queue' = Append(queue, p)
  /\ UNCHANGED <<phase, running>>

Start ==
  /\ phase = "boot" /\ queue # <<>>
  /\ phase' = "user"
  /\ running' = First(queue)
  /\ UNCHANGED queue

\* The CPU goes to the head of the new queue.
Switch(q) ==
  /\ phase = "user"
  /\ queue' = q
  /\ running' = First(q)
  /\ UNCHANGED phase

\* The running process keeps its place in the round, behind all others.
Turn == Switch(Rotate(queue))

\* The running process leaves.
Quit == queue # <<>> /\ Switch(Tail(queue))

\* The running process ends its turn by killing p.
Slay(p) ==
  \E i \in 2 .. Len(queue) :
    queue[i] = p /\ Switch(Rotate(RemoveAt(queue, i)))

Stop ==
  /\ phase = "user" /\ queue # <<>>
  /\ phase' = "halted"
  /\ UNCHANGED <<queue, running>>

RRNext ==
  \/ \E p \in Processes : Admit(p)
  \/ Start
  \/ Turn
  \/ Quit
  \/ \E p \in Processes : Slay(p)
  \/ Stop

\* Who may run, and when.
RRSafety == RRInit /\ [][RRNext]_rrvars

\* Boot ends, and turns end for as long as the machine is up.
RRSpec ==
  /\ RRSafety
  /\ WF_rrvars(Start)
  /\ WF_rrvars(Turn)

=============================================================================
