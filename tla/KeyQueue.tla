------------------------------ MODULE KeyQueue ------------------------------
(***************************************************************************)
(* What the key buffer promises: a bounded queue.  A key that finds the    *)
(* queue full is dropped, and a read takes keys from the front.            *)
(***************************************************************************)
EXTENDS Naturals, Sequences

CONSTANTS Key, Bound

VARIABLES
  queue, \* the keys that wait, oldest first
  given  \* the keys that the last read took

kqvars == <<queue, given>>

KQInit == queue = <<>> /\ given = <<>>

Enqueue(k) ==
  /\ Len(queue) < Bound
  /\ queue' = Append(queue, k)
  /\ UNCHANGED given

Take(n) ==
  /\ given' = SubSeq(queue, 1, n)
  /\ queue' = SubSeq(queue, n + 1, Len(queue))

KQNext ==
  \/ \E k \in Key : Enqueue(k)
  \/ \E n \in 0 .. Len(queue) : Take(n)

KQSpec == KQInit /\ [][KQNext]_kqvars

=============================================================================
