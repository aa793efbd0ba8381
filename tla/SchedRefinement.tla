--------------------------- MODULE SchedRefinement ---------------------------
(***************************************************************************)
(* The scheduler implements round-robin: the queue of RoundRobin is the    *)
(* ring read from active along the next pointers.                          *)
(***************************************************************************)
EXTENDS Sched, Sequences, FiniteSets

\* The first n processes that the pointers nx lead to, a first.
Follow(a, nx, n) ==
  LET nth[i \in 1 .. n] == IF i = 1 THEN a ELSE nx[nth[i - 1]] IN nth

\* The ring as a sequence, active first.
Order ==
  IF active = NULL THEN <<>> ELSE Follow(active, next, Cardinality(Live))

RR == INSTANCE RoundRobin WITH
        Processes <- Slots, Nobody <- NULL, Idler <- Idle,
        phase <- mode, queue <- Order,
        running <- IF cpu = NULL THEN NULL ELSE cpu.owner

(***************************************************************************)
(* Every behaviour of the scheduler, seen through Order, is a behaviour of *)
(* RoundRobin: spawn appends to the round, every kernel entry ends the     *)
(* turn of the caller and of nobody else, a kill or an exit removes its    *)
(* victim and keeps the order of the others.                               *)
(***************************************************************************)
ImplementsRoundRobin == RR!RRSpec

\* The same, without the promise that turns end.
KeepsRoundRobin == RR!RRSafety

=============================================================================
