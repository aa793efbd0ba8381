------------------------------- MODULE MCSched -------------------------------
(***************************************************************************)
(* Instances of the scheduler for TLC.                                     *)
(***************************************************************************)
EXTENDS SchedRefinement
=============================================================================
