------------------------------- MODULE MCPipe -------------------------------
(***************************************************************************)
(* Instances of the pipes for TLC.                                         *)
(***************************************************************************)
EXTENDS Pipe
=============================================================================
