-------------------------------- MODULE MCPmm --------------------------------
(***************************************************************************)
(* Instances of the physical memory manager for TLC.                       *)
(***************************************************************************)
EXTENDS Pmm
=============================================================================
