------------------------------ MODULE MCUheap ------------------------------
(***************************************************************************)
(* The memory of a user process for TLC: heap, windows and page tables.    *)
(***************************************************************************)
EXTENDS Uheap

\* A small block, and one that leaves no room for another in its page.
CallerSizes == {1, 5}
=============================================================================
