------------------------------- MODULE MCKheap -------------------------------
(***************************************************************************)
(* An instance of the kernel heap for TLC.                                 *)
(***************************************************************************)
EXTENDS Kheap

\* The sizes of mmu_kmalloc's callers, scaled down: one that leaves an extra
\* block in its frame, and smaller ones that split it.
CallerSizes == {2, 9}
=============================================================================
