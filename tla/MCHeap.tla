------------------------------- MODULE MCHeap -------------------------------
(***************************************************************************)
(* The sizes of heap.c divided by eight, and a heap in which up to eight   *)
(* blocks fit.  The requests need the smallest block (6), a larger one (8) *)
(* and one that leaves rests on both sides of the limit for a split (16).  *)
(***************************************************************************)
EXTENDS Heap

MCSizes == {0, 1, 3, 11}
=============================================================================
