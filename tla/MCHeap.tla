-------------------------------- MODULE MCHeap --------------------------------
(* Heap for TLC with two size classes: one of two cells, which requests of   *)
(* one cell and of two share, and one of three cells.                        *)
EXTENDS Heap

MCClasses == <<2, 3>>
=============================================================================
