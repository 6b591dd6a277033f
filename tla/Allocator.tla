------------------------------ MODULE Allocator ------------------------------
(***************************************************************************)
(* What a heap promises (aipl_src/std/heap.aipl): the blocks a program     *)
(* holds never overlap, and a block freed may be handed out again.  A      *)
(* block is the interval of cells it occupies.  Heap implements it.        *)
(***************************************************************************)
EXTENDS Integers

CONSTANT Cells        \* the addresses

VARIABLE live         \* the blocks allocated and not yet freed

Init == live = {}

Allocate(block) ==
  /\ block # {}
  /\ \A other \in live : block \cap other = {}
  /\ live' = live \cup {block}

Free(block) ==
  /\ block \in live
  /\ live' = live \ {block}

Next == \E first, last \in Cells : Allocate(first..last) \/ Free(first..last)

Spec == Init /\ [][Next]_live
=============================================================================
