------------------------ MODULE MCParallelAccumulate ------------------------
(***************************************************************************)
(* ParallelAccumulate on ranges of 0 to 5 items with blocks of two, so     *)
(* that there are 0, 1, 2 or 3 blocks and the last one is full or not.     *)
(***************************************************************************)
EXTENDS ParallelAccumulate

Blocks == 0 .. 2
Unnested == [t \in Blocks |-> NoTask]
Powers == [k \in 0 .. 4 |-> 2^k]
=============================================================================
