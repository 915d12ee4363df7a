------------------------- MODULE MCWorkStealingPool -------------------------
(***************************************************************************)
(* WorkStealingPool with two threads and three tasks: "a" and "r" come     *)
(* from outside the pool, "b" is submitted by the body of "a".             *)
(***************************************************************************)
EXTENDS WorkStealingPool

NestedB == [t \in Task |-> IF t = "b" THEN "a" ELSE NoTask]
=============================================================================
