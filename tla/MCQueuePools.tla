---------------------------- MODULE MCQueuePools ----------------------------
(***************************************************************************)
(* QueuePools with two threads and three tasks: "a" and "r" come from      *)
(* outside the pool, "b" is submitted by the body of "a", which waits for  *)
(* it; "b" throws.                                                         *)
(***************************************************************************)
EXTENDS QueuePools

NestedB == [t \in Task |-> IF t = "b" THEN "a" ELSE NoTask]
=============================================================================
