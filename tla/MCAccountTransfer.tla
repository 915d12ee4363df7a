-------------------------- MODULE MCAccountTransfer --------------------------
(***************************************************************************)
(* Four transfers between the accounts 101 and 102, in any overlap.  "pay" *)
(* moves 7 of the 10 on its account, and is refused when another transfer  *)
(* was faster; "lost" has an unknown target and "ghost" an unknown source; *)
(* "back" has a negative amount, so that its credit is the leg that can be *)
(* refused; 102 starts empty, so that a lost update leaves it too little   *)
(* for the refund of "back" and that is refused as well.  Ints end at 15,  *)
(* so that the refund of "lost" overflows after the undue one of "pay".    *)
(***************************************************************************)
EXTENDS AccountTransfer

FromOf == [x \in Transfer |->
  CASE x = "ghost" -> 999 [] x = "back" -> 102 [] OTHER -> 101]
ToOf == [x \in Transfer |->
  CASE x = "lost" -> 999 [] x = "back" -> 101 [] OTHER -> 102]
AmountOf == [x \in Transfer |->
  CASE x = "pay" -> 7 [] x = "back" -> -8 [] OTHER -> 4]
OpeningOf == [a \in {101, 102} |-> IF a = 101 THEN 10 ELSE 0]
=============================================================================
