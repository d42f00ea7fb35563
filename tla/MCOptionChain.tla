---------------------------- MODULE MCOptionChain ----------------------------
(* OptionChain with two weeklies: calls at five strikes, one of which the       *)
(* second weekly does not list, and puts at the middle one only.                *)
EXTENDS OptionChain

CONSTANTS CALL, PUT

BothTypes == {CALL, PUT}
Weeklies == {1, 3}
Missing == [expiry |-> 3, typ |-> CALL, strike |-> 12]
OptionsListed ==
  ([expiry : Weeklies, typ : {CALL}, strike : {4 * k : k \in 1..5}] \ {Missing})
  \cup [expiry : Weeklies, typ : {PUT}, strike : {12}]
SomeSpots == 6..18
=============================================================================
