----------------------------- MODULE MCPipeline -----------------------------
(* Pipeline over one weekly of three calls and two spots whose windows share  *)
(* the middle one.                                                            *)
EXTENDS Pipeline

CONSTANT CALL

CallOnly == {CALL}
OneWeekly == {1}
CallsListed == [expiry : OneWeekly, typ : CallOnly, strike : {8, 12, 16}]
FarSpots == {8, 16}
=============================================================================
