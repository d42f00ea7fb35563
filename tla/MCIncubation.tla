---------------------------- MODULE MCIncubation ----------------------------
(* Incubation over two days, a pinned build and two that are linked against *)
(* a local replace and share its label, and a front month that expires on the *)
(* second day and has a lot size, while the next one has none.                *)
EXTENDS Incubation, TLC

CONSTANTS ORB, Release, DevA, DevB, Near, Far

MCBuild == {Release, DevA, DevB}
MCVersion == [b \in MCBuild |-> IF b = Release THEN "v1.2.0" ELSE "local-replace"]
MCParams == [b \in MCBuild |-> "locked"]
MCFuture == {Near, Far}
MCExpiryDay == [f \in MCFuture |-> IF f = Near THEN 1 ELSE 9]
MCLotSize == [f \in MCFuture |-> IF f = Near THEN 75 ELSE 0]
MCLotFlag == {0, 65}

\* The two development builds differ in nothing the model looks at.
DevBuilds == Permutations({DevA, DevB})
=============================================================================
