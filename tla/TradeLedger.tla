---------------------------- MODULE TradeLedger ----------------------------
(***************************************************************************)
(* What the durable record of a session promises: each runner makes at     *)
(* most one trade a day, which opens once at one price and closes once at  *)
(* one price, and neither price ever changes afterwards.  A crash that     *)
(* falls inside the bar of a fill, or a write for it that fails, voids the *)
(* promise for that trade and for no other.                                *)
(***************************************************************************)
EXTENDS Naturals

CONSTANTS Runner, Fill

VARIABLE ledger

Trade == [status : {"none", "open", "closed", "void"}, entry : Fill \cup {0}, exit : Fill \cup {0}]
NoTrade == [status |-> "none", entry |-> 0, exit |-> 0]

Init == ledger = [r \in Runner |-> NoTrade]

Open(r) ==
  /\ ledger[r] = NoTrade
  /\ \E p \in Fill \cup {0} :
       ledger' = [ledger EXCEPT ![r] = [status |-> "open", entry |-> p, exit |-> 0]]

Close(r) ==
  /\ ledger[r].status = "open"
  /\ \E p \in Fill \cup {0} :
       ledger' = [ledger EXCEPT ![r] = [status |-> "closed", entry |-> ledger[r].entry, exit |-> p]]

\* One crash may hit the bar of several runners' fills; a failed write has one owner.
Void(R) ==
  ledger' = [r \in Runner |-> IF r \in R THEN [NoTrade EXCEPT !.status = "void"] ELSE ledger[r]]

Next ==
  \/ \E r \in Runner : Open(r) \/ Close(r)
  \/ \E R \in (SUBSET Runner) \ {{}} : Void(R)

Spec == Init /\ [][Next]_ledger
=============================================================================
