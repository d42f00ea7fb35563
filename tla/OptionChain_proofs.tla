------------------------- MODULE OptionChain_proofs -------------------------
(* The window of the option chain, for every scrip master, every walk of the  *)
(* spot and any number of days.                                               *)
EXTENDS OptionChain, TLAPS

\* Rounding to a strike moves a spot by at most half a step, and gives a multiple of it.
LEMMA RoundStepNear ==
  ASSUME NEW s \in Nat
  PROVE  /\ RoundStep(s) \in Nat /\ Abs(s - RoundStep(s)) <= 2
         /\ \E k \in Nat : RoundStep(s) = 4 * k
  BY DEF RoundStep, Step, Abs

\* A spot in the sticky band of a center is at the money of the center or next to it.
LEMMA BandRounds ==
  ASSUME NEW s \in Nat, NEW c \in Nat, NEW k \in Nat, c = 4 * k, Abs(s - c) <= Band
  PROVE  \E i \in {-1, 0, 1} : RoundStep(s) = c + i * 4
<1>1. s - c <= 3 /\ c - s <= 3
  BY DEF Abs, Band
<1>2. RoundStep(s) = 4 * ((s + 2) \div 4)
  BY DEF RoundStep, Step
<1>3. (s + 2) \div 4 \in {k - 1, k, k + 1}
  BY <1>1
<1> QED BY <1>2, <1>3

\* A lookup is by the type and strike of the contract it finds.
LEMMA KeyMapFinds ==
  ASSUME NEW tokens
  PROVE  /\ DOMAIN KeyMap(tokens) = KeysOf(tokens)
         /\ \A k \in KeysOf(tokens) :
              KeyMap(tokens)[k] \in tokens /\ KeyOf(KeyMap(tokens)[k]) = k
<1>1. DOMAIN KeyMap(tokens) = KeysOf(tokens)
  BY DEF KeyMap
<1>2. ASSUME NEW k \in KeysOf(tokens)
      PROVE  KeyMap(tokens)[k] \in tokens /\ KeyOf(KeyMap(tokens)[k]) = k
  <2>1. KeyMap(tokens)[k] = CHOOSE t \in tokens : KeyOf(t) = k
    BY <1>2 DEF KeyMap
  <2>2. \E t \in tokens : KeyOf(t) = k
    BY <1>2 DEF KeysOf
  <2> QED BY <2>1, <2>2
<1> QED BY <1>1, <1>2

\* A key is a type and a strike.
LEMMA KeysTyped == \A tokens \in SUBSET Listed : KeysOf(tokens) \subseteq Typ \X Nat
  BY ListedAssumption DEF KeysOf, KeyOf

\* The inductive invariant holds at the start.
LEMMA InitIInv == Init => IInv
<1> SUFFICES ASSUME Init PROVE IInv
  OBVIOUS
<1>1. DOMAIN byKey \subseteq Typ \X Nat
  BY KeyMapFinds, KeysTyped DEF Init
<1> QED BY <1>1, LastDayAssumption DEF Init, IInv, TypeOK, WindowInv, BandInv, QuotesInWindow

\* A reconciled bar keeps it.
LEMMA ReconcileIInv ==
  ASSUME IInv, NEW spot \in Spot, Reconcile(spot), UNCHANGED day
  PROVE  IInv'
<1>1. PICK exp \in Expiry :
        IF Moves(spot, exp) THEN Recenters(spot, exp) ELSE Stays(spot, exp)
  BY DEF Reconcile
<1>2. spot \in Nat /\ exp \in Nat /\ spot # None /\ exp # None
  BY SpotAssumption, ExpiryAssumption, NoneAssumption
<1>3. CASE Moves(spot, exp)
  <2>1. Recenters(spot, exp)
    BY <1>1, <1>3
  <2> DEFINE atm == RoundStep(spot)
  <2>2. atm \in Nat /\ atm # None /\ Abs(spot - atm) <= Band
    <3>1. atm \in Nat /\ Abs(spot - atm) <= 2
      BY <1>2, RoundStepNear
    <3>2. Abs(spot - atm) <= Band
      BY <1>2, <3>1 DEF Abs, Band
    <3> QED BY <3>1, <3>2, NoneAssumption
  <2>3. window' = Desired(exp, atm) /\ byKey' = KeyMap(window') /\ quotes' = QuotesLeft(window')
    BY <2>1 DEF Recenters
  <2>4. center' = atm /\ expiry' = exp /\ lastSpot' = spot /\ centeredAt' = spot
    BY <2>1 DEF Recenters
  <2>5. window' \subseteq Listed
    BY <2>3 DEF Desired
  <2>6. quotes' \subseteq window'
    BY <2>3 DEF QuotesLeft, IInv, QuotesInWindow
  <2>7. DOMAIN byKey' \subseteq Typ \X Nat
    BY <2>3, <2>5, KeyMapFinds, KeysTyped
  <2>8. TypeOK'
    BY <2>2, <2>4, <2>5, <2>6, <2>7 DEF IInv, TypeOK
  <2>9. WindowInv'
    BY <1>2, <2>2, <2>3, <2>4 DEF WindowInv
  <2> QED BY <2>2, <2>4, <2>6, <2>8, <2>9 DEF IInv, BandInv, QuotesInWindow
<1>4. CASE ~Moves(spot, exp)
  <2>1. Stays(spot, exp)
    BY <1>1, <1>4
  <2>2. center # None /\ Abs(spot - center) <= Band
    <3>1. center # None /\ center \in Nat /\ ~(Abs(spot - center) > Band)
      BY <1>4 DEF Moves, OutsideBand, IInv, TypeOK
    <3> QED BY <1>2, <3>1 DEF Abs, Band
  <2> QED BY <1>2, <2>1, <2>2
          DEF Stays, IInv, TypeOK, WindowInv, BandInv, QuotesInWindow, KeyMap, KeysOf
<1> QED BY <1>3, <1>4

\* Every step keeps the inductive invariant.
LEMMA NextIInv == IInv /\ [Next]_vars => IInv'
<1> SUFFICES ASSUME IInv, [Next]_vars PROVE IInv'
  OBVIOUS
<1> USE DEF IInv, TypeOK, WindowInv, BandInv, QuotesInWindow
<1>1. ASSUME NEW spot \in Spot, Reconcile(spot), UNCHANGED day PROVE IInv'
  BY <1>1, ReconcileIInv
<1>2. ASSUME NEW t \in Listed, Update(t), UNCHANGED day PROVE IInv'
  <2>1. CASE t \in window
    BY <1>2, <2>1 DEF Update, KeyMap, KeysOf
  <2>2. CASE t \notin window
    BY <1>2, <2>2 DEF Update, chainVars, KeyMap, KeysOf
  <2> QED BY <2>1, <2>2
<1>3. CASE Tomorrow
  <2>1. day' \in 0..LastDay
    BY <1>3, LastDayAssumption DEF Tomorrow
  <2> QED BY <1>3, <2>1 DEF Tomorrow, chainVars, KeyMap, KeysOf
<1>4. CASE ReconcileFails /\ UNCHANGED day
  BY <1>4 DEF ReconcileFails, chainVars, KeyMap, KeysOf
<1>5. CASE UNCHANGED vars
  BY <1>5 DEF vars, chainVars, KeyMap, KeysOf
<1> QED BY <1>1, <1>2, <1>3, <1>4, <1>5 DEF Next

\* The inductive invariant is an invariant.
THEOREM Invariance == Spec => []IInv
<1> QED BY InitIInv, NextIInv, PTL DEF Spec

\* The types: what the window holds, and has quotes of, is listed.
THEOREM TypeCorrect == Spec => []TypeOK
  BY Invariance, PTL DEF IInv

\* A contract that has left the window has no quote left to come back to.
THEOREM NoQuoteIsStale == Spec => []QuotesInWindow
  BY Invariance, PTL DEF IInv

\* A price read from the chain is the one of the type, strike and weekly asked for.
THEOREM LookupIsCurrent == Spec => []KeysMatchWindow
<1>1. IInv => KeysMatchWindow
  <2> SUFFICES ASSUME IInv PROVE KeysMatchWindow
    OBVIOUS
  <2>1. byKey = KeyMap(window)
    BY DEF IInv, WindowInv
  <2>2. \A t \in window : t.expiry = expiry
    BY DEF IInv, WindowInv, Desired
  <2> QED BY <2>1, <2>2, KeyMapFinds DEF KeysMatchWindow
<1> QED BY <1>1, Invariance, PTL

\* A last spot in the sticky band of the center leaves its at-the-money contracts in the
\* window, if that has at least one strike on each side.
LEMMA BandIsCovered ==
  ASSUME N >= 1, IInv
  PROVE  ATMCovered
<1> SUFFICES ASSUME lastSpot # None, NEW t \in Listed, t.expiry = expiry,
                    t.strike = RoundStep(lastSpot)
             PROVE t \in window
  BY DEF ATMCovered
<1>1. center # None /\ centeredAt \in Nat /\ lastSpot \in Nat /\ window = Desired(expiry, center)
  BY SpotAssumption DEF IInv, TypeOK, WindowInv
<1>2. PICK k \in Nat : center = 4 * k
  BY <1>1, RoundStepNear DEF IInv, WindowInv
<1>3. center \in Nat /\ Abs(lastSpot - center) <= Band
  BY <1>1 DEF IInv, TypeOK, BandInv
<1>4. PICK i \in {-1, 0, 1} : RoundStep(lastSpot) = center + i * 4
  BY <1>1, <1>2, <1>3, BandRounds
<1>5. i \in (-N)..N
  BY <1>4, NAssumption
<1> QED BY <1>1, <1>4, <1>5 DEF Desired, Strikes, Step

\* With at least one strike kept on each side, the sticky band never leaves the at-the-money
\* contracts of the last bar out of the window.
THEOREM AtTheMoneyIsCovered ==
  ASSUME N >= 1
  PROVE  Spec => []ATMCovered
<1>1. IInv => ATMCovered
  BY BandIsCovered
<1> QED BY <1>1, Invariance, PTL

\* Spot going back and forth over the edge between two strikes does not move the window.
THEOREM WindowDoesNotThrash == Spec => NoThrash
<1> DEFINE Calm == center # None /\ expiry' = expiry /\ centeredAt' # centeredAt
                     => Abs(centeredAt' - centeredAt) > 1
<1>1. IInv /\ [Next]_vars => [Calm]_vars
  <2> SUFFICES ASSUME IInv, Next, center # None, expiry' = expiry, centeredAt' # centeredAt
               PROVE  Abs(centeredAt' - centeredAt) > 1
    OBVIOUS
  <2>1. PICK spot \in Spot : Reconcile(spot)
    BY DEF Next, Update, Tomorrow, ReconcileFails, chainVars
  <2>2. PICK exp \in Expiry :
          IF Moves(spot, exp) THEN Recenters(spot, exp) ELSE Stays(spot, exp)
    BY <2>1 DEF Reconcile
  <2>3. Moves(spot, exp) /\ Recenters(spot, exp)
    BY <2>2 DEF Stays
  <2>4. centeredAt' = spot /\ exp = expiry
    BY <2>3 DEF Recenters
  <2>5. Abs(spot - center) > Band
    BY <2>3, <2>4 DEF Moves, OutsideBand
  <2>6. spot \in Nat /\ centeredAt \in Nat /\ center = RoundStep(centeredAt)
    BY SpotAssumption DEF IInv, TypeOK, WindowInv
  <2>7. center \in Nat /\ Abs(centeredAt - center) <= 2
    BY <2>6, RoundStepNear
  <2> QED BY <2>4, <2>5, <2>6, <2>7 DEF Abs, Band
<1> QED BY <1>1, Invariance, PTL DEF Spec, NoThrash
=============================================================================
