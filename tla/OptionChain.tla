---------------------------- MODULE OptionChain ----------------------------
(***************************************************************************)
(* chain.Chain: the window of option contracts around the money of the     *)
(* current weekly expiry, moved by Reconcile as spot drifts and weeklies   *)
(* expire, filled with quotes by Update and read by Quote.  Every method   *)
(* holds the mutex from its first access to its last, so each is one step. *)
(*                                                                         *)
(* Prices are counted in quarters of a strike step, so that the sticky     *)
(* band, 0.75 of a step, is a whole number.                                *)
(***************************************************************************)
EXTENDS Integers, FiniteSets

CONSTANTS
  N,         \* strikes kept on each side of the center
  Expiry,    \* days on which a weekly expires
  Typ,       \* CALL and PUT
  Listed,    \* the option rows of the scrip master: [expiry, typ, strike]
  Spot,      \* future closes
  LastDay,   \* bound: days
  None

Step == 4
Band == 3

ASSUME NAssumption == N \in Nat
ASSUME ExpiryAssumption == Expiry \subseteq Nat
ASSUME LastDayAssumption == LastDay \in Nat
ASSUME SpotAssumption == Spot \subseteq Nat
ASSUME ListedAssumption == Listed \subseteq [expiry : Expiry, typ : Typ, strike : Nat]
ASSUME NoneAssumption == None \notin Int /\ None \notin Listed

VARIABLES
  day,         \* the day of the bar that is being reconciled
  expiry,      \* of the window, None until there is one
  center,      \* haveCenter is center # None
  window,      \* byToken: a contract is its own token
  byKey,       \* (typ, strike) -> token
  quotes,      \* the tokens the quote map has an entry for
  lastSpot,    \* history: the spot last reconciled
  centeredAt   \* history: the spot the window was last moved for

chainVars == <<expiry, center, window, byKey, quotes, lastSpot, centeredAt>>
vars == <<day, chainVars>>

Abs(x) == IF x < 0 THEN -x ELSE x

\* math.Round(spot / step) * step for a spot that is not negative.
RoundStep(spot) == Step * ((spot + 2) \div Step)

\* The scrip master's expiry is midnight UTC of its day, and a bar's time, between 09:15
\* and 15:30 IST, is later than the midnight UTC of its own day.
Instant(e) == 2 * e
AsOf == 2 * day + 1

Unexpired == {e \in Expiry : ~(Instant(e) < AsOf)}
IsNearest(e) == e \in Unexpired /\ \A f \in Unexpired : e <= f

Strikes(atm) == {atm + i * Step : i \in (-N)..N}
\* mutant: the contracts FindOption does not find are not skipped
DesiredUnlisted(exp, atm) == [expiry : {exp}, typ : Typ, strike : Strikes(atm)]
Desired(exp, atm) == {t \in Listed : t.expiry = exp /\ t.strike \in Strikes(atm)}

KeyOf(t) == <<t.typ, t.strike>>
KeysOf(tokens) == {KeyOf(t) : t \in tokens}
KeyMap(tokens) == [k \in KeysOf(tokens) |-> CHOOSE t \in tokens : KeyOf(t) = k]

Init ==
  /\ day = 0
  /\ expiry = None /\ center = None /\ window = {} /\ quotes = {}
  /\ byKey = KeyMap({})
  /\ lastSpot = None /\ centeredAt = None

\* mutants: the band is wider than N strikes, or there is none
BandTooWide(spot) == Abs(spot - center) > Step + Band
NoBand(spot) == Abs(spot - center) > 1
OutsideBand(spot) == Abs(spot - center) > Band

Moves(spot, exp) == center = None \/ exp # expiry \/ OutsideBand(spot)

\* mutant: quotes of contracts that leave are kept
QuotesStay(desired) == quotes
QuotesLeft(desired) == quotes \ (window \ desired)

\* The early return of Reconcile, and its commit of a new window.
Stays(spot, exp) ==
  /\ lastSpot' = spot
  /\ UNCHANGED <<expiry, center, window, byKey, quotes, centeredAt>>

\* mutant: the lookup by type and strike keeps the keys of the window before
RecentersKeepingKeys(spot, exp) ==
  /\ LET desired == Desired(exp, RoundStep(spot))
     IN  /\ window' = desired
         /\ byKey' = [k \in DOMAIN byKey \cup KeysOf(desired) |->
                        IF k \in DOMAIN byKey THEN byKey[k] ELSE KeyMap(desired)[k]]
         /\ quotes' = QuotesLeft(desired)
  /\ expiry' = exp /\ center' = RoundStep(spot)
  /\ lastSpot' = spot /\ centeredAt' = spot
Recenters(spot, exp) ==
  /\ LET desired == Desired(exp, RoundStep(spot))
     IN  /\ window' = desired
         /\ byKey' = KeyMap(desired)
         /\ quotes' = QuotesLeft(desired)
  /\ expiry' = exp /\ center' = RoundStep(spot)
  /\ lastSpot' = spot /\ centeredAt' = spot

Reconcile(spot) ==
  \E exp \in Expiry :
    /\ IsNearest(exp)
    /\ IF Moves(spot, exp) THEN Recenters(spot, exp) ELSE Stays(spot, exp)

\* Every listed weekly has expired: Reconcile returns an error.
ReconcileFails == Unexpired = {} /\ UNCHANGED chainVars

\* An option tick of a contract in the window; of any other, Update returns false.
Update(t) ==
  IF t \in window
    THEN quotes' = quotes \cup {t} /\ UNCHANGED <<expiry, center, window, byKey, lastSpot, centeredAt>>
    ELSE UNCHANGED chainVars

Tomorrow == day < LastDay /\ day' = day + 1 /\ UNCHANGED chainVars

Next ==
  \/ \E spot \in Spot : Reconcile(spot) /\ UNCHANGED day
  \/ \E t \in Listed : Update(t) /\ UNCHANGED day
  \/ Tomorrow
  \/ ReconcileFails /\ UNCHANGED day

Spec == Init /\ [][Next]_vars

-----------------------------------------------------------------------------
(* Properties                                                               *)

\* Every variable has its type.
TypeOK ==
  /\ day \in 0..LastDay
  /\ expiry \in Expiry \cup {None} /\ center \in Nat \cup {None}
  /\ window \subseteq Listed /\ quotes \subseteq Listed
  /\ DOMAIN byKey \subseteq Typ \X Nat
  /\ lastSpot \in Spot \cup {None} /\ centeredAt \in Spot \cup {None}

\* The lookup by type and strike and the map by token show the same window: a price is
\* never that of another strike, or of a weekly the window has rolled away from.
KeysMatchWindow ==
  /\ DOMAIN byKey = KeysOf(window)
  /\ \A k \in DOMAIN byKey :
       byKey[k] \in window /\ KeyOf(byKey[k]) = k /\ byKey[k].expiry = expiry

\* A contract that has left the window keeps no quote, which would be an old one when
\* the contract comes back.
QuotesInWindow == quotes \subseteq window

\* Whatever the spots have been, the window has the at-the-money contracts of the last
\* spot reconciled, although it has not followed every move of it.
ATMCovered ==
  lastSpot # None =>
    \A t \in Listed : t.expiry = expiry /\ t.strike = RoundStep(lastSpot) => t \in window

\* "spot oscillating on a strike edge won't thrash sub/unsub": after the window has been
\* moved, only a spot more than a quarter of a step away moves it again, or a new weekly.
NoThrash ==
  [][center # None /\ expiry' = expiry /\ centeredAt' # centeredAt
       => Abs(centeredAt' - centeredAt) > 1]_vars

-----------------------------------------------------------------------------
(* The inductive invariant.                                                 *)

\* The window is the one its center and its expiry call for.
WindowInv ==
  /\ center = None => window = {} /\ expiry = None /\ lastSpot = None /\ centeredAt = None
  /\ center # None =>
       /\ expiry # None /\ lastSpot # None /\ centeredAt # None
       /\ center = RoundStep(centeredAt) /\ window = Desired(expiry, center)
  /\ byKey = KeyMap(window)

\* The last spot reconciled is in the sticky band around the center.
BandInv == lastSpot # None => Abs(lastSpot - center) <= Band

IInv == TypeOK /\ WindowInv /\ BandInv /\ QuotesInWindow

-----------------------------------------------------------------------------
(* What the comments say and the code does not do                           *)

\* instruments.go: NearestOptionExpiry is "the earliest underlying OPTIDX expiry on or
\* after asOf": a window built on the day a weekly expires is that weekly's.
ExpiryDayIsServed ==
  [][expiry' # expiry /\ day \in Expiry => expiry' = day]_vars
=============================================================================
