--------------------------- MODULE Pipeline_proofs ---------------------------
(* The pipeline, for every scrip master, every capacity of its four channels   *)
(* and any number of bars.                                                     *)
EXTENDS Pipeline, TLAPS

\* What is proved of the chain alone, on one day.
ChainProof == INSTANCE OptionChain_proofs WITH day <- 0, LastDay <- 0

-----------------------------------------------------------------------------
(* Channels                                                                 *)

\* What a receive leaves in a channel: the rest, each one place further on.
LEMMA Received ==
  ASSUME NEW S, NEW q \in Seq(S), q # <<>>
  PROVE  /\ 1 \in DOMAIN q /\ Head(q) = q[1] /\ Head(q) \in S
         /\ Tail(q) \in Seq(S) /\ Len(Tail(q)) = Len(q) - 1 /\ Len(q) \in Nat
         /\ \A i \in DOMAIN Tail(q) : i + 1 \in DOMAIN q /\ Tail(q)[i] = q[i + 1]
  OBVIOUS

\* What a send leaves in a channel: the same, and the message at its end.
LEMMA Sent ==
  ASSUME NEW S, NEW q \in Seq(S), NEW m \in S
  PROVE  /\ Append(q, m) \in Seq(S) /\ Len(Append(q, m)) = Len(q) + 1 /\ Len(q) \in Nat
         /\ \A i \in DOMAIN Append(q, m) :
              \/ i \in DOMAIN q /\ Append(q, m)[i] = q[i]
              \/ i = Len(q) + 1 /\ Append(q, m)[i] = m
  OBVIOUS

\* The numbers of bars in a channel.
LEMMA NumbersTyped ==
  ASSUME NEW q \in Seq(BarRecord)
  PROVE  \A i \in DOMAIN q : q[i] \in BarRecord /\ q[i].n \in Nat
<1>1. \A i \in DOMAIN q : q[i] \in BarRecord OBVIOUS
<1>2. \A b \in BarRecord : b.n \in Nat BY MaxBarsAssumption DEF BarRecord
<1> QED BY <1>1, <1>2

\* The goroutine that has the last bar in hand sends it.
LEMMA SendKeeps ==
  ASSUME NEW lo \in Nat, NEW q \in Seq(BarRecord), NEW b \in BarRecord,
         InOrder(lo, q, b.n, TRUE)
  PROVE  /\ InOrder(lo, Append(q, b), b.n, FALSE)
         /\ Complete(lo, q, b.n, TRUE) => Complete(lo, Append(q, b), b.n, FALSE)
<1>1. /\ \A i \in DOMAIN q : q[i].n \in Nat /\ lo < q[i].n /\ q[i].n < b.n
      /\ b.n \in Nat /\ lo < b.n /\ Len(q) \in Nat
  <2>1. b.n \in Nat BY MaxBarsAssumption DEF BarRecord
  <2>2. \A i \in DOMAIN q : q[i].n \in Nat BY NumbersTyped
  <2> QED BY <2>1, <2>2 DEF InOrder
<1>2. \A i \in DOMAIN Append(q, b) :
        \/ i \in DOMAIN q /\ Append(q, b)[i] = q[i]
        \/ i = Len(q) + 1 /\ Append(q, b)[i] = b
  BY Sent
<1>3. Len(Append(q, b)) = Len(q) + 1 BY Sent
<1>4. \A i \in DOMAIN q : i \in Nat /\ i <= Len(q) OBVIOUS
<1> DEFINE w == Append(q, b)
<1> HIDE DEF w
<1>5. \A i \in DOMAIN w : lo < w[i].n /\ w[i].n <= b.n BY <1>1, <1>2 DEF w
<1>6. ASSUME NEW i \in DOMAIN w, NEW j \in DOMAIN w, i < j PROVE w[i].n < w[j].n
  <2>1. i \in DOMAIN q /\ w[i] = q[i] BY <1>1, <1>2, <1>4, <1>6 DEF w
  <2>2. CASE j \in DOMAIN q /\ w[j] = q[j] BY <1>6, <2>1, <2>2 DEF InOrder
  <2>3. CASE w[j] = b BY <1>1, <2>1, <2>3
  <2> QED BY <1>2, <2>2, <2>3 DEF w
<1>7. ASSUME Complete(lo, q, b.n, TRUE) PROVE Complete(lo, w, b.n, FALSE)
  <2>1. b.n = lo + Len(q) + 1 /\ \A i \in DOMAIN q : q[i].n = lo + i BY <1>7 DEF Complete
  <2>2. b.n = lo + Len(w) BY <1>1, <1>3, <2>1 DEF w
  <2>3. ASSUME NEW i \in DOMAIN w PROVE w[i].n = lo + i
    <3>1. CASE i \in DOMAIN q /\ w[i] = q[i] BY <2>1, <3>1
    <3>2. CASE i = Len(q) + 1 /\ w[i] = b BY <1>1, <2>1, <3>2
    <3> QED BY <1>2, <3>1, <3>2 DEF w
  <2> QED BY <2>2, <2>3 DEF Complete
<1> QED BY <1>1, <1>5, <1>6, <1>7 DEF InOrder, w

\* The goroutine at the channel's other end takes the first bar.
LEMMA ReceiveKeeps ==
  ASSUME NEW lo \in Nat, NEW hi \in Nat, NEW q \in Seq(BarRecord), q # <<>>,
         NEW inHand \in BOOLEAN, InOrder(lo, q, hi, inHand)
  PROVE  /\ Head(q).n \in Nat /\ lo < Head(q).n /\ Head(q).n <= hi
         /\ InOrder(Head(q).n, Tail(q), hi, inHand)
         /\ Complete(lo, q, hi, inHand) =>
              Head(q).n = lo + 1 /\ Complete(Head(q).n, Tail(q), hi, inHand)
<1> DEFINE h == Head(q).n
           w == Tail(q)
<1>1. /\ 1 \in DOMAIN q /\ h = q[1].n /\ Len(w) = Len(q) - 1 /\ Len(q) \in Nat
      /\ \A i \in DOMAIN w : i \in Nat /\ i >= 1 /\ i + 1 \in DOMAIN q /\ w[i] = q[i + 1]
  BY Received
<1> HIDE DEF h, w
<1>2. \A i \in DOMAIN q : q[i].n \in Nat BY NumbersTyped
<1>3. h \in Nat /\ lo < h /\ h <= hi BY <1>1, <1>2 DEF InOrder
<1>4. \A i \in DOMAIN w : h < w[i].n /\ w[i].n <= hi
  <2> SUFFICES ASSUME NEW i \in DOMAIN w PROVE h < w[i].n /\ w[i].n <= hi
    OBVIOUS
  <2>1. 1 < i + 1 /\ i + 1 \in DOMAIN q /\ w[i] = q[i + 1] BY <1>1
  <2> QED BY <1>1, <2>1 DEF InOrder
<1>5. \A i, j \in DOMAIN w : i < j => w[i].n < w[j].n
  <2> SUFFICES ASSUME NEW i \in DOMAIN w, NEW j \in DOMAIN w, i < j PROVE w[i].n < w[j].n
    OBVIOUS
  <2>1. i + 1 < j + 1 /\ i + 1 \in DOMAIN q /\ j + 1 \in DOMAIN q BY <1>1
  <2> QED BY <1>1, <2>1 DEF InOrder
<1>6. inHand => h < hi /\ \A i \in DOMAIN w : w[i].n < hi BY <1>1 DEF InOrder
<1>7. InOrder(h, w, hi, inHand) BY <1>3, <1>4, <1>5, <1>6 DEF InOrder
<1>8. ASSUME Complete(lo, q, hi, inHand) PROVE h = lo + 1 /\ Complete(h, w, hi, inHand)
  <2>1. h = lo + 1 BY <1>1, <1>8 DEF Complete
  <2>2. \A i \in DOMAIN w : w[i].n = h + i
    <3> SUFFICES ASSUME NEW i \in DOMAIN w PROVE w[i].n = h + i
      OBVIOUS
    <3>1. i \in Nat /\ w[i].n = lo + (i + 1) BY <1>1, <1>8 DEF Complete
    <3> QED BY <2>1, <3>1
  <2>3. hi = h + Len(w) + (IF inHand THEN 1 ELSE 0) BY <1>1, <1>8, <2>1 DEF Complete
  <2> QED BY <2>1, <2>2, <2>3 DEF Complete
<1> QED BY <1>3, <1>7, <1>8 DEF h, w

\* The goroutine at the channel's head has passed its bar on and takes a later one in hand.
LEMMA NextInHand ==
  ASSUME NEW lo \in Nat, NEW hi \in Nat, NEW later \in Nat, hi < later,
         NEW q \in Seq(BarRecord), InOrder(lo, q, hi, FALSE)
  PROVE  /\ InOrder(lo, q, later, TRUE)
         /\ later = hi + 1 /\ Complete(lo, q, hi, FALSE) => Complete(lo, q, later, TRUE)
<1>1. \A i \in DOMAIN q : q[i].n \in Nat /\ q[i].n <= hi BY NumbersTyped DEF InOrder
<1>2. InOrder(lo, q, later, TRUE) BY <1>1 DEF InOrder
<1>3. later = hi + 1 /\ Complete(lo, q, hi, FALSE) => Complete(lo, q, later, TRUE)
  BY DEF Complete
<1> QED BY <1>2, <1>3

\* It gives its bar up.
LEMMA GivesUp ==
  ASSUME NEW lo, NEW q, NEW hi, InOrder(lo, q, hi, TRUE)
  PROVE  InOrder(lo, q, hi, FALSE)
  BY DEF InOrder

-----------------------------------------------------------------------------
(* The chain in the pipeline is the chain on its own                        *)

\* The definitions are the same ones.
LEMMA ChainIInvSame == Chain!IInv <=> ChainProof!IInv
  BY DEF Chain!IInv, Chain!TypeOK, Chain!WindowInv, Chain!BandInv, Chain!QuotesInWindow,
         Chain!RoundStep, Chain!Desired, Chain!KeyMap, Chain!KeysOf, Chain!KeyOf,
         Chain!Strikes, Chain!Step, Chain!Band, Chain!Abs,
         ChainProof!IInv, ChainProof!TypeOK, ChainProof!WindowInv, ChainProof!BandInv,
         ChainProof!QuotesInWindow, ChainProof!RoundStep, ChainProof!Desired,
         ChainProof!KeyMap, ChainProof!KeysOf, ChainProof!KeyOf, ChainProof!Strikes,
         ChainProof!Step, ChainProof!Band, ChainProof!Abs

LEMMA ChainInitSame == Chain!Init <=> ChainProof!Init
  BY DEF Chain!Init, Chain!KeyMap, Chain!KeysOf, Chain!KeyOf,
         ChainProof!Init, ChainProof!KeyMap, ChainProof!KeysOf, ChainProof!KeyOf

LEMMA ReconcileSame == \A spot : Chain!Reconcile(spot) <=> ChainProof!Reconcile(spot)
  BY DEF Chain!Reconcile, Chain!IsNearest, Chain!Unexpired, Chain!Instant, Chain!AsOf,
         Chain!Moves, Chain!OutsideBand, Chain!Recenters, Chain!Stays, Chain!QuotesLeft,
         Chain!RoundStep, Chain!Desired, Chain!KeyMap, Chain!KeysOf, Chain!KeyOf,
         Chain!Strikes, Chain!Step, Chain!Band, Chain!Abs,
         ChainProof!Reconcile, ChainProof!IsNearest, ChainProof!Unexpired,
         ChainProof!Instant, ChainProof!AsOf, ChainProof!Moves, ChainProof!OutsideBand,
         ChainProof!Recenters, ChainProof!Stays, ChainProof!QuotesLeft,
         ChainProof!RoundStep, ChainProof!Desired, ChainProof!KeyMap, ChainProof!KeysOf,
         ChainProof!KeyOf, ChainProof!Strikes, ChainProof!Step, ChainProof!Band,
         ChainProof!Abs

LEMMA UpdateSame == \A t : Chain!Update(t) <=> ChainProof!Update(t)
  BY DEF Chain!Update, Chain!chainVars, ChainProof!Update, ChainProof!chainVars

LEMMA ChainStepSame == [Chain!Next]_(Chain!vars) => [ChainProof!Next]_(ChainProof!vars)
<1>1. Chain!ReconcileFails <=> ChainProof!ReconcileFails
  BY DEF Chain!ReconcileFails, Chain!Unexpired, Chain!Instant, Chain!AsOf, Chain!chainVars,
         ChainProof!ReconcileFails, ChainProof!Unexpired, ChainProof!Instant,
         ChainProof!AsOf, ChainProof!chainVars
<1>2. Chain!Tomorrow <=> ChainProof!Tomorrow
  BY DEF Chain!Tomorrow, Chain!chainVars, ChainProof!Tomorrow, ChainProof!chainVars
<1>3. UNCHANGED Chain!vars <=> UNCHANGED ChainProof!vars
  BY DEF Chain!vars, Chain!chainVars, ChainProof!vars, ChainProof!chainVars
<1> QED BY <1>1, <1>2, <1>3, ReconcileSame, UpdateSame DEF Chain!Next, ChainProof!Next

\* A step of the chain keeps its inductive invariant.
LEMMA ChainKept == Chain!IInv /\ [Chain!Next]_(Chain!vars) => Chain!IInv'
<1>1. ChainProof!IInv /\ [ChainProof!Next]_(ChainProof!vars) => ChainProof!IInv'
  BY ChainAssumption, ChainProof!NextIInv
<1>2. Chain!IInv' <=> ChainProof!IInv'
  BY ChainIInvSame, PTL
<1> QED BY <1>1, <1>2, ChainIInvSame, ChainStepSame

\* Every step of the pipeline is a step of the chain, or none.
LEMMA PipelineStepsChain ==
  ASSUME TypeOK, FromManager, [Next]_vars
  PROVE  [Chain!Next]_(Chain!vars)
<1>1. CASE RouteTick
  <2>1. ticks # <<>> /\ ticks \in Seq(Listed \cup {Future}) /\ Chain!Update(Head(ticks))
    BY <1>1 DEF RouteTick, TypeOK
  <2>2. Head(ticks) \in Listed \cup {Future} BY <2>1, Received
  <2>3. CASE Head(ticks) \in Listed BY <2>1, <2>3 DEF Chain!Next
  <2>4. CASE Head(ticks) \notin window
    BY <2>1, <2>4 DEF Chain!Update, Chain!vars, Chain!chainVars
  <2>5. window \subseteq Listed BY DEF TypeOK, Chain!TypeOK
  <2> QED BY <2>2, <2>3, <2>4, <2>5
<1>2. CASE ReconcileBar
  <2>1. closed # <<>> /\ closed \in Seq(BarRecord) BY <1>2 DEF ReconcileBar, TypeOK
  <2>2. Head(closed).spot \in Spot BY <2>1, Received DEF FromManager
  <2>3. Chain!Reconcile(Head(closed).spot) \/ Chain!ReconcileFails BY <1>2 DEF ReconcileBar
  <2> QED BY <2>2, <2>3 DEF Chain!Next
<1>3. CASE UNCHANGED chainVars
  BY <1>3 DEF chainVars, Chain!vars, Chain!chainVars
<1> QED
  <2>1. RouteTick \/ ReconcileBar \/ UNCHANGED chainVars
    BY DEF Next, FeedSends, ForwardTick, RouterStops, ManagerTakesTick, TickerCloses, EmitClosed,
           AbandonClosed, ManagerStops, ModifyFeed, EmitBar, AbandonBar, ConsumerStops, TakeBar,
           Drive, MainStops, Cancel, Ended, vars
  <2> QED BY <1>1, <1>2, <1>3, <2>1

-----------------------------------------------------------------------------
(* The inductive invariant                                                  *)

\* A spot that is rounded to a strike stays a price.
LEMMA RoundStepNat == ASSUME NEW s \in Nat PROVE Chain!RoundStep(s) \in Nat
  BY DEF Chain!RoundStep, Chain!Step

\* The spots of bars are prices.
LEMMA BarsTyped == \A b \in BarRecord : b.n \in Nat /\ b.n <= MaxBars /\ b.spot \in Nat
<1>1. \A x \in Spot \cup {0} : x \in Nat BY ChainAssumption
<1> SUFFICES ASSUME NEW b \in BarRecord PROVE b.n \in Nat /\ b.n <= MaxBars /\ b.spot \in Nat
  OBVIOUS
<1>2. b.n \in 0..MaxBars /\ b.spot \in Spot \cup {0} BY DEF BarRecord
<1>3. b.spot \in Nat BY <1>1, <1>2, Zenon
<1>4. b.n \in Nat /\ b.n <= MaxBars BY <1>2, MaxBarsAssumption
<1> QED BY <1>3, <1>4

LEMMA PipelineInit == Init => IInv
<1> SUFFICES ASSUME Init PROVE IInv
  OBVIOUS
<1> USE DEF Init
<1>1. Chain!IInv
  <2>1. ChainProof!IInv BY ChainInitSame, ChainAssumption, ChainProof!InitIInv
  <2> QED BY <2>1, ChainIInvSame
<1>2. TypeOK
  <2>1. Chain!TypeOK BY <1>1 DEF Chain!IInv
  <2>2. NoBar \in BarRecord BY MaxBarsAssumption DEF NoBar, BarRecord
  <2>3. /\ TicksCap \in Nat /\ MgrCap \in Nat /\ ClosedCap \in Nat /\ BarsCap \in Nat
        /\ MaxBars \in Nat
    BY CapAssumption, MaxBarsAssumption
  <2>4. <<>> \in Seq(BarRecord) /\ <<>> \in Seq(Listed \cup {Future}) /\ Len(<<>>) = 0 OBVIOUS
  <2>5. desired \subseteq Listed /\ held \in Nat \cup {None} /\ cancelled \in BOOLEAN OBVIOUS
  <2>6. mgrTicks \in 0..MgrCap /\ reconciled \in 0..MaxBars BY <2>3
  <2>7. made \in BarRecord /\ cur \in BarRecord /\ driven \in BarRecord BY <2>2
  <2>8. /\ ticks \in Seq(Listed \cup {Future}) /\ Len(ticks) <= TicksCap
        /\ closed \in Seq(BarRecord) /\ Len(closed) <= ClosedCap
        /\ bars \in Seq(BarRecord) /\ Len(bars) <= BarsCap
    BY <2>3, <2>4
  <2> QED BY <2>1, <2>5, <2>6, <2>7, <2>8 DEF TypeOK
<1>3. FeedFollowsChain BY DEF FeedFollowsChain, Chain!Init
<1>4. FromManager /\ ToRunners
  BY DEF FromManager, ToRunners, InOrder, Complete, ManagerHolds, ConsumerHolds, NoBar
<1>5. SameBar BY DEF SameBar
<1>6. ChainFollows BY <1>1 DEF ChainFollows, Chain!Init
<1> QED BY <1>2, <1>3, <1>4, <1>5, <1>6 DEF IInv

\* Every step keeps the types.
LEMMA TypeNext == IInv /\ [Next]_vars => TypeOK'
<1> SUFFICES ASSUME IInv, [Next]_vars PROVE TypeOK'
  OBVIOUS
<1>1. Chain!TypeOK'
  <2>1. Chain!IInv' BY PipelineStepsChain, ChainKept DEF IInv, ChainFollows
  <2> QED BY <2>1 DEF Chain!IInv
<1> USE CapAssumption, MaxBarsAssumption DEF IInv, TypeOK
<1>3. ASSUME NEW t \in Listed \cup {Future}, FeedSends(t) PROVE TypeOK'
  BY <1>1, <1>3, Sent DEF FeedSends, managerVars, consumerVars, mainVars
<1>4. CASE RouteTick
  BY <1>1, <1>4, Received DEF RouteTick, managerVars, consumerVars, mainVars
<1>5. CASE ForwardTick
  BY <1>1, <1>5 DEF ForwardTick, MgrRoom, managerVars, consumerVars, mainVars
<1>6. CASE RouterStops
  BY <1>1, <1>6 DEF RouterStops, managerVars, consumerVars, mainVars
<1>7. CASE ManagerTakesTick \/ TickerCloses
  <2>1. manager' \in {"select", "emit", "gone"} /\ made' \in BarRecord
    <3>1. CASE UNCHANGED <<made, manager>> BY <3>1
    <3>2. CASE \E spot \in Spot : Closes(spot)
      <4>1. PICK spot \in Spot : Closes(spot) BY <3>2
      <4>2. made.n \in Nat /\ made.n < MaxBars /\ made' = Bar(made.n + 1, spot) /\ manager' = "emit"
        BY <4>1, BarsTyped DEF Closes
      <4>3. made.n + 1 \in 0..MaxBars BY <4>2
      <4> QED BY <4>2, <4>3 DEF Bar, BarRecord
    <3> QED BY <1>7, <3>1, <3>2 DEF ManagerTakesTick, TickerCloses, NothingCloses
  <2>2. mgrTicks' \in 0..MgrCap BY <1>7 DEF ManagerTakesTick, TickerCloses, routerVars
  <2> QED
    BY <1>1, <1>7, <2>1, <2>2
    DEF ManagerTakesTick, TickerCloses, routerVars, consumerVars, mainVars
<1>8. CASE EmitClosed
  BY <1>1, <1>8, Sent DEF EmitClosed, routerVars, consumerVars, mainVars
<1>9. CASE AbandonClosed \/ ManagerStops
  BY <1>1, <1>9 DEF AbandonClosed, ManagerStops, routerVars, consumerVars, mainVars
<1>10. CASE ReconcileBar
  <2>1. cur' \in BarRecord /\ closed' \in Seq(BarRecord) /\ Len(closed') <= ClosedCap
        /\ reconciled' \in 0..MaxBars
    <3>1. closed # <<>> /\ cur' = Head(closed) /\ closed' = Tail(closed) /\ reconciled' = Head(closed).n
      BY <1>10 DEF ReconcileBar
    <3>2. /\ Head(closed) \in BarRecord /\ Tail(closed) \in Seq(BarRecord)
          /\ Len(Tail(closed)) = Len(closed) - 1 /\ Len(closed) \in Nat
      BY <3>1, Received
    <3>3. Head(closed).n \in 0..MaxBars BY <3>2 DEF BarRecord
    <3> QED BY <3>1, <3>2, <3>3
  <2>2. sub' \subseteq Listed /\ unsub' \subseteq Listed
    BY <1>1, <1>10 DEF ReconcileBar, Enters, Leaves, Chain!TypeOK
  <2> QED BY <1>1, <1>10, <2>1, <2>2 DEF ReconcileBar, routerVars, mainVars
<1>11. CASE ModifyFeed
  <2>1. desired' \subseteq Listed /\ sub' \subseteq Listed /\ unsub' \subseteq Listed
    BY <1>11 DEF ModifyFeed
  <2> QED BY <1>1, <1>11, <2>1 DEF ModifyFeed, routerVars, managerVars, mainVars
<1>12. CASE EmitBar
  BY <1>1, <1>12, Sent DEF EmitBar, routerVars, managerVars, mainVars
<1>13. CASE AbandonBar \/ ConsumerStops
  BY <1>1, <1>13 DEF AbandonBar, ConsumerStops, routerVars, managerVars, mainVars
<1>14. CASE TakeBar
  BY <1>1, <1>14, Received DEF TakeBar, routerVars, managerVars
<1>15. CASE Drive
  <2>1. held' \in Nat \cup {None}
    <3>1. Chain!RoundStep(driven.spot) \in Nat BY BarsTyped, RoundStepNat
    <3> QED BY <1>15, <3>1 DEF Drive
  <2> QED BY <1>1, <1>15, <2>1 DEF Drive, routerVars, managerVars, consumerVars
<1>16. CASE MainStops
  BY <1>1, <1>16 DEF MainStops, routerVars, managerVars, consumerVars
<1>17. CASE Cancel \/ Ended \/ UNCHANGED vars
  BY <1>1, <1>17 DEF Cancel, Ended, vars, routerVars, managerVars, consumerVars, mainVars
<1> QED
  BY <1>3, <1>4, <1>5, <1>6, <1>7, <1>8, <1>9, <1>10, <1>11, <1>12, <1>13, <1>14, <1>15, <1>16,
     <1>17 DEF Next

\* Every step keeps the feed on the window: Reconcile's diff takes the window before it to
\* the window after it, and Modify applies it to a set that is still the one before.
LEMMA FeedNext == IInv /\ [Next]_vars => FeedFollowsChain'
<1> SUFFICES ASSUME IInv, [Next]_vars PROVE FeedFollowsChain'
  OBVIOUS
<1> USE DEF FeedFollowsChain
<1>1. FeedFollowsChain BY DEF IInv
<1>2. CASE RouteTick
  <2>1. UNCHANGED <<window, desired, consumer, sub, unsub>>
    BY <1>2 DEF RouteTick, Chain!Update, Chain!chainVars, consumerVars
  <2> QED BY <1>1, <2>1
<1>3. CASE ReconcileBar
  <2>1. /\ consumer = "select" /\ desired' = desired
        /\ sub' = window' \ window /\ unsub' = window \ window'
        /\ consumer' = IF sub' # {} \/ unsub' # {} THEN "modify" ELSE "emit"
    BY <1>3 DEF ReconcileBar, Enters, Leaves
  <2>2. desired = window BY <1>1, <2>1
  <2>3. (desired' \cup sub') \ unsub' = window' BY <2>1, <2>2
  <2>4. CASE sub' = {} /\ unsub' = {} BY <2>3, <2>4
  <2>5. CASE ~(sub' = {} /\ unsub' = {})
    <3>1. consumer' = "modify" BY <2>1, <2>5
    <3> QED BY <2>3, <3>1
  <2> QED BY <2>4, <2>5
<1>4. CASE ModifyFeed
  <2>1. window' = window /\ desired' = window /\ sub' = {} /\ unsub' = {}
    BY <1>1, <1>4 DEF ModifyFeed, chainVars
  <2> QED BY <2>1
<1>5. CASE EmitBar
  BY <1>1, <1>5 DEF EmitBar, chainVars
<1>6. CASE AbandonBar \/ ConsumerStops
  BY <1>1, <1>6 DEF AbandonBar, ConsumerStops, EmitSeesContext, chainVars
<1>7. CASE UNCHANGED <<window, desired, consumer, sub, unsub>>
  BY <1>1, <1>7
<1> QED
  <2>1. \/ RouteTick \/ ReconcileBar \/ ModifyFeed \/ EmitBar \/ AbandonBar \/ ConsumerStops
        \/ UNCHANGED <<window, desired, consumer, sub, unsub>>
    BY DEF Next, FeedSends, ForwardTick, RouterStops, ManagerTakesTick, TickerCloses, EmitClosed,
           AbandonClosed, ManagerStops, TakeBar, Drive, MainStops, Cancel, Ended, vars, chainVars,
           consumerVars
  <2> QED BY <1>2, <1>3, <1>4, <1>5, <1>6, <1>7, <2>1

\* A bar that the manager closes is the next one.
LEMMA ClosesNext ==
  ASSUME TypeOK, FromManager, NEW spot \in Spot, manager = "select", Closes(spot),
         UNCHANGED <<closed, reconciled, cancelled>>
  PROVE  FromManager'
<1>1. made.n \in Nat /\ reconciled \in Nat /\ closed \in Seq(BarRecord)
  BY BarsTyped DEF TypeOK
<1>2. made'.n = made.n + 1 /\ made'.spot = spot /\ manager' = "emit" BY DEF Closes, Bar
<1>3. InOrder(reconciled, closed, made.n, FALSE) BY DEF FromManager, ManagerHolds
<1>4. PICK later \in Nat : later = made.n + 1 BY <1>1
<1>5. made.n < later BY <1>1, <1>4
<1>6. /\ InOrder(reconciled, closed, later, TRUE)
      /\ later = made.n + 1 /\ Complete(reconciled, closed, made.n, FALSE)
           => Complete(reconciled, closed, later, TRUE)
  BY <1>1, <1>3, <1>5, NextInHand
<1>7. made'.n = later BY <1>2, <1>4
<1>8. ManagerHolds = FALSE /\ ManagerHolds' = TRUE BY <1>2 DEF ManagerHolds
<1>9. ~cancelled => Complete(reconciled, closed, made.n, FALSE) BY <1>8 DEF FromManager
<1> QED BY <1>2, <1>4, <1>6, <1>7, <1>8, <1>9 DEF FromManager

\* Every step keeps the bars from the manager to Reconcile in order.
LEMMA FromManagerNext == IInv /\ [Next]_vars => FromManager'
<1> SUFFICES ASSUME IInv, [Next]_vars PROVE FromManager'
  OBVIOUS
<1>1. TypeOK /\ FromManager BY DEF IInv
<1>2. made \in BarRecord /\ made.n \in Nat /\ reconciled \in Nat /\ closed \in Seq(BarRecord)
  BY <1>1, BarsTyped DEF TypeOK
<1>3. CASE ManagerTakesTick \/ TickerCloses
  <2>1. CASE \E spot \in Spot : Closes(spot)
    BY <1>1, <1>3, <2>1, ClosesNext DEF ManagerTakesTick, TickerCloses, consumerVars
  <2>2. CASE UNCHANGED <<made, manager>>
    <3>1. UNCHANGED <<made, manager, closed, reconciled, cancelled>>
      BY <1>3, <2>2 DEF ManagerTakesTick, TickerCloses, consumerVars
    <3> QED BY <1>1, <3>1 DEF FromManager, ManagerHolds
  <2> QED BY <1>3, <2>1, <2>2 DEF ManagerTakesTick, TickerCloses, NothingCloses
<1>4. CASE EmitClosed
  <2>1. /\ manager = "emit" /\ manager' = "select" /\ closed' = Append(closed, made)
        /\ UNCHANGED <<made, reconciled, cancelled>>
    BY <1>4 DEF EmitClosed, consumerVars
  <2>2. InOrder(reconciled, closed, made.n, TRUE) BY <1>1, <2>1 DEF FromManager, ManagerHolds
  <2>3. /\ InOrder(reconciled, closed', made.n, FALSE)
        /\ Complete(reconciled, closed, made.n, TRUE) => Complete(reconciled, closed', made.n, FALSE)
    BY <1>2, <2>1, <2>2, SendKeeps
  <2>4. made.spot \in Spot BY <1>1, <1>2, <2>2 DEF FromManager, InOrder
  <2>5. \A i \in DOMAIN closed' : closed'[i].spot \in Spot
    <3>1. \A i \in DOMAIN closed' :
            \/ i \in DOMAIN closed /\ closed'[i] = closed[i]
            \/ closed'[i] = made
      BY <1>2, <2>1, Sent
    <3> QED BY <1>1, <2>4, <3>1 DEF FromManager
  <2> QED BY <1>1, <2>1, <2>3, <2>5 DEF FromManager, ManagerHolds
<1>5. CASE AbandonClosed \/ ManagerStops
  <2>1. cancelled /\ manager' # "emit" /\ UNCHANGED <<made, closed, reconciled, cancelled>>
    BY <1>5 DEF AbandonClosed, ManagerStops, consumerVars
  <2>2. InOrder(reconciled, closed, made.n, FALSE) BY <1>1, GivesUp DEF FromManager, ManagerHolds
  <2> QED BY <1>1, <2>1, <2>2 DEF FromManager, ManagerHolds
<1>6. CASE ReconcileBar
  <2>1. /\ closed # <<>> /\ closed' = Tail(closed) /\ reconciled' = Head(closed).n
        /\ UNCHANGED <<made, manager, cancelled>>
    BY <1>6 DEF ReconcileBar
  <2>2. ManagerHolds \in BOOLEAN BY DEF ManagerHolds
  <2>3. /\ InOrder(reconciled', closed', made.n, ManagerHolds)
        /\ Complete(reconciled, closed, made.n, ManagerHolds)
             => Complete(reconciled', closed', made.n, ManagerHolds)
    BY <1>1, <1>2, <2>1, <2>2, ReceiveKeeps DEF FromManager
  <2>4. \A i \in DOMAIN closed' : i + 1 \in DOMAIN closed /\ closed'[i] = closed[i + 1]
    BY <1>2, <2>1, Received
  <2> QED BY <1>1, <2>1, <2>3, <2>4 DEF FromManager, ManagerHolds
<1>7. CASE Cancel
  BY <1>1, <1>7 DEF Cancel, managerVars, consumerVars, FromManager, ManagerHolds
<1>8. CASE UNCHANGED <<made, manager, closed, reconciled, cancelled>>
  BY <1>1, <1>8 DEF FromManager, ManagerHolds
<1> QED
  <2>1. \/ ManagerTakesTick \/ TickerCloses \/ EmitClosed \/ AbandonClosed \/ ManagerStops
        \/ ReconcileBar \/ Cancel \/ UNCHANGED <<made, manager, closed, reconciled, cancelled>>
    BY DEF Next, FeedSends, RouteTick, ForwardTick, RouterStops, ModifyFeed, EmitBar, AbandonBar,
           ConsumerStops, TakeBar, Drive, MainStops, Ended, vars, managerVars, consumerVars
  <2> QED BY <1>3, <1>4, <1>5, <1>6, <1>7, <1>8, <2>1

\* The bar that Reconcile takes is later than the last one.
LEMMA ReconcilesLater ==
  ASSUME TypeOK, FromManager, ReconcileBar
  PROVE  /\ reconciled' \in Nat /\ reconciled < reconciled' /\ cur'.n = reconciled'
         /\ ~cancelled => reconciled' = reconciled + 1
<1>1. /\ closed # <<>> /\ reconciled' = Head(closed).n /\ cur' = Head(closed)
      /\ closed \in Seq(BarRecord) /\ made.n \in Nat /\ reconciled \in Nat
  BY BarsTyped DEF ReconcileBar, TypeOK
<1>2. ManagerHolds \in BOOLEAN BY DEF ManagerHolds
<1>3. /\ Head(closed).n \in Nat /\ reconciled < Head(closed).n
      /\ Complete(reconciled, closed, made.n, ManagerHolds) => Head(closed).n = reconciled + 1
  BY <1>1, <1>2, ReceiveKeeps DEF FromManager
<1> QED BY <1>1, <1>3 DEF FromManager

\* Every step keeps the bars from Reconcile to the runners in order.
LEMMA ToRunnersNext == IInv /\ [Next]_vars => ToRunners'
<1> SUFFICES ASSUME IInv, [Next]_vars PROVE ToRunners'
  OBVIOUS
<1>1. TypeOK /\ ToRunners /\ FromManager BY DEF IInv
<1>2. /\ cur \in BarRecord /\ driven.n \in Nat /\ reconciled \in Nat
      /\ bars \in Seq(BarRecord) /\ ConsumerHolds \in BOOLEAN
  BY <1>1, BarsTyped DEF TypeOK, ConsumerHolds
<1>3. CASE ReconcileBar
  <2>1. /\ consumer = "select" /\ consumer' \in {"modify", "emit"}
        /\ UNCHANGED <<bars, driven, cancelled>>
    BY <1>3 DEF ReconcileBar, mainVars
  <2>2. /\ reconciled' \in Nat /\ reconciled < reconciled' /\ cur'.n = reconciled'
        /\ ~cancelled => reconciled' = reconciled + 1
    BY <1>1, <1>3, ReconcilesLater
  <2>9. ConsumerHolds = FALSE /\ ConsumerHolds' = TRUE BY <2>1 DEF ConsumerHolds
  <2>3. InOrder(driven.n, bars, reconciled, FALSE) BY <1>1, <2>9 DEF ToRunners
  <2>4. /\ InOrder(driven.n, bars, reconciled', TRUE)
        /\ reconciled' = reconciled + 1 /\ Complete(driven.n, bars, reconciled, FALSE)
             => Complete(driven.n, bars, reconciled', TRUE)
    BY <1>2, <2>2, <2>3, NextInHand
  <2>5. ~cancelled => Complete(driven.n, bars, reconciled, FALSE)
    BY <1>1, <2>9 DEF ToRunners
  <2> QED BY <2>9, <2>1, <2>2, <2>4, <2>5 DEF ToRunners
<1>4. CASE ModifyFeed
  <2>1. /\ consumer = "modify" /\ consumer' = "emit"
        /\ UNCHANGED <<reconciled, driven, bars, cur, cancelled>>
    BY <1>4 DEF ModifyFeed, mainVars
  <2> QED BY <1>1, <2>1 DEF ToRunners, ConsumerHolds
<1>5. CASE EmitBar
  <2>1. /\ consumer = "emit" /\ consumer' = "select" /\ bars' = Append(bars, cur)
        /\ UNCHANGED <<reconciled, driven, cur, cancelled>>
    BY <1>5 DEF EmitBar, mainVars
  <2>9. ConsumerHolds = TRUE /\ ConsumerHolds' = FALSE BY <2>1 DEF ConsumerHolds
  <2>2. cur.n = reconciled /\ InOrder(driven.n, bars, cur.n, TRUE) BY <1>1, <2>9 DEF ToRunners
  <2>3. /\ InOrder(driven.n, bars', cur.n, FALSE)
        /\ Complete(driven.n, bars, cur.n, TRUE) => Complete(driven.n, bars', cur.n, FALSE)
    BY <1>2, <2>1, <2>2, SendKeeps
  <2>4. ~cancelled => Complete(driven.n, bars, cur.n, TRUE) BY <1>1, <2>9, <2>2 DEF ToRunners
  <2> QED BY <2>9, <2>1, <2>2, <2>3, <2>4 DEF ToRunners
<1>6. CASE AbandonBar \/ ConsumerStops
  <2>1. /\ cancelled /\ consumer' \in {"select", "gone"}
        /\ UNCHANGED <<reconciled, driven, bars, cur, cancelled>>
    BY <1>6 DEF AbandonBar, ConsumerStops, mainVars
  <2>2. ConsumerHolds' = FALSE BY <2>1 DEF ConsumerHolds
  <2>3. ConsumerHolds = TRUE \/ ConsumerHolds = FALSE BY <1>2
  <2>4. InOrder(driven.n, bars, reconciled, FALSE) BY <1>1, <2>3, GivesUp DEF ToRunners
  <2> QED BY <1>1, <2>1, <2>2, <2>4 DEF ToRunners
<1>7. CASE TakeBar
  <2>1. /\ bars # <<>> /\ driven' = Head(bars) /\ bars' = Tail(bars)
        /\ UNCHANGED <<reconciled, cur, consumer, cancelled>>
    BY <1>7 DEF TakeBar
  <2>2. /\ InOrder(driven'.n, bars', reconciled, ConsumerHolds)
        /\ Complete(driven.n, bars, reconciled, ConsumerHolds)
             => Complete(driven'.n, bars', reconciled, ConsumerHolds)
    BY <1>1, <1>2, <2>1, ReceiveKeeps DEF ToRunners
  <2> QED BY <1>1, <2>1, <2>2 DEF ToRunners, ConsumerHolds
<1>8. CASE Cancel
  BY <1>1, <1>8 DEF Cancel, consumerVars, mainVars, ToRunners, ConsumerHolds
<1>9. CASE UNCHANGED <<reconciled, driven, bars, cur, consumer, cancelled>>
  BY <1>1, <1>9 DEF ToRunners, ConsumerHolds
<1> QED
  <2>1. \/ ReconcileBar \/ ModifyFeed \/ EmitBar \/ AbandonBar \/ ConsumerStops \/ TakeBar
        \/ Cancel \/ UNCHANGED <<reconciled, driven, bars, cur, consumer, cancelled>>
    BY DEF Next, FeedSends, RouteTick, ForwardTick, RouterStops, ManagerTakesTick, TickerCloses,
           EmitClosed, AbandonClosed, ManagerStops, Drive, MainStops, Ended, vars, consumerVars,
           mainVars
  <2> QED BY <1>3, <1>4, <1>5, <1>6, <1>7, <1>8, <1>9, <2>1

\* Every step keeps the bar with the last number reconciled the last bar reconciled.
LEMMA SameBarNext == IInv /\ [Next]_vars => SameBar'
<1> SUFFICES ASSUME IInv, [Next]_vars PROVE SameBar'
  OBVIOUS
<1>1. TypeOK /\ ToRunners /\ FromManager /\ SameBar BY DEF IInv
<1>2. /\ cur \in BarRecord /\ driven.n \in Nat /\ reconciled \in Nat /\ Len(bars) \in Nat
      /\ bars \in Seq(BarRecord)
  BY <1>1, BarsTyped DEF TypeOK
<1>3. CASE ReconcileBar
  <2>1. UNCHANGED <<bars, driven, main>> BY <1>3 DEF ReconcileBar, mainVars
  <2>2. reconciled' \in Nat /\ reconciled < reconciled' BY <1>1, <1>3, ReconcilesLater
  <2>3. \A i \in DOMAIN bars : bars[i].n \in Nat BY <1>2, NumbersTyped
  <2>4. driven.n # reconciled' /\ \A i \in DOMAIN bars : bars[i].n # reconciled'
    BY <1>1, <1>2, <2>2, <2>3 DEF ToRunners, InOrder
  <2> QED BY <1>1, <2>1, <2>4 DEF SameBar
<1>4. CASE EmitBar
  <2>1. bars' = Append(bars, cur) /\ UNCHANGED <<reconciled, driven, cur, main>>
    BY <1>4 DEF EmitBar, mainVars
  <2>2. \A i \in DOMAIN bars' :
          \/ i \in DOMAIN bars /\ bars'[i] = bars[i]
          \/ i = Len(bars) + 1 /\ bars'[i] = cur
    BY <1>2, <2>1, Sent
  <2> QED BY <1>1, <2>1, <2>2 DEF SameBar
<1>5. CASE TakeBar
  <2>1. /\ bars # <<>> /\ driven' = Head(bars) /\ bars' = Tail(bars)
        /\ UNCHANGED <<reconciled, cur>>
    BY <1>5 DEF TakeBar
  <2>2. /\ 1 \in DOMAIN bars /\ Head(bars) = bars[1]
        /\ \A i \in DOMAIN bars' : i + 1 \in DOMAIN bars /\ bars'[i] = bars[i + 1]
    BY <1>2, <2>1, Received
  <2>3. bars[1].n \in Nat /\ driven.n < bars[1].n BY <1>1, <1>2, <2>2, NumbersTyped DEF ToRunners, InOrder
  <2>4. driven'.n > 0 BY <1>2, <2>1, <2>2, <2>3
  <2> QED BY <1>1, <2>1, <2>2, <2>4 DEF SameBar
<1>6. CASE Drive \/ MainStops
  <2>1. main' # "driving" /\ UNCHANGED <<reconciled, driven, bars, cur>>
    BY <1>6 DEF Drive, MainStops, consumerVars
  <2> QED BY <1>1, <2>1 DEF SameBar
<1>7. CASE UNCHANGED <<reconciled, driven, bars, cur, main>>
  BY <1>1, <1>7 DEF SameBar
<1> QED
  <2>1. \/ ReconcileBar \/ EmitBar \/ TakeBar \/ Drive \/ MainStops
        \/ UNCHANGED <<reconciled, driven, bars, cur, main>>
    BY DEF Next, FeedSends, RouteTick, ForwardTick, RouterStops, ManagerTakesTick, TickerCloses,
           EmitClosed, AbandonClosed, ManagerStops, ModifyFeed, AbandonBar, ConsumerStops, Cancel,
           Ended, vars, consumerVars, mainVars
  <2> QED BY <1>3, <1>4, <1>5, <1>6, <1>7, <2>1

\* Every step keeps the chain on the last bar reconciled.
LEMMA ChainNext == IInv /\ [Next]_vars => ChainFollows'
<1> SUFFICES ASSUME IInv, [Next]_vars PROVE ChainFollows'
  OBVIOUS
<1>1. TypeOK /\ FromManager /\ ChainFollows BY DEF IInv
<1>2. Chain!IInv' BY <1>1, PipelineStepsChain, ChainKept DEF ChainFollows
\* On one day the weeklies that have not expired are always the same.
<1>3. Chain!Unexpired' = Chain!Unexpired BY DEF Chain!Unexpired, Chain!AsOf
<1>4. CASE ReconcileBar
  <2>1. cur' = Head(closed) BY <1>4 DEF ReconcileBar
  <2>2. CASE Chain!Reconcile(Head(closed).spot)
    <3>1. PICK exp \in Expiry :
            /\ Chain!IsNearest(exp)
            /\ IF Chain!Moves(Head(closed).spot, exp) THEN Chain!Recenters(Head(closed).spot, exp)
               ELSE Chain!Stays(Head(closed).spot, exp)
      BY <2>2 DEF Chain!Reconcile
    <3>2. /\ lastSpot' = Head(closed).spot
          /\ expiry' \in {exp, expiry}
      BY <3>1 DEF Chain!Recenters, Chain!Stays
    <3>3. exp \in Chain!Unexpired BY <3>1 DEF Chain!IsNearest
    <3>4. expiry' # None => expiry' \in Chain!Unexpired BY <1>1, <3>2, <3>3 DEF ChainFollows
    <3> QED BY <1>2, <1>3, <2>1, <3>2, <3>4 DEF ChainFollows
  <2>3. CASE Chain!ReconcileFails
    <3>1. Chain!Unexpired = {} /\ expiry' = expiry
      BY <2>3 DEF Chain!ReconcileFails, Chain!chainVars
    <3>2. expiry = None BY <1>1, <3>1 DEF ChainFollows
    <3> QED BY <1>2, <3>1, <3>2 DEF ChainFollows
  <2> QED BY <1>4, <2>2, <2>3 DEF ReconcileBar
<1>5. CASE UNCHANGED <<expiry, lastSpot, cur, reconciled>>
  BY <1>1, <1>2, <1>5, <1>3 DEF ChainFollows
<1> QED
  <2>1. ReconcileBar \/ UNCHANGED <<expiry, lastSpot, cur, reconciled>>
    BY DEF Next, FeedSends, RouteTick, ForwardTick, RouterStops, ManagerTakesTick, TickerCloses,
           EmitClosed, AbandonClosed, ManagerStops, ModifyFeed, EmitBar, AbandonBar, ConsumerStops,
           TakeBar, Drive, MainStops, Cancel, Ended, vars, chainVars, consumerVars, Chain!Update,
           Chain!chainVars
  <2> QED BY <1>4, <1>5, <2>1

\* The inductive invariant is an invariant.
THEOREM PipelineInvariance == Spec => []IInv
<1>1. IInv /\ [Next]_vars => IInv'
  BY TypeNext, FeedNext, FromManagerNext, ToRunnersNext, SameBarNext, ChainNext DEF IInv
<1> QED BY <1>1, PipelineInit, PTL DEF Spec

-----------------------------------------------------------------------------
(* What follows from it                                                     *)

\* No channel is ever over its capacity, and what is in it has its type.
THEOREM PipelineTypeCorrect == Spec => []TypeOK
<1>1. IInv => TypeOK BY DEF IInv
<1> QED BY <1>1, PipelineInvariance, PTL

\* With the diff on its way from Reconcile to Modify, what the feed keeps subscribed is the
\* window, and outside of onBar it is so as it stands.
THEOREM FeedIsOnTheWindow == Spec => []FeedFollowsChain
<1>1. IInv => FeedFollowsChain BY DEF IInv
<1> QED BY <1>1, PipelineInvariance, PTL

\* The runners are driven with the bars the manager closes, each once and in their order; only
\* after a signal may one be missing.
THEOREM BarsAreDrivenInOrder == Spec => DrivenInOrder
<1>1. IInv /\ [Next]_vars =>
        [driven' # driven =>
           driven'.n > driven.n /\ (cancelled \/ driven'.n = driven.n + 1)]_vars
  <2> SUFFICES ASSUME IInv, Next, driven' # driven
               PROVE  driven'.n > driven.n /\ (cancelled \/ driven'.n = driven.n + 1)
    OBVIOUS
  <2>1. TakeBar
    BY DEF Next, FeedSends, RouteTick, ForwardTick, RouterStops, ManagerTakesTick, TickerCloses,
           EmitClosed, AbandonClosed, ManagerStops, ReconcileBar, ModifyFeed, EmitBar, AbandonBar,
           ConsumerStops, Drive, MainStops, Cancel, Ended, vars, mainVars
  <2>2. /\ bars # <<>> /\ bars \in Seq(BarRecord) /\ driven' = Head(bars)
        /\ driven.n \in Nat /\ reconciled \in Nat /\ ConsumerHolds \in BOOLEAN
    BY <2>1, BarsTyped DEF TakeBar, IInv, TypeOK, ConsumerHolds
  <2> QED BY <2>2, ReceiveKeeps DEF IInv, ToRunners
<1> QED BY <1>1, PipelineInvariance, PTL DEF Spec, DrivenInOrder

\* The router and consumeBars use the chain as the chain allows.
THEOREM PipelineImplementsChain == Spec => ImplementsChain
<1>1. Init => Chain!Init BY DEF Init
<1>2. IInv /\ [Next]_vars => [Chain!Next]_(Chain!vars) BY PipelineStepsChain DEF IInv
<1> QED BY <1>1, <1>2, PipelineInvariance, PTL DEF Spec, ImplementsChain, Chain!Spec

\* With at least one strike kept on each side, a runner that is driven before the window has
\* followed a later bar finds the contracts at the money of its bar in the window, subscribed.
THEOREM RunnersSeeTheirWindow ==
  ASSUME N >= 1
  PROVE  Spec => []NeverBehind
<1>1. Chain!IInv => Chain!ATMCovered
  <2>1. ChainProof!IInv => ChainProof!ATMCovered BY ChainAssumption, ChainProof!BandIsCovered
  <2>2. Chain!ATMCovered <=> ChainProof!ATMCovered
    BY DEF Chain!ATMCovered, Chain!RoundStep, Chain!Step,
           ChainProof!ATMCovered, ChainProof!RoundStep, ChainProof!Step
  <2> QED BY <2>1, <2>2, ChainIInvSame
<1>2. IInv => NeverBehind
  <2> SUFFICES ASSUME IInv, main = "driving"
               PROVE  /\ reconciled >= driven.n
                      /\ reconciled = driven.n => AtTheMoney(driven) \subseteq window \cap desired
    BY DEF NeverBehind
  <2>1. driven.n \in Nat /\ reconciled \in Nat /\ driven.n <= reconciled
    BY BarsTyped DEF IInv, TypeOK, ToRunners, InOrder
  <2>2. ASSUME reconciled = driven.n, NEW t \in AtTheMoney(driven)
        PROVE  t \in window \cap desired
    <3>1. driven = cur /\ reconciled > 0 BY <2>1, <2>2 DEF IInv, SameBar
    <3>2. t \in Listed /\ t.expiry = expiry /\ t.strike = Chain!RoundStep(cur.spot)
      BY <2>2, <3>1 DEF AtTheMoney
    <3>3. expiry # None
      <4>1. \A u \in Listed : u.expiry \in Expiry BY ChainAssumption
      <4>2. \A e \in Expiry : e \in Int BY ChainAssumption
      <4>3. expiry \in Int BY <3>2, <4>1, <4>2
      <4> QED BY <4>3, ChainAssumption, Zenon
    <3>4. lastSpot = cur.spot BY <3>1, <3>3 DEF IInv, ChainFollows
    <3>5. lastSpot # None BY <3>3 DEF IInv, ChainFollows, Chain!IInv, Chain!WindowInv
    <3>6. t \in window BY <1>1, <3>2, <3>4, <3>5 DEF IInv, ChainFollows, Chain!ATMCovered
    <3>7. consumer # "modify" BY <2>1, <2>2 DEF IInv, ToRunners, InOrder, ConsumerHolds
    <3> QED BY <3>6, <3>7 DEF IInv, FeedFollowsChain
  <2> QED BY <2>1, <2>2
<1> QED BY <1>2, PipelineInvariance, PTL
=============================================================================
