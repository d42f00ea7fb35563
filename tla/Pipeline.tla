------------------------------ MODULE Pipeline ------------------------------
(***************************************************************************)
(* pipeline.Coordinator between the feed and the main loop: the router     *)
(* (Run), the bar aggregator's manager, consumeBars, and the main loop     *)
(* that drives the runners, joined by four bounded channels and by the     *)
(* option chain, which the router and consumeBars write and the runners    *)
(* read.                                                                   *)
(*                                                                         *)
(* The chain is OptionChain, on one day.  What closes a bar is             *)
(* BarAggregator's subject: here the manager may close one whenever it has *)
(* a tick or its ticker fires.  The feed is FeedSupervisor seen from       *)
(* above: a desired set that Modify changes, and ticks of what is in it.   *)
(* VIX bars take the same way as future bars and touch nothing on it.      *)
(***************************************************************************)
EXTENDS Integers, Sequences

CONSTANTS
  N, Expiry, Typ, Listed, Spot, None,  \* of OptionChain
  Future,    \* the future's token
  MaxBars,   \* bound: future bars in a run
  TicksCap,  \* the feed's channel of ticks        (1024 in the code)
  MgrCap,    \* the router's channel to the manager (1024)
  ClosedCap, \* the manager's channel of bars        (256)
  BarsCap    \* the coordinator's channel of bars    (256)

ASSUME CapAssumption == {TicksCap, MgrCap, ClosedCap, BarsCap} \subseteq Nat \ {0}
ASSUME MaxBarsAssumption == MaxBars \in Nat
\* Those of OptionChain.
ASSUME ChainAssumption ==
  /\ N \in Nat /\ Expiry \subseteq Nat /\ Spot \subseteq Nat
  /\ Listed \subseteq [expiry : Expiry, typ : Typ, strike : Nat]
  /\ None \notin Int /\ None \notin Listed
ASSUME FutureAssumption == Future \notin Listed

VARIABLES
  expiry, center, window, byKey, quotes, lastSpot, centeredAt,  \* the chain
  desired,         \* the option tokens the feed keeps subscribed
  ticks,           \* the feed's channel
  router,          \* "select", "forward" (a tick for the manager) or "gone"
  mgrTicks,        \* how many ticks wait for the manager
  manager, made,   \* "select", "emit" or "gone"; the last bar it closed
  closed,          \* its channel of bars
  consumer, cur,   \* consumeBars: "select", "modify", "emit" or "gone"; its bar
  sub, unsub,      \* the difference of two windows on its way from Reconcile to Modify
  bars,            \* the coordinator's channel of bars
  main, driven,    \* the main loop: "select", "driving" or "gone"; its last bar
  held,            \* the strike a runner is in a trade on
  cancelled,
  reconciled       \* history: the last bar Reconcile was called for

chainVars == <<expiry, center, window, byKey, quotes, lastSpot, centeredAt>>
routerVars == <<ticks, router, mgrTicks>>
managerVars == <<manager, made, closed>>
consumerVars == <<consumer, cur, sub, unsub, bars, desired, reconciled>>
mainVars == <<main, driven, held>>
vars == <<chainVars, routerVars, managerVars, consumerVars, mainVars, cancelled>>

Chain == INSTANCE OptionChain WITH day <- 0, LastDay <- 0

NoBar == [n |-> 0, spot |-> 0]
Bar(n, spot) == [n |-> n, spot |-> spot]

Init ==
  /\ Chain!Init
  /\ desired = {} /\ ticks = <<>> /\ router = "select" /\ mgrTicks = 0
  /\ manager = "select" /\ made = NoBar /\ closed = <<>>
  /\ consumer = "select" /\ cur = NoBar /\ sub = {} /\ unsub = {}
  /\ bars = <<>> /\ reconciled = 0
  /\ main = "select" /\ driven = NoBar /\ held = None
  /\ cancelled = FALSE

-----------------------------------------------------------------------------
(* The router                                                               *)

FeedSends(t) ==
  /\ ~cancelled /\ Len(ticks) < TicksCap
  /\ t \in desired \cup {Future}
  /\ ticks' = Append(ticks, t)
  /\ UNCHANGED <<chainVars, router, mgrTicks, managerVars, consumerVars, mainVars, cancelled>>

RouteTick ==
  /\ router = "select" /\ ticks # <<>>
  /\ Chain!Update(Head(ticks))
  /\ ticks' = Tail(ticks) /\ router' = "forward"
  /\ UNCHANGED <<mgrTicks, managerVars, consumerVars, mainVars, cancelled>>

\* mutant: the send does not wait for room
MgrRoomIgnored == mgrTicks <= MgrCap
MgrRoom == mgrTicks < MgrCap

ForwardTick ==
  /\ router = "forward" /\ MgrRoom
  /\ mgrTicks' = mgrTicks + 1 /\ router' = "select"
  /\ UNCHANGED <<chainVars, ticks, managerVars, consumerVars, mainVars, cancelled>>

RouterStops ==
  /\ cancelled /\ router # "gone" /\ router' = "gone"
  /\ UNCHANGED <<chainVars, ticks, mgrTicks, managerVars, consumerVars, mainVars, cancelled>>

-----------------------------------------------------------------------------
(* The manager                                                              *)

Closes(spot) == made.n < MaxBars /\ made' = Bar(made.n + 1, spot) /\ manager' = "emit"
NothingCloses == UNCHANGED <<made, manager>>

ManagerTakesTick ==
  /\ manager = "select" /\ mgrTicks > 0
  /\ mgrTicks' = mgrTicks - 1
  /\ NothingCloses \/ \E spot \in Spot : Closes(spot)
  /\ UNCHANGED <<chainVars, ticks, router, closed, consumerVars, mainVars, cancelled>>

TickerCloses ==
  /\ manager = "select" /\ \E spot \in Spot : Closes(spot)
  /\ UNCHANGED <<chainVars, routerVars, closed, consumerVars, mainVars, cancelled>>

EmitClosed ==
  /\ manager = "emit" /\ Len(closed) < ClosedCap
  /\ closed' = Append(closed, made) /\ manager' = "select"
  /\ UNCHANGED <<chainVars, routerVars, made, consumerVars, mainVars, cancelled>>

\* emit gives its bar up and Run goes round: its select may still take a tick before it
\* sees the context.
AbandonClosed ==
  /\ cancelled /\ manager = "emit" /\ manager' = "select"
  /\ UNCHANGED <<chainVars, routerVars, made, closed, consumerVars, mainVars, cancelled>>

ManagerStops ==
  /\ cancelled /\ manager = "select" /\ manager' = "gone"
  /\ UNCHANGED <<chainVars, routerVars, made, closed, consumerVars, mainVars, cancelled>>

-----------------------------------------------------------------------------
(* consumeBars and onBar                                                    *)

\* mutant: the bar is emitted without the window having followed it
EmitOnly ==
  /\ consumer = "select" /\ closed # <<>>
  /\ cur' = Head(closed) /\ closed' = Tail(closed) /\ consumer' = "emit"
  /\ UNCHANGED <<chainVars, routerVars, manager, made, sub, unsub, bars, desired, reconciled,
                 mainVars, cancelled>>

\* mutant: what leaves is looked for after the new window has been committed
LeavesAfterCommit == window' \ window'
\* Reconcile's diff against the window it replaces.
Enters == window' \ window
Leaves == window \ window'

\* Reconcile; if its diff is not empty, Modify comes next, else the bar goes on.
ReconcileBar ==
  /\ consumer = "select" /\ closed # <<>>
  /\ Chain!Reconcile(Head(closed).spot) \/ Chain!ReconcileFails
  /\ sub' = Enters /\ unsub' = Leaves
  /\ cur' = Head(closed) /\ closed' = Tail(closed)
  /\ consumer' = IF sub' # {} \/ unsub' # {} THEN "modify" ELSE "emit"
  /\ reconciled' = Head(closed).n
  /\ UNCHANGED <<routerVars, manager, made, bars, desired, mainVars, cancelled>>

\* mutant: onBar returns after a Modify, without the bar
ModifyReturns ==
  /\ consumer = "modify"
  /\ desired' = (desired \cup sub) \ unsub
  /\ sub' = {} /\ unsub' = {} /\ consumer' = "select"
  /\ UNCHANGED <<chainVars, routerVars, managerVars, cur, bars, reconciled, mainVars, cancelled>>
\* Modify changes the feed's own set, which it shares with nobody else.
ModifyFeed ==
  /\ consumer = "modify"
  /\ desired' = (desired \cup sub) \ unsub
  /\ sub' = {} /\ unsub' = {} /\ consumer' = "emit"
  /\ UNCHANGED <<chainVars, routerVars, managerVars, cur, bars, reconciled, mainVars, cancelled>>

EmitBar ==
  /\ consumer = "emit" /\ Len(bars) < BarsCap
  /\ bars' = Append(bars, cur) /\ consumer' = "select"
  /\ UNCHANGED <<chainVars, routerVars, managerVars, cur, sub, unsub, desired, reconciled,
                 mainVars, cancelled>>

\* mutant: the emit does not watch the context
DeafEmit == FALSE
EmitSeesContext == consumer = "emit"

\* onBar gives its bar up; consumeBars may still take the next one.
AbandonBar ==
  /\ cancelled /\ EmitSeesContext /\ consumer' = "select"
  /\ UNCHANGED <<chainVars, routerVars, managerVars, cur, sub, unsub, bars, desired, reconciled,
                 mainVars, cancelled>>

ConsumerStops ==
  /\ cancelled /\ consumer = "select" /\ consumer' = "gone"
  /\ UNCHANGED <<chainVars, routerVars, managerVars, cur, sub, unsub, bars, desired, reconciled,
                 mainVars, cancelled>>

-----------------------------------------------------------------------------
(* The main loop                                                            *)

\* mutant: the main loop does not come back for another bar
ReadyOnce == main = "select" /\ driven.n = 0
Ready == main = "select"

TakeBar ==
  /\ Ready /\ bars # <<>>
  /\ driven' = Head(bars) /\ bars' = Tail(bars) /\ main' = "driving"
  /\ UNCHANGED <<chainVars, routerVars, managerVars, consumer, cur, sub, unsub, desired, reconciled,
                 held, cancelled>>

\* What the frozen runner does with the bar is external: nothing, an entry at the money of
\* the bar, or the exit of its trade, and a fill reads the chain as it is by then.
Drive ==
  /\ main = "driving" /\ main' = "select"
  /\ \/ UNCHANGED held
     \/ held = None /\ held' = Chain!RoundStep(driven.spot)
     \/ held # None /\ held' = None
  /\ UNCHANGED <<chainVars, routerVars, managerVars, consumerVars, driven, cancelled>>

MainStops ==
  /\ cancelled /\ main = "select" /\ main' = "gone"
  /\ UNCHANGED <<chainVars, routerVars, managerVars, consumerVars, driven, held, cancelled>>

Cancel ==
  /\ ~cancelled /\ cancelled' = TRUE
  /\ UNCHANGED <<chainVars, routerVars, managerVars, consumerVars, mainVars>>

AllGone == router = "gone" /\ manager = "gone" /\ consumer = "gone" /\ main = "gone"
Ended == AllGone /\ UNCHANGED vars

Next ==
  \/ \E t \in Listed \cup {Future} : FeedSends(t)
  \/ RouteTick \/ ForwardTick \/ RouterStops
  \/ ManagerTakesTick \/ TickerCloses \/ EmitClosed \/ AbandonClosed \/ ManagerStops
  \/ ReconcileBar \/ ModifyFeed \/ EmitBar \/ AbandonBar \/ ConsumerStops
  \/ TakeBar \/ Drive \/ MainStops
  \/ Cancel \/ Ended

Spec == Init /\ [][Next]_vars

\* A goroutine that can go on is scheduled.  A select with two ready cases picks one at
\* random, so ctx.Done is taken in the end although a channel is always ready as well.
Fairness ==
  /\ WF_vars(RouteTick) /\ WF_vars(ForwardTick) /\ SF_vars(RouterStops)
  /\ WF_vars(EmitClosed) /\ WF_vars(AbandonClosed) /\ SF_vars(ManagerStops)
  /\ WF_vars(ReconcileBar) /\ WF_vars(ModifyFeed)
  /\ WF_vars(EmitBar) /\ WF_vars(AbandonBar) /\ SF_vars(ConsumerStops)
  /\ WF_vars(TakeBar) /\ WF_vars(Drive) /\ SF_vars(MainStops)

FairSpec == Spec /\ Fairness

-----------------------------------------------------------------------------
(* Properties                                                               *)

BarRecord == [n : 0..MaxBars, spot : Spot \cup {0}]

\* Every variable has its type and no channel is over its capacity.
TypeOK ==
  /\ Chain!TypeOK
  /\ desired \subseteq Listed
  /\ ticks \in Seq(Listed \cup {Future}) /\ Len(ticks) <= TicksCap
  /\ router \in {"select", "forward", "gone"} /\ mgrTicks \in 0..MgrCap
  /\ manager \in {"select", "emit", "gone"} /\ made \in BarRecord
  /\ closed \in Seq(BarRecord) /\ Len(closed) <= ClosedCap
  /\ consumer \in {"select", "modify", "emit", "gone"} /\ cur \in BarRecord
  /\ sub \subseteq Listed /\ unsub \subseteq Listed
  /\ bars \in Seq(BarRecord) /\ Len(bars) <= BarsCap
  /\ main \in {"select", "driving", "gone"} /\ driven \in BarRecord
  /\ held \in Nat \cup {None}
  /\ cancelled \in BOOLEAN /\ reconciled \in 0..MaxBars

\* The feed's own set never drifts from the window, although it is only ever told
\* differences: with the one on its way from Reconcile to Modify it is the window, and with
\* none on its way it is the window as it stands, over every path of spots.
FeedFollowsChain ==
  /\ (desired \cup sub) \ unsub = window
  /\ consumer # "modify" => desired = window

\* What a runner that enters at the money of the bar would ask the chain for.
AtTheMoney(bar) == {t \in Listed : t.expiry = expiry /\ t.strike = Chain!RoundStep(bar.spot)}

\* The window is never behind the bar a runner is deciding on: it has followed that bar,
\* or a later one, before the runner may fill on it; and as long as it has followed no
\* later one, the contracts at the money of the bar are in it and subscribed.
NeverBehind ==
  main = "driving" =>
    /\ reconciled >= driven.n
    /\ reconciled = driven.n => AtTheMoney(driven) \subseteq window \cap desired

\* The runners are driven with every bar once and in order: no channel on the way loses,
\* repeats or reorders one.  After a signal a bar may be lost, and a later one still driven.
DrivenInOrder ==
  [][driven' # driven =>
       driven'.n > driven.n /\ (cancelled \/ driven'.n = driven.n + 1)]_vars

\* What the router and consumeBars do to the chain together is a behaviour of the chain: its
\* own properties hold in the pipeline.
ImplementsChain == Chain!Spec

\* A bar that closes reaches the runners, unless the process is told to stop.
EveryBarIsDriven == \A n \in 1..MaxBars : made.n = n ~> driven.n >= n \/ cancelled

\* After a signal every goroutine returns, wherever it was blocked.
StopsAfterCancel == cancelled ~> AllGone

-----------------------------------------------------------------------------
(* The inductive invariant: the bars on their way from the manager to the   *)
(* runners are in order, and consecutive until a signal makes a goroutine   *)
(* give its bar up.                                                         *)

\* The bars in channel q come after bar lo and not after bar hi, in order; if the goroutine
\* at the channel's head still has hi in hand, before it.
InOrder(lo, q, hi, inHand) ==
  /\ lo <= hi
  /\ \A i \in DOMAIN q : lo < q[i].n /\ q[i].n <= hi
  /\ \A i, j \in DOMAIN q : i < j => q[i].n < q[j].n
  /\ inHand => lo < hi /\ \A i \in DOMAIN q : q[i].n < hi

\* And no bar is missing.
Complete(lo, q, hi, inHand) ==
  /\ hi = lo + Len(q) + (IF inHand THEN 1 ELSE 0)
  /\ \A i \in DOMAIN q : q[i].n = lo + i

ManagerHolds == manager = "emit"
ConsumerHolds == consumer \in {"modify", "emit"}

\* The bars between the manager and Reconcile, and between Reconcile and the runners.
FromManager ==
  /\ InOrder(reconciled, closed, made.n, ManagerHolds)
  /\ ~cancelled => Complete(reconciled, closed, made.n, ManagerHolds)
  /\ \A i \in DOMAIN closed : closed[i].spot \in Spot
  /\ made.n > 0 => made.spot \in Spot

ToRunners ==
  /\ InOrder(driven.n, bars, reconciled, ConsumerHolds)
  /\ ~cancelled => Complete(driven.n, bars, reconciled, ConsumerHolds)
  /\ cur.n = reconciled

\* A bar with the number of the last one reconciled is that bar.
SameBar ==
  /\ driven.n = reconciled => driven = cur
  /\ \A i \in DOMAIN bars : bars[i].n = reconciled => bars[i] = cur
  /\ main = "driving" => driven.n > 0

\* The chain has followed the last bar reconciled, if there is a weekly to follow it in.
ChainFollows ==
  /\ Chain!IInv
  /\ expiry # None => expiry \in Chain!Unexpired
  /\ expiry # None /\ reconciled > 0 => lastSpot = cur.spot

IInv ==
  /\ TypeOK /\ FeedFollowsChain
  /\ FromManager /\ ToRunners /\ SameBar /\ ChainFollows

-----------------------------------------------------------------------------
(* What the comments say and the code does not do                           *)

\* chain.go and C.md: the window is subscribed so that whatever strike the strategy picks
\* is "already streaming", and seams.go calls a price without a quote "not an expected
\* path".  The exit of a trade prices the strike of its entry.
ExitStrikeIsStreaming ==
  [][held # None /\ held' = None => \A typ \in Typ : <<typ, held>> \in DOMAIN byKey]_vars
=============================================================================
