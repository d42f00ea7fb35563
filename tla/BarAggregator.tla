--------------------------- MODULE BarAggregator ---------------------------
(***************************************************************************)
(* internal/aggregator: the Manager goroutine and one Aggregator per       *)
(* token, between the channel the tick router fills and the channel        *)
(* consumeBars drains.                                                     *)
(*                                                                         *)
(* Time is counted in minutes.  exch is the exchange's clock, which stamps *)
(* the ticks, and host the host's, which triggers CloseDue: nothing in the *)
(* code keeps them together, so each moves on its own.  A tick reaches the *)
(* Manager some time after its stamp: it is stamped late in transit and    *)
(* then waits in the channel.                                              *)
(***************************************************************************)
EXTENDS Integers, Sequences

CONSTANTS
  Token,       \* the aggregated tokens (the future and India VIX)
  Price,       \* last traded prices
  Traded,      \* what is traded from a tick to the next; less than 0 for one overtaken
  MaxMinute,   \* bound: the clocks stop here; no tick is sent in the last minute
  MaxTicks,    \* bound: ticks sent per token
  TicksCap,    \* capacity of the channel from the router (1024 in the code)
  OutCap,      \* capacity of the bars channel (256 in the code)
  None

ASSUME PriceAssumption == Price \subseteq Int /\ Traded \subseteq Int
ASSUME ClockAssumption == MaxMinute \in Nat \ {0}
ASSUME CapAssumption == TicksCap \in Nat \ {0} /\ OutCap \in Nat \ {0} /\ MaxTicks \in Nat

VARIABLES
  exch, sent, dayVolume,   \* the exchange: its clock, per token how many ticks it
                           \*   sent and the day's volume so far
  host,                    \* the host's clock
  ticks,                   \* the channel into Manager.Run
  agg,                     \* per token, the Aggregator
  mgr,                     \* Manager.Run: where it is, the ticker branch's now and
                           \*   the tokens it has not looked at yet
  pending,                 \* the bar inside emit, or None
  out,                     \* the channel behind Bars()
  cancelled,               \* the process has been told to stop
  log, bars                \* history, per token: ticks handed to Add, bars that left emit

envVars == <<exch, sent, dayVolume, host, cancelled>>
vars == <<envVars, ticks, agg, mgr, pending, out, log, bars>>

Minute == 1..MaxMinute
Tick == [token : Token, minute : Minute, price : Price, volume : Nat]
Partial == [minute : Minute, open : Price, high : Price, low : Price, closeP : Price,
            endVolume : Nat]
Bar == [ts : Minute, open : Price, high : Price, low : Price, close : Price, volume : Nat]

EmittedBar == [bar : Bar, seen : Nat]
Pending == [token : Token, bar : Bar, seen : Nat]
Aggregate == [cur : Partial \cup {None}, lastVolume : Nat, haveLastVolume : BOOLEAN,
              lastClosed : 0..MaxMinute]
\* None is neither a forming minute nor a bar in emit.
ASSUME NoneAssumption == None \notin Partial /\ None \notin Pending

Init ==
  /\ exch = 1 /\ host = 1 /\ cancelled = FALSE
  /\ sent = [t \in Token |-> 0]
  /\ dayVolume = [t \in Token |-> 0]
  /\ ticks = <<>>
  /\ agg = [t \in Token |-> [cur |-> None, lastVolume |-> 0, haveLastVolume |-> FALSE,
                             lastClosed |-> 0]]
  /\ mgr = [pc |-> "select", now |-> 0, todo |-> {}]
  /\ pending = None /\ out = <<>>
  /\ log = [t \in Token |-> <<>>] /\ bars = [t \in Token |-> <<>>]

-----------------------------------------------------------------------------
(* Aggregator: lastClosed = 0 is the zero time.                             *)

\* mutant: late ticks are not dropped
LateNever(a, m) == FALSE
Late(a, m) == a.lastClosed # 0 /\ m <= a.lastClosed

\* mutant: the volume baseline is not moved on
VolumeOfDay(a) == a.cur.endVolume
VolumeDelta(a) ==
  IF ~a.haveLastVolume THEN 0
  ELSE IF a.cur.endVolume < a.lastVolume THEN 0
  ELSE a.cur.endVolume - a.lastVolume

FinalBar(a) ==
  [ts |-> a.cur.minute, open |-> a.cur.open, high |-> a.cur.high, low |-> a.cur.low,
   close |-> a.cur.closeP, volume |-> VolumeDelta(a)]

Finalized(a) ==
  [cur |-> None, lastVolume |-> a.cur.endVolume, haveLastVolume |-> TRUE,
   lastClosed |-> a.cur.minute]

Opened(t) ==
  [minute |-> t.minute, open |-> t.price, high |-> t.price, low |-> t.price,
   closeP |-> t.price, endVolume |-> t.volume]

\* mutant: the low is raised instead of the high
FoldedWrong(p, t) ==
  [p EXCEPT !.closeP = t.price, !.endVolume = t.volume,
            !.high = IF t.price > @ THEN t.price ELSE @,
            !.low = IF t.price > @ THEN t.price ELSE @]
Folded(p, t) ==
  [p EXCEPT !.closeP = t.price, !.endVolume = t.volume,
            !.high = IF t.price > @ THEN t.price ELSE @,
            !.low = IF t.price < @ THEN t.price ELSE @]

\* A tick of a later minute than the forming one closes the forming one.
Rolls(a, t) == a.cur # None /\ t.minute > a.cur.minute

AfterAdd(a, t) ==
  IF Late(a, t.minute) THEN a
  ELSE IF Rolls(a, t) THEN [Finalized(a) EXCEPT !.cur = Opened(t)]
  ELSE [a EXCEPT !.cur = IF a.cur = None THEN Opened(t) ELSE Folded(a.cur, t)]

\* mutants: a minute counts as over while it runs, or only closes on a tick
DueEarly(a, now) == a.cur # None /\ now >= a.cur.minute
DueNever(a, now) == FALSE
\* CloseDue: the wall clock has reached M+1:00.
Due(a, now) == a.cur # None /\ now >= a.cur.minute + 1

-----------------------------------------------------------------------------
(* Manager.Run.  A bar in pending has left the aggregator and waits in emit *)
(* for room in the channel; seen is how much of log it was made from.       *)

Emitting(t, b) == [token |-> t, bar |-> b, seen |-> Len(log[t])]

TakeTick ==
  /\ mgr.pc = "select" /\ pending = None /\ ticks # <<>>
  /\ LET t == Head(ticks) IN
       /\ agg' = [agg EXCEPT ![t.token] = AfterAdd(@, t)]
       /\ pending' = IF ~Late(agg[t.token], t.minute) /\ Rolls(agg[t.token], t)
                       THEN Emitting(t.token, FinalBar(agg[t.token])) ELSE None
       /\ log' = [log EXCEPT ![t.token] = Append(@, t)]
  /\ ticks' = Tail(ticks)
  /\ UNCHANGED <<envVars, mgr, out, bars>>

TickerFires ==
  /\ mgr.pc = "select" /\ pending = None
  /\ mgr' = [pc |-> "closing", now |-> host, todo |-> Token]
  /\ UNCHANGED <<envVars, ticks, agg, pending, out, log, bars>>

\* The ticker branch ranges over a map: any token may be next.
CloseToken(t) ==
  /\ mgr.pc = "closing" /\ pending = None /\ t \in mgr.todo
  /\ mgr' = [mgr EXCEPT !.todo = @ \ {t}]
  /\ IF Due(agg[t], mgr.now)
       THEN /\ pending' = Emitting(t, FinalBar(agg[t]))
            /\ agg' = [agg EXCEPT ![t] = Finalized(@)]
       ELSE UNCHANGED <<pending, agg>>
  /\ UNCHANGED <<envVars, ticks, out, log, bars>>

TickerDone ==
  /\ mgr.pc = "closing" /\ pending = None /\ mgr.todo = {}
  /\ mgr' = [pc |-> "select", now |-> 0, todo |-> {}]
  /\ UNCHANGED <<envVars, ticks, agg, pending, out, log, bars>>

\* mutant: a send that does not wait for room
RoomIgnored == TRUE
Room == Len(out) < OutCap

LeavesEmit ==
  /\ pending # None /\ pending' = None
  /\ bars' = [bars EXCEPT ![pending.token] = Append(@, [bar |-> pending.bar, seen |-> pending.seen])]
  /\ UNCHANGED <<envVars, ticks, agg, mgr, log>>

Emit == LeavesEmit /\ Room /\ out' = Append(out, pending)

\* After a signal emit may give its bar up; Run goes on where it was, in the middle of the
\* ticker's round too.
Abandon == LeavesEmit /\ cancelled /\ UNCHANGED out

ManagerStops ==
  /\ cancelled /\ mgr.pc = "select" /\ pending = None
  /\ mgr' = [pc |-> "gone", now |-> 0, todo |-> {}]
  /\ UNCHANGED <<envVars, ticks, agg, pending, out, log, bars>>

-----------------------------------------------------------------------------
(* The channels' other ends and the exchange.                               *)

ConsumeBar ==
  /\ out # <<>> /\ out' = Tail(out)
  /\ UNCHANGED <<envVars, ticks, agg, mgr, pending, log, bars>>

\* A tick stamped this minute, or the last one if it was long in transit; a newer one may
\* have overtaken it, and then it carries the day's volume of before that one.
TickArrives(t, m, p, v) ==
  /\ exch < MaxMinute /\ sent[t] < MaxTicks /\ Len(ticks) < TicksCap
  /\ v \in Nat /\ (v < dayVolume[t] => m < exch)
  /\ dayVolume' = [dayVolume EXCEPT ![t] = IF v > @ THEN v ELSE @]
  /\ sent' = [sent EXCEPT ![t] = @ + 1]
  /\ ticks' = Append(ticks, [token |-> t, minute |-> m, price |-> p, volume |-> v])
  /\ UNCHANGED <<exch, host, cancelled, agg, mgr, pending, out, log, bars>>

managerVars == <<ticks, agg, mgr, pending, out, log, bars>>

ClockMoves ==
  /\ exch < MaxMinute /\ exch' = exch + 1
  /\ UNCHANGED <<sent, dayVolume, host, cancelled, managerVars>>

HostMoves ==
  /\ host < MaxMinute /\ host' = host + 1
  /\ UNCHANGED <<exch, sent, dayVolume, cancelled, managerVars>>

Cancel ==
  /\ ~cancelled /\ cancelled' = TRUE
  /\ UNCHANGED <<exch, sent, dayVolume, host, managerVars>>

Ended == mgr.pc = "gone" /\ UNCHANGED vars

Feed ==
  \E t \in Token, m \in {exch - 1, exch} \cap Minute, p \in Price, traded \in Traded :
    TickArrives(t, m, p, dayVolume[t] + traded)

ManagerStep ==
  \/ TakeTick \/ TickerFires \/ (\E t \in Token : CloseToken(t)) \/ TickerDone
  \/ Emit \/ Abandon \/ ManagerStops

Outside == ConsumeBar \/ Feed \/ ClockMoves \/ HostMoves \/ Cancel

Next == ManagerStep \/ Outside \/ Ended

Spec == Init /\ [][Next]_vars

\* The host's clock moves on, the select picks a ready case at random so neither case starves, and
\* consumeBars keeps draining the bars.
Fairness ==
  /\ WF_vars(HostMoves) /\ WF_vars(ConsumeBar)
  /\ SF_vars(TakeTick) /\ SF_vars(TickerFires)
  /\ WF_vars(TickerDone) /\ WF_vars(Emit) /\ \A t \in Token : WF_vars(CloseToken(t))

FairSpec == Spec /\ Fairness

-----------------------------------------------------------------------------
(* Properties                                                               *)

\* Every variable has its type; both channels stay within their capacity.
TypeOK ==
  /\ exch \in Minute /\ host \in Minute /\ cancelled \in BOOLEAN
  /\ sent \in [Token -> Nat]
  /\ dayVolume \in [Token -> Nat]
  /\ ticks \in Seq(Tick) /\ Len(ticks) <= TicksCap
  /\ agg \in [Token -> Aggregate]
  /\ mgr \in [pc : {"select", "closing", "gone"}, now : Int, todo : SUBSET Token]
  /\ pending \in Pending \cup {None}
  /\ out \in Seq(Pending) /\ Len(out) <= OutCap
  /\ log \in [Token -> Seq(Tick)]
  /\ bars \in [Token -> Seq(EmittedBar)]

\* A token's bars come out in strictly increasing minutes: "one bar per minute, in
\* order" (B.md), whatever order the ticks arrive in and whichever path closes them.
BarsInOrder ==
  \A t \in Token : \A i, j \in DOMAIN bars[t] : i < j => bars[t][i].bar.ts < bars[t][j].bar.ts

\* q is what Add has been handed of one token.  Of its first s ticks, those of minute m; a
\* bar is made of those of its own minute among the ticks seen.
OfMinute(q, m, s) == {k \in 1..s : q[k].minute = m}
Made(q, b) == OfMinute(q, b.bar.ts, b.seen)

IsFirst(k, S) == k \in S /\ \A j \in S : k <= j
IsLast(k, S) == k \in S /\ \A j \in S : j <= k

\* The first s ticks came in the order they were stamped.
Ordered(q, s) ==
  \A j \in 1..s : \A i \in 1..j : q[i].minute <= q[j].minute /\ q[i].volume <= q[j].volume
InOrder(q, b) == Ordered(q, b.seen)

\* The open, high, low and close of the ticks S of q, and the day's volume at the last one.
Shows(q, S, open, high, low, close) ==
  /\ \E k \in S : IsFirst(k, S) /\ open = q[k].price
  /\ \E k \in S : IsLast(k, S) /\ close = q[k].price
  /\ \E k \in S : high = q[k].price
  /\ \E k \in S : low = q[k].price
  /\ \A k \in S : low <= q[k].price /\ q[k].price <= high
EndsAt(q, S, volume) == \E k \in S : IsLast(k, S) /\ volume = q[k].volume

Faithful(q, b) == Shows(q, Made(q, b), b.bar.open, b.bar.high, b.bar.low, b.bar.close)
VolumeSince(q, last, b) ==
  \E j \in Made(q, last), k \in Made(q, b) :
    /\ IsLast(j, Made(q, last)) /\ IsLast(k, Made(q, b))
    /\ b.bar.volume = q[k].volume - q[j].volume

\* Every bar is the OHLC of exactly the ticks of its own minute taken before it closed, as
\* long as no tick overtook another.
BarsFaithful ==
  \A t \in Token : \A i \in DOMAIN bars[t] :
    InOrder(log[t], bars[t][i]) => Faithful(log[t], bars[t][i])

\* A bar's volume is what was traded since the previous bar's last tick, across dead
\* minutes too, and the first bar's is 0: no volume is counted twice or lost, as long as
\* no tick overtook another.  (A bar given up after a signal takes its volume with it.)
VolumeIsDelta ==
  \A t \in Token : \A i \in DOMAIN bars[t] : InOrder(log[t], bars[t][i]) =>
    IF i = 1 THEN bars[t][i].bar.volume = 0
    ELSE VolumeSince(log[t], bars[t][i - 1], bars[t][i])

\* No bar leaves the aggregator while its minute still runs on both clocks, whatever the
\* skew between them: on a host that is not ahead the engine never acts on a bar that could
\* still change, and one that is ahead is the only thing that can make it.
Over(m) == m < exch \/ m < host
ClosedMinutesOnly ==
  /\ pending # None => Over(pending.bar.ts)
  /\ \A t \in Token : \A i \in DOMAIN bars[t] : Over(bars[t][i].bar.ts)

\* Why BarsInOrder holds: a token's bars that left emit, then the one inside emit, then
\* lastClosed, then the forming minute are in increasing order.
OrderInv ==
  /\ \A t \in Token : agg[t].cur # None => agg[t].lastClosed < agg[t].cur.minute
  /\ \A t \in Token : \A i \in DOMAIN bars[t] : bars[t][i].bar.ts <= agg[t].lastClosed
  /\ pending # None =>
       /\ pending.bar.ts <= agg[pending.token].lastClosed
       /\ \A i \in DOMAIN bars[pending.token] : bars[pending.token][i].bar.ts < pending.bar.ts
  /\ BarsInOrder

\* Why ClosedMinutesOnly holds: no tick is from the future of the exchange's clock, and no
\* round of the ticker from that of the host's.
ClockInv ==
  /\ \A i \in DOMAIN ticks : ticks[i].minute <= exch
  /\ \A t \in Token : agg[t].cur # None => agg[t].cur.minute <= exch
  /\ mgr.now <= host
  /\ ClosedMinutesOnly

\* All the bars of a token that have been made: those that left emit, and the one in it.
Holds(t) == pending # None /\ pending.token = t
AllMade(t) ==
  IF Holds(t) THEN Append(bars[t], [bar |-> pending.bar, seen |-> pending.seen]) ELSE bars[t]

\* The minute a forms, or else closed last.
Newest(a) == IF a.cur = None THEN a.lastClosed ELSE a.cur.minute
\* The forming minute p shows the ticks of its minute taken so far.
Forms(q, p) ==
  LET S == OfMinute(q, p.minute, Len(q))
  IN  Shows(q, S, p.open, p.high, p.low, p.closeP) /\ EndsAt(q, S, p.endVolume)

\* Why BarsFaithful and VolumeIsDelta hold, of one token: q has been taken, a is what that
\* has left and m are the bars made of it.  No tick is newer than Newest; as long as the
\* ticks are in order, the forming minute shows its own and the volume baseline is the
\* volume the last bar ends at.
FaithInv(q, a, m) ==
  /\ \A k \in DOMAIN q : q[k].minute <= Newest(a)
  /\ \A i \in DOMAIN m : m[i].seen <= Len(q) /\ m[i].bar.ts <= a.lastClosed
  /\ Ordered(q, Len(q)) /\ a.cur # None => Forms(q, a.cur)
  /\ a.haveLastVolume <=> m # <<>>
  /\ Ordered(q, Len(q)) /\ m # <<>> => EndsAt(q, Made(q, m[Len(m)]), a.lastVolume)
  /\ \A i \in DOMAIN m : InOrder(q, m[i]) =>
       /\ Faithful(q, m[i])
       /\ IF i = 1 THEN m[i].bar.volume = 0 ELSE VolumeSince(q, m[i - 1], m[i])

HistoryInv == \A t \in Token : FaithInv(log[t], agg[t], AllMade(t))

\* A minute that has a tick closes without needing another tick: a quiet minute still
\* gets its bar, unless the process is told to stop.
EveryMinuteCloses ==
  \A t \in Token, m \in Minute :
    (agg[t].cur # None /\ agg[t].cur.minute = m)
      ~> (cancelled \/ \E i \in DOMAIN bars[t] : bars[t][i].bar.ts = m)
=============================================================================
