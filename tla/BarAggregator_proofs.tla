------------------------ MODULE BarAggregator_proofs ------------------------
(***************************************************************************)
(* BarAggregator for any tokens, prices and channel capacities, and two    *)
(* clocks that nothing holds together: bars come out in order however the  *)
(* ticks arrive, and none before its minute is over on one of the clocks;  *)
(* a bar shows the prices and the volume of its ticks as long as none      *)
(* overtook another.                                                       *)
(***************************************************************************)
EXTENDS BarAggregator, TLAPS

\* A forming minute is a record, so it is not None.
LEMMA VolumeDeltaType ==
  ASSUME NEW a \in Aggregate, a.cur \in Partial
  PROVE  VolumeDelta(a) \in Nat
  BY DEF VolumeDelta, Aggregate, Partial, Minute

\* finalize returns a bar of the forming minute and closes that minute.
LEMMA FinalizeType ==
  ASSUME NEW a \in Aggregate, a.cur \in Partial
  PROVE  /\ FinalBar(a) \in Bar /\ FinalBar(a).ts = a.cur.minute
         /\ Finalized(a) \in Aggregate
         /\ Finalized(a).lastClosed = a.cur.minute /\ Finalized(a).cur = None
<1>1. VolumeDelta(a) \in Nat BY VolumeDeltaType
<1>2. FinalBar(a) \in Bar /\ FinalBar(a).ts = a.cur.minute
  BY <1>1 DEF FinalBar, Bar, Partial
<1>3. a.cur.minute \in 0..MaxMinute /\ a.cur.endVolume \in Nat
  BY ClockAssumption DEF Partial, Minute
<1>4. /\ Finalized(a) \in Aggregate
      /\ Finalized(a).lastClosed = a.cur.minute /\ Finalized(a).cur = None
  BY <1>3 DEF Finalized, Aggregate
<1> QED BY <1>2, <1>4

\* Folding a tick keeps the forming minute's type and its minute.
LEMMA FoldType ==
  ASSUME NEW p \in Partial, NEW t \in Tick
  PROVE  Folded(p, t) \in Partial /\ Folded(p, t).minute = p.minute
  BY DEF Folded, Partial, Tick

\* What Add leaves behind: either nothing moved, or a later minute forms, or the same
\* one does and no minute was closed.
LEMMA AddEffect ==
  ASSUME NEW a \in Aggregate, NEW t \in Tick,
         a.cur # None => a.lastClosed < a.cur.minute
  PROVE  LET b == AfterAdd(a, t) IN
         /\ b \in Aggregate
         /\ b.cur # None => b.lastClosed < b.cur.minute
         /\ b.cur # None => b.cur.minute = t.minute \/ (a.cur # None /\ b.cur.minute = a.cur.minute)
         /\ b.lastClosed = IF ~Late(a, t.minute) /\ Rolls(a, t) THEN a.cur.minute
                           ELSE a.lastClosed
<1> DEFINE b == AfterAdd(a, t)
<1>1. CASE Late(a, t.minute) BY <1>1 DEF AfterAdd
<1>2. CASE ~Late(a, t.minute) /\ Rolls(a, t)
  <2>1. a.cur \in Partial BY <1>2 DEF Rolls, Aggregate
  <2>2. Finalized(a) \in Aggregate /\ Finalized(a).lastClosed = a.cur.minute
    BY <2>1, FinalizeType
  <2>3. Opened(t) \in Partial /\ Opened(t).minute = t.minute
    BY DEF Opened, Partial, Tick
  <2>4. b = [Finalized(a) EXCEPT !.cur = Opened(t)] BY <1>2 DEF AfterAdd
  <2>5. b \in Aggregate /\ b.cur = Opened(t) /\ b.lastClosed = a.cur.minute
    BY <2>2, <2>3, <2>4 DEF Aggregate
  <2> QED BY <1>2, <2>3, <2>5 DEF Rolls
<1>3. CASE ~Late(a, t.minute) /\ ~Rolls(a, t)
  <2>1. Opened(t) \in Partial /\ Opened(t).minute = t.minute
    BY DEF Opened, Partial, Tick
  <2>2. CASE a.cur = None
    <3>1. b = [a EXCEPT !.cur = Opened(t)] BY <1>3, <2>2 DEF AfterAdd
    <3>2. b \in Aggregate /\ b.cur = Opened(t) /\ b.lastClosed = a.lastClosed
      BY <2>1, <3>1 DEF Aggregate
    <3>3. a.lastClosed < t.minute
      BY <1>3, ClockAssumption DEF Late, Aggregate, Tick, Minute
    <3> QED BY <1>3, <2>1, <3>2, <3>3
  <2>3. CASE a.cur # None
    <3>1. a.cur \in Partial BY <2>3 DEF Aggregate
    <3>2. Folded(a.cur, t) \in Partial /\ Folded(a.cur, t).minute = a.cur.minute
      BY <3>1, FoldType
    <3>3. b = [a EXCEPT !.cur = Folded(a.cur, t)] BY <1>3, <2>3 DEF AfterAdd
    <3>4. b \in Aggregate /\ b.cur = Folded(a.cur, t) /\ b.lastClosed = a.lastClosed
      BY <3>2, <3>3 DEF Aggregate
    <3> QED BY <1>3, <2>3, <3>2, <3>4
  <2> QED BY <2>2, <2>3
<1> QED BY <1>1, <1>2, <1>3

\* The Manager and everything around it start in order, with nothing from the future.
LEMMA InitEstablishes == Init => TypeOK /\ OrderInv /\ ClockInv
<1> SUFFICES ASSUME Init PROVE TypeOK /\ OrderInv /\ ClockInv
  OBVIOUS
<1> USE ClockAssumption, CapAssumption DEF Init
<1>1. exch \in Minute /\ exch = 1 /\ host \in Minute /\ host = 1 BY DEF Minute
<1>2. agg \in [Token -> Aggregate] BY DEF Aggregate
<1>3. TypeOK
  <2>1. sent \in [Token -> Nat] /\ dayVolume \in [Token -> Nat]
    BY <1>1
  <2>2. mgr \in [pc : {"select", "closing", "gone"}, now : Int, todo : SUBSET Token]
    OBVIOUS
  <2>3. /\ ticks \in Seq(Tick) /\ Len(ticks) <= TicksCap
        /\ out \in Seq(Pending) /\ Len(out) <= OutCap
    OBVIOUS
  <2>4. log \in [Token -> Seq(Tick)] /\ bars \in [Token -> Seq(EmittedBar)]
    OBVIOUS
  <2> QED BY <1>1, <1>2, <2>1, <2>2, <2>3, <2>4 DEF TypeOK
<1>4. OrderInv BY DEF OrderInv, BarsInOrder
<1>5. ClockInv BY <1>1 DEF ClockInv, ClosedMinutesOnly
<1> QED BY <1>3, <1>4, <1>5

\* A sequence's elements and its tail.
LEMMA Elements ==
  ASSUME NEW S, NEW s \in Seq(S)
  PROVE  /\ \A i \in DOMAIN s : s[i] \in S
         /\ s # <<>> => /\ Head(s) \in S /\ Tail(s) \in Seq(S) /\ Len(Tail(s)) = Len(s) - 1
                        /\ \A i \in DOMAIN Tail(s) : i + 1 \in DOMAIN s /\ Tail(s)[i] = s[i + 1]
                        /\ 1 \in DOMAIN s /\ Head(s) = s[1]
  OBVIOUS

\* An emitted bar is of a minute of the day.
LEMMA EmittedMinutes ==
  ASSUME TypeOK
  PROVE  \A t \in Token : \A i \in DOMAIN bars[t] : bars[t][i].bar.ts \in Minute
<1> SUFFICES ASSUME NEW t \in Token, NEW i \in DOMAIN bars[t] PROVE bars[t][i].bar.ts \in Minute
  OBVIOUS
<1>1. bars[t] \in Seq(EmittedBar) BY DEF TypeOK
<1>2. bars[t][i] \in EmittedBar BY <1>1, Elements
<1> QED BY <1>2 DEF EmittedBar, Bar

\* Taking a tick from the channel keeps the types, the order and the clock bound.
LEMMA TakeTickPreserves ==
  ASSUME TypeOK, OrderInv, TakeTick
  PROVE  TypeOK' /\ OrderInv' /\ (ClockInv => ClockInv')
<1> DEFINE t == Head(ticks)
           a == agg[t.token]
           b == AfterAdd(a, t)
           rolls == ~Late(a, t.minute) /\ Rolls(a, t)
<1> USE DEF TakeTick
<1>1. /\ ticks \in Seq(Tick) /\ ticks # <<>> /\ t \in Tick /\ t.token \in Token
      /\ ticks' = Tail(ticks) /\ ticks' \in Seq(Tick) /\ Len(ticks') <= TicksCap
  <2>1. ticks \in Seq(Tick) /\ ticks # <<>> /\ Len(ticks) \in Nat /\ Len(ticks) <= TicksCap
        /\ ticks' = Tail(ticks)
    BY DEF TypeOK
  <2>2. t \in Tick /\ ticks' \in Seq(Tick) /\ Len(ticks') = Len(ticks) - 1 BY <2>1, Elements
  <2>3. t.token \in Token BY <2>2 DEF Tick
  <2> QED BY <2>1, <2>2, <2>3, CapAssumption
<1>2. a \in Aggregate /\ (a.cur # None => a.lastClosed < a.cur.minute)
  BY <1>1 DEF TypeOK, OrderInv
<1>3. /\ b \in Aggregate
      /\ b.cur # None => b.lastClosed < b.cur.minute
      /\ b.cur # None => b.cur.minute = t.minute \/ (a.cur # None /\ b.cur.minute = a.cur.minute)
      /\ b.lastClosed = IF rolls THEN a.cur.minute ELSE a.lastClosed
  BY <1>1, <1>2, AddEffect
<1>4. agg' = [agg EXCEPT ![t.token] = b] /\ agg' \in [Token -> Aggregate]
      /\ agg'[t.token] = b /\ \A u \in Token : u # t.token => agg'[u] = agg[u]
  BY <1>1, <1>3 DEF TypeOK
<1>5. rolls => a.cur \in Partial /\ a.cur # None /\ a.cur.minute < t.minute
  BY <1>1, <1>2, ClockAssumption DEF Rolls, Aggregate, Partial, Tick, Minute
<1>6. /\ pending' \in Pending \cup {None}
      /\ pending' # None => rolls /\ pending'.token = t.token /\ pending'.bar.ts = a.cur.minute
  <2>1. CASE rolls
    <3>1. FinalBar(a) \in Bar /\ FinalBar(a).ts = a.cur.minute BY <1>2, <1>5, <2>1, FinalizeType
    <3>2. Len(log[t.token]) \in Nat BY <1>1 DEF TypeOK
    <3> QED BY <1>1, <2>1, <3>1, <3>2 DEF Emitting, Pending
  <2>2. CASE ~rolls BY <2>2
  <2> QED BY <2>1, <2>2
<1>7. log' \in [Token -> Seq(Tick)] BY <1>1 DEF TypeOK
<1>8. TypeOK' BY <1>1, <1>4, <1>6, <1>7 DEF TypeOK, envVars
<1>9. a.lastClosed <= b.lastClosed /\ (rolls => a.lastClosed < b.lastClosed)
  BY <1>2, <1>3, <1>5, NoneAssumption, ClockAssumption DEF Aggregate, Partial, Minute
<1>10. \A u \in Token : \A i \in DOMAIN bars[u] : bars[u][i].bar.ts \in Minute
  BY EmittedMinutes
<1>11. OrderInv'
  <2>1. \A u \in Token : agg'[u].cur # None => agg'[u].lastClosed < agg'[u].cur.minute
    BY <1>3, <1>4 DEF OrderInv
  <2>2. \A u \in Token : \A i \in DOMAIN bars[u] : bars[u][i].bar.ts <= agg'[u].lastClosed
    <3> SUFFICES ASSUME NEW u \in Token, NEW i \in DOMAIN bars[u]
                 PROVE  bars[u][i].bar.ts <= agg'[u].lastClosed
      OBVIOUS
    <3>1. CASE u # t.token BY <1>4, <3>1 DEF OrderInv
    <3>2. CASE u = t.token
      <4>1. bars[u][i].bar.ts <= a.lastClosed BY <3>2 DEF OrderInv
      <4> QED BY <1>2, <1>3, <1>4, <1>9, <1>10, <3>2, <4>1, ClockAssumption DEF Aggregate, Minute
    <3> QED BY <3>1, <3>2
  <2>3. ASSUME pending' # None
        PROVE  /\ pending'.bar.ts <= agg'[pending'.token].lastClosed
               /\ \A i \in DOMAIN bars[pending'.token] :
                    bars[pending'.token][i].bar.ts < pending'.bar.ts
    <3>1. rolls /\ pending'.token = t.token /\ pending'.bar.ts = a.cur.minute BY <1>6, <2>3
    <3>2. \A i \in DOMAIN bars[t.token] : bars[t.token][i].bar.ts <= a.lastClosed
      BY <1>1 DEF OrderInv
    <3>3. a.cur.minute = b.lastClosed /\ a.cur.minute \in Int /\ a.lastClosed \in Int
          /\ a.lastClosed < a.cur.minute
      BY <1>2, <1>3, <1>5, <3>1 DEF Aggregate, Partial, Minute
    <3>4. pending'.bar.ts <= agg'[pending'.token].lastClosed
      BY <1>4, <3>1, <3>3
    <3>5. \A i \in DOMAIN bars[t.token] : bars[t.token][i].bar.ts < a.cur.minute
      BY <1>1, <1>10, <3>2, <3>3, ClockAssumption DEF Minute
    <3> QED BY <3>1, <3>4, <3>5
  <2> QED BY <2>1, <2>2, <2>3 DEF OrderInv, BarsInOrder
<1>12. ClockInv => ClockInv'
  <2> SUFFICES ASSUME ClockInv PROVE ClockInv'
    OBVIOUS
  <2>1. \A i \in DOMAIN ticks' : ticks'[i].minute <= exch'
    BY <1>1, Elements DEF ClockInv, envVars
  <2>2. t.minute <= exch BY <1>1, Elements DEF ClockInv
  <2>3. \A u \in Token : agg'[u].cur # None => agg'[u].cur.minute <= exch'
    BY <1>1, <1>3, <1>4, <2>2 DEF ClockInv, envVars
  <2>4. pending' # None => pending'.bar.ts < exch'
    <3>1. exch' = exch /\ exch \in Int BY DEF TypeOK, Minute, envVars
    <3>2. t.minute \in Int BY <1>1 DEF Tick, Minute
    <3>3. a.cur \in Partial => a.cur.minute \in Int BY DEF Partial, Minute
    <3> QED BY <1>5, <1>6, <2>2, <3>1, <3>2, <3>3
  <2> QED BY <2>1, <2>3, <2>4 DEF ClockInv, ClosedMinutesOnly, Over, envVars
<1> QED BY <1>8, <1>11, <1>12

\* The ticker and the end of Run touch no bar; a round of the ticker is not later than the
\* host's clock.
LEMMA TickerPreserves ==
  ASSUME TypeOK, OrderInv, TickerFires \/ TickerDone \/ ManagerStops
  PROVE  TypeOK' /\ OrderInv' /\ (ClockInv => ClockInv')
<1>1. /\ UNCHANGED <<envVars, ticks, agg, pending, out, log, bars>>
      /\ mgr' \in [pc : {"select", "closing", "gone"}, now : Int, todo : SUBSET Token]
      /\ mgr'.now \in {0, host}
  <2>1. host \in Int BY DEF TypeOK, Minute
  <2>2. CASE TickerFires BY <2>1, <2>2 DEF TickerFires
  <2>3. CASE TickerDone BY <2>3 DEF TickerDone
  <2>4. CASE ManagerStops BY <2>4 DEF ManagerStops
  <2> QED BY <2>2, <2>3, <2>4
<1>2. TypeOK' BY <1>1 DEF TypeOK, envVars
<1>3. OrderInv' BY <1>1 DEF OrderInv, BarsInOrder
<1>4. ASSUME ClockInv PROVE ClockInv'
  <2>1. mgr'.now <= host' BY <1>1 DEF TypeOK, Minute, envVars
  <2> QED BY <1>1, <1>4, <2>1 DEF ClockInv, ClosedMinutesOnly, Over, envVars
<1> QED BY <1>2, <1>3, <1>4

\* Closing one token by the wall clock keeps the types, the order and the clock bound.
LEMMA CloseTokenPreserves ==
  ASSUME TypeOK, OrderInv, NEW t \in Token, CloseToken(t)
  PROVE  TypeOK' /\ OrderInv' /\ (ClockInv => ClockInv')
<1> DEFINE a == agg[t]
<1> USE DEF CloseToken
<1>1. /\ UNCHANGED <<envVars, ticks, out, log, bars>> /\ pending = None
      /\ mgr' \in [pc : {"select", "closing", "gone"}, now : Int, todo : SUBSET Token]
      /\ mgr'.now = mgr.now
  <2>1. mgr' = [mgr EXCEPT !.todo = @ \ {t}] OBVIOUS
  <2>2. mgr \in [pc : {"select", "closing", "gone"}, now : Int, todo : SUBSET Token] BY DEF TypeOK
  <2> QED BY <2>1, <2>2
<1>2. CASE ~Due(a, mgr.now)
  <2>1. UNCHANGED <<pending, agg>> BY <1>2
  <2>2. TypeOK' BY <1>1, <2>1 DEF TypeOK, envVars
  <2>3. OrderInv' BY <1>1, <2>1 DEF OrderInv, BarsInOrder
  <2>4. ClockInv => ClockInv' BY <1>1, <2>1 DEF ClockInv, ClosedMinutesOnly, Over, envVars
  <2> QED BY <2>2, <2>3, <2>4
<1>3. CASE Due(a, mgr.now)
  <2>1. a \in Aggregate /\ a.cur \in Partial /\ a.cur # None /\ a.lastClosed < a.cur.minute
        /\ a.cur.minute + 1 <= mgr.now
    BY <1>3 DEF Due, TypeOK, Aggregate, OrderInv
  <2>2. FinalBar(a) \in Bar /\ FinalBar(a).ts = a.cur.minute /\ Finalized(a) \in Aggregate
        /\ Finalized(a).lastClosed = a.cur.minute /\ Finalized(a).cur = None
    BY <2>1, FinalizeType
  <2>3. a.cur.minute \in Int /\ a.lastClosed \in Int /\ mgr.now \in Int
        /\ exch \in Int /\ host \in Int
    BY <2>1 DEF TypeOK, Aggregate, Partial, Minute
  <2>4. pending' = Emitting(t, FinalBar(a)) /\ agg' = [agg EXCEPT ![t] = Finalized(a)]
    BY <1>3
  <2>5. /\ pending' \in Pending /\ pending'.token = t /\ pending'.bar.ts = a.cur.minute
        /\ agg' \in [Token -> Aggregate] /\ agg'[t] = Finalized(a)
        /\ \A u \in Token : u # t => agg'[u] = agg[u]
    <3>1. Len(log[t]) \in Nat BY DEF TypeOK
    <3> QED BY <2>2, <2>4, <3>1 DEF Emitting, Pending, TypeOK
  <2>6. TypeOK' BY <1>1, <2>5 DEF TypeOK, envVars
  <2>7. \A u \in Token : \A i \in DOMAIN bars[u] : bars[u][i].bar.ts \in Int
    BY EmittedMinutes DEF Minute
  <2>8. \A i \in DOMAIN bars[t] : bars[t][i].bar.ts < a.cur.minute
    BY <2>1, <2>3, <2>7 DEF OrderInv
  <2>9. OrderInv'
    <3>1. \A u \in Token : agg'[u].cur # None => agg'[u].lastClosed < agg'[u].cur.minute
      BY <2>2, <2>5 DEF OrderInv
    <3>2. ASSUME NEW u \in Token, NEW i \in DOMAIN bars[u]
          PROVE  bars[u][i].bar.ts <= agg'[u].lastClosed
      BY <2>2, <2>3, <2>5, <2>7, <2>8 DEF OrderInv
    <3>3. pending'.bar.ts <= agg'[pending'.token].lastClosed BY <2>2, <2>3, <2>5
    <3> QED BY <1>1, <2>5, <2>8, <3>1, <3>2, <3>3 DEF OrderInv, BarsInOrder
  <2>10. ASSUME ClockInv PROVE ClockInv'
    <3>1. a.cur.minute < host /\ host' = host /\ a.cur.minute <= exch /\ exch' = exch
      BY <1>1, <2>1, <2>3, <2>10 DEF ClockInv, envVars
    <3>2. \A u \in Token : agg'[u].cur # None => agg'[u].cur.minute <= exch'
      BY <2>2, <2>5, <2>10, <3>1 DEF ClockInv
    <3> QED BY <1>1, <2>5, <2>10, <3>1, <3>2 DEF ClockInv, ClosedMinutesOnly, Over
  <2> QED BY <2>6, <2>9, <2>10
<1> QED BY <1>2, <1>3

\* The bar that leaves emit is the last of its token's bars.
LEMMA EmitPreserves ==
  ASSUME TypeOK, OrderInv, Emit \/ Abandon
  PROVE  TypeOK' /\ OrderInv' /\ (ClockInv => ClockInv')
<1> DEFINE t == pending.token
           e == [bar |-> pending.bar, seen |-> pending.seen]
<1>0. LeavesEmit BY DEF Emit, Abandon
<1> USE <1>0 DEF LeavesEmit
<1>1. /\ pending \in Pending /\ t \in Token /\ e \in EmittedBar /\ e.bar = pending.bar
      /\ pending.bar.ts \in Minute
  BY DEF TypeOK, Pending, EmittedBar, Bar
<1>2. bars[t] \in Seq(EmittedBar) /\ bars' = [bars EXCEPT ![t] = Append(bars[t], e)]
  BY <1>1 DEF TypeOK
<1>3. /\ bars' \in [Token -> Seq(EmittedBar)]
      /\ bars'[t] = Append(bars[t], e) /\ \A u \in Token : u # t => bars'[u] = bars[u]
  BY <1>1, <1>2 DEF TypeOK
<1>4. /\ DOMAIN bars'[t] = 1..(Len(bars[t]) + 1) /\ DOMAIN bars[t] = 1..Len(bars[t])
      /\ Len(bars[t]) \in Nat /\ bars'[t][Len(bars[t]) + 1] = e
      /\ \A i \in DOMAIN bars[t] : bars'[t][i] = bars[t][i]
  BY <1>1, <1>2, <1>3
<1>5. TypeOK'
  <2>1. out' \in Seq(Pending) /\ Len(out') <= OutCap
    <3>1. CASE Emit
      <4>1. out \in Seq(Pending) /\ Len(out) < OutCap /\ Len(out) \in Nat /\ OutCap \in Nat
        BY <3>1, CapAssumption DEF Emit, TypeOK, Room
      <4> QED BY <1>1, <3>1, <4>1 DEF Emit
    <3>2. CASE Abandon BY <3>2 DEF Abandon, TypeOK
    <3> QED BY <3>1, <3>2
  <2> QED BY <1>3, <2>1 DEF TypeOK, envVars
<1>6. \A i \in DOMAIN bars[t] : bars[t][i].bar.ts < pending.bar.ts
  BY <1>1 DEF OrderInv
<1>7. OrderInv'
  <2>1. \A u \in Token : agg'[u].cur # None => agg'[u].lastClosed < agg'[u].cur.minute
    BY DEF OrderInv
  <2>2. ASSUME NEW u \in Token, NEW i \in DOMAIN bars'[u]
        PROVE  bars'[u][i].bar.ts <= agg'[u].lastClosed
    <3>1. CASE u = t /\ i = Len(bars[t]) + 1 BY <1>4, <3>1 DEF OrderInv
    <3>2. CASE u # t BY <1>3, <2>2, <3>2 DEF OrderInv
    <3>3. CASE u = t /\ i # Len(bars[t]) + 1
      <4>1. i \in DOMAIN bars[t] BY <1>4, <2>2, <3>3
      <4> QED BY <1>4, <3>3, <4>1 DEF OrderInv
    <3> QED BY <3>1, <3>2, <3>3
  <2>3. BarsInOrder'
    <3> SUFFICES ASSUME NEW u \in Token, NEW i \in DOMAIN bars'[u], NEW j \in DOMAIN bars'[u],
                        i < j
                 PROVE  bars'[u][i].bar.ts < bars'[u][j].bar.ts
      BY DEF BarsInOrder
    <3>1. CASE u # t BY <1>3, <3>1 DEF OrderInv, BarsInOrder
    <3>2. CASE u = t /\ j = Len(bars[t]) + 1
      <4>1. i \in DOMAIN bars[t] BY <1>4, <3>2
      <4> QED BY <1>4, <1>6, <3>2, <4>1
    <3>3. CASE u = t /\ j # Len(bars[t]) + 1
      <4>1. i \in DOMAIN bars[t] /\ j \in DOMAIN bars[t] BY <1>4, <3>3
      <4> QED BY <1>4, <3>3, <4>1 DEF OrderInv, BarsInOrder
    <3> QED BY <3>1, <3>2, <3>3
  <2> QED BY <2>1, <2>2, <2>3 DEF OrderInv
<1>8. ASSUME ClockInv PROVE ClockInv'
  <2>1. ASSUME NEW u \in Token, NEW i \in DOMAIN bars'[u] PROVE Over(bars'[u][i].bar.ts)
    <3>1. CASE u = t /\ i = Len(bars[t]) + 1
      BY <1>4, <1>8, <3>1 DEF ClockInv, ClosedMinutesOnly
    <3>2. CASE u # t BY <1>3, <1>8, <2>1, <3>2 DEF ClockInv, ClosedMinutesOnly
    <3>3. CASE u = t /\ i # Len(bars[t]) + 1
      <4>1. i \in DOMAIN bars[t] BY <1>4, <2>1, <3>3
      <4> QED BY <1>4, <1>8, <3>3, <4>1 DEF ClockInv, ClosedMinutesOnly
    <3> QED BY <3>1, <3>2, <3>3
  <2> QED BY <1>8, <2>1 DEF ClockInv, ClosedMinutesOnly, Over, envVars
<1> QED BY <1>5, <1>7, <1>8

\* The consumer, the exchange, the clocks and the signal do not touch the bars; a new tick is not
\* stamped in the future.
LEMMA OutsidePreserves ==
  ASSUME TypeOK, OrderInv, Outside
  PROVE  TypeOK' /\ OrderInv' /\ (ClockInv => ClockInv')
<1>1. CASE ConsumeBar
  <2>1. out' \in Seq(Pending) /\ Len(out') <= OutCap
    <3>1. out \in Seq(Pending) /\ out # <<>> /\ Len(out) \in Nat /\ Len(out) <= OutCap
          /\ out' = Tail(out)
      BY <1>1 DEF ConsumeBar, TypeOK
    <3>2. Tail(out) \in Seq(Pending) /\ Len(Tail(out)) = Len(out) - 1 BY <3>1, Elements
    <3> QED BY <3>1, <3>2, CapAssumption
  <2>2. TypeOK' BY <1>1, <2>1 DEF ConsumeBar, TypeOK, envVars
  <2> QED
    BY <1>1, <2>2 DEF ConsumeBar, OrderInv, BarsInOrder, ClockInv, ClosedMinutesOnly, Over, envVars
<1>2. CASE Feed
  <2>1. PICK t \in Token, m \in {exch - 1, exch} \cap Minute, p \in Price, traded \in Traded :
          TickArrives(t, m, p, dayVolume[t] + traded)
    BY <1>2 DEF Feed
  <2> DEFINE v == dayVolume[t] + traded
             k == [token |-> t, minute |-> m, price |-> p, volume |-> v]
  <2> USE <2>1 DEF TickArrives
  <2>2. v \in Nat /\ dayVolume' \in [Token -> Nat] BY DEF TypeOK
  <2>3. k \in Tick /\ k.minute = m /\ m <= exch BY <2>2 DEF Tick, TypeOK, Minute
  <2>4. sent' \in [Token -> Nat] BY DEF TypeOK
  <2>5. /\ ticks \in Seq(Tick) /\ Len(ticks) \in Nat /\ Len(ticks) < TicksCap
        /\ ticks' = Append(ticks, k)
    BY DEF TypeOK
  <2>6. ticks' \in Seq(Tick) /\ Len(ticks') <= TicksCap BY <2>3, <2>5, CapAssumption
  <2>7. TypeOK' BY <2>2, <2>4, <2>6 DEF TypeOK
  <2>8. OrderInv' BY DEF OrderInv, BarsInOrder
  <2>9. ASSUME ClockInv PROVE ClockInv'
    <3>1. \A i \in DOMAIN ticks' : ticks'[i].minute <= exch'
      BY <2>3, <2>5, <2>9 DEF ClockInv
    <3> QED BY <2>9, <3>1 DEF ClockInv, ClosedMinutesOnly, Over
  <2> QED BY <2>7, <2>8, <2>9
<1>3. CASE ClockMoves \/ HostMoves
  <2>1. /\ exch' \in Minute /\ exch \in Int /\ exch <= exch' /\ exch' \in Int
        /\ host' \in Minute /\ host \in Int /\ host <= host' /\ host' \in Int
    BY <1>3, ClockAssumption DEF ClockMoves, HostMoves, TypeOK, Minute
  <2>2. UNCHANGED <<sent, dayVolume, cancelled, managerVars>> BY <1>3 DEF ClockMoves, HostMoves
  <2>3. TypeOK' BY <2>1, <2>2 DEF TypeOK, managerVars
  <2>4. OrderInv' BY <2>2 DEF managerVars, OrderInv, BarsInOrder
  <2>5. ASSUME ClockInv PROVE ClockInv'
    <3>1. \A i \in DOMAIN ticks : ticks[i].minute \in Int
      <4>1. ticks \in Seq(Tick) BY DEF TypeOK
      <4>2. \A i \in DOMAIN ticks : ticks[i] \in Tick BY <4>1, Elements
      <4> QED BY <4>2 DEF Tick, Minute
    <3>2. \A u \in Token : agg[u].cur # None => agg[u].cur.minute \in Int
      BY DEF TypeOK, Aggregate, Partial, Minute
    <3>3. pending # None => pending.bar.ts \in Int BY DEF TypeOK, Pending, Bar, Minute
    <3>4. \A u \in Token : \A i \in DOMAIN bars[u] : bars[u][i].bar.ts \in Int
      BY EmittedMinutes DEF Minute
    <3>5. mgr.now \in Int BY DEF TypeOK
    <3>6. \A m \in Int : Over(m) => Over(m)' BY <2>1 DEF Over
    <3>7. ClosedMinutesOnly'
      BY <2>2, <2>5, <3>3, <3>4, <3>6 DEF managerVars, ClockInv, ClosedMinutesOnly
    <3>8. /\ \A i \in DOMAIN ticks : ticks[i].minute <= exch'
          /\ \A u \in Token : agg[u].cur # None => agg[u].cur.minute <= exch'
          /\ mgr.now <= host'
      BY <2>1, <2>5, <3>1, <3>2, <3>5 DEF ClockInv
    <3> QED BY <2>2, <3>7, <3>8 DEF managerVars, ClockInv
  <2> QED BY <2>3, <2>4, <2>5
<1>4. CASE Cancel
  <2>1. cancelled' \in BOOLEAN /\ UNCHANGED <<exch, sent, dayVolume, host, managerVars>>
    BY <1>4 DEF Cancel
  <2> QED
    BY <2>1 DEF managerVars, TypeOK, OrderInv, BarsInOrder, ClockInv, ClosedMinutesOnly, Over
<1> QED BY <1>1, <1>2, <1>3, <1>4 DEF Outside

\* Every step keeps the types, the order and the bounds by the clocks.
LEMMA NextPreserves ==
  ASSUME TypeOK, OrderInv, [Next]_vars
  PROVE  TypeOK' /\ OrderInv' /\ (ClockInv => ClockInv')
<1>1. CASE UNCHANGED vars
  BY <1>1 DEF vars, envVars, TypeOK, OrderInv, BarsInOrder, ClockInv, ClosedMinutesOnly, Over
<1>2. CASE ManagerStep
  BY <1>2, TakeTickPreserves, TickerPreserves, CloseTokenPreserves, EmitPreserves
     DEF ManagerStep
<1>3. CASE Outside BY <1>3, OutsidePreserves
<1> QED BY <1>1, <1>2, <1>3 DEF Next, Ended

\* One bar per minute and in order, for every order of the ticks and every clock skew.
THEOREM BarsAlwaysInOrder == Spec => [](TypeOK /\ BarsInOrder)
<1>1. Init => TypeOK /\ OrderInv BY InitEstablishes
<1>2. TypeOK /\ OrderInv /\ [Next]_vars => TypeOK' /\ OrderInv' BY NextPreserves
<1>3. OrderInv => BarsInOrder BY DEF OrderInv
<1> QED BY <1>1, <1>2, <1>3, PTL DEF Spec

\* The types; both channels stay within their capacity.
THEOREM TypeCorrect == Spec => []TypeOK
  BY BarsAlwaysInOrder, PTL

\* A bar that leaves the aggregator is of a minute that is over on the exchange's clock or on
\* the host's, however far and however often the two drift apart.
THEOREM NoUnfinishedBar == Spec => []ClosedMinutesOnly
<1>1. Init => TypeOK /\ OrderInv /\ ClockInv BY InitEstablishes
<1>2. TypeOK /\ OrderInv /\ ClockInv /\ [Next]_vars => (TypeOK /\ OrderInv /\ ClockInv)'
  BY NextPreserves
<1>3. ClockInv => ClosedMinutesOnly BY DEF ClockInv
<1> QED BY <1>1, <1>2, <1>3, PTL DEF Spec

-----------------------------------------------------------------------------
(* What the bars show                                                       *)

\* Ticks in order are in order up to any of them.
LEMMA OrderedUpTo ==
  ASSUME NEW q, NEW s \in Nat, NEW r \in Nat, r <= s, Ordered(q, s)
  PROVE  Ordered(q, r)
  BY DEF Ordered

\* A further tick changes nothing about the ones before it.
LEMMA PrefixSame ==
  ASSUME NEW q \in Seq(Tick), NEW t \in Tick, NEW s \in Nat, s <= Len(q)
  PROVE  /\ \A k \in 1..s : Append(q, t)[k] = q[k]
         /\ Ordered(Append(q, t), s) <=> Ordered(q, s)
         /\ \A m : OfMinute(Append(q, t), m, s) = OfMinute(q, m, s)
<1> DEFINE r == Append(q, t)
<1>1. \A k \in 1..s : r[k] = q[k] OBVIOUS
<1> HIDE DEF r
<1>2. Ordered(r, s) <=> Ordered(q, s)
  <2>1. \A j \in 1..s : \A i \in 1..j : r[j] = q[j] /\ r[i] = q[i] BY <1>1
  <2> QED BY <2>1 DEF Ordered
<1>3. \A m : OfMinute(r, m, s) = OfMinute(q, m, s) BY <1>1 DEF OfMinute
<1> QED BY <1>1, <1>2, <1>3 DEF r

\* Nor about the bar that has been made of them.
LEMMA BarSame ==
  ASSUME NEW q \in Seq(Tick), NEW t \in Tick, NEW b \in EmittedBar, b.seen <= Len(q)
  PROVE  /\ Made(Append(q, t), b) = Made(q, b) /\ Made(q, b) \subseteq 1..b.seen
         /\ InOrder(Append(q, t), b) <=> InOrder(q, b)
         /\ Faithful(Append(q, t), b) <=> Faithful(q, b)
         /\ \A v : EndsAt(Append(q, t), Made(q, b), v) <=> EndsAt(q, Made(q, b), v)
<1> DEFINE r == Append(q, t)
<1>0. b.seen \in Nat BY DEF EmittedBar
<1>1. \A k \in 1..b.seen : r[k] = q[k] BY <1>0, PrefixSame
<1>2. Made(r, b) = Made(q, b) BY <1>0, PrefixSame DEF Made
<1>3. InOrder(r, b) <=> InOrder(q, b) BY <1>0, PrefixSame DEF InOrder
<1>4. Made(q, b) \subseteq 1..b.seen BY DEF Made, OfMinute
<1> HIDE DEF r
<1>5. \A k \in Made(q, b) : r[k] = q[k] BY <1>1, <1>4
<1>6. Faithful(r, b) <=> Faithful(q, b) BY <1>2, <1>5 DEF Faithful, Shows
<1>7. \A v : EndsAt(r, Made(q, b), v) <=> EndsAt(q, Made(q, b), v) BY <1>5 DEF EndsAt
<1> QED BY <1>2, <1>3, <1>4, <1>6, <1>7 DEF r

LEMMA DeltaSame ==
  ASSUME NEW q \in Seq(Tick), NEW t \in Tick, NEW b \in EmittedBar, b.seen <= Len(q),
         NEW last \in EmittedBar, last.seen <= Len(q)
  PROVE  VolumeSince(Append(q, t), last, b) <=> VolumeSince(q, last, b)
<1> DEFINE r == Append(q, t)
<1>0. b.seen \in Nat /\ last.seen \in Nat BY DEF EmittedBar
<1>1. (\A k \in 1..b.seen : r[k] = q[k]) /\ (\A k \in 1..last.seen : r[k] = q[k])
  BY <1>0, PrefixSame
<1>2. /\ Made(r, b) = Made(q, b) /\ Made(r, last) = Made(q, last)
      /\ Made(q, b) \subseteq 1..b.seen /\ Made(q, last) \subseteq 1..last.seen
  BY BarSame
<1> HIDE DEF r
<1>3. (\A k \in Made(q, b) : r[k] = q[k]) /\ (\A j \in Made(q, last) : r[j] = q[j])
  BY <1>1, <1>2
<1> QED BY <1>2, <1>3 DEF VolumeSince, r

\* A single tick is its own bar.
LEMMA OneShows ==
  ASSUME NEW q, NEW s \in Nat, NEW t \in Tick, q[s] = t
  PROVE  /\ Shows(q, {s}, t.price, t.price, t.price, t.price)
         /\ EndsAt(q, {s}, t.volume)
<1>1. t.price \in Int BY PriceAssumption DEF Tick
<1>2. IsFirst(s, {s}) /\ IsLast(s, {s}) BY DEF IsFirst, IsLast
<1> QED BY <1>1, <1>2 DEF Shows, EndsAt

\* One more tick after those shown is shown as well.
LEMMA FoldShows ==
  ASSUME NEW q \in Seq(Tick), NEW S \in SUBSET DOMAIN q, NEW t \in Tick, NEW p \in Partial,
         Shows(q, S, p.open, p.high, p.low, p.closeP)
  PROVE  LET r == Append(q, t)
             f == Folded(p, t)
             U == S \cup {Len(q) + 1}
         IN  Shows(r, U, f.open, f.high, f.low, f.closeP) /\ EndsAt(r, U, f.endVolume)
<1> DEFINE r == Append(q, t)
           f == Folded(p, t)
           n == Len(q) + 1
           U == S \cup {n}
<1>1. /\ r[n] = t /\ (\A k \in S : r[k] = q[k]) /\ n \in Nat /\ (\A k \in S : k \in Nat /\ k < n)
      /\ \A k \in S : q[k] \in Tick
  OBVIOUS
<1>2. /\ t.price \in Int /\ p.high \in Int /\ p.low \in Int
      /\ \A k \in S : q[k].price \in Int
  BY <1>1, PriceAssumption DEF Tick, Partial
<1>3. /\ f.open = p.open /\ f.closeP = t.price /\ f.endVolume = t.volume
      /\ f.high = IF t.price > p.high THEN t.price ELSE p.high
      /\ f.low = IF t.price < p.low THEN t.price ELSE p.low
  BY DEF Folded, Partial
<1> HIDE DEF r, f, n
<1>4. IsLast(n, U) BY <1>1 DEF IsLast
<1>5. \E k \in U : IsFirst(k, U) /\ f.open = r[k].price
  <2>1. PICK k \in S : IsFirst(k, S) /\ p.open = q[k].price BY DEF Shows
  <2>2. IsFirst(k, U) BY <1>1, <2>1 DEF IsFirst
  <2> QED BY <1>1, <1>3, <2>1, <2>2
<1>6. \E k \in U : IsLast(k, U) /\ f.closeP = r[k].price BY <1>1, <1>3, <1>4
<1>7. \E k \in U : f.high = r[k].price
  <2>1. CASE t.price > p.high BY <1>1, <1>3, <2>1
  <2>2. CASE ~(t.price > p.high)
    <3>1. PICK k \in S : p.high = q[k].price BY DEF Shows
    <3> QED BY <1>1, <1>3, <2>2, <3>1
  <2> QED BY <2>1, <2>2
<1>8. \E k \in U : f.low = r[k].price
  <2>1. CASE t.price < p.low BY <1>1, <1>3, <2>1
  <2>2. CASE ~(t.price < p.low)
    <3>1. PICK k \in S : p.low = q[k].price BY DEF Shows
    <3> QED BY <1>1, <1>3, <2>2, <3>1
  <2> QED BY <2>1, <2>2
<1>9. \A k \in U : f.low <= r[k].price /\ r[k].price <= f.high
  <2>1. ASSUME NEW k \in S PROVE f.low <= r[k].price /\ r[k].price <= f.high
    <3>1. p.low <= q[k].price /\ q[k].price <= p.high BY DEF Shows
    <3> QED BY <1>1, <1>2, <1>3, <3>1
  <2>2. f.low <= r[n].price /\ r[n].price <= f.high BY <1>1, <1>2, <1>3
  <2> QED BY <2>1, <2>2
<1>10. EndsAt(r, U, f.endVolume) BY <1>1, <1>3, <1>4 DEF EndsAt
<1> QED BY <1>5, <1>6, <1>7, <1>8, <1>9, <1>10 DEF Shows, r, f, n

\* Closing the forming minute: the bar shows its ticks, and the baseline moves on to it.
LEMMA FinalizeKeeps ==
  ASSUME NEW q \in Seq(Tick), NEW a \in Aggregate, NEW m \in Seq(EmittedBar),
         a.cur \in Partial, a.lastClosed < a.cur.minute, FaithInv(q, a, m)
  PROVE  FaithInv(q, Finalized(a), Append(m, [bar |-> FinalBar(a), seen |-> Len(q)]))
<1> DEFINE e == [bar |-> FinalBar(a), seen |-> Len(q)]
           w == Append(m, e)
           f == Finalized(a)
<1>1. /\ f.cur = None /\ f.lastClosed = a.cur.minute /\ f.haveLastVolume = TRUE
      /\ f.lastVolume = a.cur.endVolume
  BY DEF Finalized, Aggregate
<1>2. /\ e.seen = Len(q) /\ Len(q) \in Nat /\ e.bar.ts = a.cur.minute
      /\ e.bar.open = a.cur.open /\ e.bar.high = a.cur.high /\ e.bar.low = a.cur.low
      /\ e.bar.close = a.cur.closeP /\ e.bar.volume = VolumeDelta(a)
  BY DEF FinalBar
<1>3. a.cur # None BY NoneAssumption
<1>4. a.cur.minute \in Int /\ a.lastClosed \in Int BY DEF Partial, Minute, Aggregate
<1>5. /\ Len(w) = Len(m) + 1 /\ Len(m) \in Nat /\ w # <<>> /\ w[Len(m) + 1] = e
      /\ DOMAIN w = 1..(Len(m) + 1) /\ DOMAIN m = 1..Len(m)
      /\ \A i \in DOMAIN m : w[i] = m[i] /\ m[i] \in EmittedBar
  OBVIOUS
<1>6. Made(q, e) = OfMinute(q, a.cur.minute, Len(q)) /\ (InOrder(q, e) <=> Ordered(q, Len(q)))
  BY <1>2 DEF Made, InOrder
<1> HIDE DEF e, w, f
<1>7. \A k \in DOMAIN q : q[k].minute <= Newest(f) BY <1>1, <1>3 DEF FaithInv, Newest
<1>8. \A i \in DOMAIN w : w[i].seen <= Len(q) /\ w[i].bar.ts <= f.lastClosed
  <2>1. ASSUME NEW i \in DOMAIN m PROVE w[i].seen <= Len(q) /\ w[i].bar.ts <= f.lastClosed
    <3>1. m[i].bar.ts <= a.lastClosed /\ m[i].seen <= Len(q) BY DEF FaithInv
    <3>2. m[i].bar.ts \in Int BY <1>5 DEF EmittedBar, Bar, Minute
    <3> QED BY <1>1, <1>4, <1>5, <3>1, <3>2
  <2>2. e.seen <= Len(q) /\ e.bar.ts <= f.lastClosed BY <1>1, <1>2, <1>4
  <2> QED BY <1>5, <2>1, <2>2
<1>9. ASSUME Ordered(q, Len(q))
      PROVE  Faithful(q, e) /\ EndsAt(q, Made(q, e), a.cur.endVolume)
  <2>1. Forms(q, a.cur) BY <1>3, <1>9 DEF FaithInv
  <2> QED BY <1>2, <1>6, <2>1 DEF Forms, Faithful
<1>10. Ordered(q, Len(q)) => EndsAt(q, Made(q, w[Len(w)]), f.lastVolume) BY <1>1, <1>5, <1>9
<1>11. ASSUME Ordered(q, Len(q)), m # <<>>
       PROVE  VolumeSince(q, m[Len(m)], e)
  <2> DEFINE last == m[Len(m)]
  <2>1. Len(m) \in DOMAIN m /\ last \in EmittedBar BY <1>5, <1>11
  <2>2. last.seen <= Len(q) /\ last.bar.ts <= a.lastClosed /\ last.bar.ts \in Int /\ last.seen \in Nat
    BY <2>1 DEF FaithInv, EmittedBar, Bar, Minute
  <2>3. a.haveLastVolume /\ EndsAt(q, Made(q, last), a.lastVolume) BY <1>11 DEF FaithInv
  <2> HIDE DEF last
  <2>4. PICK j \in Made(q, last) : IsLast(j, Made(q, last)) /\ a.lastVolume = q[j].volume
    BY <2>3 DEF EndsAt
  <2>5. PICK k \in Made(q, e) : IsLast(k, Made(q, e)) /\ a.cur.endVolume = q[k].volume
    BY <1>9, <1>11 DEF EndsAt
  <2>6. /\ j \in 1..Len(q) /\ q[j].minute = last.bar.ts
        /\ k \in 1..Len(q) /\ q[k].minute = a.cur.minute
    BY <1>2, <2>2, <2>4, <2>5 DEF Made, OfMinute
  <2>7. q[j].minute < q[k].minute BY <1>4, <2>2, <2>6
  <2>8. j <= k
    <3>1. SUFFICES ASSUME k <= j PROVE j = k BY <2>6
    <3>2. q[k].minute <= q[j].minute BY <1>11, <2>6, <3>1 DEF Ordered
    <3> QED BY <1>4, <2>2, <2>6, <2>7, <3>2
  <2>9. q[j].volume <= q[k].volume BY <1>11, <2>6, <2>8 DEF Ordered
  <2>10. a.cur.endVolume \in Nat /\ a.lastVolume \in Nat BY DEF Partial, Aggregate
  <2>11. e.bar.volume = q[k].volume - q[j].volume
    BY <1>2, <2>3, <2>4, <2>5, <2>9, <2>10 DEF VolumeDelta
  <2> QED BY <2>4, <2>5, <2>11 DEF VolumeSince, last
<1>12. ASSUME NEW i \in DOMAIN w, InOrder(q, w[i])
       PROVE  /\ Faithful(q, w[i])
              /\ IF i = 1 THEN w[i].bar.volume = 0 ELSE VolumeSince(q, w[i - 1], w[i])
  <2>1. CASE i \in DOMAIN m
    <3>1. i # 1 => i - 1 \in DOMAIN m /\ w[i - 1] = m[i - 1] BY <1>5, <2>1
    <3> QED BY <1>5, <1>12, <2>1, <3>1 DEF FaithInv
  <2>2. CASE i = Len(m) + 1
    <3>1. w[i] = e /\ Ordered(q, Len(q)) BY <1>5, <1>6, <1>12, <2>2
    <3>2. CASE m = <<>>
      <4>1. i = 1 /\ ~a.haveLastVolume BY <2>2, <3>2 DEF FaithInv
      <4>2. e.bar.volume = 0 BY <1>2, <4>1 DEF VolumeDelta
      <4> QED BY <1>9, <3>1, <4>1, <4>2
    <3>3. CASE m # <<>>
      <4>1. i # 1 /\ w[i - 1] = m[Len(m)]
        <5>1. Len(m) \in DOMAIN m BY <1>5, <3>3
        <5> QED BY <1>5, <2>2, <5>1
      <4> QED BY <1>9, <1>11, <3>1, <3>3, <4>1
    <3> QED BY <3>2, <3>3
  <2> QED BY <1>5, <2>1, <2>2
<1> QED BY <1>1, <1>5, <1>7, <1>8, <1>10, <1>12 DEF FaithInv, e, w, f

\* A tick that closes nothing: dropped, or the first of its minute, or folded into it.
LEMMA AddKeeps ==
  ASSUME NEW q \in Seq(Tick), NEW t \in Tick, NEW a \in Aggregate, NEW m \in Seq(EmittedBar),
         a.cur # None => a.lastClosed < a.cur.minute,
         Late(a, t.minute) \/ ~Rolls(a, t), FaithInv(q, a, m)
  PROVE  FaithInv(Append(q, t), AfterAdd(a, t), m)
<1> DEFINE r == Append(q, t)
           b == AfterAdd(a, t)
           n == Len(q) + 1
<1>1. /\ r \in Seq(Tick) /\ Len(r) = n /\ Len(q) \in Nat /\ n \in Nat /\ r[n] = t
      /\ DOMAIN r = 1..n /\ DOMAIN q = 1..Len(q) /\ \A k \in DOMAIN q : r[k] = q[k]
  OBVIOUS
<1>2. /\ t.minute \in Int /\ t.minute >= 1 /\ a.lastClosed \in Nat
      /\ a.cur # None => a.cur \in Partial /\ a.cur.minute \in Int
  BY DEF Tick, Aggregate, Partial, Minute
<1>3. \A k \in DOMAIN q : q[k].minute \in Int /\ q[k].minute <= Newest(a)
  <2>1. \A k \in DOMAIN q : q[k] \in Tick BY Elements
  <2> QED BY <2>1 DEF FaithInv, Tick, Minute
<1>4. Ordered(r, n) => Ordered(q, Len(q))
  <2>1. Ordered(r, n) => Ordered(r, Len(q)) BY <1>1, OrderedUpTo
  <2> QED BY <1>1, <2>1, PrefixSame
<1>5. \A mm : OfMinute(r, mm, n) = IF mm = t.minute THEN OfMinute(q, mm, Len(q)) \cup {n}
                                   ELSE OfMinute(q, mm, Len(q))
  <2>1. 1..n = 1..Len(q) \cup {n} BY <1>1
  <2> QED BY <1>1, <2>1 DEF OfMinute
<1> HIDE DEF r, n
<1>6. /\ b.lastClosed = a.lastClosed /\ b.haveLastVolume = a.haveLastVolume
      /\ b.lastVolume = a.lastVolume
      /\ (\A k \in DOMAIN r : r[k].minute <= Newest(b))
      /\ Ordered(r, n) /\ b.cur # None => Forms(r, b.cur)
  <2>1. CASE Late(a, t.minute)
    <3>1. b = a /\ t.minute <= a.lastClosed BY <2>1 DEF AfterAdd, Late
    <3>2. t.minute <= Newest(a) BY <1>2, <3>1 DEF Newest
    <3>3. ASSUME Ordered(r, n), a.cur # None PROVE Forms(r, a.cur)
      <4> DEFINE S == OfMinute(q, a.cur.minute, Len(q))
      <4>1. Forms(q, a.cur) BY <1>4, <3>3 DEF FaithInv
      <4>2. OfMinute(r, a.cur.minute, n) = S BY <1>2, <1>5, <3>1, <3>3
      <4>3. \A k \in S : r[k] = q[k] BY <1>1 DEF OfMinute
      <4> HIDE DEF S
      <4>4. Shows(q, S, a.cur.open, a.cur.high, a.cur.low, a.cur.closeP) /\ EndsAt(q, S, a.cur.endVolume)
        BY <4>1 DEF Forms, S
      <4>5. Shows(r, S, a.cur.open, a.cur.high, a.cur.low, a.cur.closeP) /\ EndsAt(r, S, a.cur.endVolume)
        BY <4>3, <4>4 DEF Shows, EndsAt
      <4> QED BY <1>1, <4>2, <4>5 DEF Forms
    <3>4. \A k \in DOMAIN r : r[k].minute <= Newest(a)
      <4>1. \A k \in DOMAIN r : k \in DOMAIN q \/ k = n BY <1>1 DEF n
      <4> QED BY <1>1, <1>3, <3>2, <4>1
    <3> QED BY <3>1, <3>3, <3>4
  <2>2. CASE ~Late(a, t.minute) /\ a.cur = None
    <3>1. b = [a EXCEPT !.cur = Opened(t)] /\ a.lastClosed < t.minute
      BY <1>2, <2>2 DEF AfterAdd, Rolls, Late
    <3>2. /\ b.cur = Opened(t) /\ b.lastClosed = a.lastClosed
          /\ b.haveLastVolume = a.haveLastVolume /\ b.lastVolume = a.lastVolume
      BY <3>1 DEF Aggregate
    <3>3. /\ Opened(t).minute = t.minute /\ Opened(t).open = t.price /\ Opened(t).high = t.price
          /\ Opened(t).low = t.price /\ Opened(t).closeP = t.price
          /\ Opened(t).endVolume = t.volume
          /\ Opened(t) # None
      <4>1. Opened(t) \in Partial BY DEF Opened, Partial, Tick
      <4> QED BY <4>1, NoneAssumption DEF Opened
    <3>4. \A k \in DOMAIN q : q[k].minute < t.minute BY <1>2, <1>3, <2>2, <3>1 DEF Newest
    <3>5. OfMinute(q, t.minute, Len(q)) = {} BY <1>1, <1>2, <1>3, <3>4 DEF OfMinute
    <3>6. OfMinute(r, t.minute, n) = {n} BY <1>5, <3>5
    <3>7. Forms(r, b.cur)
      <4>1. Shows(r, {n}, t.price, t.price, t.price, t.price) /\ EndsAt(r, {n}, t.volume)
        BY <1>1, OneShows
      <4> QED BY <1>1, <3>2, <3>3, <3>6, <4>1 DEF Forms
    <3>8. \A k \in DOMAIN r : r[k].minute <= Newest(b)
      <4>1. \A k \in DOMAIN r : k \in DOMAIN q \/ k = n BY <1>1 DEF n
      <4> QED BY <1>1, <1>2, <1>3, <3>2, <3>3, <3>4, <4>1 DEF Newest
    <3> QED BY <3>2, <3>7, <3>8
  <2>3. CASE ~Late(a, t.minute) /\ a.cur # None
    <3>1. b = [a EXCEPT !.cur = Folded(a.cur, t)] /\ t.minute <= a.cur.minute
      BY <1>2, <2>3 DEF AfterAdd, Rolls
    <3>2. Folded(a.cur, t) \in Partial /\ Folded(a.cur, t).minute = a.cur.minute
      BY <1>2, <2>3, FoldType
    <3>3. /\ b.cur = Folded(a.cur, t) /\ b.lastClosed = a.lastClosed
          /\ b.haveLastVolume = a.haveLastVolume /\ b.lastVolume = a.lastVolume
          /\ b.cur # None
      BY <3>1, <3>2, NoneAssumption DEF Aggregate
    <3>4. \A k \in DOMAIN r : r[k].minute <= Newest(b)
      <4>1. \A k \in DOMAIN r : k \in DOMAIN q \/ k = n BY <1>1 DEF n
      <4> QED BY <1>1, <1>3, <2>3, <3>1, <3>2, <3>3, <4>1 DEF Newest
    <3>5. ASSUME Ordered(r, n) PROVE Forms(r, b.cur)
      <4> DEFINE S == OfMinute(q, a.cur.minute, Len(q))
      <4>1. Shows(q, S, a.cur.open, a.cur.high, a.cur.low, a.cur.closeP)
        BY <1>4, <2>3, <3>5 DEF FaithInv, Forms
      <4>2. t.minute = a.cur.minute
        <5>1. PICK k \in S : TRUE BY <4>1 DEF Shows
        <5>2. k \in 1..Len(q) /\ q[k].minute = a.cur.minute BY <5>1 DEF OfMinute
        <5>3. k \in 1..n /\ n \in 1..n /\ r[k] = q[k] /\ r[n] = t BY <1>1, <5>2 DEF n
        <5>4. r[k].minute <= r[n].minute BY <3>5, <5>3 DEF Ordered
        <5> QED BY <1>2, <2>3, <3>1, <5>2, <5>3, <5>4
      <4>3. OfMinute(r, b.cur.minute, n) = S \cup {n} BY <1>5, <3>2, <3>3, <4>2
      <4>4. S \in SUBSET DOMAIN q BY <1>1 DEF OfMinute
      <4> HIDE DEF S
      <4>5. /\ Shows(r, S \cup {n}, b.cur.open, b.cur.high, b.cur.low, b.cur.closeP)
            /\ EndsAt(r, S \cup {n}, b.cur.endVolume)
        BY <1>2, <2>3, <3>3, <4>1, <4>4, FoldShows DEF r, n
      <4> QED BY <1>1, <4>3, <4>5 DEF Forms
    <3> QED BY <3>3, <3>4, <3>5
  <2> QED BY <2>1, <2>2, <2>3
<1> HIDE DEF b
<1>7. \A i \in DOMAIN m : m[i] \in EmittedBar /\ m[i].seen \in Nat /\ m[i].seen <= Len(q)
  <2>1. \A i \in DOMAIN m : m[i] \in EmittedBar BY Elements
  <2> QED BY <2>1 DEF FaithInv, EmittedBar
<1>8. \A i \in DOMAIN m : m[i].seen <= n /\ m[i].bar.ts <= b.lastClosed
  BY <1>1, <1>6, <1>7 DEF FaithInv, n
<1>9. ASSUME Ordered(r, n), m # <<>> PROVE EndsAt(r, Made(r, m[Len(m)]), b.lastVolume)
  <2>1. Len(m) \in DOMAIN m BY <1>9
  <2>2. EndsAt(q, Made(q, m[Len(m)]), b.lastVolume) BY <1>4, <1>6, <1>9 DEF FaithInv
  <2>3. /\ Made(r, m[Len(m)]) = Made(q, m[Len(m)])
        /\ \A v : EndsAt(r, Made(q, m[Len(m)]), v) <=> EndsAt(q, Made(q, m[Len(m)]), v)
    BY <1>7, <2>1, BarSame DEF r
  <2> QED BY <2>2, <2>3
<1>10. ASSUME NEW i \in DOMAIN m, InOrder(r, m[i])
       PROVE  /\ Faithful(r, m[i])
              /\ IF i = 1 THEN m[i].bar.volume = 0 ELSE VolumeSince(r, m[i - 1], m[i])
  <2>1. InOrder(q, m[i]) /\ (Faithful(r, m[i]) <=> Faithful(q, m[i]))
    BY <1>7, <1>10, BarSame DEF r
  <2>2. i # 1 => i - 1 \in DOMAIN m OBVIOUS
  <2>3. i # 1 => (VolumeSince(r, m[i - 1], m[i]) <=> VolumeSince(q, m[i - 1], m[i]))
    BY <1>7, <2>2, DeltaSame DEF r
  <2> QED BY <2>1, <2>3 DEF FaithInv
<1>11. b.haveLastVolume <=> m # <<>> BY <1>6 DEF FaithInv
<1> QED BY <1>1, <1>6, <1>8, <1>9, <1>10, <1>11 DEF FaithInv, r, b, n

\* A tick of a later minute closes the forming one and then is the first of its own.
LEMMA RollKeeps ==
  ASSUME NEW q \in Seq(Tick), NEW t \in Tick, NEW a \in Aggregate, NEW m \in Seq(EmittedBar),
         a.lastClosed < a.cur.minute, ~Late(a, t.minute), Rolls(a, t), FaithInv(q, a, m)
  PROVE  FaithInv(Append(q, t), AfterAdd(a, t),
                  Append(m, [bar |-> FinalBar(a), seen |-> Len(q)]))
<1> DEFINE f == Finalized(a)
           w == Append(m, [bar |-> FinalBar(a), seen |-> Len(q)])
<1>1. a.cur \in Partial /\ a.cur # None /\ t.minute > a.cur.minute BY DEF Rolls, Aggregate
<1>2. FinalBar(a) \in Bar /\ f \in Aggregate /\ f.lastClosed = a.cur.minute /\ f.cur = None
  BY <1>1, FinalizeType
<1>3. w \in Seq(EmittedBar) BY <1>2 DEF EmittedBar
<1>4. FaithInv(q, f, w) BY <1>1, FinalizeKeeps
<1>5. a.cur.minute \in Int /\ t.minute \in Int BY <1>1 DEF Partial, Tick, Minute
<1>6. AfterAdd(a, t) = [f EXCEPT !.cur = Opened(t)] BY DEF AfterAdd
<1> HIDE DEF f, w
<1>7. ~Late(f, t.minute) /\ ~Rolls(f, t) BY <1>1, <1>2, <1>5 DEF Late, Rolls
<1>8. AfterAdd(f, t) = [f EXCEPT !.cur = Opened(t)] BY <1>2, <1>7 DEF AfterAdd
<1>9. FaithInv(Append(q, t), AfterAdd(f, t), w) BY <1>2, <1>3, <1>4, <1>7, AddKeeps
<1> QED BY <1>6, <1>8, <1>9 DEF w

\* The bars of a token that have been made are bars.
LEMMA MadeTyped ==
  ASSUME TypeOK, NEW u \in Token
  PROVE  AllMade(u) \in Seq(EmittedBar)
<1>1. bars[u] \in Seq(EmittedBar) BY DEF TypeOK
<1>2. Holds(u) => [bar |-> pending.bar, seen |-> pending.seen] \in EmittedBar
  BY DEF TypeOK, Holds, Pending, EmittedBar
<1> QED BY <1>1, <1>2 DEF AllMade

\* The Manager takes a tick.
LEMMA TakeTickFaithful == TypeOK /\ OrderInv /\ HistoryInv /\ TakeTick => HistoryInv'
<1> SUFFICES ASSUME TypeOK, OrderInv, HistoryInv, TakeTick PROVE HistoryInv'
  OBVIOUS
<1>1. PICK t : t = Head(ticks) OBVIOUS
<1>2. PICK a : a = agg[t.token] OBVIOUS
<1> DEFINE rolls == ~Late(a, t.minute) /\ Rolls(a, t)
           e == [bar |-> FinalBar(a), seen |-> Len(log[t.token])]
<1>3. /\ t \in Tick /\ t.token \in Token
  <2>1. ticks \in Seq(Tick) /\ ticks # <<>> BY DEF TypeOK, TakeTick
  <2>2. t \in Tick BY <1>1, <2>1, Elements
  <2> QED BY <2>2 DEF Tick
<1>4. /\ a \in Aggregate /\ (a.cur # None => a.lastClosed < a.cur.minute)
      /\ log[t.token] \in Seq(Tick) /\ bars[t.token] \in Seq(EmittedBar)
  BY <1>2, <1>3 DEF TypeOK, OrderInv
<1>5. /\ agg' = [agg EXCEPT ![t.token] = AfterAdd(a, t)]
      /\ log' = [log EXCEPT ![t.token] = Append(log[t.token], t)]
      /\ pending = None /\ bars' = bars
      /\ pending' = IF rolls THEN Emitting(t.token, FinalBar(a)) ELSE None
  BY <1>1, <1>2 DEF TakeTick
<1>6. \A u \in Token : AllMade(u) = bars[u] BY <1>5 DEF AllMade, Holds
<1>7. /\ agg'[t.token] = AfterAdd(a, t) /\ log'[t.token] = Append(log[t.token], t)
      /\ \A u \in Token : u # t.token => agg'[u] = agg[u] /\ log'[u] = log[u]
  BY <1>3, <1>5 DEF TypeOK
<1>8. FaithInv(log[t.token], a, bars[t.token]) BY <1>2, <1>3, <1>6 DEF HistoryInv
<1>9. CASE rolls
  <2>1. a.cur # None BY <1>9 DEF Rolls
  <2>2. a.lastClosed < a.cur.minute BY <1>4, <2>1
  <2>3. FaithInv(log'[t.token], agg'[t.token], Append(bars[t.token], e))
    BY <1>3, <1>4, <1>7, <1>8, <1>9, <2>2, RollKeeps
  <2>4. pending' = [token |-> t.token, bar |-> FinalBar(a), seen |-> Len(log[t.token])]
    BY <1>5, <1>9 DEF Emitting
  <2>5. pending' # None
    <3>1. a.cur \in Partial BY <1>4, <2>1 DEF Aggregate
    <3>2. FinalBar(a) \in Bar BY <1>4, <3>1, FinalizeType
    <3>3. Len(log[t.token]) \in Nat BY <1>4
    <3>4. pending' \in Pending BY <1>3, <2>4, <3>2, <3>3 DEF Pending
    <3> QED BY <3>4, NoneAssumption
  <2>6. AllMade(t.token)' = Append(bars[t.token], e)
    <3>1. pending'.token = t.token /\ pending'.bar = FinalBar(a)
          /\ pending'.seen = Len(log[t.token])
      BY <2>4
    <3> QED BY <1>5, <2>5, <3>1 DEF AllMade, Holds
  <2>7. \A u \in Token : u # t.token => AllMade(u)' = bars[u]
    BY <1>5, <2>4 DEF AllMade, Holds
  <2>8. \A u \in Token : u # t.token => FaithInv(log'[u], agg'[u], AllMade(u)')
    BY <1>6, <1>7, <2>7 DEF HistoryInv
  <2> QED BY <2>3, <2>6, <2>8 DEF HistoryInv
<1>10. CASE ~rolls
  <2>1. \A u \in Token : AllMade(u)' = bars[u] BY <1>5, <1>10 DEF AllMade, Holds
  <2>2. FaithInv(log'[t.token], agg'[t.token], bars[t.token])
    BY <1>3, <1>4, <1>7, <1>8, <1>10, AddKeeps
  <2>3. \A u \in Token : u # t.token => FaithInv(log'[u], agg'[u], AllMade(u)')
    BY <1>6, <1>7, <2>1 DEF HistoryInv
  <2> QED BY <1>3, <2>1, <2>2, <2>3 DEF HistoryInv
<1> QED BY <1>9, <1>10

\* The ticker closes a token's minute.
LEMMA CloseTokenFaithful ==
  ASSUME TypeOK, OrderInv, HistoryInv, NEW t \in Token, CloseToken(t)
  PROVE  HistoryInv'
<1>1. PICK a : a = agg[t] OBVIOUS
<1>2. pending = None /\ bars' = bars /\ log' = log BY DEF CloseToken
<1>3. \A u \in Token : AllMade(u) = bars[u] BY <1>2 DEF AllMade, Holds
<1>4. CASE ~Due(a, mgr.now)
  <2>1. UNCHANGED <<pending, agg, bars, log>> BY <1>1, <1>2, <1>4 DEF CloseToken
  <2> QED BY <2>1 DEF HistoryInv, AllMade, Holds
<1>5. CASE Due(a, mgr.now)
  <2>1. pending' = Emitting(t, FinalBar(a)) /\ agg' = [agg EXCEPT ![t] = Finalized(a)]
    BY <1>1, <1>5 DEF CloseToken
  <2>2. /\ a \in Aggregate /\ a.cur \in Partial /\ a.lastClosed < a.cur.minute
        /\ log[t] \in Seq(Tick) /\ bars[t] \in Seq(EmittedBar)
    BY <1>1, <1>5 DEF Due, TypeOK, OrderInv, Aggregate
  <2>3. FaithInv(log[t], a, bars[t]) BY <1>1, <1>3 DEF HistoryInv
  <2>4. FaithInv(log[t], Finalized(a), Append(bars[t], [bar |-> FinalBar(a), seen |-> Len(log[t])]))
    BY <2>2, <2>3, FinalizeKeeps
  <2>5. /\ pending'.token = t /\ pending'.bar = FinalBar(a) /\ pending'.seen = Len(log[t])
        /\ pending' # None
    <3>1. FinalBar(a) \in Bar BY <2>2, FinalizeType
    <3>2. Len(log[t]) \in Nat BY <2>2
    <3>3. pending' \in Pending BY <2>1, <3>1, <3>2 DEF Pending, Emitting
    <3> QED BY <2>1, <3>3, NoneAssumption DEF Emitting
  <2>6. /\ AllMade(t)' = Append(bars[t], [bar |-> FinalBar(a), seen |-> Len(log[t])])
        /\ \A u \in Token : u # t => AllMade(u)' = bars[u]
    BY <1>2, <2>5 DEF AllMade, Holds
  <2>7. agg'[t] = Finalized(a) /\ \A u \in Token : u # t => agg'[u] = agg[u]
    BY <2>1 DEF TypeOK
  <2>8. \A u \in Token : u # t => FaithInv(log'[u], agg'[u], AllMade(u)')
    BY <1>2, <1>3, <2>6, <2>7 DEF HistoryInv
  <2>9. FaithInv(log'[t], agg'[t], AllMade(t)') BY <1>2, <2>4, <2>6, <2>7
  <2> QED BY <2>8, <2>9 DEF HistoryInv
<1> QED BY <1>4, <1>5

\* The bar leaves emit: the bars made stay the same.
LEMMA EmitFaithful ==
  ASSUME TypeOK, HistoryInv, LeavesEmit
  PROVE  HistoryInv'
<1>1. pending \in Pending /\ pending.token \in Token /\ pending # None /\ pending' = None
  BY DEF LeavesEmit, TypeOK, Pending
<1>2. PICK t \in Token : t = pending.token BY <1>1
<1>3. bars' = [bars EXCEPT ![t] = Append(bars[t], [bar |-> pending.bar, seen |-> pending.seen])]
  BY <1>2 DEF LeavesEmit
<1>4. /\ bars'[t] = Append(bars[t], [bar |-> pending.bar, seen |-> pending.seen])
      /\ \A u \in Token : u # t => bars'[u] = bars[u]
  BY <1>3 DEF TypeOK
<1>5. \A u \in Token : AllMade(u)' = AllMade(u) BY <1>1, <1>2, <1>4 DEF AllMade, Holds
<1>6. UNCHANGED <<log, agg>> BY DEF LeavesEmit
<1> QED BY <1>5, <1>6 DEF HistoryInv

\* Every step keeps it.
LEMMA NextFaithful == TypeOK /\ OrderInv /\ HistoryInv /\ [Next]_vars => HistoryInv'
<1> SUFFICES ASSUME TypeOK, OrderInv, HistoryInv, [Next]_vars PROVE HistoryInv'
  OBVIOUS
<1>1. CASE UNCHANGED <<log, agg, pending, bars>>
  BY <1>1 DEF HistoryInv, AllMade, Holds
<1>2. \/ TakeTick \/ LeavesEmit \/ (\E t \in Token : CloseToken(t))
      \/ UNCHANGED <<log, agg, pending, bars>>
  BY DEF Next, ManagerStep, TickerFires, TickerDone, Emit, Abandon, ManagerStops, Outside,
         ConsumeBar, Feed, TickArrives, ClockMoves, HostMoves, Cancel, managerVars, Ended, vars
<1> QED BY <1>1, <1>2, TakeTickFaithful, CloseTokenFaithful, EmitFaithful

\* It holds before the first tick.
LEMMA InitFaithful == Init => HistoryInv
<1> SUFFICES ASSUME Init, NEW t \in Token PROVE FaithInv(log[t], agg[t], AllMade(t))
  BY DEF HistoryInv
<1>1. /\ log[t] = <<>> /\ AllMade(t) = <<>>
      /\ agg[t].cur = None /\ ~agg[t].haveLastVolume
  BY DEF Init, AllMade, Holds
<1> QED BY <1>1 DEF FaithInv

\* What is shown of all the bars made is shown of those that left emit.
LEMMA SentAreMade ==
  ASSUME TypeOK, NEW t \in Token, NEW i \in DOMAIN bars[t]
  PROVE  /\ i \in DOMAIN AllMade(t) /\ AllMade(t)[i] = bars[t][i]
         /\ i # 1 => AllMade(t)[i - 1] = bars[t][i - 1]
  BY DEF TypeOK, AllMade

\* The ticks, what is left of them and the bars made of them agree.
THEOREM HistoryInvariance == Spec => [](TypeOK /\ OrderInv /\ HistoryInv)
<1>1. Init => TypeOK /\ OrderInv /\ HistoryInv BY InitEstablishes, InitFaithful
<1>2. TypeOK /\ OrderInv /\ HistoryInv /\ [Next]_vars => (TypeOK /\ OrderInv /\ HistoryInv)'
  BY NextPreserves, NextFaithful
<1> QED BY <1>1, <1>2, PTL DEF Spec

\* A bar is the open, high, low and close of the ticks of its minute, by whichever path its
\* minute was closed, as long as no tick overtook another.
THEOREM BarsAreFaithful == Spec => []BarsFaithful
<1>1. TypeOK /\ OrderInv /\ HistoryInv => BarsFaithful
  BY SentAreMade DEF HistoryInv, FaithInv, BarsFaithful
<1> QED BY <1>1, HistoryInvariance, PTL

\* A bar's volume is what was traded since the last tick of the bar before, and the first
\* bar's is 0, as long as no tick overtook another.
THEOREM VolumesAreDeltas == Spec => []VolumeIsDelta
<1>1. TypeOK /\ OrderInv /\ HistoryInv => VolumeIsDelta
  BY SentAreMade DEF HistoryInv, FaithInv, VolumeIsDelta
<1> QED BY <1>1, HistoryInvariance, PTL
=============================================================================
