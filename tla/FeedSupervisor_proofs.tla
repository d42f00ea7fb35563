----------------------- MODULE FeedSupervisor_proofs -----------------------
(***************************************************************************)
(* FeedSupervisor's safety properties for any set of connections, base     *)
(* tokens and windows, and any channel capacity.  IInv is inductive; one   *)
(* lemma per goroutine shows that its steps preserve it.  At the end, that *)
(* the supervisor implements LiveFeed.                                     *)
(***************************************************************************)
EXTENDS FeedSupervisor, TLAPS

\* Run, Modify, the router and the watchers start in a state that satisfies IInv.
LEMMA InitEstablishesIInv == Init => IInv
<1> SUFFICES ASSUME Init PROVE IInv
  OBVIOUS
<1> USE DEF Init
<1>1. Base \in SUBSET Token /\ {} \in SUBSET Token BY DEF Token
<1>2. attempt \in 0..MaxAttempt /\ ticks \in 0..TickCap BY BoundAssumption
<1>3. TypeOK BY <1>1, <1>2 DEF TypeOK, RunPc, ConnState, SockState, WatcherPc
<1>4. LockInv /\ PublishInv /\ OpenInv /\ SnapInv /\ ModInv /\ SubscriptionsInSync
  BY DEF LockInv, PublishInv, OpenInv, SnapInv, ModInv, SubscriptionsInSync, Connecting,
         Published
<1> QED BY <1>3, <1>4 DEF IInv

\* Run outside connect and readLoop only moves its own program counter and State().
LEMMA LoopPreservesIInv ==
  ASSUME IInv, UNCHANGED <<envVars, panicked>>,
         ReturnCancelled \/ MarketClosed \/ IdleOver \/ StartConnect \/ BackoffOver \/ AfterRead
  PROVE  IInv'
<1> USE ConnAssumption, BoundAssumption
    DEF IInv, TypeOK, RunPc, ConnState, SockState, WatcherPc, LockInv, PublishInv, OpenInv,
        SnapInv, ModInv, SubscriptionsInSync, Connecting, Published,
        lockVars, sockVars, watchVars, modVars, envVars
<1>1. CASE ReturnCancelled BY <1>1 DEF ReturnCancelled
<1>2. CASE MarketClosed BY <1>2 DEF MarketClosed
<1>3. CASE IdleOver BY <1>3 DEF IdleOver
<1>4. CASE StartConnect BY <1>4 DEF StartConnect
<1>5. CASE BackoffOver BY <1>5 DEF BackoffOver
<1>6. CASE AfterRead BY <1>6 DEF AfterRead
<1> QED BY <1>1, <1>2, <1>3, <1>4, <1>5, <1>6

\* connect preserves IInv: the snapshot is taken, subscribed and published without
\* letting connMu go, so desired cannot move in between.
LEMMA ConnectPreservesIInv ==
  ASSUME IInv, UNCHANGED <<envVars, panicked>>, Connect
  PROVE  IInv'
<1> USE ConnAssumption
    DEF IInv, RunPc, ConnState, SockState, WatcherPc, Connecting, Published,
        lockVars, sockVars, watchVars, modVars, envVars
<1>1. CASE LoginReturns \/ DialFails
  BY <1>1 DEF LoginReturns, DialFails, TypeOK, LockInv, PublishInv, OpenInv, SnapInv, ModInv,
              SubscriptionsInSync
<1>2. ASSUME NEW c \in Conn, DialSucceeds(c) PROVE IInv'
  <2> USE <1>2 DEF DialSucceeds
  <2>1. conn = None /\ modPc = "idle" /\ cur' = c /\ c # None
    BY DEF TypeOK, LockInv, PublishInv
  <2>2. TypeOK' BY DEF TypeOK
  <2>3. LockInv' /\ PublishInv' BY <2>1 DEF LockInv, PublishInv
  <2>4. OpenInv' BY <2>1, <2>2 DEF OpenInv, TypeOK
  <2>5. SnapInv' BY <2>1 DEF SnapInv, TypeOK
  <2>6. ModInv' /\ SubscriptionsInSync' BY <2>1 DEF ModInv, SubscriptionsInSync
  <2> QED BY <2>2, <2>3, <2>4, <2>5, <2>6
<1>3. CASE LockForConnect
  <2> USE <1>3 DEF LockForConnect, Unlocked, Snapshot
  <2>1. TypeOK' BY DEF TypeOK
  <2>2. LockInv' /\ PublishInv' /\ OpenInv' BY DEF LockInv, PublishInv, OpenInv
  <2>3. SnapInv' BY DEF SnapInv
  <2>4. ModInv' /\ SubscriptionsInSync' BY DEF LockInv, ModInv, SubscriptionsInSync
  <2> QED BY <2>1, <2>2, <2>3, <2>4
<1>4. CASE SubscribeFails
  <2> USE <1>4 DEF SubscribeFails, CloseAlone
  <2>1. conn = None /\ modPc = "idle" BY DEF LockInv, PublishInv
  <2>2. TypeOK' BY DEF TypeOK
  <2>3. LockInv' /\ PublishInv' BY <2>1 DEF LockInv, PublishInv
  <2>4. OpenInv' BY DEF OpenInv, TypeOK
  <2>5. SnapInv' /\ ModInv' /\ SubscriptionsInSync'
    BY <2>1 DEF SnapInv, ModInv, SubscriptionsInSync
  <2> QED BY <2>2, <2>3, <2>4, <2>5
<1>5. CASE SubscribeSucceeds
  <2> USE <1>5 DEF SubscribeSucceeds
  <2>1. cur \in Conn /\ snap = desired /\ server[cur] = {} /\ modPc = "idle"
    BY DEF TypeOK, LockInv, PublishInv, SnapInv
  <2>2. TypeOK' BY <2>1 DEF TypeOK
  <2>3. LockInv' /\ PublishInv' /\ OpenInv' BY <2>1 DEF LockInv, PublishInv, OpenInv
  <2>4. sock[cur] = "open" => server'[cur] = desired BY <2>1 DEF TypeOK
  <2>5. SnapInv' /\ ModInv' BY <2>1 DEF SnapInv, ModInv
  <2>6. SubscriptionsInSync' BY <2>4 DEF SubscriptionsInSync
  <2> QED BY <2>2, <2>3, <2>5, <2>6
<1> QED BY <1>1, <1>2, <1>3, <1>4, <1>5 DEF Connect

\* readLoop delivers ticks and returns; the connection and the lock are not touched.
LEMMA ReadPreservesIInv ==
  ASSUME IInv, UNCHANGED <<envVars, panicked>>, StartReading \/ ReadLoop
  PROVE  IInv'
<1> USE ConnAssumption, BoundAssumption
    DEF IInv, TypeOK, RunPc, ConnState, SockState, WatcherPc, LockInv, PublishInv, OpenInv,
        SnapInv, ModInv, SubscriptionsInSync, Connecting, Published,
        lockVars, sockVars, watchVars, modVars, envVars
<1>1. CASE StartReading
  <2>1. cur \in Conn BY <1>1 DEF StartReading
  <2>2. watcher' \in [Conn -> WatcherPc] BY <1>1, <2>1 DEF StartReading
  <2> QED BY <1>1, <2>2 DEF StartReading
<1>2. CASE ReadTick BY <1>2 DEF ReadTick
<1>3. CASE DeliverTick BY <1>3 DEF DeliverTick, Room
<1>4. CASE ReadFails \/ DeliverCancelled
  <2> USE <1>4 DEF ReadFails, DeliverCancelled, LeaveReadLoop
  <2>1. lost' \in BOOLEAN /\ pc' = "close" BY DEF AfterReadLoop
  <2>2. loopDone' \in [Conn -> BOOLEAN] OBVIOUS
  <2>3. /\ pc \in {"reading", "deliver"}
        /\ UNCHANGED <<state, attempt, cur, snap, lockVars, sockVars, watcher, modVars, ticks>>
    OBVIOUS
  <2> HIDE <1>4 DEF ReadFails, DeliverCancelled, LeaveReadLoop
  <2> QED BY <2>1, <2>2, <2>3
<1> QED BY <1>1, <1>2, <1>3, <1>4 DEF ReadLoop

\* Closing any connection preserves the parts of IInv about sockets: a closed socket
\* streams nothing, so there is less to keep in step, never more.
LEMMA CloseKeepsSockets ==
  ASSUME TypeOK, NEW c \in Conn, CloseAlone(c)
  PROVE  /\ sock' \in [Conn -> SockState] /\ stopCh' \in [Conn -> BOOLEAN]
         /\ server' \in [Conn -> SUBSET Token]
         /\ sock'[c] = "closed" /\ server'[c] = {}
         /\ \A d \in Conn : sock'[d] = "open" => d # c /\ sock[d] = "open"
         /\ \A d \in Conn : d # c => server'[d] = server[d]
  BY DEF TypeOK, CloseAlone, SockState

\* The two halves of Client.Close as Run calls it, and clearConn, preserve IInv.
LEMMA RunClosePreservesIInv ==
  ASSUME IInv, UNCHANGED envVars,
         (UNCHANGED panicked /\ RunClose) \/ RunCloseStop \/ (UNCHANGED panicked /\ ClearConn)
  PROVE  IInv'
<1> USE ConnAssumption
    DEF IInv, RunPc, ConnState, SockState, WatcherPc, Connecting, Published,
        lockVars, sockVars, watchVars, modVars, envVars
<1>1. CASE ClearConn
  BY <1>1 DEF ClearConn, RunCloseStop, RunClose, TypeOK, LockInv, PublishInv, OpenInv,
              SnapInv, ModInv, SubscriptionsInSync
<1>2. CASE UNCHANGED panicked /\ RunClose /\ ~stopCh[cur]
  BY <1>2 DEF RunClose, TypeOK, LockInv, PublishInv, OpenInv, SnapInv, ModInv,
              SubscriptionsInSync
<1>3. CASE (UNCHANGED panicked /\ RunClose /\ stopCh[cur]) \/ RunCloseStop
  <2> USE DEF RunClose, RunCloseStop
  <2>1. /\ cur \in Conn /\ CloseAlone(cur) /\ pc' = "clear" /\ panicked' \in BOOLEAN
        /\ pc \in {"close", "closeStop"}
        /\ UNCHANGED <<state, attempt, cur, snap, lost, lockVars, watchVars, modVars, ticks>>
    BY <1>3 DEF TypeOK, PublishInv
  <2>2. /\ sock' \in [Conn -> SockState] /\ stopCh' \in [Conn -> BOOLEAN]
        /\ server' \in [Conn -> SUBSET Token]
        /\ sock'[cur] = "closed"
        /\ \A d \in Conn : sock'[d] = "open" => d # cur /\ sock[d] = "open"
    BY <2>1, CloseKeepsSockets
  <2>3. TypeOK' BY <2>1, <2>2 DEF TypeOK
  <2>4. LockInv' /\ PublishInv' BY <2>1 DEF LockInv, PublishInv
  <2>5. OpenInv' BY <2>1, <2>2 DEF OpenInv
  <2>6. SnapInv' BY <2>1 DEF SnapInv
  <2>7. ModInv' /\ SubscriptionsInSync'
    BY <2>1, <2>2 DEF TypeOK, LockInv, PublishInv, ModInv, SubscriptionsInSync
  <2> QED BY <2>3, <2>4, <2>5, <2>6, <2>7
<1> QED BY <1>1, <1>2, <1>3

\* A watcher preserves IInv: all it can do to a connection is close it.
LEMMA WatcherPreservesIInv ==
  ASSUME IInv, UNCHANGED envVars, NEW c \in Conn,
         (UNCHANGED panicked /\ Watcher(c)) \/ WatcherCloseStop(c)
  PROVE  IInv'
<1> USE ConnAssumption
    DEF IInv, RunPc, ConnState, SockState, WatcherPc, Connecting, Published,
        runVars, lockVars, sockVars, watchVars, modVars, envVars
<1>1. CASE /\ UNCHANGED panicked
           /\ WatcherStops(c) \/ WatcherFires(c) \/ (WatcherClose(c) /\ ~stopCh[c])
  BY <1>1 DEF WatcherStops, WatcherFires, WatcherClose, TypeOK, LockInv, PublishInv, OpenInv,
              SnapInv, ModInv, SubscriptionsInSync
<1>2. CASE (UNCHANGED panicked /\ WatcherClose(c) /\ stopCh[c]) \/ WatcherCloseStop(c)
  <2>1. /\ CloseAlone(c) /\ panicked' \in BOOLEAN
        /\ watcher' = [watcher EXCEPT ![c] = "done"]
        /\ UNCHANGED <<runVars, lockVars, loopDone, modVars, ticks>>
    BY <1>2 DEF WatcherClose, WatcherCloseStop, TypeOK
  <2>2. /\ sock' \in [Conn -> SockState] /\ stopCh' \in [Conn -> BOOLEAN]
        /\ server' \in [Conn -> SUBSET Token] /\ server'[c] = {}
        /\ \A d \in Conn : sock'[d] = "open" => d # c /\ sock[d] = "open"
        /\ \A d \in Conn : d # c => server'[d] = server[d]
    BY <2>1, CloseKeepsSockets
  <2>3. TypeOK'
    <3>1. watcher' \in [Conn -> WatcherPc] BY <2>1 DEF TypeOK
    <3> QED BY <2>1, <2>2, <3>1 DEF TypeOK
  <2>4. LockInv' /\ PublishInv' BY <2>1 DEF LockInv, PublishInv
  <2>5. OpenInv' BY <2>1, <2>2 DEF OpenInv
  <2>6. SnapInv' BY <2>1, <2>2 DEF SnapInv, TypeOK, PublishInv
  <2>7. ModInv' /\ SubscriptionsInSync'
    BY <2>1, <2>2 DEF TypeOK, LockInv, PublishInv, ModInv, SubscriptionsInSync
  <2> QED BY <2>3, <2>4, <2>5, <2>6, <2>7
<1> QED BY <1>1, <1>2 DEF Watcher

\* Modify preserves IInv: under connMu, the diff it still has to send is what separates
\* the streamed tokens from the desired ones.
LEMMA ModifyPreservesIInv ==
  ASSUME IInv, UNCHANGED <<envVars, panicked>>, Modify
  PROVE  IInv'
<1> USE ConnAssumption
    DEF IInv, RunPc, ConnState, SockState, WatcherPc, Connecting, Published,
        runVars, lockVars, sockVars, watchVars, modVars, envVars
<1>1. ASSUME NEW W \in Windows, ModifyLocks(W) PROVE IInv'
  <2> USE <1>1 DEF ModifyLocks, Unlocked
  <2>1. W \subseteq Token /\ Window \subseteq Token BY DEF Token, Window, TypeOK
  <2>2. TypeOK' BY <2>1 DEF TypeOK
  <2>3. LockInv' BY DEF LockInv
  <2>4. PublishInv' /\ OpenInv' BY DEF PublishInv, OpenInv
  <2>5. SnapInv' BY DEF SnapInv, LockInv
  <2>6. ModInv'
    <3>1. CASE conn = None BY <3>1 DEF ModInv
    <3>2. CASE conn # None BY <3>2 DEF ModInv, SubscriptionsInSync
    <3> QED BY <3>1, <3>2
  <2>7. SubscriptionsInSync' BY DEF SubscriptionsInSync
  <2> QED BY <2>2, <2>3, <2>4, <2>5, <2>6, <2>7
<1>2. CASE ModifySubscribes
  <2> USE <1>2 DEF ModifySubscribes
  <2>1. conn \in Conn /\ connMu = "modify" /\ conn = cur /\ pc \notin Connecting
    BY DEF TypeOK, LockInv, PublishInv
  <2>2. TypeOK' BY <2>1 DEF TypeOK
  <2>3. LockInv' /\ PublishInv' /\ OpenInv' /\ SnapInv'
    BY <2>1 DEF LockInv, PublishInv, OpenInv, SnapInv
  <2>4. ModInv' BY <2>1 DEF ModInv, TypeOK
  <2>5. SubscriptionsInSync' BY <2>1 DEF SubscriptionsInSync
  <2> QED BY <2>2, <2>3, <2>4, <2>5
<1>3. CASE ModifyUnsubscribes
  <2> USE <1>3 DEF ModifyUnsubscribes
  <2>1. conn \in Conn /\ connMu = "modify" /\ conn = cur /\ pc \notin Connecting
    BY DEF TypeOK, LockInv, PublishInv
  <2>2. TypeOK' BY <2>1 DEF TypeOK
  <2>3. LockInv' /\ PublishInv' /\ OpenInv' /\ SnapInv'
    BY <2>1 DEF LockInv, PublishInv, OpenInv, SnapInv
  <2>4. ModInv' BY DEF ModInv
  <2>5. SubscriptionsInSync' BY <2>1 DEF SubscriptionsInSync, ModInv, TypeOK
  <2> QED BY <2>2, <2>3, <2>4, <2>5
<1> QED BY <1>1, <1>2, <1>3 DEF Modify, ModifyWrites

\* The tick router and the world preserve IInv: a dropped socket streams nothing.
LEMMA OthersPreserveIInv ==
  ASSUME IInv, (UNCHANGED <<envVars, panicked>> /\ Consume) \/ Environment
  PROVE  IInv'
<1> USE ConnAssumption, BoundAssumption
    DEF IInv, TypeOK, RunPc, ConnState, SockState, WatcherPc, LockInv, PublishInv, OpenInv,
        SnapInv, ModInv, SubscriptionsInSync, Connecting, Published,
        runVars, lockVars, sockVars, watchVars, modVars, envVars
<1>1. CASE UNCHANGED <<envVars, panicked>> /\ Consume BY <1>1 DEF Consume
<1>2. CASE Environment
  <2>1. CASE SessionChanges \/ NetworkChanges \/ Cancel
    <3>1. inSession' \in BOOLEAN /\ netUp' \in BOOLEAN /\ cancelled' \in BOOLEAN
      BY <2>1 DEF SessionChanges, NetworkChanges, Cancel
    <3>2. UNCHANGED <<runVars, lockVars, sockVars, watchVars, modVars, ticks, panicked>>
      BY <1>2, <2>1 DEF Environment, SessionChanges, NetworkChanges, Cancel
    <3> QED BY <3>1, <3>2
  <2>2. ASSUME NEW c \in Conn, Drop(c) PROVE IInv'
    <3>1. /\ sock' = [sock EXCEPT ![c] = "dropped"] /\ server' = [server EXCEPT ![c] = {}]
          /\ UNCHANGED <<runVars, lockVars, stopCh, watchVars, modVars, ticks, envVars, panicked>>
      BY <1>2, <2>2 DEF Environment, Drop
    <3>2. /\ sock' \in [Conn -> SockState] /\ server' \in [Conn -> SUBSET Token]
          /\ \A d \in Conn : sock'[d] = "open" =>
               d # c /\ sock[d] = "open" /\ server'[d] = server[d]
          /\ \A d \in Conn : server[d] = {} => server'[d] = {}
      BY <3>1
    <3>3. TypeOK' BY <3>1, <3>2
    <3>4. LockInv' /\ PublishInv' /\ OpenInv' BY <3>1, <3>2
    <3>5. SnapInv' BY <3>1, <3>2
    <3>6. ModInv' /\ SubscriptionsInSync' BY <3>1, <3>2
    <3> QED BY <3>3, <3>4, <3>5, <3>6
  <2> QED BY <1>2, <2>1, <2>2 DEF Environment
<1> QED BY <1>1, <1>2

\* IInv is an invariant of the supervisor.
THEOREM Invariance == Spec => []IInv
<1>1. Init => IInv BY InitEstablishesIInv
<1>2. IInv /\ [Next]_vars => IInv'
  <2> SUFFICES ASSUME IInv, [Next]_vars PROVE IInv'
    OBVIOUS
  <2>1. CASE UNCHANGED vars
    BY <2>1 DEF vars, runVars, lockVars, sockVars, watchVars, modVars, envVars, IInv, TypeOK,
                LockInv, PublishInv, OpenInv, SnapInv, ModInv, SubscriptionsInSync
  <2>2. CASE Environment BY <2>2, OthersPreserveIInv
  <2>3. CASE UNCHANGED envVars /\ (RunCloseStop \/ \E c \in Conn : WatcherCloseStop(c))
    BY <2>3, RunClosePreservesIInv, WatcherPreservesIInv
  <2>4. CASE UNCHANGED <<envVars, panicked>> /\ Run
    BY <2>4, LoopPreservesIInv, ConnectPreservesIInv, ReadPreservesIInv, RunClosePreservesIInv
       DEF Run
  <2>5. CASE /\ UNCHANGED <<envVars, panicked>>
             /\ Modify \/ Consume \/ \E c \in Conn : Watcher(c)
    BY <2>5, ModifyPreservesIInv, OthersPreserveIInv, WatcherPreservesIInv
  <2> QED BY <2>1, <2>2, <2>3, <2>4, <2>5 DEF Next, Process
<1> QED BY <1>1, <1>2, PTL DEF Spec

\* The types, and the tick channel's bound.
THEOREM TypeCorrect == Spec => []TypeOK
  BY Invariance, PTL DEF IInv

\* connect's promise: no Modify is ever lost, whatever it overlaps with.
THEOREM NoModifyIsLost == Spec => []SubscriptionsInSync
  BY Invariance, PTL DEF IInv

\* At most one websocket is open at any time.
THEOREM OneSocketAtATime == Spec => []OneSocket
<1>1. IInv => OneSocket BY DEF IInv, OpenInv, OneSocket
<1> QED BY <1>1, Invariance, PTL

\* A supervisor that idles, backs off or has returned holds no connection.
THEOREM QuietWhenDownHolds == Spec => []QuietWhenDown
<1>1. IInv => QuietWhenDown
  BY DEF IInv, PublishInv, OpenInv, QuietWhenDown, Connecting, Published
<1> QED BY <1>1, Invariance, PTL

-----------------------------------------------------------------------------
(* The supervisor implements LiveFeed: under IInv and StreamInv, which is    *)
(* invariant too, each of its steps is one of the abstract feed or stutters. *)

Stream == UNION {server[c] : c \in Conn}

\* All that streams, streams on the connection Run refers to.
LEMMA StreamIsCurrent ==
  ASSUME IInv, StreamInv
  PROVE  /\ \A c \in Conn : server[c] # {} => c = cur
         /\ cur \in Conn => Stream = server[cur]
         /\ cur \notin Conn => Stream = {}
  BY DEF IInv, OpenInv, StreamInv, Stream

\* If only Run's connection streams after a step, that is all that streams.
LEMMA OneStream ==
  ASSUME cur \in Conn, NEW S, \A c \in Conn : server'[c] = IF c = cur THEN S ELSE {}
  PROVE  Stream' = S
<1>1. \A x \in S : x \in Stream' BY DEF Stream
<1>2. \A x \in Stream' : x \in S BY DEF Stream
<1> QED BY <1>1, <1>2

\* Closing or losing a connection ends the stream as a whole or was not noticed by it.
LEMMA EmptyingLosesAll ==
  ASSUME IInv, StreamInv, NEW c \in Conn, server' = [server EXCEPT ![c] = {}]
  PROVE  Stream' = {} \/ Stream' = Stream
<1>1. \A d \in Conn : server'[d] = IF d = c THEN {} ELSE server[d]
  BY DEF IInv, TypeOK
<1>2. CASE c = cur
  <2>1. \A d \in Conn : server'[d] = {} BY <1>1, <1>2, StreamIsCurrent
  <2> QED BY <2>1 DEF Stream
<1>3. CASE c # cur
  <2>1. \A d \in Conn : server'[d] = server[d] BY <1>1, <1>3, StreamIsCurrent
  <2> QED BY <2>1 DEF Stream
<1> QED BY <1>2, <1>3

-----------------------------------------------------------------------------
(* What each goroutine's steps look like from above.                        *)

\* Nothing visible happens, or a stream is lost.
Unseen ==
  /\ desired' = desired /\ (pc' = "stopped" <=> pc = "stopped")
  /\ Stream' = {} \/ Stream' = Stream

\* A step of the loop or of readLoop is unseen, or it is Run's return.
LEMMA LoopSteps ==
  ASSUME IInv, StreamInv,
         \/ MarketClosed \/ IdleOver \/ StartConnect \/ BackoffOver \/ AfterRead
         \/ LoginReturns \/ DialFails \/ LockForConnect \/ StartReading \/ ReadLoop \/ ClearConn
  PROVE  Unseen /\ StreamInv'
<1>1. /\ desired' = desired /\ UNCHANGED <<sock, server, modPc, modAdd>>
      /\ pc # "stopped" /\ pc' # "stopped"
  BY DEF MarketClosed, IdleOver, StartConnect, BackoffOver, AfterRead, LoginReturns, DialFails,
         LockForConnect, StartReading, ReadLoop, ReadTick, DeliverTick, ReadFails,
         DeliverCancelled, LeaveReadLoop, AfterReadLoop, ClearConn, lockVars, sockVars, modVars
<1> QED BY <1>1 DEF Unseen, Stream, StreamInv

\* A step that closes or loses a connection is unseen.
LEMMA EmptyingSteps ==
  ASSUME IInv, StreamInv, NEW c \in Conn, sock' \in [Conn -> SockState],
         \A d \in Conn : sock'[d] # "open" => d = c \/ sock[d] # "open",
         server' = [server EXCEPT ![c] = {}], UNCHANGED <<desired, modPc, modAdd>>,
         pc' = "stopped" <=> pc = "stopped"
  PROVE  Unseen /\ StreamInv'
<1>1. Unseen BY EmptyingLosesAll DEF Unseen
<1>2. \A d \in Conn : sock'[d] # "open" => server'[d] = {} BY DEF StreamInv, IInv, TypeOK
<1> QED BY <1>1, <1>2 DEF StreamInv

\* connect's steps: the dial publishes nothing, the subscription starts a stream with all
\* that is wanted at that moment.
LEMMA ConnectSteps ==
  ASSUME IInv, StreamInv, Connect
  PROVE  StreamInv' /\ (Unseen \/ (Abstract!Start /\ (pc' = "stopped" <=> pc = "stopped")))
<1>1. CASE LoginReturns \/ DialFails \/ LockForConnect BY <1>1, LoopSteps
<1>2. ASSUME NEW c \in Conn, DialSucceeds(c) PROVE Unseen /\ StreamInv'
  <2> USE <1>2 DEF DialSucceeds, lockVars, modVars
  <2>1. sock' \in [Conn -> SockState] BY DEF IInv, TypeOK, SockState
  <2>2. \A d \in Conn : sock'[d] # "open" => d = c \/ sock[d] # "open" BY DEF IInv, TypeOK
  <2> QED BY <2>1, <2>2, EmptyingSteps
<1>3. CASE SubscribeFails
  <2> USE <1>3 DEF SubscribeFails, CloseAlone, modVars
  <2>1. cur \in Conn BY DEF IInv, TypeOK, PublishInv, Connecting
  <2>2. sock' \in [Conn -> SockState] BY <2>1 DEF IInv, TypeOK, SockState
  <2>3. \A d \in Conn : sock'[d] # "open" => d = cur \/ sock[d] # "open" BY DEF IInv, TypeOK
  <2> QED BY <2>1, <2>2, <2>3, EmptyingSteps
<1>4. CASE SubscribeSucceeds
  <2> USE <1>4 DEF SubscribeSucceeds, modVars
  <2>1. cur \in Conn /\ snap = desired /\ server[cur] = {}
    BY DEF IInv, TypeOK, PublishInv, SnapInv, Connecting
  <2>2. CASE sock[cur] = "open"
    <3>1. server' = [server EXCEPT ![cur] = desired] BY <2>1, <2>2
    <3>2. \A c \in Conn : server'[c] = IF c = cur THEN desired ELSE {}
      BY <3>1, StreamIsCurrent DEF IInv, TypeOK
    <3>3. Stream = {} /\ Stream' = desired BY <2>1, <3>2, StreamIsCurrent, OneStream
    <3>4. StreamInv' BY <2>2, <3>2 DEF StreamInv
    <3> QED BY <3>3, <3>4 DEF Abstract!Start, Stream
  <2>3. CASE sock[cur] # "open" BY <2>3 DEF Unseen, Stream, StreamInv
  <2> QED BY <2>2, <2>3
<1> QED BY <1>1, <1>2, <1>3, <1>4 DEF Connect

\* Modify's steps: the window changes what is wanted, its two writes bring the stream
\* closer to that without touching a token that stays.
LEMMA ModifySteps ==
  ASSUME IInv, StreamInv, Modify
  PROVE  /\ StreamInv' /\ pc' = pc
         /\ Unseen \/ Abstract!Want \/ Abstract!Start \/ Abstract!Follow
<1>1. ASSUME NEW W \in Windows, ModifyLocks(W) PROVE StreamInv' /\ pc' = pc /\ Abstract!Want
  <2> USE <1>1 DEF ModifyLocks, runVars, sockVars, modVars
  <2>1. W \cap Base = {} /\ Base \subseteq desired BY WindowAssumption DEF StreamInv
  <2>2. desired' = Base \cup W BY <2>1 DEF Window
  <2>3. Abstract!Want BY <2>2 DEF Abstract!Want
  <2>4. StreamInv' BY <2>2 DEF StreamInv
  <2> QED BY <2>3, <2>4
<1>2. CASE ModifySubscribes
  <2> USE <1>2 DEF ModifySubscribes, runVars, lockVars
  <2>1. conn \in Conn /\ conn = cur /\ pc # "stopped" /\ Stream = server[cur]
    BY StreamIsCurrent DEF IInv, TypeOK, LockInv, PublishInv, Published
  <2>2. CASE sock[conn] = "open"
    <3>1. \A c \in Conn : server'[c] = IF c = cur THEN Stream \cup modAdd ELSE {}
      BY <2>1, <2>2, StreamIsCurrent DEF IInv, TypeOK
    <3>2. Stream' = Stream \cup modAdd BY <2>1, <3>1, OneStream
    <3>3. modAdd \subseteq desired BY DEF StreamInv
    <3>4. Stream = {} => modAdd = desired BY <2>1, <2>2, <3>3 DEF IInv, ModInv
    <3>5. StreamInv' BY <2>1, <2>2, <3>1 DEF StreamInv
    <3>6. CASE Stream = {} BY <2>1, <3>2, <3>4, <3>5, <3>6 DEF Abstract!Start, Stream
    <3>7. CASE Stream # {} BY <3>2, <3>3, <3>5, <3>7 DEF Abstract!Follow, Stream
    <3> QED BY <3>6, <3>7
  <2>3. CASE sock[conn] # "open" BY <2>3 DEF Unseen, Stream, StreamInv
  <2> QED BY <2>2, <2>3
<1>3. CASE ModifyUnsubscribes
  <2> USE <1>3 DEF ModifyUnsubscribes, runVars
  <2>1. conn \in Conn /\ conn = cur /\ pc # "stopped" /\ Stream = server[cur]
    BY StreamIsCurrent DEF IInv, TypeOK, LockInv, PublishInv, Published
  <2>2. CASE sock[conn] = "open"
    <3>1. \A c \in Conn : server'[c] = IF c = cur THEN Stream \ modDel ELSE {}
      BY <2>1, <2>2, StreamIsCurrent DEF IInv, TypeOK
    <3>2. Stream' = Stream \ modDel /\ Stream \ modDel = desired
      BY <2>1, <2>2, <3>1, OneStream DEF IInv, ModInv
    <3>3. StreamInv' BY <2>1, <2>2, <3>1 DEF StreamInv
    <3>4. CASE Stream = {} BY <3>2, <3>3, <3>4 DEF Unseen
    <3>5. CASE Stream # {} BY <3>2, <3>3, <3>5 DEF Abstract!Follow, Stream
    <3> QED BY <3>4, <3>5
  <2>3. CASE sock[conn] # "open" BY <2>3 DEF Unseen, Stream, StreamInv
  <2> QED BY <2>2, <2>3
<1> QED BY <1>1, <1>2, <1>3 DEF Modify, ModifyWrites

\* Client.Close, wherever it is called, and a drop are unseen.
LEMMA CloseSteps ==
  ASSUME IInv, StreamInv,
         RunClose \/ RunCloseStop \/ \E c \in Conn : Watcher(c) \/ WatcherCloseStop(c)
  PROVE  Unseen /\ StreamInv'
<1>1. ASSUME NEW c \in Conn, CloseAlone(c), UNCHANGED <<desired, modPc, modAdd>>,
             pc' = "stopped" <=> pc = "stopped"
      PROVE  Unseen /\ StreamInv'
  <2> USE <1>1 DEF CloseAlone
  <2>1. sock' \in [Conn -> SockState] BY DEF IInv, TypeOK, SockState
  <2>2. \A d \in Conn : sock'[d] # "open" => d = c \/ sock[d] # "open" BY DEF IInv, TypeOK
  <2> QED BY <2>1, <2>2, EmptyingSteps
<1>2. ASSUME UNCHANGED <<desired, sock, server, modPc, modAdd>>,
             pc' = "stopped" <=> pc = "stopped"
      PROVE  Unseen /\ StreamInv'
  BY <1>2 DEF Unseen, Stream, StreamInv
<1>3. CASE RunClose \/ RunCloseStop
  <2>1. cur \in Conn BY <1>3 DEF RunClose, RunCloseStop, IInv, TypeOK, PublishInv, Published
  <2>2. /\ CloseAlone(cur) \/ UNCHANGED sockVars
        /\ UNCHANGED <<desired, modPc, modAdd>> /\ pc # "stopped" /\ pc' # "stopped"
    BY <1>3 DEF RunClose, RunCloseStop, lockVars, modVars
  <2> QED BY <1>1, <1>2, <2>1, <2>2 DEF sockVars
<1>4. ASSUME NEW c \in Conn, Watcher(c) \/ WatcherCloseStop(c) PROVE Unseen /\ StreamInv'
  <2>1. /\ CloseAlone(c) \/ UNCHANGED sockVars
        /\ UNCHANGED <<desired, modPc, modAdd, pc>>
    BY <1>4 DEF Watcher, WatcherStops, WatcherFires, WatcherClose, WatcherCloseStop, runVars,
                lockVars, modVars
  <2> QED BY <1>1, <1>2, <2>1 DEF sockVars
<1> QED BY <1>3, <1>4

\* Run's return is the abstract feed's end: nothing streams by then.
LEMMA ReturnSteps ==
  ASSUME IInv, StreamInv, ReturnCancelled
  PROVE  Abstract!Stop /\ StreamInv'
<1> USE DEF ReturnCancelled, lockVars, sockVars, modVars
<1>1. Stream = {}
  <2>1. \A c \in Conn : sock[c] # "open" BY DEF IInv, OpenInv, Connecting, Published
  <2> QED BY <2>1 DEF StreamInv, Stream
<1>2. UNCHANGED <<desired, server, sock, modPc, modAdd>> /\ pc' = "stopped" OBVIOUS
<1> QED BY <1>1, <1>2 DEF Abstract!Stop, Stream, StreamInv

\* The router takes a tick, the world moves: unseen.
LEMMA OtherSteps ==
  ASSUME IInv, StreamInv, Consume \/ Environment
  PROVE  Unseen /\ StreamInv'
<1>1. CASE Consume \/ (Environment /\ UNCHANGED <<sock, server>>)
  BY <1>1 DEF Consume, Environment, runVars, lockVars, sockVars, modVars, Unseen, Stream,
              StreamInv
<1>2. ASSUME NEW c \in Conn, Drop(c), Environment PROVE Unseen /\ StreamInv'
  <2> USE <1>2 DEF Drop, Environment, runVars, lockVars, modVars
  <2>1. sock' \in [Conn -> SockState] BY DEF IInv, TypeOK, SockState
  <2>2. \A d \in Conn : sock'[d] # "open" => d = c \/ sock[d] # "open" BY DEF IInv, TypeOK
  <2> QED BY <2>1, <2>2, EmptyingSteps
<1> QED BY <1>1, <1>2 DEF Environment, SessionChanges, NetworkChanges, Cancel

-----------------------------------------------------------------------------
(* The simulation.                                                          *)

\* Every step of the supervisor is one of the abstract feed, or leaves what that sees alone.
LEMMA StepSimulates ==
  ASSUME IInv, StreamInv, [Next]_vars
  PROVE  StreamInv' /\ [Abstract!Next]_<<desired, Stream, pc = "stopped">>
<1>1. Unseen => [Abstract!Next]_<<desired, Stream, pc = "stopped">>
  BY DEF Unseen, Abstract!Next, Abstract!Lost, Stream
<1>2. CASE UNCHANGED vars
  BY <1>2 DEF vars, runVars, lockVars, sockVars, modVars, StreamInv, Stream
<1>3. CASE Environment BY <1>1, <1>3, OtherSteps
<1>4. CASE Modify BY <1>1, <1>4, ModifySteps DEF Abstract!Next
<1>5. CASE ReturnCancelled BY <1>5, ReturnSteps DEF Abstract!Next
<1>6. CASE Connect BY <1>1, <1>6, ConnectSteps DEF Abstract!Next
<1>7. CASE Consume BY <1>1, <1>7, OtherSteps
<1>8. CASE RunClose \/ RunCloseStop \/ \E c \in Conn : Watcher(c) \/ WatcherCloseStop(c)
  BY <1>1, <1>8, CloseSteps
<1>9. CASE \/ MarketClosed \/ IdleOver \/ StartConnect \/ BackoffOver \/ AfterRead
           \/ StartReading \/ ReadLoop \/ ClearConn
  BY <1>1, <1>9, LoopSteps
<1> QED BY <1>2, <1>3, <1>4, <1>5, <1>6, <1>7, <1>8, <1>9 DEF Next, Process, Run

\* The refinement: the supervisor with its connections, locks and goroutines implements the
\* abstract feed.
THEOREM SupervisorImplementsLiveFeed == Spec => ImplementsLiveFeed
<1>1. Init => StreamInv /\ Abstract!Init
  BY DEF Init, StreamInv, Abstract!Init
<1>2. IInv /\ StreamInv /\ [Next]_vars
        => StreamInv' /\ [Abstract!Next]_<<desired, Stream, pc = "stopped">>
  BY StepSimulates
<1>3. [Abstract!Next]_<<desired, Stream, pc = "stopped">>
        <=> [Abstract!Next]_<<desired, UNION {server[c] : c \in Conn}, pc = "stopped">>
  BY DEF Stream
<1> QED BY <1>1, <1>2, <1>3, Invariance, PTL DEF Spec, ImplementsLiveFeed, Abstract!Spec
=============================================================================
