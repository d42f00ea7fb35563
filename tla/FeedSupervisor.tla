--------------------------- MODULE FeedSupervisor ---------------------------
(***************************************************************************)
(* internal/feed/supervisor.go with the Client of internal/feed/client.go: *)
(* the goroutine in Run, the watcher goroutine each readLoop starts, the   *)
(* coordinator goroutine calling Modify, and the world around them (the    *)
(* session clock, the network, the operator's Ctrl+C).                     *)
(*                                                                         *)
(* connMu is explicit: a step that takes it, the network writes made under *)
(* it and the release are separate steps.  Client.Close is two steps,      *)
(* because it looks at its stop channel before it closes it and two        *)
(* goroutines call it.                                                     *)
(***************************************************************************)
EXTENDS Naturals, FiniteSets

CONSTANTS
  Conn,        \* identities of websocket connections, reused once forgotten
  None,        \* "no connection"
  Base,        \* tokens of cfg.Sub: the future and India VIX
  Windows,     \* option windows the chain may ask for (sets of tokens)
  TickCap,     \* capacity of the ticks channel (1024 in the code)
  MaxAttempt   \* bound: attempt saturates here (only "= 0" is ever tested)

ASSUME ConnAssumption == None \notin Conn
ASSUME WindowAssumption == \A W \in Windows : W \cap Base = {}
ASSUME BoundAssumption == TickCap \in Nat \ {0} /\ MaxAttempt \in Nat \ {0}

Token == Base \cup UNION Windows

VARIABLES
  pc, state, attempt, cur, snap, lost,   \* Run: where it is, State(), its locals
  connMu, desired, conn,                 \* the fields connMu guards, and its holder
  sock, stopCh, server,                  \* per connection: socket, Client.stop closed?,
                                         \*   tokens the server streams on it
  watcher, loopDone,                     \* per connection: readLoop's watcher, its stop
  modPc, modAdd, modDel,                 \* the coordinator inside Modify
  ticks,                                 \* how many ticks wait in the channel
  inSession, netUp, cancelled,           \* the world
  panicked                               \* the process died of a panic

runVars   == <<pc, state, attempt, cur, snap, lost>>
lockVars  == <<connMu, desired, conn>>
sockVars  == <<sock, stopCh, server>>
watchVars == <<watcher, loopDone>>
modVars   == <<modPc, modAdd, modDel>>
envVars   == <<inSession, netUp, cancelled>>
vars == <<runVars, lockVars, sockVars, watchVars, modVars, ticks, envVars, panicked>>

ConnState == {"disconnected", "connecting", "connected", "reconnecting", "marketClosed"}
RunPc == {"top", "idle", "login", "dial", "lock", "subscribing", "connected", "reading",
          "deliver", "close", "closeStop", "clear", "afterRead", "backoff", "stopped"}
WatcherPc == {"none", "watching", "close", "closeStop", "done"}
SockState == {"open", "dropped", "closed"}

Init ==
  /\ pc = "top" /\ state = "disconnected" /\ attempt = 0
  /\ cur = None /\ snap = {} /\ lost = FALSE
  /\ connMu = "free" /\ desired = Base /\ conn = None
  /\ sock = [c \in Conn |-> "closed"]
  /\ stopCh = [c \in Conn |-> TRUE]
  /\ server = [c \in Conn |-> {}]
  /\ watcher = [c \in Conn |-> "none"] /\ loopDone = [c \in Conn |-> TRUE]
  /\ modPc = "idle" /\ modAdd = {} /\ modDel = {}
  /\ ticks = 0
  /\ inSession \in BOOLEAN /\ netUp = TRUE /\ cancelled = FALSE
  /\ panicked = FALSE

-----------------------------------------------------------------------------
(* Run: the top of the loop, the idle wait and the backoff.                 *)

\* Every "if ctx.Err() != nil" of Run, and a sleep that loses to ctx.Done().
ReturnCancelled ==
  /\ pc \in {"top", "idle", "afterRead", "backoff"} /\ cancelled
  /\ pc' = "stopped" /\ state' = "disconnected" /\ lost' = FALSE
  /\ UNCHANGED <<attempt, cur, snap, lockVars, sockVars, watchVars, modVars, ticks>>

MarketClosed ==
  /\ pc = "top" /\ ~cancelled /\ ~inSession
  /\ pc' = "idle" /\ state' = "marketClosed" /\ attempt' = 0
  /\ UNCHANGED <<cur, snap, lost, lockVars, sockVars, watchVars, modVars, ticks>>

\* At most a minute later the loop looks at the clock again.
IdleOver ==
  /\ pc = "idle" /\ pc' = "top"
  /\ UNCHANGED <<state, attempt, cur, snap, lost, lockVars, sockVars, watchVars, modVars, ticks>>

StartConnect ==
  /\ pc = "top" /\ ~cancelled /\ inSession
  /\ pc' = "login"
  /\ state' = IF attempt = 0 THEN "connecting" ELSE "reconnecting"
  /\ UNCHANGED <<attempt, cur, snap, lost, lockVars, sockVars, watchVars, modVars, ticks>>

BackoffOver ==
  /\ pc = "backoff" /\ pc' = "top"
  /\ attempt' = IF attempt < MaxAttempt THEN attempt + 1 ELSE attempt
  /\ UNCHANGED <<state, cur, snap, lost, lockVars, sockVars, watchVars, modVars, ticks>>

-----------------------------------------------------------------------------
(* connect: login, dial, subscribe the desired set and publish, under connMu *)

LoginReturns ==
  /\ pc = "login" /\ pc' = IF netUp THEN "dial" ELSE "backoff"
  /\ UNCHANGED <<state, attempt, cur, snap, lost, lockVars, sockVars, watchVars, modVars, ticks>>

DialFails ==
  /\ pc = "dial" /\ ~netUp /\ pc' = "backoff"
  /\ UNCHANGED <<state, attempt, cur, snap, lost, lockVars, sockVars, watchVars, modVars, ticks>>

\* A connection nobody refers to any more, so that its identity can be reused.
Forgotten(c) == sock[c] = "closed" /\ watcher[c] \in {"none", "done"} /\ c # conn

\* conn.Heartbeat follows; its goroutine touches nothing modelled here.
DialSucceeds(c) ==
  /\ pc = "dial" /\ netUp /\ Forgotten(c)
  /\ pc' = "lock" /\ cur' = c
  /\ sock' = [sock EXCEPT ![c] = "open"]
  /\ stopCh' = [stopCh EXCEPT ![c] = FALSE]
  /\ server' = [server EXCEPT ![c] = {}]
  /\ watcher' = [watcher EXCEPT ![c] = "none"]
  /\ loopDone' = [loopDone EXCEPT ![c] = FALSE]
  /\ UNCHANGED <<state, attempt, snap, lost, lockVars, modVars, ticks>>

\* mutant: connect subscribes what the supervisor was built with
SnapshotInitial == Base
\* What connect subscribes: desiredLists(), not cfg.Sub.
Snapshot == desired
\* connMu is not held.
Unlocked == connMu = "free"

LockForConnect ==
  /\ pc = "lock" /\ Unlocked
  /\ pc' = "subscribing" /\ connMu' = "run" /\ snap' = Snapshot
  /\ UNCHANGED <<state, attempt, cur, lost, desired, conn, sockVars, watchVars, modVars, ticks>>

\* mutant: the failed connection is abandoned without conn.Close()
AbandonOpen(c) == UNCHANGED sockVars
\* Client.Close on a connection nobody else is closing: connect's own call, where no
\* watcher exists yet, and the second half of every other call.
CloseAlone(c) ==
  /\ sock' = [sock EXCEPT ![c] = "closed"] /\ stopCh' = [stopCh EXCEPT ![c] = TRUE]
  /\ server' = [server EXCEPT ![c] = {}]

\* mutant: the error return of connect forgets connMu
SubscribeFailsLocked ==
  /\ pc = "subscribing" /\ snap # {}
  /\ sock[cur] = "dropped" \/ ~netUp
  /\ pc' = "backoff"
  /\ CloseAlone(cur) /\ cur' = None /\ snap' = {}
  /\ UNCHANGED <<state, attempt, lost, lockVars, watchVars, modVars, ticks>>
SubscribeFails ==
  /\ pc = "subscribing" /\ snap # {}
  /\ sock[cur] = "dropped" \/ ~netUp
  /\ pc' = "backoff" /\ connMu' = "free"
  /\ CloseAlone(cur) /\ cur' = None /\ snap' = {}
  /\ UNCHANGED <<state, attempt, lost, desired, conn, watchVars, modVars, ticks>>

\* A write on a connection the network has lost may still report success.
SubscribeSucceeds ==
  /\ pc = "subscribing"
  /\ pc' = "connected" /\ connMu' = "free" /\ conn' = cur /\ snap' = {}
  /\ server' = IF sock[cur] = "open" THEN [server EXCEPT ![cur] = @ \cup snap] ELSE server
  /\ UNCHANGED <<state, attempt, cur, lost, desired, sock, stopCh, watchVars, modVars, ticks>>

\* Run: setState(StateConnected), then readLoop starts its watcher.
StartReading ==
  /\ pc = "connected"
  /\ pc' = "reading" /\ state' = "connected" /\ attempt' = 0
  /\ watcher' = [watcher EXCEPT ![cur] = "watching"]
  /\ UNCHANGED <<cur, snap, lost, lockVars, sockVars, loopDone, modVars, ticks>>

-----------------------------------------------------------------------------
(* readLoop.  A frame that is not a binary tick, or does not parse, leaves  *)
(* every variable alone, so it has no action.                               *)

ReadTick ==
  /\ pc = "reading" /\ sock[cur] = "open" /\ server[cur] # {}
  /\ pc' = "deliver"
  /\ UNCHANGED <<state, attempt, cur, snap, lost, lockVars, sockVars, watchVars, modVars, ticks>>

\* mutant: a send that does not wait for room
RoomIgnored == TRUE
Room == ticks < TickCap

DeliverTick ==
  /\ pc = "deliver" /\ Room
  /\ pc' = "reading" /\ ticks' = ticks + 1
  /\ UNCHANGED <<state, attempt, cur, snap, lost, lockVars, sockVars, watchVars, modVars>>

\* mutant: Run goes on without conn.Close()
SkipClose == "clear"
\* Where Run goes when readLoop returns; "defer close(stop)" runs on the way out.
AfterReadLoop == "close"

LeaveReadLoop(isDrop) ==
  /\ pc' = AfterReadLoop /\ lost' = isDrop
  /\ loopDone' = [loopDone EXCEPT ![cur] = TRUE]
  /\ UNCHANGED <<state, attempt, cur, snap, lockVars, sockVars, watcher, modVars, ticks>>

\* Read fails: closed by a watcher, lost, or silent past the read deadline.  It is a
\* drop only if the shutdown and the end of the session do not explain it.
ReadFails ==
  /\ pc = "reading" /\ sock[cur] # "open"
  /\ LeaveReadLoop(~cancelled /\ inSession)

\* mutant: the send does not select on ctx.Done()
DeliverUncancellable == FALSE
DeliverCancelled ==
  /\ pc = "deliver" /\ cancelled
  /\ LeaveReadLoop(FALSE)

\* Client.Close, first half: the select on c.stop.
RunClose ==
  /\ pc = "close"
  /\ pc' = IF stopCh[cur] THEN "clear" ELSE "closeStop"
  /\ IF stopCh[cur] THEN CloseAlone(cur) ELSE UNCHANGED sockVars
  /\ UNCHANGED <<state, attempt, cur, snap, lost, lockVars, watchVars, modVars, ticks>>

\* Client.Close, second half: close(c.stop) panics if the channel is closed by now.
RunCloseStop ==
  /\ pc = "closeStop"
  /\ panicked' = stopCh[cur]
  /\ pc' = "clear" /\ CloseAlone(cur)
  /\ UNCHANGED <<state, attempt, cur, snap, lost, lockVars, watchVars, modVars, ticks>>

ClearConn ==
  /\ pc = "clear" /\ connMu = "free"
  /\ pc' = "afterRead" /\ conn' = None /\ cur' = None
  /\ UNCHANGED <<state, attempt, snap, lost, connMu, desired, sockVars, watchVars, modVars, ticks>>

AfterRead ==
  /\ pc = "afterRead" /\ ~cancelled
  /\ pc' = IF lost THEN "backoff" ELSE "top"
  /\ state' = IF lost THEN "reconnecting" ELSE state
  /\ lost' = FALSE
  /\ UNCHANGED <<attempt, cur, snap, lockVars, sockVars, watchVars, modVars, ticks>>

-----------------------------------------------------------------------------
(* The watcher goroutine of c's readLoop.  Its select takes any ready case, *)
(* so a watcher whose readLoop has returned may still take ctx.Done().      *)

WatcherStops(c) ==
  /\ watcher[c] = "watching" /\ loopDone[c]
  /\ watcher' = [watcher EXCEPT ![c] = "done"]
  /\ UNCHANGED <<runVars, lockVars, sockVars, loopDone, modVars, ticks>>

\* mutant: the watcher selects on ctx.Done() only
WatcherIgnoresSession(c) ==
  /\ watcher[c] = "watching" /\ cancelled
  /\ watcher' = [watcher EXCEPT ![c] = "close"]
  /\ UNCHANGED <<runVars, lockVars, sockVars, loopDone, modVars, ticks>>
WatcherFires(c) ==
  /\ watcher[c] = "watching" /\ (cancelled \/ ~inSession)
  /\ watcher' = [watcher EXCEPT ![c] = "close"]
  /\ UNCHANGED <<runVars, lockVars, sockVars, loopDone, modVars, ticks>>

\* Client.Close, first half.
WatcherClose(c) ==
  /\ watcher[c] = "close"
  /\ watcher' = [watcher EXCEPT ![c] = IF stopCh[c] THEN "done" ELSE "closeStop"]
  /\ IF stopCh[c] THEN CloseAlone(c) ELSE UNCHANGED sockVars
  /\ UNCHANGED <<runVars, lockVars, loopDone, modVars, ticks>>

\* Client.Close, second half.
WatcherCloseStop(c) ==
  /\ watcher[c] = "closeStop"
  /\ panicked' = stopCh[c]
  /\ watcher' = [watcher EXCEPT ![c] = "done"] /\ CloseAlone(c)
  /\ UNCHANGED <<runVars, lockVars, loopDone, modVars, ticks>>

-----------------------------------------------------------------------------
(* Modify, called by the coordinator with the diff from the window it last  *)
(* asked for to the next one.                                               *)

Window == desired \ Base

\* mutant: Modify drops the whole old window and adds the whole new one
ModifyWhole(W) ==
  /\ modPc = "idle" /\ Unlocked /\ W # Window
  /\ desired' = (desired \cup (W \ Window)) \ (Window \ W)
  /\ IF conn = None
       THEN UNCHANGED <<connMu, modVars>>
       ELSE /\ connMu' = "modify" /\ modPc' = "sub"
            /\ modAdd' = W /\ modDel' = Window
  /\ UNCHANGED <<runVars, conn, sockVars, watchVars, ticks>>
ModifyLocks(W) ==
  /\ modPc = "idle" /\ Unlocked /\ W # Window
  /\ desired' = (desired \cup (W \ Window)) \ (Window \ W)
  /\ IF conn = None
       THEN UNCHANGED <<connMu, modVars>>
       ELSE /\ connMu' = "modify" /\ modPc' = "sub"
            /\ modAdd' = W \ Window /\ modDel' = Window \ W
  /\ UNCHANGED <<runVars, conn, sockVars, watchVars, ticks>>

\* A write on a connection that is not open fails, and is only logged.
ModifySubscribes ==
  /\ modPc = "sub" /\ modPc' = "unsub"
  /\ server' = IF sock[conn] = "open" THEN [server EXCEPT ![conn] = @ \cup modAdd] ELSE server
  /\ UNCHANGED <<runVars, lockVars, sock, stopCh, watchVars, modAdd, modDel, ticks>>

ModifyUnsubscribes ==
  /\ modPc = "unsub" /\ modPc' = "idle" /\ connMu' = "free"
  /\ modAdd' = {} /\ modDel' = {}
  /\ server' = IF sock[conn] = "open" THEN [server EXCEPT ![conn] = @ \ modDel] ELSE server
  /\ UNCHANGED <<runVars, desired, conn, sock, stopCh, watchVars, ticks>>

-----------------------------------------------------------------------------
(* The tick router takes a tick; the world moves.                           *)

Consume ==
  /\ ticks > 0 /\ ticks' = ticks - 1
  /\ UNCHANGED <<runVars, lockVars, sockVars, watchVars, modVars>>

SessionChanges ==
  /\ inSession' = ~inSession
  /\ UNCHANGED <<sock, server, netUp, cancelled>>

NetworkChanges ==
  /\ netUp' = ~netUp
  /\ UNCHANGED <<sock, server, inSession, cancelled>>

\* The peer or the read deadline gives a connection up.
Drop(c) ==
  /\ ~netUp /\ sock[c] = "open"
  /\ sock' = [sock EXCEPT ![c] = "dropped"] /\ server' = [server EXCEPT ![c] = {}]
  /\ UNCHANGED envVars

Cancel ==
  /\ ~cancelled /\ cancelled' = TRUE
  /\ UNCHANGED <<sock, server, inSession, netUp>>

Environment ==
  /\ SessionChanges \/ NetworkChanges \/ Cancel \/ \E c \in Conn : Drop(c)
  /\ UNCHANGED <<runVars, lockVars, stopCh, watchVars, modVars, ticks, panicked>>

-----------------------------------------------------------------------------

Connect ==
  \/ LoginReturns \/ DialFails \/ (\E c \in Conn : DialSucceeds(c))
  \/ LockForConnect \/ SubscribeFails \/ SubscribeSucceeds

ReadLoop == ReadTick \/ DeliverTick \/ ReadFails \/ DeliverCancelled

Run ==
  \/ ReturnCancelled \/ MarketClosed \/ IdleOver \/ StartConnect \/ BackoffOver
  \/ Connect \/ StartReading \/ ReadLoop \/ RunClose \/ ClearConn \/ AfterRead

Watcher(c) == WatcherStops(c) \/ WatcherFires(c) \/ WatcherClose(c)

ModifyWrites == ModifySubscribes \/ ModifyUnsubscribes
Modify == ModifyWrites \/ \E W \in Windows : ModifyLocks(W)

\* The steps that may close a stop channel set panicked; the others keep it.
Process ==
  /\ UNCHANGED envVars
  /\ \/ RunCloseStop
     \/ \E c \in Conn : WatcherCloseStop(c)
     \/ UNCHANGED panicked /\ (Run \/ Modify \/ Consume \/ \E c \in Conn : Watcher(c))

Next == ~panicked /\ (Process \/ Environment)

Spec == Init /\ [][Next]_vars

-----------------------------------------------------------------------------
(* Fairness: the Go scheduler runs every goroutine that can run, a timer    *)
(* fires, a login or dial returns, and sync.Mutex hands the lock to a       *)
(* waiter that has starved.  The network owes nothing (ReadTick, Drop), the *)
(* chain need not move, and the router stops taking ticks once cancelled.   *)

Step(A) == ~panicked /\ UNCHANGED <<envVars, panicked>> /\ A
CloseStep(A) == ~panicked /\ UNCHANGED envVars /\ A

RunProgress ==
  Step(\/ ReturnCancelled \/ MarketClosed \/ IdleOver \/ StartConnect \/ BackoffOver
       \/ LoginReturns \/ DialFails \/ (\E c \in Conn : DialSucceeds(c))
       \/ SubscribeFails \/ SubscribeSucceeds \/ StartReading
       \/ DeliverTick \/ ReadFails \/ DeliverCancelled \/ RunClose \/ AfterRead)

\* A write has no deadline: on a connection that is open over a dead network it may block,
\* with connMu held, until somebody closes the connection.
WriteReturns == modPc # "idle" /\ (netUp \/ sock[conn] # "open")

Fairness ==
  /\ WF_vars(RunProgress) /\ WF_vars(CloseStep(RunCloseStop))
  /\ SF_vars(Step(LockForConnect)) /\ SF_vars(Step(ClearConn))
  /\ \A c \in Conn : WF_vars(Step(Watcher(c))) /\ WF_vars(CloseStep(WatcherCloseStop(c)))
  /\ WF_vars(Step(WriteReturns /\ ModifyWrites))
  /\ WF_vars(Step(~cancelled /\ Consume))

FairSpec == Spec /\ Fairness

-----------------------------------------------------------------------------
(* Safety                                                                   *)

\* Every variable has its type; the tick channel never holds more than its capacity.
TypeOK ==
  /\ pc \in RunPc /\ state \in ConnState /\ attempt \in 0..MaxAttempt
  /\ cur \in Conn \cup {None} /\ snap \in SUBSET Token /\ lost \in BOOLEAN
  /\ connMu \in {"free", "run", "modify"}
  /\ desired \in SUBSET Token /\ conn \in Conn \cup {None}
  /\ sock \in [Conn -> SockState] /\ stopCh \in [Conn -> BOOLEAN]
  /\ server \in [Conn -> SUBSET Token]
  /\ watcher \in [Conn -> WatcherPc] /\ loopDone \in [Conn -> BOOLEAN]
  /\ modPc \in {"idle", "sub", "unsub"}
  /\ modAdd \in SUBSET Token /\ modDel \in SUBSET Token
  /\ ticks \in 0..TickCap
  /\ inSession \in BOOLEAN /\ netUp \in BOOLEAN /\ cancelled \in BOOLEAN
  /\ panicked \in BOOLEAN

\* Whenever nobody is inside connMu, the published connection, while it is open,
\* streams exactly the desired tokens: connect's promise that a concurrent Modify
\* "either lands in the snapshot or is sent incrementally afterwards - never lost".
SubscriptionsInSync ==
  (connMu = "free" /\ conn # None /\ sock[conn] = "open") => server[conn] = desired

\* At most one socket is open at a time, whatever order the drops, the watchers'
\* closes and the reconnects come in: the feed account gets no second stream.
OneSocket ==
  \A c, d \in Conn : (sock[c] = "open" /\ sock[d] = "open") => c = d

\* While Run idles outside the session, or has returned, or waits to retry, no socket
\* is open and Modify has no connection to write to.
QuietWhenDown ==
  pc \in {"idle", "backoff", "stopped"} => conn = None /\ \A c \in Conn : sock[c] # "open"

-----------------------------------------------------------------------------
(* Why the three hold: an invariant that every step preserves.              *)

Connecting == {"lock", "subscribing"}
Published == {"connected", "reading", "deliver", "close", "closeStop", "clear"}

\* Who holds connMu is inside the stretch of code that holds it, and only they are.
LockInv ==
  /\ connMu = "run" <=> pc = "subscribing"
  /\ connMu = "modify" <=> modPc # "idle"
  /\ modPc # "idle" => conn # None

\* The published connection is the one Run reads, and Run refers to one exactly
\* between the dial and clearConn.
PublishInv ==
  /\ conn # None => conn = cur /\ pc \in Published
  /\ pc \in Connecting \cup Published => cur # None

\* Only the connection Run refers to can be open, and not once it has been closed.
OpenInv ==
  \A c \in Conn : sock[c] = "open" =>
    c = cur /\ pc \in Connecting \cup (Published \ {"clear"})

\* Before it is subscribed a connection streams nothing, and what is about to be
\* subscribed is still what is desired.
SnapInv ==
  /\ pc = "subscribing" => snap = desired
  /\ pc \in Connecting => server[cur] = {}

\* Inside Modify the writes still to come turn what is streamed into what is desired.
ModInv ==
  /\ modPc = "sub" /\ sock[conn] = "open" => (server[conn] \cup modAdd) \ modDel = desired
  /\ modPc = "unsub" /\ sock[conn] = "open" => server[conn] \ modDel = desired

\* The inductive invariant: connMu's protocol, what is published, and what the writes
\* still to be made under the lock will achieve.
IInv ==
  /\ TypeOK /\ LockInv /\ PublishInv /\ OpenInv /\ SnapInv /\ ModInv
  /\ SubscriptionsInSync

\* What the refinement below needs on top: only an open connection streams, no window takes
\* a base token away, and Modify is about to add nothing that is not wanted.
StreamInv ==
  /\ \A c \in Conn : sock[c] # "open" => server[c] = {}
  /\ Base \subseteq desired
  /\ modPc = "sub" => modAdd \subseteq desired

-----------------------------------------------------------------------------
(* Liveness                                                                 *)

\* Run has returned, its watchers with it, and every stop channel is closed, which is
\* what a heartbeat goroutine waits for.
AllGone ==
  pc = "stopped" /\ \A c \in Conn : stopCh[c] /\ watcher[c] \in {"none", "done"}

\* Once the context is cancelled Run returns, whatever it was doing, also when the
\* coordinator is stuck in a write under connMu, and leaves no goroutine behind.
ReturnsAfterCancel == cancelled ~> (AllGone \/ panicked)

\* If the session ends for good, Run ends up idling (or stopped), with no stream.
IdleWhenClosed ==
  <>[]~inSession => <>[](pc \in {"top", "idle", "stopped"} \/ panicked)

\* If the session stays open and the network comes back for good, the feed connects
\* and stays connected.
ConnectsWhenUp ==
  <>[](inSession /\ netUp /\ ~cancelled) => <>[](state = "connected" \/ panicked)

-----------------------------------------------------------------------------
(* What all this is for                                                     *)

Abstract == INSTANCE LiveFeed
              WITH wanted <- desired, stream <- UNION {server[c] : c \in Conn},
                   over <- pc = "stopped"

\* The supervisor behaves as the abstract feed: every stream starts with all that is wanted,
\* no token that stays wanted is interrupted by a Modify, a reconnect or a late watcher
\* without the whole stream going, and nothing streams after Run has returned.
ImplementsLiveFeed == Abstract!Spec

-----------------------------------------------------------------------------
(* What the comments say and the code does not do                           *)

\* Client.Close handles "already closed"; its two callers can still both close the
\* stop channel, and closing a closed channel panics.
NoPanic == ~panicked
=============================================================================
