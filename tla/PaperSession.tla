---------------------------- MODULE PaperSession ----------------------------
(***************************************************************************)
(* One trading day of cmd/live: the main loop logs each future bar and     *)
(* drives the runners, whose fills and trades the Recorder writes to       *)
(* position.json and audit.jsonl; a crash loses the process and keeps the  *)
(* files; a restart rebuilds the runners with recovery.Recover.            *)
(*                                                                         *)
(* The frozen engine is external: what a runner decides is a function of   *)
(* the bars it has seen, so its decisions are a plan, the number of the    *)
(* bar it enters on and of the bar it exits on.  Bars are counted from the *)
(* first of the day.  A write to audit.jsonl or position.json happens as a *)
(* whole or fails as a whole, which the Recorder only logs; JsonlLog is    *)
(* about writes that leave half a line.                                    *)
(***************************************************************************)
EXTENDS Naturals, Sequences

CONSTANTS
  Runner,         \* the runners with real seams (ORB and VWAP)
  Order,          \* the order they are driven and drained in
  Price,          \* prices a book can show, none of them 0
  MaxBar,         \* bound: bars in the day
  MaxCrashes,     \* bound: crashes in the day
  MaxFailures,    \* bound: writes that fail in the day
  None

ASSUME RunnerAssumption ==
  /\ Runner # {} /\ Order \in Seq(Runner)
  /\ \A r \in Runner : \E i \in DOMAIN Order : Order[i] = r
  /\ \A i, j \in DOMAIN Order : Order[i] = Order[j] => i = j
ASSUME PriceAssumption == Price \subseteq Nat \ {0}
ASSUME BoundAssumption == MaxBar \in Nat /\ MaxCrashes \in Nat /\ MaxFailures \in Nat

VARIABLES
  plan,                    \* the engine's decisions
  barLog, audit, posFile,  \* bars.jsonl (how many bars), audit.jsonl, position.json
  pc, turn,                \* the main loop, and the place in Order it has come to
  seenBars, runner,        \* bars the runners have seen, and each runner's trade
  reported,                \* the trades drain has handed to OnTrade
  queue,                   \* per runner, the seam's replay queue from ridx on
  open, entryLeg, exitLeg, \* the Recorder's maps
  executed,                \* history: the legs filled outside a replay
  torn,                    \* history: the bars a crash fell inside of
  hurt,                    \* history: runners a write failed for
  crashes, failures

diskVars == <<barLog, audit, posFile>>
loopVars == <<pc, turn>>
engineVars == <<seenBars, runner, reported, queue>>
recVars == <<open, entryLeg, exitLeg>>
faultVars == <<torn, crashes, hurt, failures>>
vars == <<plan, diskVars, loopVars, engineVars, recVars, executed, faultVars>>

\* A fill is the book's price, or a fallback: the mid of a one-sided book, or 0 when
\* there is no quote at all.
Leg == [price : Price \cup {0}, fallback : BOOLEAN]
BookLeg(p) == [price |-> p, fallback |-> FALSE]
OneSidedLeg(p) == [price |-> p, fallback |-> TRUE]
NoQuoteLeg == [price |-> 0, fallback |-> TRUE]
\* No position, or no leg, is none of the above.
ASSUME NoneAssumption == None \notin Leg
Quotable == {BookLeg(p) : p \in Price} \cup {OneSidedLeg(p) : p \in Price} \cup {NoQuoteLeg}

Flat == [phase |-> "flat", entry |-> 0, exit |-> 0]
NoLegs == [r \in Runner |-> None]
Plans == {p \in [entry : 1..(MaxBar + 1), exit : 1..(MaxBar + 2)] : p.entry < p.exit}

\* A process that has just started: empty maps, fresh runners, nothing to replay.
FreshProcess ==
  /\ turn' = 0 /\ reported' = {}
  /\ entryLeg' = NoLegs /\ exitLeg' = NoLegs

Init ==
  /\ plan \in [Runner -> Plans]
  /\ barLog = 0 /\ audit = <<>> /\ posFile = NoLegs
  /\ pc = "wait" /\ turn = 0
  /\ seenBars = 0 /\ runner = [r \in Runner |-> Flat] /\ reported = {}
  /\ queue = [r \in Runner |-> <<>>]
  /\ open = NoLegs /\ entryLeg = NoLegs /\ exitLeg = NoLegs
  /\ executed = [r \in Runner |-> [entry |-> None, exit |-> None]]
  /\ torn = {} /\ crashes = 0 /\ hurt = {} /\ failures = 0

Turn == Order[turn]
\* After the last runner the loop moves on to the drain, and from the drain to the next bar.
NextTurn(here, next) ==
  IF turn < Len(Order) THEN pc' = here /\ turn' = turn + 1
  ELSE pc' = next /\ turn' = IF next = "wait" THEN 0 ELSE 1

-----------------------------------------------------------------------------
(* A future bar: main logs it, then Runners.OnFutureBar drives each runner. *)

LogBar ==
  /\ pc = "wait" /\ barLog < MaxBar
  /\ barLog' = barLog + 1 /\ seenBars' = seenBars + 1
  /\ pc' = "drive" /\ turn' = 1
  /\ UNCHANGED <<plan, audit, posFile, runner, reported, queue, recVars, executed, faultVars>>

Enters(r) == runner[r].phase = "flat" /\ seenBars = plan[r].entry
Exits(r) == runner[r].phase = "open" /\ seenBars = plan[r].exit

RunnerIdle ==
  /\ pc = "drive" /\ ~Enters(Turn) /\ ~Exits(Turn)
  /\ NextTurn("drive", "drain")
  /\ UNCHANGED <<plan, diskVars, engineVars, recVars, executed, faultVars>>

\* A write for runner r succeeds, or fails and is logged.
Outcome(written, r) ==
  /\ UNCHANGED <<torn, crashes>>
  /\ IF written THEN UNCHANGED <<hurt, failures>>
     ELSE failures < MaxFailures /\ failures' = failures + 1 /\ hurt' = hurt \cup {r}

\* mutant: position.json is not written on entry
PositionForgotten(open1, written) == UNCHANGED posFile
\* position.json holds every open position, or what it held before.
WritePosition(open1, written) == posFile' = IF written THEN open1 ELSE posFile

\* Live, the seams look at the queue first: NoStaleFill says that they find it used up, and
\* a fill comes from the book.
EnterLive(leg, written) ==
  /\ pc = "drive" /\ queue[Turn] = <<>> /\ Enters(Turn)
  /\ runner' = [runner EXCEPT ![Turn].phase = "open", ![Turn].entry = leg.price]
  /\ entryLeg' = [entryLeg EXCEPT ![Turn] = leg]
  /\ open' = [open EXCEPT ![Turn] = leg] /\ WritePosition(open', written)
  /\ Outcome(written, Turn)
  /\ executed' = [executed EXCEPT ![Turn].entry = leg]
  /\ NextTurn("drive", "drain")
  /\ UNCHANGED <<plan, barLog, audit, seenBars, reported, queue, exitLeg>>

ExitLive(leg) ==
  /\ pc = "drive" /\ queue[Turn] = <<>> /\ Exits(Turn)
  /\ runner' = [runner EXCEPT ![Turn].phase = "done", ![Turn].exit = leg.price]
  /\ exitLeg' = [exitLeg EXCEPT ![Turn] = leg]
  /\ executed' = [executed EXCEPT ![Turn].exit = leg]
  /\ NextTurn("drive", "drain")
  /\ UNCHANGED <<plan, diskVars, seenBars, reported, queue, open, entryLeg, faultVars>>

-----------------------------------------------------------------------------
(* drain: each completed trade not reported yet goes to Recorder.OnTrade,   *)
(* which appends the audit line and then rewrites position.json.            *)

Completed(r) == runner[r].phase = "done" /\ r \notin reported

NothingToReport ==
  /\ pc = "drain" /\ ~Completed(Turn)
  /\ NextTurn("drain", "wait")
  /\ UNCHANGED <<plan, diskVars, engineVars, recVars, executed, faultVars>>

\* A leg OnTrade does not find leaves its flag false.
Flagged(leg) == leg # None /\ leg.fallback

AuditRecord(r) ==
  [runner |-> r, entry |-> runner[r].entry, exit |-> runner[r].exit,
   entryFallback |-> Flagged(entryLeg[r]), exitFallback |-> Flagged(exitLeg[r])]

AppendAudit(written) ==
  /\ pc = "drain" /\ Completed(Turn)
  /\ audit' = IF written THEN Append(audit, AuditRecord(Turn)) ELSE audit
  /\ Outcome(written, Turn)
  /\ pc' = "clear"
  /\ UNCHANGED <<plan, barLog, posFile, turn, engineVars, recVars, executed>>

\* The position goes, whether or not the audit line was written.
ClearPosition(written) ==
  /\ pc = "clear"
  /\ open' = [open EXCEPT ![Turn] = None] /\ WritePosition(open', written)
  /\ Outcome(written, Turn)
  /\ entryLeg' = [entryLeg EXCEPT ![Turn] = None] /\ exitLeg' = [exitLeg EXCEPT ![Turn] = None]
  /\ reported' = reported \cup {Turn}
  /\ NextTurn("drain", "wait")
  /\ UNCHANGED <<plan, barLog, audit, seenBars, runner, queue, executed>>

-----------------------------------------------------------------------------
(* Crash and restart.  Recover writes nothing, so a crash inside it is one  *)
(* before it, and the restart is one step.                                  *)

Crash ==
  /\ pc # "down" /\ crashes < MaxCrashes
  /\ pc' = "down" /\ crashes' = crashes + 1
  /\ torn' = IF pc = "wait" THEN torn ELSE torn \cup {barLog}
  /\ FreshProcess
  /\ seenBars' = 0 /\ runner' = [r \in Runner |-> Flat]
  /\ queue' = [r \in Runner |-> <<>>] /\ open' = NoLegs
  /\ UNCHANGED <<plan, diskVars, executed, hurt, failures>>

\* The runner's lines of the audit, and the only one there is (AuditedOnce).
AuditedAt(r) == {i \in DOMAIN audit : audit[i].runner = r}
AuditOf(r) == audit[CHOOSE i \in AuditedAt(r) : TRUE]

\* mutant: a completed trade's recorded fills are left out
QueueOpenOnly(r) == IF posFile[r] # None THEN <<posFile[r].price>> ELSE <<>>
\* replayQueue: [entry, exit] of the trade audited today, then [entry] of an open one.
ReplayQueue(r) ==
  (IF AuditedAt(r) = {} THEN <<>> ELSE <<AuditOf(r).entry, AuditOf(r).exit>>)
  \o (IF posFile[r] # None THEN <<posFile[r].price>> ELSE <<>>)

\* Replaying a runner over the logged bars: the fills it makes take the queue's prices in
\* turn and, once it is used up, the empty chain's 0.
Replayed(r, q) ==
  LET Nth(k) == IF k <= Len(q) THEN q[k] ELSE 0
  IN  IF barLog < plan[r].entry THEN Flat
      ELSE IF barLog < plan[r].exit THEN [phase |-> "open", entry |-> Nth(1), exit |-> 0]
      ELSE [phase |-> "done", entry |-> Nth(1), exit |-> Nth(2)]

\* mutant: an entry leaves its fill in the queue
UsedByExit(r) == IF barLog < plan[r].exit THEN 0 ELSE 2
Used(r) == IF barLog < plan[r].entry THEN 0 ELSE IF barLog < plan[r].exit THEN 1 ELSE 2

\* mutant: drain forgets what the replay already reported
ReportedNothing == {}
\* The muted replay's own drain has reported every trade it completed.
ReportedByReplay == {r \in Runner : barLog >= plan[r].exit}

Restart ==
  /\ pc = "down" /\ pc' = "wait"
  /\ seenBars' = barLog
  /\ open' = posFile /\ entryLeg' = NoLegs /\ exitLeg' = NoLegs
  /\ runner' = [r \in Runner |-> Replayed(r, ReplayQueue(r))]
  /\ queue' = [r \in Runner |-> IF barLog = 0 THEN <<>>
                                ELSE SubSeq(ReplayQueue(r), Used(r) + 1, Len(ReplayQueue(r)))]
  /\ reported' = ReportedByReplay
  /\ UNCHANGED <<plan, diskVars, turn, executed, faultVars>>

-----------------------------------------------------------------------------

Next ==
  \/ LogBar \/ RunnerIdle
  \/ \E leg \in Quotable : ExitLive(leg)
  \/ NothingToReport
  \/ \E written \in BOOLEAN :
       AppendAudit(written) \/ ClearPosition(written) \/ \E leg \in Quotable : EnterLive(leg, written)
  \/ Crash \/ Restart

Spec == Init /\ [][Next]_vars

-----------------------------------------------------------------------------
(* Properties                                                               *)

PositionOrNone == Leg \cup {None}
Record == [runner : Runner, entry : Price \cup {0}, exit : Price \cup {0},
           entryFallback : BOOLEAN, exitFallback : BOOLEAN]

\* Every variable has its type; there is at most one audit line for a runner in the day.
TypeOK ==
  /\ plan \in [Runner -> Plans]
  /\ barLog \in 0..MaxBar /\ seenBars \in 0..MaxBar
  /\ audit \in Seq(Record) /\ Len(audit) <= Len(Order)
  /\ posFile \in [Runner -> PositionOrNone] /\ open \in [Runner -> PositionOrNone]
  /\ entryLeg \in [Runner -> PositionOrNone] /\ exitLeg \in [Runner -> PositionOrNone]
  /\ pc \in {"wait", "drive", "drain", "clear", "down"} /\ turn \in 0..Len(Order)
  /\ runner \in [Runner -> [phase : {"flat", "open", "done"}, entry : Price \cup {0},
                            exit : Price \cup {0}]]
  /\ reported \in SUBSET Runner
  /\ queue \in [Runner -> Seq(Price \cup {0})]
  /\ executed \in [Runner -> [entry : PositionOrNone, exit : PositionOrNone]]
  /\ torn \in SUBSET (1..MaxBar) /\ crashes \in 0..MaxCrashes
  /\ hurt \in SUBSET Runner /\ failures \in 0..MaxFailures

Settled == pc = "wait"
\* No crash fell inside the bar the runner entered on, or inside the one it exited on.
Untorn(r) == plan[r].entry \notin torn /\ plan[r].exit \notin torn
\* Nor did a write of its own fail.
Safe(r) == Untorn(r) /\ r \notin hurt

\* Between two bars of a live process, each runner that is in a trade is the one
\* position.json shows, at the price that was really paid for it, whether the runner
\* entered in this process or was rebuilt by a replay, and whatever happened to the
\* other runners' writes.
ResumesExactly ==
  Settled => \A r \in Runner : Safe(r) =>
    /\ (runner[r].phase = "open") <=> (posFile[r] # None)
    /\ runner[r].phase = "open" =>
         runner[r].entry = posFile[r].price /\ posFile[r] = executed[r].entry

\* A trade has at most one audit line however many restarts and failed writes fall on it,
\* and, unless one fell inside its own bars or hit its own writes, exactly one from the bar
\* that completed it on, with the prices its legs really filled at; a runner rebuilt by a
\* replay has the same prices.
AuditedOnce ==
  /\ \A r \in Runner : \A i, j \in AuditedAt(r) : i = j
  /\ Settled => \A r \in Runner : Safe(r) =>
       /\ (runner[r].phase = "done") <=> (AuditedAt(r) # {})
       /\ runner[r].phase = "done" =>
            /\ AuditOf(r).entry = executed[r].entry.price
            /\ AuditOf(r).exit = executed[r].exit.price
            /\ runner[r].entry = executed[r].entry.price
            /\ runner[r].exit = executed[r].exit.price

\* The durable record as a ledger: an audited trade is closed, a position is open.
Ledger ==
  [r \in Runner |->
     IF ~Safe(r) THEN [status |-> "void", entry |-> 0, exit |-> 0]
     ELSE IF AuditedAt(r) # {}
       THEN [status |-> "closed", entry |-> AuditOf(r).entry, exit |-> AuditOf(r).exit]
     ELSE IF posFile[r] # None THEN [status |-> "open", entry |-> posFile[r].price, exit |-> 0]
     ELSE [status |-> "none", entry |-> 0, exit |-> 0]]

Abstract == INSTANCE TradeLedger WITH Fill <- Price, ledger <- Ledger

\* audit.jsonl and position.json together behave as the abstract ledger: no trade is
\* opened twice, closed without having been opened, or repriced, across any restarts and
\* failed writes, unless a crash fell inside the bar of one of its two fills or one of the
\* writes that failed was its own.
ImplementsLedger == Abstract!Spec

\* The seams hand over to the live chain when the replay ends: a recorded fill that is left
\* in a queue belongs to a runner that has made its trade, and is never served again.
NoStaleFill == \A r \in Runner : queue[r] # <<>> => runner[r].phase = "done"

-----------------------------------------------------------------------------
(* The inductive invariant: how far the day has come for each runner, and   *)
(* what that says about its files, its memory and its history.              *)

Place(r) == CHOOSE i \in DOMAIN Order : Order[i] = r
\* The last bar the runner has been driven with, and the last one drain has looked at it
\* after; of a process that is down, the last bar logged.
DrivenTo(r) == IF pc = "drive" /\ turn <= Place(r) THEN barLog - 1 ELSE barLog
DrainedTo(r) ==
  IF pc = "drive" \/ (pc \in {"drain", "clear"} /\ turn <= Place(r)) THEN barLog - 1 ELSE barLog

HasEntered(r) == plan[r].entry <= DrivenTo(r)
HasExited(r) == plan[r].exit <= DrivenTo(r)
HasReported(r) == plan[r].exit <= DrainedTo(r)
\* Between the append to the audit and the rewrite of position.json.
Clearing(r) == pc = "clear" /\ r = Turn
Live == pc # "down"

LoopInv ==
  /\ IF pc \in {"wait", "down"} THEN turn = 0 ELSE turn \in 1..Len(Order) /\ barLog > 0
  /\ torn \subseteq 1..barLog
  /\ Live => seenBars = barLog

\* What a live runner and its drain hold is decided by the bar they have come to, whether
\* they lived through the bars or replayed them.
PhaseInv ==
  Live => \A r \in Runner :
    /\ runner[r].phase = IF HasExited(r) THEN "done" ELSE IF HasEntered(r) THEN "open" ELSE "flat"
    /\ r \in reported <=> HasReported(r)
    /\ Clearing(r) => HasExited(r) /\ ~HasReported(r)

\* Whatever crashes and fails, the files are not ahead of the runner.
FileInv ==
  \A r \in Runner :
    /\ AuditedAt(r) # {} => HasReported(r) \/ Clearing(r)
    /\ \A i, j \in AuditedAt(r) : i = j
    /\ posFile[r] # None => HasEntered(r)
    /\ open[r] # None => HasEntered(r)

\* No write of the runner's having failed, position.json is the Recorder's map.
MirrorInv == Live => \A r \in Runner : r \notin hurt => posFile[r] = open[r]

\* Nor a crash having fallen inside its bars, the files have all that was executed.
DurableInv ==
  \A r \in Runner : Safe(r) =>
    /\ posFile[r] # None <=> HasEntered(r) /\ ~HasReported(r)
    /\ posFile[r] # None => posFile[r] = executed[r].entry
    /\ AuditedAt(r) # {} <=> HasReported(r) \/ Clearing(r)
    /\ \A i \in AuditedAt(r) :
         audit[i].entry = executed[r].entry.price /\ audit[i].exit = executed[r].exit.price

\* And the runner carries the prices of its own executions.
PricesInv ==
  Live => \A r \in Runner : Safe(r) =>
    /\ HasEntered(r) => runner[r].entry = executed[r].entry.price
    /\ HasExited(r) => runner[r].exit = executed[r].exit.price

IInv ==
  /\ TypeOK /\ LoopInv /\ PhaseInv /\ FileInv /\ MirrorInv /\ DurableInv /\ PricesInv
  /\ NoStaleFill

-----------------------------------------------------------------------------
(* What the documents say and the code does not do                          *)

\* store.go: EntryFallback and ExitFallback say that a leg filled without a real book
\* price, and "such trades are excluded from the parity gate".  No crash inside a bar is
\* needed to lose one: OnFill keeps the legs in memory, and position.json has no flag.
FlagsSurvive ==
  \A i \in DOMAIN audit :
    LET legs == executed[audit[i].runner]
    IN  Safe(audit[i].runner) =>
          /\ audit[i].entryFallback = Flagged(legs.entry)
          /\ audit[i].exitFallback = Flagged(legs.exit)
=============================================================================
