------------------------ MODULE PaperSession_proofs ------------------------
(***************************************************************************)
(* PaperSession for any number of runners, bars, prices, crashes and       *)
(* failed writes: a trade that no crash fell inside of and no failed write *)
(* belongs to resumes at the price paid for it and is audited exactly      *)
(* once, no recorded fill is served to a live trade, and the two files     *)
(* implement the abstract ledger.                                          *)
(***************************************************************************)
EXTENDS PaperSession, FiniteSetTheorems, TLAPS

-----------------------------------------------------------------------------
(* The order of the runners, and the places the loop goes through.          *)

\* The order is a list of the runners without repetition, so a runner has one place in it.
LEMMA Places ==
  /\ Len(Order) \in Nat \ {0} /\ DOMAIN Order = 1..Len(Order)
  /\ \A i \in 1..Len(Order) : Order[i] \in Runner /\ Place(Order[i]) = i
  /\ \A r \in Runner : Place(r) \in 1..Len(Order) /\ Order[Place(r)] = r
<1>1. Order \in Seq(Runner) /\ Len(Order) \in Nat /\ DOMAIN Order = 1..Len(Order)
  BY RunnerAssumption
<1>2. \A i \in 1..Len(Order) : Order[i] \in Runner BY <1>1
<1>3. \A r \in Runner : Place(r) \in 1..Len(Order) /\ Order[Place(r)] = r
  BY <1>1, RunnerAssumption DEF Place
<1>4. \A i \in 1..Len(Order) : Place(Order[i]) = i
  BY <1>1, <1>2, <1>3, RunnerAssumption
<1>5. Len(Order) # 0 BY <1>1, <1>3, RunnerAssumption
<1> QED BY <1>1, <1>2, <1>3, <1>4, <1>5

\* The plan's bars are numbers, and a runner exits on a later bar than it enters on.
LEMMA PlanOrder ==
  ASSUME TypeOK
  PROVE  /\ barLog \in Nat
         /\ \A r \in Runner : plan[r].entry \in Nat \ {0} /\ plan[r].exit \in Nat /\ plan[r].entry < plan[r].exit
  BY BoundAssumption DEF TypeOK, Plans

\* Driving the runner whose turn it is moves that runner on by the bar, and no other.
LEMMA DriveAdvances ==
  ASSUME TypeOK, LoopInv, pc = "drive", NextTurn("drive", "drain"), UNCHANGED <<plan, barLog>>,
         NEW t, t = Turn
  PROVE  /\ t \in Runner
         /\ pc' \in {"drive", "drain"} /\ turn' \in 1..Len(Order)
         /\ HasEntered(t) <=> plan[t].entry <= barLog - 1
         /\ HasExited(t) <=> plan[t].exit <= barLog - 1
         /\ HasEntered(t)' <=> plan[t].entry <= barLog
         /\ HasExited(t)' <=> plan[t].exit <= barLog
         /\ \A r \in Runner : r # t => (HasEntered(r)' <=> HasEntered(r)) /\ (HasExited(r)' <=> HasExited(r))
         /\ \A r \in Runner : HasReported(r)' <=> HasReported(r)
         /\ \A r \in Runner : HasReported(r) <=> plan[r].exit <= barLog - 1
<1>1. t \in Runner /\ Place(t) = turn /\ turn \in 1..Len(Order) /\ Len(Order) \in Nat
      /\ barLog \in Nat /\ barLog > 0
  BY Places DEF LoopInv, Turn, TypeOK
<1>2. \A r \in Runner : Place(r) \in 1..Len(Order) /\ (r # t => Place(r) # turn)
  BY Places DEF Turn
<1>3. \/ turn < Len(Order) /\ pc' = "drive" /\ turn' = turn + 1
      \/ turn = Len(Order) /\ pc' = "drain" /\ turn' = 1
  BY <1>1 DEF NextTurn
<1>4. pc' \in {"drive", "drain"} /\ turn' \in 1..Len(Order)
  BY <1>1, <1>3
<1>5. DrivenTo(t) = barLog - 1 /\ \A r \in Runner : DrainedTo(r) = barLog - 1
  BY <1>1 DEF DrivenTo, DrainedTo
<1>6. \A r \in Runner : DrivenTo(r)' = IF r = t THEN barLog ELSE DrivenTo(r)
  BY <1>1, <1>2, <1>3 DEF DrivenTo
<1>7. \A r \in Runner : DrainedTo(r)' = DrainedTo(r)
  BY <1>1, <1>2, <1>3 DEF DrainedTo
<1> QED BY <1>1, <1>4, <1>5, <1>6, <1>7 DEF HasEntered, HasExited, HasReported

\* The drain's look at a runner is its report of the bar, and moves no other runner on.
LEMMA DrainAdvances ==
  ASSUME TypeOK, LoopInv, pc \in {"drain", "clear"}, NextTurn("drain", "wait"),
         UNCHANGED <<plan, barLog>>, NEW t, t = Turn
  PROVE  /\ t \in Runner
         /\ pc' \in {"drain", "wait"}
         /\ IF pc' = "wait" THEN turn' = 0 ELSE turn' \in 1..Len(Order)
         /\ \A r \in Runner : (HasEntered(r)' <=> HasEntered(r)) /\ (HasExited(r)' <=> HasExited(r))
         /\ \A r \in Runner : HasExited(r) <=> plan[r].exit <= barLog
         /\ \A r \in Runner : r # t => (HasReported(r)' <=> HasReported(r))
         /\ HasReported(t) <=> plan[t].exit <= barLog - 1
         /\ HasReported(t)' <=> plan[t].exit <= barLog
<1>1. t \in Runner /\ Place(t) = turn /\ turn \in 1..Len(Order) /\ Len(Order) \in Nat
      /\ barLog \in Nat /\ barLog > 0
  BY Places DEF LoopInv, Turn, TypeOK
<1>2. \A r \in Runner : Place(r) \in 1..Len(Order) /\ (r # t => Place(r) # turn)
  BY Places DEF Turn
<1>3. \/ turn < Len(Order) /\ pc' = "drain" /\ turn' = turn + 1
      \/ turn = Len(Order) /\ pc' = "wait" /\ turn' = 0
  BY <1>1 DEF NextTurn
<1>4. \A r \in Runner : DrivenTo(r) = barLog /\ DrivenTo(r)' = barLog
  BY <1>3 DEF DrivenTo
<1>5. DrainedTo(t) = barLog - 1
  BY <1>1 DEF DrainedTo
<1>6. \A r \in Runner : DrainedTo(r)' = IF r = t THEN barLog ELSE DrainedTo(r)
  BY <1>1, <1>2, <1>3 DEF DrainedTo
<1> QED BY <1>1, <1>3, <1>4, <1>5, <1>6 DEF HasEntered, HasExited, HasReported

\* A process that waits or is down has come to the end of the last bar logged.
LEMMA AtRest ==
  ASSUME pc \in {"wait", "down"}, NEW r \in Runner
  PROVE  /\ HasEntered(r) <=> plan[r].entry <= barLog
         /\ HasExited(r) <=> plan[r].exit <= barLog
         /\ HasReported(r) <=> plan[r].exit <= barLog
         /\ ~Clearing(r)
  BY DEF HasEntered, HasExited, HasReported, DrivenTo, DrainedTo, Clearing

\* Wherever the loop is, a runner has come to the last bar logged or to the one before.
LEMMA Progress ==
  ASSUME TypeOK, NEW r \in Runner
  PROVE  /\ HasReported(r) => HasExited(r)
         /\ HasExited(r) => HasEntered(r) /\ plan[r].exit <= barLog
         /\ HasEntered(r) => plan[r].entry <= barLog
         /\ plan[r].entry <= barLog /\ plan[r].entry # barLog => HasEntered(r)
         /\ plan[r].exit <= barLog /\ plan[r].exit # barLog => HasReported(r)
  BY PlanOrder DEF HasEntered, HasExited, HasReported, DrivenTo, DrainedTo

-----------------------------------------------------------------------------
(* The audit.                                                               *)

\* A line appended is one more line of its runner, and no other line changes.
LEMMA AuditGrows ==
  ASSUME audit \in Seq(Record), NEW a \in Record, audit' = Append(audit, a)
  PROVE  /\ audit' \in Seq(Record)
         /\ DOMAIN audit' = DOMAIN audit \cup {Len(audit) + 1} /\ Len(audit) + 1 \notin DOMAIN audit
         /\ audit'[Len(audit) + 1] = a
         /\ \A i \in DOMAIN audit : audit'[i] = audit[i]
         /\ \A r : r # a.runner => AuditedAt(r)' = AuditedAt(r)
         /\ AuditedAt(a.runner)' = AuditedAt(a.runner) \cup {Len(audit) + 1}
<1>1. audit' \in Seq(Record) OBVIOUS
<1>2. DOMAIN audit = 1..Len(audit) /\ DOMAIN audit' = 1..(Len(audit) + 1) /\ Len(audit) \in Nat
  OBVIOUS
<1>3. DOMAIN audit' = DOMAIN audit \cup {Len(audit) + 1} /\ Len(audit) + 1 \notin DOMAIN audit
  BY <1>2
<1>4. audit'[Len(audit) + 1] = a /\ \A i \in DOMAIN audit : audit'[i] = audit[i]
  BY <1>2
<1> QED BY <1>1, <1>3, <1>4 DEF AuditedAt

\* With at most one line a runner, the audit is no longer than the list of runners.
LEMMA AuditBounded ==
  ASSUME NEW lines \in Seq(Record),
         \A i, j \in DOMAIN lines : lines[i].runner = lines[j].runner => i = j
  PROVE  Len(lines) <= Len(Order)
<1> DEFINE f == [i \in 1..Len(lines) |-> Place(lines[i].runner)]
<1>1. DOMAIN lines = 1..Len(lines) /\ Len(lines) \in Nat OBVIOUS
<1>2. \A i \in 1..Len(lines) : lines[i].runner \in Runner
  <2>1. \A i \in 1..Len(lines) : lines[i] \in Record OBVIOUS
  <2> QED BY <2>1 DEF Record
<1>3. f \in [1..Len(lines) -> 1..Len(Order)] BY <1>2, Places
<1>4. \A i, j \in 1..Len(lines) : f[i] = f[j] => i = j
  BY <1>1, <1>2, Places
<1>5. f \in Injection(1..Len(lines), 1..Len(Order))
  BY <1>3, <1>4 DEF Injection, IsInjective
<1>6. IsFiniteSet(1..Len(Order)) /\ Cardinality(1..Len(Order)) = Len(Order)
      /\ Cardinality(1..Len(lines)) = Len(lines)
  <2>1. 1 \in Int /\ Len(Order) \in Int /\ Len(lines) \in Int BY <1>1, Places
  <2>2. IsFiniteSet(1..Len(Order)) BY <2>1, FS_Interval
  <2>3. Cardinality(1..Len(Order)) = IF 1 > Len(Order) THEN 0 ELSE Len(Order) - 1 + 1
    BY <2>1, FS_Interval
  <2>4. Cardinality(1..Len(lines)) = IF 1 > Len(lines) THEN 0 ELSE Len(lines) - 1 + 1
    BY <2>1, FS_Interval
  <2> QED BY <1>1, <2>2, <2>3, <2>4, Places
<1>7. Cardinality(1..Len(lines)) <= Cardinality(1..Len(Order))
  BY <1>5, <1>6, FS_Injection
<1> QED BY <1>6, <1>7

-----------------------------------------------------------------------------
(* The steps that only move the loop on.                                    *)

\* No runner has come further, as far as its trade is concerned.
Steady ==
  \A r \in Runner : /\ HasEntered(r)' <=> HasEntered(r)
                    /\ HasExited(r)' <=> HasExited(r)
                    /\ HasReported(r)' <=> HasReported(r)

\* Such a step that writes nothing keeps all that is said of files, memory and history.
LEMMA SteadyPreserves ==
  ASSUME IInv, Live, pc' # "down", Steady, TypeOK', LoopInv',
         \A r \in Runner : ~Clearing(r) /\ ~Clearing(r)',
         UNCHANGED <<plan, audit, posFile, runner, reported, queue, recVars, executed, torn, hurt>>
  PROVE  IInv'
<1>1. PhaseInv' BY DEF IInv, PhaseInv, Live, Steady
<1>2. FileInv' BY DEF IInv, FileInv, Steady, AuditedAt, recVars
<1>3. MirrorInv' BY DEF IInv, MirrorInv, Live, recVars
<1>4. \A r \in Runner : Safe(r)' <=> Safe(r) BY DEF Safe, Untorn
<1>5. DurableInv' BY <1>4 DEF IInv, DurableInv, Steady, AuditedAt
<1>6. PricesInv' BY <1>4 DEF IInv, PricesInv, Live, Steady
<1>7. NoStaleFill' BY DEF IInv, NoStaleFill
<1> QED BY <1>1, <1>2, <1>3, <1>5, <1>6, <1>7 DEF IInv

\* A bar logged is one no runner has been driven with yet.
LEMMA LogBarPreserves ==
  ASSUME IInv, LogBar
  PROVE  IInv'
<1> USE DEF LogBar
<1>1. barLog \in Nat /\ MaxBar \in Nat /\ barLog' \in 0..MaxBar /\ barLog' = barLog + 1
  BY BoundAssumption DEF IInv, TypeOK
<1>2. Len(Order) \in Nat \ {0} /\ \A r \in Runner : Place(r) \in 1..Len(Order)
  BY Places
<1>3. TypeOK'
  <2>1. seenBars' \in 0..MaxBar BY <1>1 DEF IInv, TypeOK, LoopInv, Live
  <2>2. turn' \in 0..Len(Order) BY <1>2
  <2> QED BY <1>1, <2>1, <2>2 DEF IInv, TypeOK, recVars, faultVars
<1>4. LoopInv' BY <1>1, <1>2 DEF IInv, TypeOK, LoopInv, Live, faultVars
<1>5. Steady
  <2>1. \A r \in Runner : DrivenTo(r)' = DrivenTo(r) /\ DrainedTo(r)' = DrainedTo(r)
    BY <1>1, <1>2 DEF DrivenTo, DrainedTo
  <2> QED BY <2>1 DEF Steady, HasEntered, HasExited, HasReported
<1> QED BY <1>3, <1>4, <1>5, SteadyPreserves DEF Live, Clearing, recVars, faultVars

\* A runner that does nothing on a bar has come to it with its trade unchanged.
LEMMA RunnerIdlePreserves ==
  ASSUME IInv, RunnerIdle
  PROVE  IInv'
<1> DEFINE t == Turn
<1> USE DEF RunnerIdle
<1>1. /\ t \in Runner /\ pc' \in {"drive", "drain"} /\ turn' \in 1..Len(Order)
      /\ HasEntered(t) <=> plan[t].entry <= barLog - 1
      /\ HasExited(t) <=> plan[t].exit <= barLog - 1
  BY DriveAdvances DEF IInv, diskVars
<1>2. ASSUME NEW r \in Runner
      PROVE  /\ HasEntered(r)' <=> HasEntered(r)
             /\ HasExited(r)' <=> HasExited(r)
             /\ HasReported(r)' <=> HasReported(r)
  <2>1. HasReported(r)' <=> HasReported(r) BY DriveAdvances DEF IInv, diskVars
  <2>2. CASE r # t BY <2>1, <2>2, DriveAdvances DEF IInv, diskVars
  <2>3. CASE r = t
    <3>1. HasEntered(r)' <=> plan[r].entry <= barLog
      BY <2>3, DriveAdvances DEF IInv, diskVars
    <3>2. HasExited(r)' <=> plan[r].exit <= barLog
      BY <2>3, DriveAdvances DEF IInv, diskVars
    <3>3. barLog \in Nat /\ plan[r].entry \in Nat /\ plan[r].exit \in Nat /\ plan[r].entry < plan[r].exit
      BY PlanOrder DEF IInv
    <3>4. runner[r].phase = IF HasExited(r) THEN "done" ELSE IF HasEntered(r) THEN "open" ELSE "flat"
      BY DEF IInv, PhaseInv, Live
    <3>5. ~(runner[r].phase = "flat" /\ barLog = plan[r].entry)
          /\ ~(runner[r].phase = "open" /\ barLog = plan[r].exit)
      BY <2>3 DEF Enters, Exits, IInv, LoopInv, Live
    <3> QED BY <1>1, <2>1, <2>3, <3>1, <3>2, <3>3, <3>4, <3>5
  <2> QED BY <2>2, <2>3
<1>3. TypeOK'
  BY <1>1, Places DEF IInv, TypeOK, diskVars, engineVars, recVars, faultVars
<1>4. LoopInv' BY <1>1 DEF IInv, LoopInv, Live, diskVars, engineVars, faultVars
<1>5. Steady BY <1>2 DEF Steady
<1> QED BY <1>1, <1>3, <1>4, <1>5, SteadyPreserves
        DEF Live, Clearing, diskVars, engineVars, faultVars

\* A look of the drain that finds no trade to report changes nothing either.
LEMMA NothingToReportPreserves ==
  ASSUME IInv, NothingToReport
  PROVE  IInv'
<1> DEFINE t == Turn
<1> USE DEF NothingToReport
<1>1. /\ t \in Runner /\ pc' \in {"drain", "wait"}
      /\ IF pc' = "wait" THEN turn' = 0 ELSE turn' \in 1..Len(Order)
  BY DrainAdvances DEF IInv, diskVars
<1>2. ASSUME NEW r \in Runner
      PROVE  /\ HasEntered(r)' <=> HasEntered(r)
             /\ HasExited(r)' <=> HasExited(r)
             /\ HasReported(r)' <=> HasReported(r)
  <2>1. (HasEntered(r)' <=> HasEntered(r)) /\ (HasExited(r)' <=> HasExited(r))
    BY DrainAdvances DEF IInv, diskVars
  <2>2. CASE r # t BY <2>1, <2>2, DrainAdvances DEF IInv, diskVars
  <2>3. CASE r = t
    <3>1. (HasReported(r)' <=> plan[r].exit <= barLog) /\ (HasExited(r) <=> plan[r].exit <= barLog)
          /\ (HasReported(r) <=> plan[r].exit <= barLog - 1)
      BY <2>3, DrainAdvances DEF IInv, diskVars
    <3>2. barLog \in Nat /\ plan[r].exit \in Nat BY PlanOrder DEF IInv
    <3>3. HasExited(r) => runner[r].phase = "done" BY DEF IInv, PhaseInv, Live
    <3>4. HasReported(r) <=> r \in reported BY DEF IInv, PhaseInv, Live
    <3>5. ~HasExited(r) \/ HasReported(r) BY <2>3, <3>3, <3>4 DEF Completed
    <3> QED BY <2>1, <3>1, <3>2, <3>5
  <2> QED BY <2>2, <2>3
<1>3. TypeOK'
  BY <1>1, Places DEF IInv, TypeOK, diskVars, engineVars, recVars, faultVars
<1>4. LoopInv' BY <1>1 DEF IInv, LoopInv, Live, diskVars, engineVars, faultVars
<1>5. Steady BY <1>2 DEF Steady
<1> QED BY <1>1, <1>3, <1>4, <1>5, SteadyPreserves
        DEF Live, Clearing, diskVars, engineVars, faultVars

-----------------------------------------------------------------------------
(* Fills and writes.                                                        *)

\* Every fill is a leg, at a price or at 0.
LEMMA Fills ==
  ASSUME NEW leg \in Quotable
  PROVE  leg \in Leg /\ leg # None /\ leg.price \in Price \cup {0} /\ leg \in PositionOrNone
<1>1. \A p \in Price : BookLeg(p) \in Leg /\ OneSidedLeg(p) \in Leg
  BY DEF Leg, BookLeg, OneSidedLeg
<1>2. NoQuoteLeg \in Leg BY DEF Leg, NoQuoteLeg
<1>3. leg \in Leg BY <1>1, <1>2 DEF Quotable
<1> QED BY <1>3, NoneAssumption DEF Leg, PositionOrNone

\* A write that fails hurts its own runner and no other.
LEMMA WriteOutcome ==
  ASSUME TypeOK, NEW written \in BOOLEAN, NEW t \in Runner, Outcome(written, t), UNCHANGED plan
  PROVE  /\ torn' = torn /\ crashes' = crashes
         /\ hurt' \in SUBSET Runner /\ hurt \subseteq hurt' /\ failures' \in 0..MaxFailures
         /\ \A r \in Runner : r # t => (r \in hurt' <=> r \in hurt)
         /\ t \notin hurt' => written
         /\ \A r \in Runner : Safe(r)' => Safe(r)
         /\ \A r \in Runner : r # t => (Safe(r)' <=> Safe(r))
<1>1. torn' = torn /\ crashes' = crashes BY DEF Outcome
<1>2. CASE written
  BY <1>1, <1>2 DEF Outcome, TypeOK, Safe, Untorn
<1>3. CASE ~written
  <2>1. failures < MaxFailures /\ failures' = failures + 1 /\ hurt' = hurt \cup {t}
    BY <1>3 DEF Outcome
  <2>2. failures' \in 0..MaxFailures BY <2>1, BoundAssumption DEF TypeOK
  <2> QED BY <1>1, <1>3, <2>1, <2>2 DEF TypeOK, Safe, Untorn
<1> QED BY <1>2, <1>3

\* position.json shows, for a runner without a failed write, the Recorder's map, whichever
\* runner the write was for.
LEMMA WritePreservesMirror ==
  ASSUME TypeOK, Live, MirrorInv, NEW written \in BOOLEAN, NEW t \in Runner,
         Outcome(written, t), UNCHANGED plan, WritePosition(open', written),
         \A r \in Runner : r # t => open'[r] = open[r]
  PROVE  /\ MirrorInv'
         /\ \A r \in Runner : r # t /\ r \notin hurt => posFile'[r] = posFile[r]
         /\ t \notin hurt' => posFile'[t] = open'[t]
<1>1. posFile' = IF written THEN open' ELSE posFile BY DEF WritePosition
<1>2. hurt \subseteq hurt' /\ (t \notin hurt' => written)
  BY WriteOutcome
<1>3. \A r \in Runner : r \notin hurt => posFile[r] = open[r] BY DEF MirrorInv
<1>4. CASE written
  <2>1. posFile' = open' BY <1>1, <1>4
  <2> QED BY <1>3, <2>1 DEF MirrorInv
<1>5. CASE ~written
  <2>1. posFile' = posFile /\ t \in hurt' BY <1>1, <1>2, <1>5
  <2> QED BY <1>2, <1>3, <2>1 DEF MirrorInv
<1> QED BY <1>4, <1>5

\* An entry is in the runner, in the Recorder and, if it could be written, in position.json.
LEMMA EnterLivePreserves ==
  ASSUME IInv, NEW leg \in Quotable, NEW written \in BOOLEAN, EnterLive(leg, written)
  PROVE  IInv'
<1> DEFINE t == Turn
<1>0. /\ pc = "drive" /\ NextTurn("drive", "drain") /\ Enters(t) /\ queue[t] = <<>>
      /\ Outcome(written, t) /\ WritePosition(open', written)
      /\ UNCHANGED <<plan, barLog, audit, seenBars, reported, queue, exitLeg>>
  BY DEF EnterLive
<1>1. /\ t \in Runner /\ pc' \in {"drive", "drain"} /\ turn' \in 1..Len(Order)
      /\ TypeOK /\ LoopInv /\ Live
  BY <1>0, DriveAdvances DEF IInv, Live
<1>2. PICK t0 \in Runner : t0 = t BY <1>1
<1>3. /\ HasEntered(t0)' /\ ~HasExited(t0)' /\ ~HasReported(t0)' /\ ~HasReported(t0)
      /\ \A r \in Runner : r # t0 => (HasEntered(r)' <=> HasEntered(r)) /\ (HasExited(r)' <=> HasExited(r))
      /\ \A r \in Runner : HasReported(r)' <=> HasReported(r)
  <2>1. /\ HasEntered(t0)' <=> plan[t0].entry <= barLog
        /\ HasExited(t0)' <=> plan[t0].exit <= barLog
        /\ HasReported(t0) <=> plan[t0].exit <= barLog - 1
        /\ \A r \in Runner : r # t0 => (HasEntered(r)' <=> HasEntered(r)) /\ (HasExited(r)' <=> HasExited(r))
        /\ \A r \in Runner : HasReported(r)' <=> HasReported(r)
    BY <1>0, <1>1, <1>2, DriveAdvances
  <2>2. plan[t0].entry = barLog BY <1>0, <1>1, <1>2 DEF Enters, LoopInv
  <2>3. barLog \in Nat /\ plan[t0].exit \in Nat /\ plan[t0].entry < plan[t0].exit
    BY <1>1, PlanOrder
  <2> QED BY <2>1, <2>2, <2>3
<1>4. leg \in Leg /\ leg # None /\ leg.price \in Price \cup {0} /\ leg \in PositionOrNone
  BY Fills
<1>5. /\ runner' \in [Runner -> [phase : {"flat", "open", "done"}, entry : Price \cup {0},
                                 exit : Price \cup {0}]]
      /\ runner'[t0].phase = "open" /\ runner'[t0].entry = leg.price
      /\ \A r \in Runner : r # t0 => runner'[r] = runner[r]
  BY <1>1, <1>2, <1>4 DEF TypeOK, EnterLive
<1>6. /\ open' \in [Runner -> PositionOrNone] /\ entryLeg' \in [Runner -> PositionOrNone]
      /\ open'[t0] = leg /\ \A r \in Runner : r # t0 => open'[r] = open[r]
  BY <1>1, <1>2, <1>4 DEF TypeOK, EnterLive
<1>7. /\ executed' \in [Runner -> [entry : PositionOrNone, exit : PositionOrNone]]
      /\ executed'[t0].entry = leg
      /\ \A r \in Runner : r # t0 => executed'[r] = executed[r]
  BY <1>1, <1>2, <1>4 DEF TypeOK, EnterLive
<1>8. /\ MirrorInv'
      /\ \A r \in Runner : r # t0 /\ r \notin hurt => posFile'[r] = posFile[r]
      /\ t0 \notin hurt' => posFile'[t0] = open'[t0]
  BY <1>0, <1>1, <1>2, <1>6, WritePreservesMirror DEF IInv
<1>9. /\ torn' = torn /\ crashes' = crashes
      /\ hurt' \in SUBSET Runner /\ failures' \in 0..MaxFailures
      /\ \A r \in Runner : Safe(r)' => Safe(r)
  BY <1>0, <1>1, <1>2, WriteOutcome
<1>10. posFile' \in {open', posFile} BY <1>0 DEF WritePosition
<1>11. \A r \in Runner : ~Clearing(r) /\ ~Clearing(r)' /\ AuditedAt(r)' = AuditedAt(r)
  BY <1>0, <1>1 DEF Clearing, AuditedAt
<1>12. TypeOK'
  <2>1. posFile' \in [Runner -> PositionOrNone] BY <1>6, <1>10 DEF IInv, TypeOK
  <2>2. turn' \in 0..Len(Order) BY <1>1, Places
  <2> QED BY <1>0, <1>1, <1>5, <1>6, <1>7, <1>9, <2>1, <2>2 DEF TypeOK
<1>13. LoopInv' BY <1>0, <1>1, <1>9 DEF LoopInv, Live
<1>14. PhaseInv'
  <2> SUFFICES ASSUME NEW r \in Runner
               PROVE  /\ runner'[r].phase = IF HasExited(r)' THEN "done"
                                           ELSE IF HasEntered(r)' THEN "open" ELSE "flat"
                      /\ r \in reported' <=> HasReported(r)'
    BY <1>11 DEF PhaseInv
  <2>1. CASE r = t0 BY <1>0, <1>3, <1>5, <2>1 DEF IInv, PhaseInv, Live
  <2>2. CASE r # t0 BY <1>0, <1>3, <1>5, <2>2 DEF IInv, PhaseInv, Live
  <2> QED BY <2>1, <2>2
<1>15. FileInv' BY <1>0, <1>3, <1>6, <1>10, <1>11 DEF IInv, FileInv
<1>16. DurableInv'
  <2> SUFFICES ASSUME NEW r \in Runner, Safe(r)'
               PROVE  /\ posFile'[r] # None <=> HasEntered(r)' /\ ~HasReported(r)'
                      /\ posFile'[r] # None => posFile'[r] = executed'[r].entry
                      /\ AuditedAt(r)' # {} <=> HasReported(r)' \/ Clearing(r)'
                      /\ \A i \in AuditedAt(r)' : /\ audit'[i].entry = executed'[r].entry.price
                                                 /\ audit'[i].exit = executed'[r].exit.price
    BY DEF DurableInv
  <2>1. Safe(r) /\ r \notin hurt /\ r \notin hurt' BY <1>9 DEF Safe
  <2>2. CASE r = t0
    <3>1. posFile'[r] = leg /\ executed'[r].entry = leg BY <1>6, <1>7, <1>8, <2>1, <2>2
    <3>2. AuditedAt(r) = {} BY <1>3, <1>11, <2>2 DEF IInv, FileInv
    <3> QED BY <1>3, <1>4, <1>11, <2>2, <3>1, <3>2
  <2>3. CASE r # t0
    BY <1>0, <1>3, <1>7, <1>8, <1>11, <2>1, <2>3 DEF IInv, DurableInv
  <2> QED BY <2>2, <2>3
<1>17. PricesInv' BY <1>1, <1>3, <1>5, <1>7, <1>9 DEF IInv, PricesInv, Live
<1>18. NoStaleFill' BY <1>0, <1>2, <1>5 DEF IInv, NoStaleFill
<1> QED BY <1>8, <1>12, <1>13, <1>14, <1>15, <1>16, <1>17, <1>18 DEF IInv

\* An exit is in the runner alone until drain hands the trade on.
LEMMA ExitLivePreserves ==
  ASSUME IInv, NEW leg \in Quotable, ExitLive(leg)
  PROVE  IInv'
<1> DEFINE t == Turn
<1>0. /\ pc = "drive" /\ NextTurn("drive", "drain") /\ Exits(t) /\ queue[t] = <<>>
      /\ UNCHANGED <<plan, barLog, audit, posFile, seenBars, reported, queue, open, entryLeg,
                     torn, crashes, hurt, failures>>
  BY DEF ExitLive, diskVars, faultVars
<1>1. /\ t \in Runner /\ pc' \in {"drive", "drain"} /\ turn' \in 1..Len(Order)
      /\ TypeOK /\ LoopInv /\ Live
  BY <1>0, DriveAdvances DEF IInv, Live
<1>2. PICK t0 \in Runner : t0 = t BY <1>1
<1>3. /\ HasEntered(t0)' /\ HasEntered(t0) /\ HasExited(t0)' /\ ~HasReported(t0)
      /\ \A r \in Runner : HasEntered(r)' <=> HasEntered(r)
      /\ \A r \in Runner : r # t0 => (HasExited(r)' <=> HasExited(r))
      /\ \A r \in Runner : HasReported(r)' <=> HasReported(r)
  <2>1. /\ HasEntered(t0)' <=> plan[t0].entry <= barLog
        /\ HasExited(t0)' <=> plan[t0].exit <= barLog
        /\ HasReported(t0) <=> plan[t0].exit <= barLog - 1
        /\ HasEntered(t0) <=> plan[t0].entry <= barLog - 1
        /\ \A r \in Runner : r # t0 => (HasEntered(r)' <=> HasEntered(r)) /\ (HasExited(r)' <=> HasExited(r))
        /\ \A r \in Runner : HasReported(r)' <=> HasReported(r)
    BY <1>0, <1>1, <1>2, DriveAdvances
  <2>2. plan[t0].exit = barLog BY <1>0, <1>1, <1>2 DEF Exits, LoopInv
  <2>3. barLog \in Nat /\ plan[t0].entry \in Nat /\ plan[t0].exit \in Nat /\ plan[t0].entry < plan[t0].exit
    BY <1>1, PlanOrder
  <2> QED BY <2>1, <2>2, <2>3
<1>4. leg.price \in Price \cup {0} /\ leg \in PositionOrNone BY Fills
<1>5. /\ runner' \in [Runner -> [phase : {"flat", "open", "done"}, entry : Price \cup {0},
                                 exit : Price \cup {0}]]
      /\ runner'[t0].phase = "done" /\ runner'[t0].entry = runner[t0].entry
      /\ runner'[t0].exit = leg.price
      /\ \A r \in Runner : r # t0 => runner'[r] = runner[r]
  BY <1>1, <1>2, <1>4 DEF TypeOK, ExitLive
<1>6. exitLeg' \in [Runner -> PositionOrNone]
  BY <1>1, <1>2, <1>4 DEF TypeOK, ExitLive
<1>7. /\ executed' \in [Runner -> [entry : PositionOrNone, exit : PositionOrNone]]
      /\ executed'[t0].exit = leg /\ \A r \in Runner : executed'[r].entry = executed[r].entry
      /\ \A r \in Runner : r # t0 => executed'[r] = executed[r]
  BY <1>1, <1>2, <1>4 DEF TypeOK, ExitLive
<1>8. \A r \in Runner : ~Clearing(r) /\ ~Clearing(r)' /\ AuditedAt(r)' = AuditedAt(r)
  BY <1>0, <1>1 DEF Clearing, AuditedAt
<1>9. \A r \in Runner : Safe(r)' <=> Safe(r) BY <1>0 DEF Safe, Untorn
<1>10. TypeOK'
  <2>1. turn' \in 0..Len(Order) BY <1>1, Places
  <2> QED BY <1>0, <1>1, <1>5, <1>6, <1>7, <2>1 DEF TypeOK
<1>11. LoopInv' BY <1>0, <1>1 DEF LoopInv, Live
<1>12. PhaseInv'
  <2> SUFFICES ASSUME NEW r \in Runner
               PROVE  /\ runner'[r].phase = IF HasExited(r)' THEN "done"
                                           ELSE IF HasEntered(r)' THEN "open" ELSE "flat"
                      /\ r \in reported' <=> HasReported(r)'
    BY <1>8 DEF PhaseInv
  <2>1. CASE r = t0 BY <1>0, <1>3, <1>5, <2>1 DEF IInv, PhaseInv, Live
  <2>2. CASE r # t0 BY <1>0, <1>3, <1>5, <2>2 DEF IInv, PhaseInv, Live
  <2> QED BY <2>1, <2>2
<1>13. FileInv' BY <1>0, <1>3, <1>8 DEF IInv, FileInv
<1>14. MirrorInv' BY <1>0, <1>1 DEF IInv, MirrorInv, Live
<1>15. DurableInv'
  <2> SUFFICES ASSUME NEW r \in Runner, Safe(r)'
               PROVE  /\ posFile'[r] # None <=> HasEntered(r)' /\ ~HasReported(r)'
                      /\ posFile'[r] # None => posFile'[r] = executed'[r].entry
                      /\ AuditedAt(r)' # {} <=> HasReported(r)' \/ Clearing(r)'
                      /\ \A i \in AuditedAt(r)' : /\ audit'[i].entry = executed'[r].entry.price
                                                 /\ audit'[i].exit = executed'[r].exit.price
    BY DEF DurableInv
  <2>1. CASE r = t0
    <3>1. AuditedAt(r) = {} BY <1>3, <1>8, <2>1 DEF IInv, FileInv
    <3> QED BY <1>0, <1>3, <1>7, <1>8, <1>9, <2>1, <3>1 DEF IInv, DurableInv
  <2>2. CASE r # t0 BY <1>0, <1>3, <1>7, <1>8, <1>9, <2>2 DEF IInv, DurableInv
  <2> QED BY <2>1, <2>2
<1>16. PricesInv' BY <1>1, <1>3, <1>5, <1>7, <1>9 DEF IInv, PricesInv, Live
<1>17. NoStaleFill' BY <1>0, <1>2, <1>5 DEF IInv, NoStaleFill
<1> QED BY <1>10, <1>11, <1>12, <1>13, <1>14, <1>15, <1>16, <1>17 DEF IInv

\* What the drain finds to report is a trade of this bar that has no line in the audit.
LEMMA ToReport ==
  ASSUME IInv, pc = "drain", NEW t \in Runner, Completed(t)
  PROVE  HasExited(t) /\ HasEntered(t) /\ ~HasReported(t) /\ AuditedAt(t) = {}
<1>1. HasExited(t) /\ ~HasReported(t) BY DEF IInv, PhaseInv, Live, Completed
<1>2. HasEntered(t) BY <1>1, Progress DEF IInv
<1>3. AuditedAt(t) = {} BY <1>1 DEF IInv, FileInv, Clearing
<1> QED BY <1>1, <1>2, <1>3

\* The line of a trade has the types of the audit.
LEMMA AuditLine ==
  ASSUME TypeOK, NEW t \in Runner
  PROVE  AuditRecord(t) \in Record
<1>1. runner[t].entry \in Price \cup {0} /\ runner[t].exit \in Price \cup {0} BY DEF TypeOK
<1>2. \A leg \in PositionOrNone : Flagged(leg) \in BOOLEAN
  <2> TAKE leg \in PositionOrNone
  <2>1. CASE leg = None BY <2>1 DEF Flagged
  <2>2. CASE leg # None BY <2>2 DEF Flagged, PositionOrNone, Leg
  <2> QED BY <2>1, <2>2
<1>3. entryLeg[t] \in PositionOrNone /\ exitLeg[t] \in PositionOrNone BY DEF TypeOK
<1> QED BY <1>1, <1>2, <1>3 DEF AuditRecord, Record

\* The audit line, if it could be written, has the prices of the trade.
LEMMA AppendAuditPreserves ==
  ASSUME IInv, NEW written \in BOOLEAN, AppendAudit(written)
  PROVE  IInv'
<1> DEFINE t == Turn
<1>0. /\ pc = "drain" /\ Completed(t) /\ pc' = "clear"
      /\ audit' = IF written THEN Append(audit, AuditRecord(t)) ELSE audit
      /\ Outcome(written, t)
      /\ UNCHANGED <<plan, barLog, posFile, turn, seenBars, runner, reported, queue, open,
                     entryLeg, exitLeg, executed>>
  BY DEF AppendAudit, engineVars, recVars
<1>1. t \in Runner /\ TypeOK /\ LoopInv /\ Live
  BY <1>0, Places DEF IInv, LoopInv, Live, Turn
<1>2. PICK t0 \in Runner : t0 = t BY <1>1
<1>3. HasExited(t0) /\ HasEntered(t0) /\ ~HasReported(t0) /\ AuditedAt(t0) = {}
  BY <1>0, <1>2, ToReport
<1>4. \A r \in Runner : /\ HasEntered(r)' <=> HasEntered(r)
                        /\ HasExited(r)' <=> HasExited(r)
                        /\ HasReported(r)' <=> HasReported(r)
  BY <1>0 DEF HasEntered, HasExited, HasReported, DrivenTo, DrainedTo
<1>5. \A r \in Runner : ~Clearing(r) /\ (Clearing(r)' <=> r = t0)
  BY <1>0, <1>2 DEF Clearing, Turn
<1>6. /\ torn' = torn /\ crashes' = crashes
      /\ hurt' \in SUBSET Runner /\ hurt \subseteq hurt' /\ failures' \in 0..MaxFailures
      /\ t0 \notin hurt' => written
      /\ \A r \in Runner : Safe(r)' => Safe(r)
  BY <1>0, <1>1, <1>2, WriteOutcome
<1>7. /\ audit' \in Seq(Record)
      /\ \A r \in Runner : r # t0 => AuditedAt(r)' = AuditedAt(r)
      /\ \A r \in Runner : \A i \in AuditedAt(r) : audit'[i] = audit[i]
      /\ \A i, j \in AuditedAt(t0)' : i = j
      /\ \A i \in AuditedAt(t0)' : audit'[i] = AuditRecord(t0)
      /\ written => AuditedAt(t0)' # {}
  <2>1. CASE written
    <3>1. audit \in Seq(Record) /\ audit' = Append(audit, AuditRecord(t0)) /\ AuditRecord(t0) \in Record
      BY <1>0, <1>1, <1>2, <2>1, AuditLine DEF TypeOK
    <3>2. PICK a \in Record : a = AuditRecord(t0) BY <3>1
    <3>3. a.runner = t0 BY <3>2 DEF AuditRecord
    <3>4. /\ audit' \in Seq(Record) /\ audit'[Len(audit) + 1] = a
          /\ \A i \in DOMAIN audit : audit'[i] = audit[i]
          /\ \A r : r # a.runner => AuditedAt(r)' = AuditedAt(r)
          /\ AuditedAt(a.runner)' = AuditedAt(a.runner) \cup {Len(audit) + 1}
      BY <3>1, <3>2, AuditGrows
    <3>5. \A r \in Runner : \A i \in AuditedAt(r) : audit'[i] = audit[i]
      BY <3>4 DEF AuditedAt
    <3>6. AuditedAt(t0)' = {Len(audit) + 1} BY <1>3, <3>3, <3>4
    <3> QED BY <3>2, <3>3, <3>4, <3>5, <3>6
  <2>2. CASE ~written
    <3>1. audit' = audit BY <1>0, <2>2
    <3>2. \A r \in Runner : AuditedAt(r)' = AuditedAt(r) BY <3>1 DEF AuditedAt
    <3> QED BY <1>1, <1>3, <2>2, <3>1, <3>2 DEF TypeOK
  <2> QED BY <2>1, <2>2
<1>8. FileInv' BY <1>0, <1>3, <1>4, <1>5, <1>7 DEF IInv, FileInv
<1>9. TypeOK'
  <2>1. \A i, j \in DOMAIN audit' : audit'[i].runner = audit'[j].runner => i = j
    <3> SUFFICES ASSUME NEW i \in DOMAIN audit', NEW j \in DOMAIN audit',
                        audit'[i].runner = audit'[j].runner
                 PROVE  i = j
      OBVIOUS
    <3>1. audit'[i] \in Record BY <1>7
    <3>2. PICK r \in Runner : r = audit'[i].runner BY <3>1 DEF Record
    <3>3. i \in AuditedAt(r)' /\ j \in AuditedAt(r)' BY <3>2 DEF AuditedAt
    <3> QED BY <1>8, <3>3 DEF FileInv
  <2>2. Len(audit') <= Len(Order) BY <1>7, <2>1, AuditBounded
  <2> QED BY <1>0, <1>1, <1>6, <1>7, <2>2 DEF TypeOK
<1>10. LoopInv' BY <1>0, <1>1, <1>6 DEF LoopInv, Live
<1>11. PhaseInv' BY <1>0, <1>3, <1>4, <1>5 DEF IInv, PhaseInv, Live
<1>12. MirrorInv' BY <1>0, <1>6 DEF IInv, MirrorInv, Live
<1>13. DurableInv'
  <2> SUFFICES ASSUME NEW r \in Runner, Safe(r)'
               PROVE  /\ posFile'[r] # None <=> HasEntered(r)' /\ ~HasReported(r)'
                      /\ posFile'[r] # None => posFile'[r] = executed'[r].entry
                      /\ AuditedAt(r)' # {} <=> HasReported(r)' \/ Clearing(r)'
                      /\ \A i \in AuditedAt(r)' : /\ audit'[i].entry = executed'[r].entry.price
                                                 /\ audit'[i].exit = executed'[r].exit.price
    BY DEF DurableInv
  <2>1. Safe(r) /\ (r = t0 => written) BY <1>6 DEF Safe
  <2>2. CASE r = t0
    <3>1. \A i \in AuditedAt(r)' : audit'[i].entry = runner[r].entry /\ audit'[i].exit = runner[r].exit
      BY <1>7, <2>2 DEF AuditRecord
    <3>2. runner[r].entry = executed[r].entry.price /\ runner[r].exit = executed[r].exit.price
      BY <1>1, <1>3, <2>1, <2>2 DEF IInv, PricesInv
    <3>3. AuditedAt(r)' # {} BY <1>7, <2>1, <2>2
    <3>4. /\ posFile[r] # None <=> HasEntered(r) /\ ~HasReported(r)
          /\ posFile[r] # None => posFile[r] = executed[r].entry
      BY <2>1 DEF IInv, DurableInv
    <3> QED BY <1>0, <1>4, <1>5, <2>2, <3>1, <3>2, <3>3, <3>4
  <2>3. CASE r # t0
    <3>1. AuditedAt(r)' = AuditedAt(r) /\ \A i \in AuditedAt(r) : audit'[i] = audit[i]
      BY <1>7, <2>3
    <3>2. /\ posFile[r] # None <=> HasEntered(r) /\ ~HasReported(r)
          /\ posFile[r] # None => posFile[r] = executed[r].entry
          /\ AuditedAt(r) # {} <=> HasReported(r)
          /\ \A i \in AuditedAt(r) : /\ audit[i].entry = executed[r].entry.price
                                    /\ audit[i].exit = executed[r].exit.price
      BY <1>5, <2>1 DEF IInv, DurableInv
    <3> QED BY <1>0, <1>4, <1>5, <2>3, <3>1, <3>2
  <2> QED BY <2>2, <2>3
<1>14. PricesInv' BY <1>0, <1>1, <1>4, <1>6 DEF IInv, PricesInv
<1>15. NoStaleFill' BY <1>0 DEF IInv, NoStaleFill
<1> QED BY <1>8, <1>9, <1>10, <1>11, <1>12, <1>13, <1>14, <1>15 DEF IInv

\* The position goes, and the trade is reported.
LEMMA ClearPositionPreserves ==
  ASSUME IInv, NEW written \in BOOLEAN, ClearPosition(written)
  PROVE  IInv'
<1> DEFINE t == Turn
<1>0. /\ pc = "clear" /\ NextTurn("drain", "wait")
      /\ Outcome(written, t) /\ WritePosition(open', written)
      /\ reported' = reported \cup {t}
      /\ UNCHANGED <<plan, barLog, audit, seenBars, runner, queue, executed>>
  BY DEF ClearPosition
<1>1. /\ t \in Runner /\ pc' \in {"drain", "wait"} /\ TypeOK /\ LoopInv /\ Live
      /\ IF pc' = "wait" THEN turn' = 0 ELSE turn' \in 1..Len(Order)
  BY <1>0, DrainAdvances DEF IInv, Live
<1>2. PICK t0 \in Runner : t0 = t BY <1>1
<1>3. /\ HasExited(t0) /\ HasEntered(t0) /\ HasReported(t0)' /\ ~HasReported(t0)
      /\ \A r \in Runner : (HasEntered(r)' <=> HasEntered(r)) /\ (HasExited(r)' <=> HasExited(r))
      /\ \A r \in Runner : r # t0 => (HasReported(r)' <=> HasReported(r))
  <2>1. Clearing(t0) BY <1>0, <1>2 DEF Clearing
  <2>2. HasExited(t0) /\ ~HasReported(t0) BY <1>1, <2>1 DEF IInv, PhaseInv
  <2>3. HasEntered(t0) BY <1>1, <2>2, Progress
  <2>4. /\ \A r \in Runner : (HasEntered(r)' <=> HasEntered(r)) /\ (HasExited(r)' <=> HasExited(r))
        /\ \A r \in Runner : HasExited(r) <=> plan[r].exit <= barLog
        /\ \A r \in Runner : r # t0 => (HasReported(r)' <=> HasReported(r))
        /\ HasReported(t0)' <=> plan[t0].exit <= barLog
    BY <1>0, <1>1, <1>2, DrainAdvances
  <2> QED BY <2>2, <2>3, <2>4
<1>4. \A r \in Runner : (Clearing(r) <=> r = t0) /\ ~Clearing(r)' /\ AuditedAt(r)' = AuditedAt(r)
  BY <1>0, <1>1, <1>2 DEF Clearing, AuditedAt
<1>5. /\ open' \in [Runner -> PositionOrNone]
      /\ entryLeg' \in [Runner -> PositionOrNone] /\ exitLeg' \in [Runner -> PositionOrNone]
      /\ open'[t0] = None /\ \A r \in Runner : r # t0 => open'[r] = open[r]
  BY <1>1, <1>2 DEF TypeOK, ClearPosition, PositionOrNone
<1>6. /\ MirrorInv'
      /\ \A r \in Runner : r # t0 /\ r \notin hurt => posFile'[r] = posFile[r]
      /\ t0 \notin hurt' => posFile'[t0] = open'[t0]
  BY <1>0, <1>1, <1>2, <1>5, WritePreservesMirror DEF IInv
<1>7. /\ torn' = torn /\ crashes' = crashes
      /\ hurt' \in SUBSET Runner /\ failures' \in 0..MaxFailures
      /\ \A r \in Runner : Safe(r)' => Safe(r)
  BY <1>0, <1>1, <1>2, WriteOutcome
<1>8. posFile' \in {open', posFile} BY <1>0 DEF WritePosition
<1>9. TypeOK'
  <2>1. posFile' \in [Runner -> PositionOrNone] BY <1>1, <1>5, <1>8 DEF TypeOK
  <2>2. turn' \in 0..Len(Order) BY <1>1, Places
  <2>3. reported' \in SUBSET Runner BY <1>0, <1>1 DEF TypeOK
  <2> QED BY <1>0, <1>1, <1>5, <1>7, <2>1, <2>2, <2>3 DEF TypeOK
<1>10. LoopInv' BY <1>0, <1>1, <1>7 DEF LoopInv, Live
<1>11. PhaseInv'
  <2> SUFFICES ASSUME NEW r \in Runner
               PROVE  /\ runner'[r].phase = IF HasExited(r)' THEN "done"
                                           ELSE IF HasEntered(r)' THEN "open" ELSE "flat"
                      /\ r \in reported' <=> HasReported(r)'
    BY <1>4 DEF PhaseInv
  <2>1. runner'[r].phase = IF HasExited(r)' THEN "done"
                           ELSE IF HasEntered(r)' THEN "open" ELSE "flat"
    BY <1>0, <1>1, <1>3 DEF IInv, PhaseInv
  <2>2. r \in reported <=> HasReported(r) BY <1>1 DEF IInv, PhaseInv
  <2>3. r \in reported' <=> HasReported(r)' BY <1>0, <1>2, <1>3, <2>2
  <2> QED BY <2>1, <2>3
<1>12. FileInv' BY <1>0, <1>3, <1>4, <1>5, <1>8 DEF IInv, FileInv
<1>13. DurableInv'
  <2> SUFFICES ASSUME NEW r \in Runner, Safe(r)'
               PROVE  /\ posFile'[r] # None <=> HasEntered(r)' /\ ~HasReported(r)'
                      /\ posFile'[r] # None => posFile'[r] = executed'[r].entry
                      /\ AuditedAt(r)' # {} <=> HasReported(r)' \/ Clearing(r)'
                      /\ \A i \in AuditedAt(r)' : /\ audit'[i].entry = executed'[r].entry.price
                                                 /\ audit'[i].exit = executed'[r].exit.price
    BY DEF DurableInv
  <2>1. Safe(r) /\ r \notin hurt /\ r \notin hurt' BY <1>7 DEF Safe
  <2>2. /\ posFile[r] # None <=> HasEntered(r) /\ ~HasReported(r)
        /\ posFile[r] # None => posFile[r] = executed[r].entry
        /\ AuditedAt(r) # {} <=> HasReported(r) \/ r = t0
        /\ \A i \in AuditedAt(r) : /\ audit[i].entry = executed[r].entry.price
                                  /\ audit[i].exit = executed[r].exit.price
    BY <1>4, <2>1 DEF IInv, DurableInv
  <2>3. CASE r = t0
    <3>1. posFile'[r] = None BY <1>5, <1>6, <2>1, <2>3
    <3> QED BY <1>0, <1>3, <1>4, <2>2, <2>3, <3>1
  <2>4. CASE r # t0
    <3>1. posFile'[r] = posFile[r] BY <1>6, <2>1, <2>4
    <3> QED BY <1>0, <1>3, <1>4, <2>2, <2>4, <3>1
  <2> QED BY <2>3, <2>4
<1>14. PricesInv' BY <1>0, <1>1, <1>3, <1>7 DEF IInv, PricesInv
<1>15. NoStaleFill' BY <1>0 DEF IInv, NoStaleFill
<1> QED BY <1>6, <1>9, <1>10, <1>11, <1>12, <1>13, <1>14, <1>15 DEF IInv

-----------------------------------------------------------------------------
(* Crash and restart.                                                       *)

\* A runner no crash fell inside a bar of is, when the process dies, at the end of the last
\* bar logged: what is in the files is all there was.
LEMMA CrashIsBetweenFills ==
  ASSUME IInv, Crash, NEW r \in Runner
  PROVE  /\ HasEntered(r)' <=> plan[r].entry <= barLog
         /\ HasReported(r)' <=> plan[r].exit <= barLog
         /\ HasEntered(r) => HasEntered(r)'
         /\ HasReported(r) \/ Clearing(r) => HasReported(r)'
         /\ Safe(r)' => /\ Safe(r) /\ ~Clearing(r)
                        /\ HasEntered(r)' <=> HasEntered(r)
                        /\ HasReported(r)' <=> HasReported(r)
<1>1. /\ pc # "down" /\ pc' = "down" /\ UNCHANGED <<plan, barLog, hurt>>
      /\ torn' = IF pc = "wait" THEN torn ELSE torn \cup {barLog}
  BY DEF Crash, diskVars
<1>2. /\ HasEntered(r)' <=> plan[r].entry <= barLog
      /\ HasReported(r)' <=> plan[r].exit <= barLog
  BY <1>1 DEF HasEntered, HasReported, DrivenTo, DrainedTo
<1>3. /\ HasReported(r) => HasExited(r)
      /\ HasExited(r) => HasEntered(r) /\ plan[r].exit <= barLog
      /\ HasEntered(r) => plan[r].entry <= barLog
      /\ plan[r].entry <= barLog /\ plan[r].entry # barLog => HasEntered(r)
      /\ plan[r].exit <= barLog /\ plan[r].exit # barLog => HasReported(r)
  BY Progress DEF IInv
<1>4. Clearing(r) => HasExited(r) /\ ~HasReported(r) BY <1>1 DEF IInv, PhaseInv, Live
<1>5. ASSUME Safe(r)'
      PROVE  /\ Safe(r) /\ ~Clearing(r)
             /\ HasEntered(r)' <=> HasEntered(r)
             /\ HasReported(r)' <=> HasReported(r)
  <2>1. Safe(r) BY <1>1, <1>5 DEF Safe, Untorn
  <2>2. CASE pc = "wait" BY <1>2, <2>1, <2>2, AtRest
  <2>3. CASE pc # "wait"
    <3>1. plan[r].entry # barLog /\ plan[r].exit # barLog BY <1>1, <1>5, <2>3 DEF Safe, Untorn
    <3> QED BY <1>2, <1>3, <1>4, <2>1, <3>1
  <2> QED BY <2>2, <2>3
<1> QED BY <1>2, <1>3, <1>4, <1>5

\* A crash leaves the files as they were.
LEMMA CrashPreserves ==
  ASSUME IInv, Crash
  PROVE  IInv'
<1>1. /\ pc # "down" /\ pc' = "down" /\ crashes < MaxCrashes /\ crashes' = crashes + 1
      /\ torn' = IF pc = "wait" THEN torn ELSE torn \cup {barLog}
      /\ turn' = 0 /\ reported' = {} /\ entryLeg' = NoLegs /\ exitLeg' = NoLegs
      /\ seenBars' = 0 /\ runner' = [r \in Runner |-> Flat]
      /\ queue' = [r \in Runner |-> <<>>] /\ open' = NoLegs
      /\ UNCHANGED <<plan, barLog, audit, posFile, executed, hurt, failures>>
  BY DEF Crash, FreshProcess, diskVars
<1>2. TypeOK /\ LoopInv BY DEF IInv
<1>3. torn' \subseteq 1..barLog BY <1>1, <1>2 DEF LoopInv, TypeOK
<1>4. TypeOK'
  <2>1. NoLegs \in [Runner -> PositionOrNone] BY DEF NoLegs, PositionOrNone
  <2>2. [r \in Runner |-> Flat] \in [Runner -> [phase : {"flat", "open", "done"},
                                               entry : Price \cup {0}, exit : Price \cup {0}]]
    BY DEF Flat
  <2>3. [r \in Runner |-> <<>>] \in [Runner -> Seq(Price \cup {0})] OBVIOUS
  <2>4. crashes' \in 0..MaxCrashes BY <1>1, <1>2, BoundAssumption DEF TypeOK
  <2>5. torn' \in SUBSET (1..MaxBar) BY <1>2, <1>3, BoundAssumption DEF TypeOK
  <2>6. 0 \in 0..MaxBar /\ 0 \in 0..Len(Order) BY Places, BoundAssumption
  <2> QED BY <1>1, <1>2, <2>1, <2>2, <2>3, <2>4, <2>5, <2>6 DEF TypeOK
<1>5. LoopInv' BY <1>1, <1>3 DEF LoopInv, Live
<1>6. PhaseInv' /\ MirrorInv' /\ PricesInv' BY <1>1 DEF PhaseInv, MirrorInv, PricesInv, Live
<1>7. \A r \in Runner : AuditedAt(r)' = AuditedAt(r) /\ ~Clearing(r)'
  BY <1>1 DEF AuditedAt, Clearing
<1>8. FileInv'
  <2>1. \A r \in Runner : open'[r] = None BY <1>1 DEF NoLegs
  <2> QED BY <1>1, <1>7, <2>1, CrashIsBetweenFills DEF IInv, FileInv
<1>9. DurableInv' BY <1>1, <1>7, CrashIsBetweenFills DEF IInv, DurableInv
<1>10. NoStaleFill' BY <1>1 DEF NoStaleFill
<1> QED BY <1>4, <1>5, <1>6, <1>8, <1>9, <1>10 DEF IInv

\* A part of a sequence is one of the same elements, and empty when it ends before it starts.
LEMMA SubSeqOfSeq ==
  ASSUME NEW S, NEW s \in Seq(S), NEW m \in Nat \ {0}
  PROVE  SubSeq(s, m, Len(s)) \in Seq(S) /\ (m > Len(s) => SubSeq(s, m, Len(s)) = <<>>)
  OBVIOUS

\* A line that is there is found.
LEMMA AuditFound ==
  ASSUME TypeOK, NEW r \in Runner, AuditedAt(r) # {}
  PROVE  /\ \E i \in AuditedAt(r) : AuditOf(r) = audit[i]
         /\ AuditOf(r).entry \in Price \cup {0} /\ AuditOf(r).exit \in Price \cup {0}
<1>1. PICK i \in AuditedAt(r) : AuditOf(r) = audit[i] BY DEF AuditOf
<1>2. i \in DOMAIN audit BY DEF AuditedAt
<1>3. audit[i] \in Record BY <1>2 DEF TypeOK
<1> QED BY <1>1, <1>3 DEF Record

\* The prices replayQueue collects: none before the entry, at most the entry's before the
\* exit, and those of the executions if the files have them.
LEMMA QueueIsExecuted ==
  ASSUME IInv, pc = "down", NEW r \in Runner
  PROVE  /\ ReplayQueue(r) \in Seq(Price \cup {0})
         /\ ~HasEntered(r) => Len(ReplayQueue(r)) = 0
         /\ ~HasExited(r) => Len(ReplayQueue(r)) <= 1
         /\ Safe(r) /\ HasEntered(r) =>
              Len(ReplayQueue(r)) >= 1 /\ ReplayQueue(r)[1] = executed[r].entry.price
         /\ Safe(r) /\ HasExited(r) =>
              Len(ReplayQueue(r)) >= 2 /\ ReplayQueue(r)[2] = executed[r].exit.price
<1> DEFINE audited == IF AuditedAt(r) = {} THEN <<>> ELSE <<AuditOf(r).entry, AuditOf(r).exit>>
           held == IF posFile[r] # None THEN <<posFile[r].price>> ELSE <<>>
<1>1. ReplayQueue(r) = audited \o held BY DEF ReplayQueue
<1>2. TypeOK /\ (HasReported(r) <=> HasExited(r)) /\ ~Clearing(r) /\ (HasExited(r) => HasEntered(r))
  BY AtRest, Progress DEF IInv
<1>3. /\ audited \in Seq(Price \cup {0}) /\ Len(audited) = IF AuditedAt(r) = {} THEN 0 ELSE 2
      /\ AuditedAt(r) # {} => audited[1] = AuditOf(r).entry /\ audited[2] = AuditOf(r).exit
  <2>1. CASE AuditedAt(r) = {} BY <2>1
  <2>2. CASE AuditedAt(r) # {}
    <3>1. AuditOf(r).entry \in Price \cup {0} /\ AuditOf(r).exit \in Price \cup {0}
      BY <1>2, <2>2, AuditFound
    <3>2. audited = <<AuditOf(r).entry, AuditOf(r).exit>> BY <2>2
    <3> HIDE DEF audited
    <3> QED BY <2>2, <3>1, <3>2
  <2> QED BY <2>1, <2>2
<1>4. /\ held \in Seq(Price \cup {0}) /\ Len(held) = IF posFile[r] = None THEN 0 ELSE 1
      /\ posFile[r] # None => held[1] = posFile[r].price
  <2>1. CASE posFile[r] = None BY <2>1
  <2>2. CASE posFile[r] # None
    <3>1. posFile[r].price \in Price \cup {0} BY <1>2, <2>2 DEF TypeOK, PositionOrNone, Leg
    <3>2. held = <<posFile[r].price>> BY <2>2
    <3> HIDE DEF held
    <3> QED BY <2>2, <3>1, <3>2
  <2> QED BY <2>1, <2>2
<1> HIDE DEF audited, held
<1>5. /\ ReplayQueue(r) \in Seq(Price \cup {0})
      /\ Len(ReplayQueue(r)) = Len(audited) + Len(held)
      /\ \A k \in 1..Len(audited) : ReplayQueue(r)[k] = audited[k]
      /\ \A k \in 1..Len(held) : ReplayQueue(r)[Len(audited) + k] = held[k]
  BY <1>1, <1>3, <1>4
<1>6. /\ AuditedAt(r) # {} => HasExited(r)
      /\ posFile[r] # None => HasEntered(r)
  BY <1>2 DEF IInv, FileInv
<1>7. ASSUME Safe(r), HasExited(r)
      PROVE  /\ Len(ReplayQueue(r)) >= 2
             /\ ReplayQueue(r)[1] = executed[r].entry.price
             /\ ReplayQueue(r)[2] = executed[r].exit.price
  <2>1. AuditedAt(r) # {} BY <1>2, <1>7 DEF IInv, DurableInv
  <2>2. PICK i \in AuditedAt(r) : AuditOf(r) = audit[i] BY <1>2, <2>1, AuditFound
  <2>3. AuditOf(r).entry = executed[r].entry.price /\ AuditOf(r).exit = executed[r].exit.price
    BY <1>7, <2>2 DEF IInv, DurableInv
  <2>4. Len(audited) = 2 /\ Len(held) \in {0, 1} BY <1>3, <1>4, <2>1
  <2>5. ReplayQueue(r)[1] = audited[1] /\ ReplayQueue(r)[2] = audited[2] BY <1>5, <2>4
  <2> QED BY <1>3, <1>5, <2>1, <2>3, <2>4, <2>5
<1>8. ASSUME Safe(r), HasEntered(r), ~HasExited(r)
      PROVE  Len(ReplayQueue(r)) >= 1 /\ ReplayQueue(r)[1] = executed[r].entry.price
  <2>1. posFile[r] # None /\ posFile[r] = executed[r].entry /\ AuditedAt(r) = {}
    BY <1>2, <1>8 DEF IInv, DurableInv
  <2>2. Len(audited) = 0 /\ Len(held) = 1 /\ held[1] = executed[r].entry.price BY <1>3, <1>4, <2>1
  <2>3. ReplayQueue(r)[1] = held[1] BY <1>5, <2>2
  <2> QED BY <1>5, <2>2, <2>3
<1>9. ~HasEntered(r) => Len(ReplayQueue(r)) = 0 BY <1>2, <1>3, <1>4, <1>5, <1>6
<1>10. ~HasExited(r) => Len(ReplayQueue(r)) <= 1 BY <1>3, <1>4, <1>5, <1>6
<1>11. Safe(r) /\ HasEntered(r) =>
         Len(ReplayQueue(r)) >= 1 /\ ReplayQueue(r)[1] = executed[r].entry.price
  <2>1. CASE HasExited(r)
    <3>1. Len(ReplayQueue(r)) \in Nat BY <1>5
    <3> QED BY <1>7, <2>1, <3>1
  <2>2. CASE ~HasExited(r) BY <1>8, <2>2
  <2> QED BY <2>1, <2>2
<1> QED BY <1>5, <1>7, <1>9, <1>10, <1>11

\* The runner a replay rebuilds is the one that lived through the bars.
LEMMA ReplayRebuilds ==
  ASSUME IInv, Restart, NEW r \in Runner
  PROVE  /\ runner'[r] \in [phase : {"flat", "open", "done"}, entry : Price \cup {0},
                             exit : Price \cup {0}]
         /\ runner'[r].phase = IF HasExited(r) THEN "done" ELSE IF HasEntered(r) THEN "open" ELSE "flat"
         /\ Safe(r) /\ HasEntered(r) => runner'[r].entry = executed[r].entry.price
         /\ Safe(r) /\ HasExited(r) => runner'[r].exit = executed[r].exit.price
         /\ queue'[r] \in Seq(Price \cup {0})
         /\ queue'[r] # <<>> => HasExited(r)
<1> DEFINE q == ReplayQueue(r)
           Nth(k) == IF k <= Len(q) THEN q[k] ELSE 0
<1>1. /\ pc = "down" /\ runner'[r] = Replayed(r, q)
      /\ queue'[r] = IF barLog = 0 THEN <<>> ELSE SubSeq(q, Used(r) + 1, Len(q))
  BY DEF Restart
<1>2. /\ HasEntered(r) <=> plan[r].entry <= barLog
      /\ HasExited(r) <=> plan[r].exit <= barLog
  BY <1>1, AtRest
<1>3. barLog \in Nat /\ plan[r].entry \in Nat /\ plan[r].exit \in Nat /\ plan[r].entry < plan[r].exit
  BY PlanOrder DEF IInv
<1>4. /\ q \in Seq(Price \cup {0})
      /\ ~HasEntered(r) => Len(q) = 0
      /\ ~HasExited(r) => Len(q) <= 1
      /\ Safe(r) /\ HasEntered(r) => Len(q) >= 1 /\ q[1] = executed[r].entry.price
      /\ Safe(r) /\ HasExited(r) => Len(q) >= 2 /\ q[2] = executed[r].exit.price
  BY <1>1, QueueIsExecuted
<1>5. runner'[r] = IF ~HasEntered(r) THEN Flat
                   ELSE IF ~HasExited(r) THEN [phase |-> "open", entry |-> Nth(1), exit |-> 0]
                   ELSE [phase |-> "done", entry |-> Nth(1), exit |-> Nth(2)]
  BY <1>1, <1>2, <1>3 DEF Replayed
<1>6. Used(r) = IF ~HasEntered(r) THEN 0 ELSE IF ~HasExited(r) THEN 1 ELSE 2
  BY <1>2, <1>3 DEF Used
<1> HIDE DEF q
<1>7. Nth(1) \in Price \cup {0} /\ Nth(2) \in Price \cup {0} /\ Len(q) \in Nat
  BY <1>4
<1>8. HasExited(r) => HasEntered(r) BY <1>2, <1>3
<1>9. /\ Safe(r) /\ HasEntered(r) => Nth(1) = executed[r].entry.price
      /\ Safe(r) /\ HasExited(r) => Nth(2) = executed[r].exit.price
  BY <1>4, <1>7
<1> HIDE DEF Nth
<1>10. /\ runner'[r] \in [phase : {"flat", "open", "done"}, entry : Price \cup {0},
                           exit : Price \cup {0}]
       /\ runner'[r].phase = IF HasExited(r) THEN "done" ELSE IF HasEntered(r) THEN "open" ELSE "flat"
       /\ Safe(r) /\ HasEntered(r) => runner'[r].entry = executed[r].entry.price
       /\ Safe(r) /\ HasExited(r) => runner'[r].exit = executed[r].exit.price
  <2>1. CASE ~HasEntered(r) BY <1>5, <1>8, <2>1 DEF Flat
  <2>2. CASE HasEntered(r) /\ ~HasExited(r) BY <1>5, <1>7, <1>9, <2>2
  <2>3. CASE HasExited(r) BY <1>5, <1>7, <1>8, <1>9, <2>3
  <2> QED BY <2>1, <2>2, <2>3
<1>11. queue'[r] \in Seq(Price \cup {0}) /\ (queue'[r] # <<>> => HasExited(r))
  <2>1. CASE barLog = 0 BY <1>1, <2>1
  <2>2. CASE barLog # 0
    <3>1. queue'[r] = SubSeq(q, Used(r) + 1, Len(q)) BY <1>1, <2>2 DEF q
    <3>2. Used(r) \in {0, 1, 2} BY <1>6
    <3>3. SubSeq(q, Used(r) + 1, Len(q)) \in Seq(Price \cup {0})
      BY <1>4, <1>7, <3>2, SubSeqOfSeq
    <3>4. ~HasExited(r) => Used(r) + 1 > Len(q) BY <1>4, <1>6, <1>7
    <3>5. ~HasExited(r) => SubSeq(q, Used(r) + 1, Len(q)) = <<>>
      BY <1>4, <1>7, <3>2, <3>4, SubSeqOfSeq
    <3> QED BY <3>1, <3>3, <3>5
  <2> QED BY <2>1, <2>2
<1> QED BY <1>10, <1>11

\* A restart rebuilds what the crash lost.
LEMMA RestartPreserves ==
  ASSUME IInv, Restart
  PROVE  IInv'
<1>1. /\ pc = "down" /\ pc' = "wait" /\ seenBars' = barLog /\ open' = posFile
      /\ entryLeg' = NoLegs /\ exitLeg' = NoLegs /\ reported' = ReportedByReplay
      /\ UNCHANGED <<plan, barLog, audit, posFile, turn, executed, torn, crashes, hurt, failures>>
  BY DEF Restart, diskVars, faultVars
<1>2. TypeOK /\ LoopInv BY DEF IInv
<1>3. \A r \in Runner : /\ HasEntered(r)' <=> HasEntered(r)
                        /\ HasExited(r)' <=> HasExited(r)
                        /\ HasReported(r)' <=> HasReported(r)
                        /\ HasReported(r) <=> HasExited(r)
                        /\ HasReported(r) <=> plan[r].exit <= barLog
                        /\ ~Clearing(r) /\ ~Clearing(r)' /\ AuditedAt(r)' = AuditedAt(r)
                        /\ Safe(r)' <=> Safe(r)
  BY <1>1 DEF HasEntered, HasExited, HasReported, DrivenTo, DrainedTo, Clearing, AuditedAt,
              Safe, Untorn
<1>4. TypeOK'
  <2>1. NoLegs \in [Runner -> PositionOrNone] BY DEF NoLegs, PositionOrNone
  <2>2. runner' \in [Runner -> [phase : {"flat", "open", "done"}, entry : Price \cup {0},
                                exit : Price \cup {0}]]
    <3>1. runner' = [r \in Runner |-> runner'[r]] BY DEF Restart
    <3> QED BY <3>1, ReplayRebuilds
  <2>3. queue' \in [Runner -> Seq(Price \cup {0})]
    <3>1. queue' = [r \in Runner |-> queue'[r]] BY DEF Restart
    <3> QED BY <3>1, ReplayRebuilds
  <2>4. ReportedByReplay \in SUBSET Runner BY DEF ReportedByReplay
  <2> QED BY <1>1, <1>2, <2>1, <2>2, <2>3, <2>4 DEF TypeOK
<1>5. LoopInv' BY <1>1, <1>2 DEF LoopInv
<1>6. PhaseInv'
  <2>1. \A r \in Runner : r \in reported' <=> HasReported(r)'
    <3>1. barLog \in Nat /\ \A r \in Runner : plan[r].exit \in Nat BY <1>2, PlanOrder
    <3> QED BY <1>1, <1>3, <3>1 DEF ReportedByReplay
  <2>2. ASSUME NEW r \in Runner
        PROVE  runner'[r].phase = IF HasExited(r)' THEN "done"
                                  ELSE IF HasEntered(r)' THEN "open" ELSE "flat"
    BY <1>3, ReplayRebuilds
  <2> QED BY <1>3, <2>1, <2>2 DEF PhaseInv
<1>7. FileInv' BY <1>1, <1>3 DEF IInv, FileInv
<1>8. MirrorInv' BY <1>1 DEF MirrorInv
<1>9. DurableInv' BY <1>1, <1>3 DEF IInv, DurableInv
<1>10. PricesInv' BY <1>1, <1>3, ReplayRebuilds DEF PricesInv
<1>11. NoStaleFill'
  <2>1. ASSUME NEW r \in Runner, queue'[r] # <<>> PROVE runner'[r].phase = "done"
    BY <2>1, ReplayRebuilds
  <2> QED BY <2>1 DEF NoStaleFill
<1> QED BY <1>4, <1>5, <1>6, <1>7, <1>8, <1>9, <1>10, <1>11 DEF IInv

-----------------------------------------------------------------------------
(* The theorems.                                                            *)

\* A day starts with nothing logged, held or executed.
LEMMA InitIInv == Init => IInv
<1> SUFFICES ASSUME Init PROVE IInv
  OBVIOUS
<1> USE DEF Init
<1>1. NoLegs \in [Runner -> PositionOrNone] /\ \A r \in Runner : NoLegs[r] = None
  BY DEF NoLegs, PositionOrNone
<1>2. /\ 0 \in 0..MaxBar /\ 0 \in 0..Len(Order) /\ 0 \in 0..MaxCrashes /\ 0 \in 0..MaxFailures
      /\ 0 <= Len(Order)
  BY Places, BoundAssumption
<1>3. TypeOK
  <2>1. audit \in Seq(Record) /\ Len(audit) <= Len(Order) BY <1>2
  <2>2. [r \in Runner |-> Flat] \in [Runner -> [phase : {"flat", "open", "done"},
                                               entry : Price \cup {0}, exit : Price \cup {0}]]
    BY DEF Flat
  <2>3. executed \in [Runner -> [entry : PositionOrNone, exit : PositionOrNone]]
    BY DEF PositionOrNone
  <2>4. queue \in [Runner -> Seq(Price \cup {0})] OBVIOUS
  <2> QED BY <1>1, <1>2, <2>1, <2>2, <2>3, <2>4 DEF TypeOK
<1>4. \A r \in Runner : /\ ~HasEntered(r) /\ ~HasExited(r) /\ ~HasReported(r) /\ ~Clearing(r)
                        /\ AuditedAt(r) = {}
  <2> TAKE r \in Runner
  <2>1. plan[r].entry \in Nat \ {0} /\ plan[r].exit \in Nat /\ plan[r].entry < plan[r].exit
    BY <1>3, PlanOrder
  <2> QED BY <2>1, AtRest DEF AuditedAt
<1>5. LoopInv BY DEF LoopInv
<1>6. PhaseInv /\ FileInv BY <1>1, <1>4 DEF PhaseInv, FileInv, Flat
<1>7. MirrorInv /\ DurableInv /\ PricesInv /\ NoStaleFill
  BY <1>1, <1>4 DEF MirrorInv, DurableInv, PricesInv, NoStaleFill
<1> QED BY <1>3, <1>5, <1>6, <1>7 DEF IInv

\* Every step keeps the inductive invariant.
LEMMA NextIInv == IInv /\ [Next]_vars => IInv'
<1> SUFFICES ASSUME IInv, [Next]_vars PROVE IInv'
  OBVIOUS
<1>1. CASE LogBar BY <1>1, LogBarPreserves
<1>2. CASE RunnerIdle BY <1>2, RunnerIdlePreserves
<1>3. ASSUME NEW leg \in Quotable, ExitLive(leg) PROVE IInv' BY <1>3, ExitLivePreserves
<1>4. CASE NothingToReport BY <1>4, NothingToReportPreserves
<1>5. ASSUME NEW written \in BOOLEAN, AppendAudit(written) PROVE IInv' BY <1>5, AppendAuditPreserves
<1>6. ASSUME NEW written \in BOOLEAN, ClearPosition(written) PROVE IInv'
  BY <1>6, ClearPositionPreserves
<1>7. ASSUME NEW written \in BOOLEAN, NEW leg \in Quotable, EnterLive(leg, written) PROVE IInv'
  BY <1>7, EnterLivePreserves
<1>8. CASE Crash BY <1>8, CrashPreserves
<1>9. CASE Restart BY <1>9, RestartPreserves
<1>10. CASE UNCHANGED vars
  <2>1. UNCHANGED <<plan, barLog, audit, posFile, pc, turn, seenBars, runner, reported, queue,
                    open, entryLeg, exitLeg, executed, torn, hurt, crashes, failures>>
    BY <1>10 DEF vars, diskVars, loopVars, engineVars, recVars, faultVars
  <2>2. TypeOK' /\ LoopInv' BY <2>1 DEF IInv, TypeOK, LoopInv, Live
  <2>3. \A r \in Runner : /\ HasEntered(r)' <=> HasEntered(r)
                          /\ HasExited(r)' <=> HasExited(r)
                          /\ HasReported(r)' <=> HasReported(r)
                          /\ Clearing(r)' <=> Clearing(r)
                          /\ AuditedAt(r)' = AuditedAt(r)
                          /\ Safe(r)' <=> Safe(r)
    BY <2>1 DEF HasEntered, HasExited, HasReported, DrivenTo, DrainedTo, Clearing, AuditedAt, Turn,
                Safe, Untorn
  <2>4. PhaseInv' /\ FileInv' BY <2>1, <2>3 DEF IInv, PhaseInv, FileInv, Live
  <2>5. MirrorInv' BY <2>1 DEF IInv, MirrorInv, Live
  <2>6. DurableInv' BY <2>1, <2>3 DEF IInv, DurableInv
  <2>7. PricesInv' /\ NoStaleFill' BY <2>1, <2>3 DEF IInv, PricesInv, NoStaleFill, Live
  <2> QED BY <2>2, <2>4, <2>5, <2>6, <2>7 DEF IInv
<1> QED BY <1>1, <1>2, <1>3, <1>4, <1>5, <1>6, <1>7, <1>8, <1>9, <1>10 DEF Next

\* The inductive invariant is an invariant.
THEOREM SessionInvariance == Spec => []IInv
<1> QED BY InitIInv, NextIInv, PTL DEF Spec

\* The types, and no more lines in the audit than there are runners.
THEOREM SessionTypeCorrect == Spec => []TypeOK
  BY SessionInvariance, PTL DEF IInv

\* A recorded fill left over by a replay is never served to a live trade.
THEOREM RecordedFillsAreUsedUp == Spec => []NoStaleFill
  BY SessionInvariance, PTL DEF IInv

\* Between two bars the runners in a trade are the positions in position.json, at the price
\* paid, across crashes outside the trade's own bars and failed writes of other runners.
THEOREM PositionsResume == Spec => []ResumesExactly
<1>1. IInv => ResumesExactly
  <2> SUFFICES ASSUME IInv, pc = "wait", NEW r \in Runner, Safe(r)
               PROVE  /\ (runner[r].phase = "open") <=> (posFile[r] # None)
                      /\ runner[r].phase = "open" =>
                           runner[r].entry = posFile[r].price /\ posFile[r] = executed[r].entry
    BY DEF ResumesExactly, Settled
  <2>1. HasReported(r) <=> HasExited(r) BY AtRest
  <2>2. HasExited(r) => HasEntered(r) BY Progress DEF IInv
  <2>3. runner[r].phase = IF HasExited(r) THEN "done" ELSE IF HasEntered(r) THEN "open" ELSE "flat"
    BY DEF IInv, PhaseInv, Live
  <2>4. /\ posFile[r] # None <=> HasEntered(r) /\ ~HasReported(r)
        /\ posFile[r] # None => posFile[r] = executed[r].entry
    BY DEF IInv, DurableInv
  <2>5. HasEntered(r) => runner[r].entry = executed[r].entry.price
    BY DEF IInv, PricesInv, Live
  <2> QED BY <2>1, <2>2, <2>3, <2>4, <2>5
<1> QED BY <1>1, SessionInvariance, PTL

\* A trade has at most one audit line, and exactly one, with the prices executed, once it is
\* completed, unless a crash fell inside its own bars or one of its own writes failed.
THEOREM TradesAreAuditedOnce == Spec => []AuditedOnce
<1>1. IInv => AuditedOnce
  <2> SUFFICES ASSUME IInv PROVE AuditedOnce
    OBVIOUS
  <2>1. \A r \in Runner : \A i, j \in AuditedAt(r) : i = j BY DEF IInv, FileInv
  <2>2. ASSUME pc = "wait", NEW r \in Runner, Safe(r)
        PROVE  /\ (runner[r].phase = "done") <=> (AuditedAt(r) # {})
               /\ runner[r].phase = "done" =>
                    /\ AuditOf(r).entry = executed[r].entry.price
                    /\ AuditOf(r).exit = executed[r].exit.price
                    /\ runner[r].entry = executed[r].entry.price
                    /\ runner[r].exit = executed[r].exit.price
    <3>1. (HasReported(r) <=> HasExited(r)) /\ ~Clearing(r) BY <2>2, AtRest
    <3>2. HasExited(r) => HasEntered(r) BY Progress DEF IInv
    <3>3. runner[r].phase = IF HasExited(r) THEN "done" ELSE IF HasEntered(r) THEN "open" ELSE "flat"
      BY <2>2 DEF IInv, PhaseInv, Live
    <3>4. AuditedAt(r) # {} <=> HasExited(r) BY <2>2, <3>1 DEF IInv, DurableInv
    <3>5. /\ HasEntered(r) => runner[r].entry = executed[r].entry.price
          /\ HasExited(r) => runner[r].exit = executed[r].exit.price
      BY <2>2 DEF IInv, PricesInv, Live
    <3>6. ASSUME AuditedAt(r) # {}
          PROVE  AuditOf(r).entry = executed[r].entry.price /\ AuditOf(r).exit = executed[r].exit.price
      <4>1. PICK i \in AuditedAt(r) : AuditOf(r) = audit[i] BY <3>6, AuditFound DEF IInv
      <4> QED BY <2>2, <4>1 DEF IInv, DurableInv
    <3> QED BY <3>2, <3>3, <3>4, <3>5, <3>6
  <2> QED BY <2>1, <2>2 DEF AuditedOnce, Settled
<1> QED BY <1>1, SessionInvariance, PTL

-----------------------------------------------------------------------------
(* The two files implement the ledger: a fill that could be written opens   *)
(* or closes its trade, a failed write or a crash voids, the rest stutters. *)

\* A trade whose lines, and whose position if it has no line, stay has the same row.
LEMMA RowStays ==
  ASSUME NEW r \in Runner, Safe(r)' <=> Safe(r), AuditedAt(r)' = AuditedAt(r),
         Safe(r) /\ AuditedAt(r) # {} => AuditOf(r)' = AuditOf(r),
         Safe(r) /\ AuditedAt(r) = {} => posFile'[r] = posFile[r]
  PROVE  Ledger'[r] = Ledger[r]
<1>1. CASE ~Safe(r) BY <1>1 DEF Ledger
<1>2. CASE Safe(r) /\ AuditedAt(r) # {} BY <1>2 DEF Ledger
<1>3. CASE Safe(r) /\ AuditedAt(r) = {} BY <1>3 DEF Ledger
<1> QED BY <1>1, <1>2, <1>3

\* If every row stays, the ledger does.
LEMMA LedgerStays ==
  ASSUME \A r \in Runner : Ledger'[r] = Ledger[r]
  PROVE  Ledger' = Ledger
<1>1. Ledger = [r \in Runner |-> Ledger[r]] BY DEF Ledger
<1>2. Ledger' = [r \in Runner |-> Ledger'[r]] BY DEF Ledger
<1> QED BY <1>1, <1>2

\* A step that makes some trades unsafe and leaves the rows of the others voids those trades.
LEMMA LedgerVoids ==
  ASSUME NEW R \in SUBSET Runner, R # {}, \A r \in R : ~Safe(r)',
         \A r \in Runner \ R : Ledger'[r] = Ledger[r]
  PROVE  Abstract!Next
<1>1. \A r \in R : Ledger'[r] = [Abstract!NoTrade EXCEPT !.status = "void"]
  <2> SUFFICES ASSUME NEW r \in R
               PROVE  Ledger'[r] = [Abstract!NoTrade EXCEPT !.status = "void"]
    OBVIOUS
  <2>1. Ledger'[r] = [status |-> "void", entry |-> 0, exit |-> 0] BY DEF Ledger
  <2>2. [Abstract!NoTrade EXCEPT !.status = "void"] = [status |-> "void", entry |-> 0, exit |-> 0]
    BY DEF Abstract!NoTrade
  <2> QED BY <2>1, <2>2
<1>2. Ledger' = [r \in Runner |-> Ledger'[r]] BY DEF Ledger
<1>3. Ledger' = [r \in Runner |-> IF r \in R THEN [Abstract!NoTrade EXCEPT !.status = "void"]
                                 ELSE Ledger[r]]
  BY <1>1, <1>2
<1>4. Abstract!Void(R) BY <1>3 DEF Abstract!Void
<1>5. R \in (SUBSET Runner) \ {{}} OBVIOUS
<1> QED BY <1>4, <1>5 DEF Abstract!Next

\* A write that fails voids the trade it was for.
LEMMA FailedWriteVoids ==
  ASSUME TypeOK, NEW t \in Runner, Outcome(FALSE, t), UNCHANGED <<plan, audit, posFile>>
  PROVE  Abstract!Next
<1>1. t \in hurt' /\ \A r \in Runner : r # t => (Safe(r)' <=> Safe(r))
  BY WriteOutcome DEF Outcome
<1>2. \A r \in Runner : AuditedAt(r)' = AuditedAt(r) /\ AuditOf(r)' = AuditOf(r)
  BY DEF AuditedAt, AuditOf
<1>3. \A r \in Runner \ {t} : Ledger'[r] = Ledger[r] BY <1>1, <1>2, RowStays
<1>4. ~Safe(t)' BY <1>1 DEF Safe
<1> DEFINE R == {t}
<1>5. R \in SUBSET Runner /\ R # {} /\ \A r \in R : ~Safe(r)' BY <1>4
<1>6. \A r \in Runner \ R : Ledger'[r] = Ledger[r] BY <1>3
<1> HIDE DEF R
<1> QED BY <1>5, <1>6, LedgerVoids

\* An entry that is written opens its trade in the ledger.
LEMMA EnterOpens ==
  ASSUME IInv, NEW leg \in Quotable, EnterLive(leg, TRUE)
  PROVE  Abstract!Next \/ Ledger' = Ledger
<1>0. /\ pc = "drive" /\ NextTurn("drive", "drain") /\ Enters(Turn) /\ Outcome(TRUE, Turn)
      /\ posFile' = open' /\ open' = [open EXCEPT ![Turn] = leg]
      /\ UNCHANGED <<plan, barLog, audit>>
  BY DEF EnterLive, WritePosition
<1>1. PICK t \in Runner : t = Turn BY <1>0, DriveAdvances DEF IInv
<1>2. /\ \A r \in Runner : AuditedAt(r)' = AuditedAt(r) /\ AuditOf(r)' = AuditOf(r)
      /\ \A r \in Runner : Safe(r)' <=> Safe(r)
  BY <1>0 DEF AuditedAt, AuditOf, Safe, Untorn, Outcome
<1>3. posFile'[t] = leg /\ \A r \in Runner : r # t => posFile'[r] = open[r]
  BY <1>0, <1>1 DEF IInv, TypeOK
<1>4. \A r \in Runner : Safe(r) => posFile[r] = open[r] BY <1>0 DEF IInv, MirrorInv, Live, Safe
<1>5. \A r \in Runner : r # t => Ledger'[r] = Ledger[r]
  BY <1>2, <1>3, <1>4, RowStays
<1>6. CASE ~Safe(t)
  <2>1. Ledger'[t] = Ledger[t] BY <1>2, <1>6, RowStays
  <2> QED BY <1>5, <2>1, LedgerStays
<1>7. CASE Safe(t)
  <2>1. ~HasEntered(t) /\ ~HasReported(t) /\ ~Clearing(t)
    <3>1. /\ HasEntered(t) <=> plan[t].entry <= barLog - 1
          /\ HasReported(t) <=> plan[t].exit <= barLog - 1
      BY <1>0, <1>1, DriveAdvances DEF IInv
    <3>2. plan[t].entry = barLog BY <1>0, <1>1 DEF IInv, LoopInv, Live, Enters
    <3>3. barLog \in Nat /\ plan[t].entry < plan[t].exit /\ plan[t].exit \in Nat
      BY PlanOrder DEF IInv
    <3> QED BY <1>0, <3>1, <3>2, <3>3 DEF Clearing
  <2>2. posFile[t] = None /\ AuditedAt(t) = {} BY <1>7, <2>1 DEF IInv, DurableInv
  <2>3. Ledger[t] = Abstract!NoTrade BY <1>7, <2>2 DEF Ledger, Abstract!NoTrade
  <2>4. leg # None /\ leg.price \in Price \cup {0} BY Fills
  <2>5. Ledger'[t] = [status |-> "open", entry |-> leg.price, exit |-> 0]
    BY <1>2, <1>3, <1>7, <2>2, <2>4 DEF Ledger
  <2>6. Ledger' = [Ledger EXCEPT ![t] = [status |-> "open", entry |-> leg.price, exit |-> 0]]
    <3>1. DOMAIN Ledger = Runner BY DEF Ledger
    <3>2. Ledger' = [r \in Runner |-> Ledger'[r]] /\ Ledger = [r \in Runner |-> Ledger[r]]
      BY DEF Ledger
    <3> QED BY <1>5, <2>5, <3>1, <3>2
  <2>7. Abstract!Open(t) BY <2>3, <2>4, <2>6 DEF Abstract!Open
  <2> QED BY <2>7 DEF Abstract!Next
<1> QED BY <1>6, <1>7

\* A trade whose line is written closes in the ledger.
LEMMA AuditCloses ==
  ASSUME IInv, AppendAudit(TRUE)
  PROVE  Abstract!Next \/ Ledger' = Ledger
<1>0. /\ pc = "drain" /\ Completed(Turn) /\ Outcome(TRUE, Turn)
      /\ audit' = Append(audit, AuditRecord(Turn))
      /\ UNCHANGED <<plan, posFile>>
  BY DEF AppendAudit
<1>1. PICK t \in Runner : t = Turn BY <1>0, Places DEF IInv, LoopInv, Turn
<1>2. HasExited(t) /\ HasEntered(t) /\ ~HasReported(t) /\ AuditedAt(t) = {}
  BY <1>0, <1>1, ToReport
<1>3. \A r \in Runner : Safe(r)' <=> Safe(r) BY <1>0 DEF Safe, Untorn, Outcome
<1>4. PICK a \in Record : a = AuditRecord(t) BY AuditLine DEF IInv
<1>5. a.runner = t /\ a.entry = runner[t].entry /\ a.exit = runner[t].exit
  BY <1>4 DEF AuditRecord
<1>6. /\ audit'[Len(audit) + 1] = a
      /\ \A i \in DOMAIN audit : audit'[i] = audit[i]
      /\ \A r : r # t => AuditedAt(r)' = AuditedAt(r)
      /\ AuditedAt(t)' = AuditedAt(t) \cup {Len(audit) + 1}
  <2>1. audit \in Seq(Record) /\ audit' = Append(audit, a) BY <1>0, <1>1, <1>4 DEF IInv, TypeOK
  <2> QED BY <1>5, <2>1, AuditGrows
<1>7. \A r \in Runner : r # t => Ledger'[r] = Ledger[r]
  <2> SUFFICES ASSUME NEW r \in Runner, r # t PROVE Ledger'[r] = Ledger[r]
    OBVIOUS
  <2>1. AuditedAt(r) # {} => AuditOf(r)' = AuditOf(r)
    <3> SUFFICES ASSUME AuditedAt(r) # {} PROVE AuditOf(r)' = AuditOf(r)
      OBVIOUS
    <3>1. PICK i \in AuditedAt(r) : i = CHOOSE j \in AuditedAt(r) : TRUE OBVIOUS
    <3>2. AuditOf(r) = audit[i] BY <3>1 DEF AuditOf
    <3>3. AuditOf(r)' = audit'[i] BY <1>6, <3>1 DEF AuditOf
    <3> QED BY <1>6, <3>1, <3>2, <3>3 DEF AuditedAt
  <2> QED BY <1>0, <1>3, <1>6, <2>1, RowStays
<1>8. CASE ~Safe(t)
  <2>1. Ledger'[t] = Ledger[t] BY <1>3, <1>8 DEF Ledger
  <2> QED BY <1>7, <2>1, LedgerStays
<1>9. CASE Safe(t)
  <2>1. /\ posFile[t] # None /\ posFile[t] = executed[t].entry
        /\ runner[t].entry = executed[t].entry.price
    BY <1>0, <1>2, <1>9 DEF IInv, DurableInv, PricesInv, Live
  <2>2. Ledger[t] = [status |-> "open", entry |-> runner[t].entry, exit |-> 0]
    BY <1>2, <1>9, <2>1 DEF Ledger
  <2>3. AuditedAt(t)' = {Len(audit) + 1} /\ AuditOf(t)' = a
    <3>1. AuditedAt(t)' = {Len(audit) + 1} BY <1>2, <1>6
    <3>2. (CHOOSE i \in {Len(audit) + 1} : TRUE) = Len(audit) + 1 OBVIOUS
    <3> QED BY <1>6, <3>1, <3>2 DEF AuditOf
  <2>4. Ledger'[t] = [status |-> "closed", entry |-> runner[t].entry, exit |-> runner[t].exit]
    BY <1>3, <1>5, <1>9, <2>3 DEF Ledger
  <2>5. Ledger' = [Ledger EXCEPT ![t] = [status |-> "closed", entry |-> Ledger[t].entry,
                                         exit |-> runner[t].exit]]
    <3>1. DOMAIN Ledger = Runner BY DEF Ledger
    <3>2. Ledger' = [r \in Runner |-> Ledger'[r]] /\ Ledger = [r \in Runner |-> Ledger[r]]
      BY DEF Ledger
    <3>3. Ledger[t].entry = runner[t].entry BY <2>2
    <3> QED BY <1>7, <2>4, <3>1, <3>2, <3>3
  <2>6. runner[t].exit \in Price \cup {0} BY DEF IInv, TypeOK
  <2>7. Ledger[t].status = "open" BY <2>2
  <2>8. Abstract!Close(t) BY <2>5, <2>6, <2>7 DEF Abstract!Close
  <2> QED BY <2>8 DEF Abstract!Next
<1> QED BY <1>8, <1>9

\* A position that goes is one of a trade that is already closed in the ledger.
LEMMA ClearStutters ==
  ASSUME IInv, ClearPosition(TRUE)
  PROVE  Ledger' = Ledger
<1>0. /\ pc = "clear" /\ Outcome(TRUE, Turn) /\ NextTurn("drain", "wait")
      /\ open' = [open EXCEPT ![Turn] = None] /\ posFile' = open'
      /\ UNCHANGED <<plan, audit, barLog>>
  BY DEF ClearPosition, WritePosition
<1>1. PICK t \in Runner : t = Turn BY <1>0, DrainAdvances DEF IInv
<1>2. /\ \A r \in Runner : AuditedAt(r)' = AuditedAt(r) /\ AuditOf(r)' = AuditOf(r)
      /\ \A r \in Runner : Safe(r)' <=> Safe(r)
  BY <1>0 DEF AuditedAt, AuditOf, Safe, Untorn, Outcome
<1>3. \A r \in Runner : r # t => posFile'[r] = open[r] BY <1>0, <1>1 DEF IInv, TypeOK
<1>4. \A r \in Runner : Safe(r) => posFile[r] = open[r] BY <1>0 DEF IInv, MirrorInv, Live, Safe
<1>5. Safe(t) => AuditedAt(t) # {} BY <1>0, <1>1 DEF IInv, DurableInv, Clearing
<1> QED BY <1>2, <1>3, <1>4, <1>5, RowStays, LedgerStays

\* A crash voids the trades it fell inside the bars of, if there are any.
LEMMA CrashVoids ==
  ASSUME IInv, Crash
  PROVE  Abstract!Next \/ Ledger' = Ledger
<1> DEFINE R == {r \in Runner : Safe(r) /\ ~Safe(r)'}
<1>1. UNCHANGED <<plan, audit, posFile, hurt>> /\ torn \subseteq torn' BY DEF Crash, diskVars
<1>2. \A r \in Runner : AuditedAt(r)' = AuditedAt(r) /\ AuditOf(r)' = AuditOf(r) /\ (Safe(r)' => Safe(r))
  BY <1>1 DEF AuditedAt, AuditOf, Safe, Untorn
<1>3. \A r \in Runner \ R : Ledger'[r] = Ledger[r] BY <1>1, <1>2, RowStays
<1>4. CASE R = {} BY <1>3, <1>4, LedgerStays
<1>5. CASE R # {}
  <2>1. R \in SUBSET Runner /\ \A r \in R : ~Safe(r)' OBVIOUS
  <2> HIDE DEF R
  <2> QED BY <1>3, <1>5, <2>1, LedgerVoids
<1> QED BY <1>4, <1>5

\* audit.jsonl and position.json together implement the abstract ledger.
THEOREM FilesImplementLedger == Spec => ImplementsLedger
<1>1. Init => Abstract!Init
  <2> SUFFICES ASSUME Init PROVE Ledger = [r \in Runner |-> Abstract!NoTrade]
    BY DEF Abstract!Init
  <2>1. DOMAIN audit = {} BY DEF Init
  <2>2. \A r \in Runner : AuditedAt(r) = {} BY <2>1 DEF AuditedAt
  <2>3. \A r \in Runner : posFile[r] = None BY DEF Init, NoLegs
  <2>4. \A r \in Runner : Safe(r) BY DEF Init, Safe, Untorn
  <2> QED BY <2>2, <2>3, <2>4 DEF Ledger, Abstract!NoTrade
<1>2. IInv /\ [Next]_vars => [Abstract!Next]_Ledger
  <2> SUFFICES ASSUME IInv, [Next]_vars PROVE Abstract!Next \/ Ledger' = Ledger
    OBVIOUS
  <2>1. ASSUME UNCHANGED <<plan, audit, posFile, torn, hurt>> PROVE Ledger' = Ledger
    BY <2>1 DEF Ledger, Safe, Untorn, AuditedAt, AuditOf
  <2>2. CASE LogBar \/ RunnerIdle \/ NothingToReport \/ Restart \/ UNCHANGED vars
    <3>1. UNCHANGED <<plan, audit, posFile, torn, hurt>>
      BY <2>2 DEF LogBar, RunnerIdle, NothingToReport, Restart, vars, diskVars, faultVars
    <3> QED BY <2>1, <3>1
  <2>3. ASSUME NEW leg \in Quotable, ExitLive(leg) PROVE Ledger' = Ledger
    <3>1. UNCHANGED <<plan, audit, posFile, torn, hurt>> BY <2>3 DEF ExitLive, diskVars, faultVars
    <3> QED BY <2>1, <3>1
  <2>4. ASSUME NEW leg \in Quotable, EnterLive(leg, FALSE) PROVE Abstract!Next
    <3>1. Turn \in Runner BY <2>4, DriveAdvances DEF EnterLive, IInv
    <3>2. Outcome(FALSE, Turn) /\ UNCHANGED <<plan, audit, posFile>>
      BY <2>4 DEF EnterLive, WritePosition
    <3> QED BY <3>1, <3>2, FailedWriteVoids DEF IInv
  <2>5. CASE AppendAudit(FALSE)
    <3>1. Turn \in Runner BY <2>5, Places DEF AppendAudit, IInv, LoopInv, Turn
    <3>2. Outcome(FALSE, Turn) /\ UNCHANGED <<plan, audit, posFile>> BY <2>5 DEF AppendAudit
    <3> QED BY <3>1, <3>2, FailedWriteVoids DEF IInv
  <2>6. CASE ClearPosition(FALSE)
    <3>1. Turn \in Runner BY <2>6, DrainAdvances DEF ClearPosition, IInv
    <3>2. Outcome(FALSE, Turn) /\ UNCHANGED <<plan, audit, posFile>>
      BY <2>6 DEF ClearPosition, WritePosition
    <3> QED BY <3>1, <3>2, FailedWriteVoids DEF IInv
  <2>7. CASE Crash BY <2>7, CrashVoids
  <2> QED BY <2>2, <2>3, <2>4, <2>5, <2>6, <2>7, EnterOpens, AuditCloses, ClearStutters DEF Next
<1> QED BY <1>1, <1>2, SessionInvariance, PTL DEF Spec, ImplementsLedger, Abstract!Spec
=============================================================================
