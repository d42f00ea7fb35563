----------------------------- MODULE Incubation -----------------------------
(***************************************************************************)
(* The incubation as a whole, many sessions long: cmd/live is started,     *)
(* stopped and killed on any day and with any build; each start picks the  *)
(* front-month future and the lot, checks the freeze baseline and recovers *)
(* what today's directory holds; the trades it audits there are what the   *)
(* gate of the dashboard counts, over all directories.                     *)
(*                                                                         *)
(* Time passes in halves of a day, 2*d and 2*d+1 for day d.  The cut is    *)
(* midnight UTC, 05:30 IST, the instant the scrip master's expiries fall   *)
(* on; the market trades in the second half.  A session seen from closer,  *)
(* with the crashes that fall inside a bar, is PaperSession.               *)
(***************************************************************************)
EXTENDS Naturals, Sequences, FiniteSets

CONSTANTS
  Runner,      \* the runners with real seams
  Build,       \* builds of cmd/live, told apart by the engine they link
  Version,     \* Version[b]: the label EngineVersion reads from the build info
  Params,      \* Params[b]: the strategy parameters the engine of b locks
  Pinned,      \* the builds that link a pinned engine, not a local replace
  Future,      \* the underlying's futures in the scrip master
  ExpiryDay,   \* ExpiryDay[f]: the day future f expires
  LotSize,     \* LotSize[f]: the scrip master's lot of f, 0 if it has none
  LotFlag,     \* values of -lot, 0 for auto
  DefaultLot,  \* the lot when neither says one (65)
  MinSample,   \* trades needed for a verdict (40 in the code)
  MaxDay,      \* bound: the last day
  MaxStarts,   \* bound: starts of the process
  None

ASSUME BuildAssumption ==
  /\ Pinned \subseteq Build
  /\ \A b, c \in Build : Version[b] = Version[c] /\ b \in Pinned => b = c
ASSUME LotAssumption ==
  /\ DefaultLot \in Nat \ {0} /\ LotFlag \subseteq Nat /\ LotSize \in [Future -> Nat]
ASSUME DayAssumption == MaxDay \in Nat /\ ExpiryDay \in [Future -> Nat]
ASSUME BoundAssumption == MinSample \in Nat \ {0} /\ MaxStarts \in Nat

VARIABLES
  now,       \* half-days since the incubation began
  proc,      \* the running process, or None
  phase,     \* its runners: "flat", "open", "overnight" (still in a trade of an earlier
             \*   day) or "done" for the day
  held,      \* per runner, the entry of the open trade
  baseline,  \* freeze_baseline.json
  posFile,   \* per directory, position.json
  audit,     \* per directory, audit.jsonl
  bars,      \* per directory, which builds logged bars of which future in it
  told,      \* history: a freeze violation was shown, or the clock reset
  outlived,  \* history: days on which a process started on an earlier day traded
  starts

diskVars == <<baseline, posFile, audit, bars>>
vars == <<now, proc, phase, held, diskVars, told, outlived, starts>>

Day == 0..MaxDay
Today == now \div 2
Trading == now % 2 = 1

\* mutant: a scrip master without a lot size is taken at its word
LotAsListed(flag, f) == IF flag > 0 THEN flag ELSE LotSize[f]
\* The lot the process trades and hashes.
EffLot(flag, f) ==
  IF flag > 0 THEN flag ELSE IF LotSize[f] > 0 THEN LotSize[f] ELSE DefaultLot

Lot == {n \in LotFlag \cup {LotSize[f] : f \in Future} \cup {DefaultLot} : n > 0}

\* What makes a trade: the engine and the lot it was sized with.
System == [build : Build, lot : Lot]
\* What the freeze controller sees of it: version and config hash.
Fingerprint(s) == [version |-> Version[s.build], hash |-> <<Params[s.build], s.lot>>]

\* A fill: who made it, and whether the book had a price.
Leg == [system : System, onBook : BOOLEAN]
NoLegs == [r \in Runner |-> None]
AllFlat == [r \in Runner |-> "flat"]
InTrade(r) == phase[r] \in {"open", "overnight"}

Init ==
  /\ now = 0 /\ proc = None /\ phase = AllFlat /\ held = NoLegs
  /\ baseline = None
  /\ posFile = [d \in Day |-> NoLegs] /\ audit = [d \in Day |-> <<>>]
  /\ bars = [d \in Day |-> {}]
  /\ told = FALSE /\ outlived = {} /\ starts = 0

-----------------------------------------------------------------------------
(* Start-up: the future and the lot, the session directory, the freeze      *)
(* check, recovery.                                                         *)

\* A future's expiry is midnight UTC of its day, and "on or after" compares instants.
Listed(f) == now <= 2 * ExpiryDay[f]
FrontMonthFuture(f) == Listed(f) /\ \A g \in Future : Listed(g) => ExpiryDay[f] <= ExpiryDay[g]

\* mutant: only the engine's version is compared
MatchVersion(fp) == baseline.version = fp.version
Match(fp) == baseline.version = fp.version /\ baseline.hash = fp.hash

\* mutant: a start on a matching baseline writes it again, with today's date
Restamps(reset, fp) == TRUE
\* freeze.Start writes the baseline on a first run and on -reset-freeze only.
WritesBaseline(reset, fp) == reset \/ baseline = None

\* mutant: a trade that is already audited is not replayed
ResumeOpenOnly(r) == IF posFile[Today][r] # None THEN "open" ELSE "flat"
\* A runner after the replay of its own decisions.
Resumed(r) ==
  IF \E i \in DOMAIN audit[Today] : audit[Today][i].runner = r THEN "done"
  ELSE IF posFile[Today][r] # None THEN "open" ELSE "flat"

\* recovery.Recover drives the bars of today's directory that are the current future's: none
\* leave every runner flat, those this build logged itself rebuild its decisions, and those
\* another build has logged too may make the engine decide anything.
Recovers(b, f) ==
  IF ~\E c \in Build : <<c, f>> \in bars[Today] THEN phase' = AllFlat
  ELSE IF bars[Today] = {<<b, f>>} THEN phase' = [r \in Runner |-> Resumed(r)]
  ELSE phase' \in [Runner -> {"flat", "open", "done"}]

\* The fills of a replay reach no Recorder; one that finds no recorded price has none.
HeldAfterReplay(s) ==
  [r \in Runner |->
     IF phase'[r] # "open" THEN None
     ELSE IF posFile[Today][r] # None THEN [leg |-> posFile[Today][r], tapped |-> FALSE]
     ELSE [leg |-> [system |-> s, onBook |-> FALSE], tapped |-> FALSE]]

Start(b, f, flag, reset) ==
  LET s == [build |-> b, lot |-> EffLot(flag, f)]
      fp == Fingerprint(s)
      ok == baseline = None \/ reset \/ Match(fp)
  IN /\ proc = None /\ starts < MaxStarts /\ FrontMonthFuture(f)
     /\ proc' = [system |-> s, future |-> f, dir |-> Today, freezeOK |-> ok]
     /\ baseline' = IF WritesBaseline(reset, fp)
                      THEN [version |-> fp.version, hash |-> fp.hash, since |-> Today]
                      ELSE baseline
     /\ told' = (told \/ ~ok \/ (reset /\ baseline # None))
     /\ Recovers(b, f)
     /\ held' = HeldAfterReplay(s)
     /\ starts' = starts + 1
     /\ UNCHANGED <<now, posFile, audit, bars, outlived>>

\* Ctrl+C or a crash: either way what is in memory is gone and the files stay.
Stop ==
  /\ proc # None
  /\ proc' = None /\ phase' = AllFlat /\ held' = NoLegs
  /\ UNCHANGED <<now, diskVars, told, outlived, starts>>

-----------------------------------------------------------------------------
(* The running process writes to the directory it was started in.           *)

\* The first bar of the process's future; a future past its expiry has none.
LogBar ==
  /\ proc # None /\ Trading /\ Today <= ExpiryDay[proc.future]
  /\ <<proc.system.build, proc.future>> \notin bars[proc.dir]
  /\ bars' = [bars EXCEPT ![proc.dir] = @ \cup {<<proc.system.build, proc.future>>}]
  /\ UNCHANGED <<now, proc, phase, held, baseline, posFile, audit, told, outlived, starts>>

Driven ==
  /\ proc # None /\ Trading /\ Today <= ExpiryDay[proc.future]
  /\ <<proc.system.build, proc.future>> \in bars[proc.dir]

Outliving == IF proc.dir = Today THEN outlived ELSE outlived \cup {Today}

Enter(r, onBook) ==
  LET leg == [system |-> proc.system, onBook |-> onBook] IN
  /\ Driven /\ phase[r] = "flat"
  /\ phase' = [phase EXCEPT ![r] = "open"]
  /\ held' = [held EXCEPT ![r] = [leg |-> leg, tapped |-> TRUE]]
  /\ posFile' = [posFile EXCEPT ![proc.dir][r] = leg]
  /\ outlived' = Outliving
  /\ UNCHANGED <<now, proc, baseline, audit, bars, told, starts>>

\* The audit line.  Its stamp is the running process's; an entry this process did not make
\* leaves its fallback flag false.
Record(r, onBook) ==
  [runner |-> r, day |-> Today,
   entry |-> held[r].leg, exit |-> [system |-> proc.system, onBook |-> onBook],
   entryFallback |-> held[r].tapped /\ ~held[r].leg.onBook, exitFallback |-> ~onBook,
   whole |-> held[r].tapped, stamp |-> Fingerprint(proc.system)]

\* A runner that has traded is done for the day; the engine may let it trade once more after
\* the exit of a trade of an earlier day.
AfterExit(r) == IF phase[r] = "overnight" THEN {"done", "flat"} ELSE {"done"}

Exit(r, onBook) ==
  /\ Driven /\ InTrade(r)
  /\ \E p \in AfterExit(r) : phase' = [phase EXCEPT ![r] = p]
  /\ held' = [held EXCEPT ![r] = None]
  /\ audit' = [audit EXCEPT ![proc.dir] = Append(@, Record(r, onBook))]
  /\ posFile' = [posFile EXCEPT ![proc.dir][r] = None]
  /\ outlived' = Outliving
  /\ UNCHANGED <<now, proc, baseline, bars, told, starts>>

\* The engine squares off on a bar: if none comes before the close, the running process
\* still holds its trade on the next day.  A runner that is done may trade again then.
TimePasses ==
  /\ now < 2 * MaxDay + 1
  /\ now' = now + 1
  /\ phase' = IF Trading
                THEN [r \in Runner |-> IF InTrade(r) THEN "overnight" ELSE "flat"]
                ELSE phase
  /\ UNCHANGED <<proc, held, diskVars, told, outlived, starts>>

Next ==
  \/ \E b \in Build, f \in Future, flag \in LotFlag, reset \in BOOLEAN : Start(b, f, flag, reset)
  \/ Stop \/ LogBar
  \/ \E r \in Runner, onBook \in BOOLEAN : Enter(r, onBook) \/ Exit(r, onBook)
  \/ TimePasses

Spec == Init /\ [][Next]_vars

-----------------------------------------------------------------------------
(* What the gate is computed over: BuildSnapshot reads every directory.     *)

Trades == UNION {{<<d, i>> : i \in DOMAIN audit[d]} : d \in Day}
Rec(t) == audit[t[1]][t[2]]

\* mutant: an exit at a fallback price is counted
ValidEntry(t) == ~Rec(t).entryFallback
Valid(t) == ~Rec(t).entryFallback /\ ~Rec(t).exitFallback
Counted == {t \in Trades : Valid(t)}

\* Any verdict but PENDING.
Decided == Cardinality(Counted) >= MinSample

-----------------------------------------------------------------------------
(* Properties                                                               *)

Fingerprints == {Fingerprint(s) : s \in System}
AuditRecord ==
  [runner : Runner, day : Day, entry : Leg, exit : Leg, entryFallback : BOOLEAN,
   exitFallback : BOOLEAN, whole : BOOLEAN, stamp : Fingerprints]
Held == [leg : Leg, tapped : BOOLEAN]
Baseline ==
  {[version |-> fp.version, hash |-> fp.hash, since |-> d] : fp \in Fingerprints, d \in Day}

ASSUME NoneAssumption == None \notin Baseline

\* Every variable has its type; in particular no process trades a lot of 0.
TypeOK ==
  /\ now \in 0..(2 * MaxDay + 1)
  /\ proc \in [system : System, future : Future, dir : Day, freezeOK : BOOLEAN] \cup {None}
  /\ phase \in [Runner -> {"flat", "open", "overnight", "done"}]
  /\ held \in [Runner -> Held \cup {None}]
  /\ \A r \in Runner : InTrade(r) => held[r] \in Held
  /\ baseline \in Baseline \cup {None}
  /\ posFile \in [Day -> [Runner -> Leg \cup {None}]]
  /\ audit \in [Day -> Seq(AuditRecord)]
  /\ bars \in [Day -> SUBSET (Build \X Future)]
  /\ told \in BOOLEAN /\ outlived \in SUBSET Day /\ starts \in 0..MaxStarts

\* The gate never silently mixes systems: if the legs of counted trades come from two, one of
\* them pinned, then a start has shown a freeze violation or the operator has reset the clock.
MixIsNeverSilent ==
  ~told => \A t, u \in Counted :
    LET p == Rec(t).entry.system
        q == Rec(u).exit.system
    IN  p.build \in Pinned \/ q.build \in Pinned => p = q

\* As long as no violation was shown, the label "frozen V . H since D" of the dashboard
\* describes every counted trade: none is older than D, none is stamped otherwise.
LabelDescribesRecord ==
  ~told => \A t \in Counted :
    /\ baseline # None /\ Rec(t).day >= baseline.since
    /\ Rec(t).stamp = [version |-> baseline.version, hash |-> baseline.hash]

\* The bars of a directory came from one build and one future.
OneSource(d) == \A x, y \in bars[d] : x = y

\* A runner has at most one trade a day on record, over any restarts on that day, if all its
\* bars came from one build and one future and no process had outlived its own day.
OneTradeADay ==
  \A t, u \in Trades :
    LET d == Rec(t).day IN
    Rec(t).runner = Rec(u).runner /\ Rec(u).day = d
      /\ d \notin outlived /\ OneSource(d)
    => t = u

\* A verdict rests on at least MinSample trades both whose legs filled on the book, leaving
\* out the ones a restart fell inside of (whose entry flag is lost).
NoVerdictOnFallbacks ==
  Decided =>
    LET split == {t \in Counted : ~Rec(t).whole}
        onBook == {t \in Trades : Rec(t).whole /\ Rec(t).entry.onBook /\ Rec(t).exit.onBook}
    IN  Cardinality(onBook) + Cardinality(split) >= MinSample

-----------------------------------------------------------------------------
(* Why they hold: an invariant that every step preserves.                   *)

Frozen == [version |-> baseline.version, hash |-> baseline.hash]
IsFrozen(s) == baseline # None /\ Fingerprint(s) = Frozen

\* Whatever trades, holds a position or is on record has the baseline's fingerprint.
ProcessFrozen == proc # None => IsFrozen(proc.system)
RunnersFrozen == \A r \in Runner : InTrade(r) => IsFrozen(held[r].leg.system)
PositionsFrozen ==
  \A d \in Day, r \in Runner : posFile[d][r] # None => IsFrozen(posFile[d][r].system)
RecordsFrozen ==
  \A d \in Day : \A i \in DOMAIN audit[d] :
    /\ IsFrozen(audit[d][i].entry.system) /\ IsFrozen(audit[d][i].exit.system)
    /\ audit[d][i].stamp = Frozen /\ audit[d][i].day >= baseline.since

\* Before the first baseline nothing has traded; after it all is frozen until something is
\* shown.
FrozenInv ==
  /\ baseline = None =>
       proc = None /\ \A d \in Day : audit[d] = <<>> /\ posFile[d] = NoLegs
  /\ baseline # None => baseline.since <= Today
  /\ ~told => ProcessFrozen /\ RunnersFrozen /\ PositionsFrozen /\ RecordsFrozen

\* What the fallback flags of an audit record say is true of its legs, the entry of a trade a
\* restart fell inside of excepted.
FlagInv ==
  \A d \in Day : \A i \in DOMAIN audit[d] :
    /\ audit[d][i].whole /\ ~audit[d][i].entryFallback => audit[d][i].entry.onBook
    /\ ~audit[d][i].exitFallback => audit[d][i].exit.onBook

\* Only a process that has outlived its day writes into an earlier day's directory, or holds a
\* trade of an earlier day.
DirInv ==
  /\ \A d \in Day : \A i \in DOMAIN audit[d] : audit[d][i].day \in {d} \cup outlived
  /\ \A d \in Day : audit[d] # <<>> => bars[d] # {}
  /\ \A d \in Day : d > Today => bars[d] = {}
  /\ proc # None => proc.dir <= Today
  /\ proc # None /\ proc.dir = Today => \A r \in Runner : phase[r] # "overnight"

\* A runner that is driven has not yet traded today, or is done for the day.
OnceInv ==
  /\ \A d \in Day : d \notin outlived /\ OneSource(d) =>
       \A i, j \in DOMAIN audit[d] :
         /\ audit[d][i].runner = audit[d][j].runner
         /\ audit[d][i].day = d /\ audit[d][j].day = d
         => i = j
  /\ /\ proc # None /\ proc.dir = Today /\ Today \notin outlived /\ OneSource(Today)
     /\ <<proc.system.build, proc.future>> \in bars[Today]
     => \A i \in DOMAIN audit[Today] : phase[audit[Today][i].runner] = "done"

IInv == TypeOK /\ FrozenInv /\ FlagInv /\ DirInv /\ OnceInv
=============================================================================
