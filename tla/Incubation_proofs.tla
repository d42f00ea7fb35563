-------------------------- MODULE Incubation_proofs --------------------------
(***************************************************************************)
(* Incubation's properties for any runners, builds, futures and lots, any  *)
(* number of days and starts, and any sample size.  Each part of IInv is   *)
(* preserved under those before it, one lemma per part.                    *)
(***************************************************************************)
EXTENDS Incubation, FiniteSetTheorems, TLAPS

-----------------------------------------------------------------------------
(* Days, lots, and appending to a day's audit.                              *)

\* Today is a day of the calendar, and time does not run backwards.
LEMMA TodayIsADay ==
  ASSUME now \in 0..(2 * MaxDay + 1)
  PROVE  Today \in Day /\ Today \in Nat
  BY DayAssumption DEF Today, Day

LEMMA NextDay ==
  ASSUME now \in Nat, now' = now + 1
  PROVE  /\ Today \in Nat /\ Today' = IF Trading THEN Today + 1 ELSE Today
  BY DEF Today, Trading

\* No flag, scrip master or default makes the process trade a lot of 0.
LEMMA LotIsSound ==
  ASSUME NEW flag \in LotFlag, NEW f \in Future, NEW b \in Build
  PROVE  [build |-> b, lot |-> EffLot(flag, f)] \in System
<1>1. flag \in Nat /\ LotSize[f] \in Nat /\ DefaultLot > 0 BY LotAssumption
<1>2. EffLot(flag, f) \in Lot BY <1>1 DEF EffLot, Lot
<1> QED BY <1>2 DEF System

LEMMA FingerprintType ==
  ASSUME NEW s \in System
  PROVE  Fingerprint(s) \in Fingerprints
  BY DEF Fingerprints

\* A pinned build's fingerprint names the system behind it.
LEMMA PinnedIsUnique ==
  ASSUME NEW s \in System, NEW t \in System, Fingerprint(s) = Fingerprint(t),
         s.build \in Pinned \/ t.build \in Pinned
  PROVE  s = t
<1>1. Version[s.build] = Version[t.build] /\ s.lot = t.lot BY DEF Fingerprint
<1>2. s.build = t.build BY <1>1, BuildAssumption DEF System
<1> QED BY <1>1, <1>2 DEF System

\* What an exit does to the audit logs: one record more, the others in their places.
LEMMA ExitAppends ==
  ASSUME TypeOK, NEW r \in Runner, NEW onBook \in BOOLEAN, Exit(r, onBook)
  PROVE  /\ proc.dir \in Day /\ proc.system \in System /\ held[r] \in Held
         /\ Record(r, onBook) \in AuditRecord
         /\ audit' \in [Day -> Seq(AuditRecord)]
         /\ \A d \in Day : d # proc.dir => audit'[d] = audit[d]
         /\ LET n == Len(audit[proc.dir]) + 1 IN
              /\ DOMAIN audit'[proc.dir] = 1..n /\ DOMAIN audit[proc.dir] = 1..(n - 1)
              /\ n \in Nat /\ audit'[proc.dir][n] = Record(r, onBook)
              /\ \A i \in 1..(n - 1) : audit'[proc.dir][i] = audit[proc.dir][i]
<1>1. proc.dir \in Day /\ proc.system \in System /\ held[r] \in Held
  BY DEF Exit, Driven, TypeOK
<1>2. Today \in Day BY TodayIsADay DEF TypeOK
<1>3. Record(r, onBook) \in AuditRecord
  BY <1>1, <1>2, FingerprintType DEF Record, AuditRecord, Held, Leg
<1>4. audit[proc.dir] \in Seq(AuditRecord) BY <1>1 DEF TypeOK
<1>5. audit' = [audit EXCEPT ![proc.dir] = Append(@, Record(r, onBook))] BY DEF Exit
<1>6. audit' \in [Day -> Seq(AuditRecord)] BY <1>1, <1>3, <1>4, <1>5 DEF TypeOK
<1>7. audit'[proc.dir] = Append(audit[proc.dir], Record(r, onBook)) BY <1>1, <1>5 DEF TypeOK
<1>8. \A d \in Day : d # proc.dir => audit'[d] = audit[d] BY <1>1, <1>5 DEF TypeOK
<1> HIDE DEF AuditRecord, Record
<1> QED BY <1>1, <1>3, <1>4, <1>6, <1>7, <1>8

-----------------------------------------------------------------------------
(* Types.                                                                   *)

LEMMA InitTypes == Init => TypeOK
<1> SUFFICES ASSUME Init PROVE TypeOK
  OBVIOUS
<1>1. Today \in Day /\ now \in 0..(2 * MaxDay + 1) BY DayAssumption DEF Init, Today, Day
<1>2. starts \in 0..MaxStarts BY BoundAssumption DEF Init
<1>3. <<>> \in Seq(AuditRecord) OBVIOUS
<1>4. audit \in [Day -> Seq(AuditRecord)] BY <1>3 DEF Init
<1>5. posFile \in [Day -> [Runner -> Leg \cup {None}]] BY DEF Init, NoLegs
<1>6. /\ phase \in [Runner -> {"flat", "open", "overnight", "done"}] /\ held \in [Runner -> Held \cup {None}]
      /\ \A r \in Runner : ~InTrade(r)
  BY DEF Init, NoLegs, AllFlat, InTrade
<1>7. bars \in [Day -> SUBSET (Build \X Future)] BY DEF Init
<1> QED BY <1>1, <1>2, <1>4, <1>5, <1>6, <1>7 DEF Init, TypeOK

\* A start: the replay gives every open runner a held entry.
LEMMA StartTypes ==
  ASSUME TypeOK, NEW b \in Build, NEW f \in Future, NEW flag \in LotFlag, NEW reset \in BOOLEAN,
         Start(b, f, flag, reset)
  PROVE  TypeOK'
<1> DEFINE s == [build |-> b, lot |-> EffLot(flag, f)]
<1>1. s \in System /\ Fingerprint(s) \in Fingerprints BY LotIsSound, FingerprintType
<1>2. Today \in Day BY TodayIsADay DEF TypeOK
<1>3. UNCHANGED <<now, posFile, audit, bars, outlived>> BY DEF Start
<1>4. proc' \in [system : System, future : Future, dir : Day, freezeOK : BOOLEAN]
  <2> HIDE DEF s
  <2>1. \E ok \in BOOLEAN : proc' = [system |-> s, future |-> f, dir |-> Today, freezeOK |-> ok]
    BY DEF Start, s, Match
  <2> QED BY <2>1, <1>1, <1>2
<1>5. phase' \in [Runner -> {"flat", "open", "done"}]
  BY DEF Start, Recovers, AllFlat, Resumed
<1>6. held' = HeldAfterReplay(s) BY DEF Start
<1>7. /\ held' \in [Runner -> Held \cup {None}]
      /\ \A r \in Runner : InTrade(r)' => held'[r] \in Held
  <2> HIDE DEF s
  <2>1. \A r \in Runner : posFile[Today][r] \in Leg \cup {None} BY <1>2 DEF TypeOK
  <2>2. \A r \in Runner : InTrade(r)' => phase'[r] = "open" BY <1>5 DEF InTrade
  <2> QED BY <1>1, <1>6, <2>1, <2>2 DEF HeldAfterReplay, Held, Leg
<1>8. baseline' \in Baseline \cup {None}
  <2>1. baseline' = baseline \/ baseline' = [version |-> Fingerprint(s).version,
                                             hash |-> Fingerprint(s).hash, since |-> Today]
    BY DEF Start
  <2> HIDE DEF s
  <2> QED BY <2>1, <1>1, <1>2 DEF Baseline, TypeOK
<1>9. told' \in BOOLEAN BY DEF Start, TypeOK, Match
<1>10. starts' \in 0..MaxStarts BY BoundAssumption DEF Start, TypeOK
<1> QED BY <1>3, <1>4, <1>5, <1>7, <1>8, <1>9, <1>10 DEF TypeOK

LEMMA StepTypes == TypeOK /\ [Next]_vars => TypeOK'
<1> SUFFICES ASSUME TypeOK, [Next]_vars PROVE TypeOK'
  OBVIOUS
<1> USE DEF Day
<1>1. ASSUME NEW b \in Build, NEW f \in Future, NEW flag \in LotFlag, NEW reset \in BOOLEAN,
             Start(b, f, flag, reset)
      PROVE  TypeOK'
  BY <1>1, StartTypes
<1>2. CASE Stop BY <1>2 DEF Stop, TypeOK, InTrade, AllFlat, NoLegs, diskVars
<1>3. CASE LogBar
  <2>1. <<proc.system.build, proc.future>> \in Build \X Future
    BY <1>3 DEF LogBar, TypeOK, System
  <2>2. bars' \in [Day -> SUBSET (Build \X Future)] BY <1>3, <2>1 DEF LogBar, TypeOK
  <2> QED BY <1>3, <2>2 DEF LogBar, TypeOK, InTrade
<1>4. ASSUME NEW r \in Runner, NEW onBook \in BOOLEAN, Enter(r, onBook) PROVE TypeOK'
  <2> DEFINE leg == [system |-> proc.system, onBook |-> onBook]
  <2>1. proc.dir \in Day /\ leg \in Leg BY <1>4 DEF Enter, Driven, TypeOK, Leg
  <2>2. Today \in Day BY TodayIsADay DEF TypeOK
  <2> HIDE DEF leg
  <2>3. /\ phase' = [phase EXCEPT ![r] = "open"]
        /\ held' = [held EXCEPT ![r] = [leg |-> leg, tapped |-> TRUE]]
        /\ posFile' = [posFile EXCEPT ![proc.dir][r] = leg]
        /\ outlived' = outlived \/ outlived' = outlived \cup {Today}
        /\ UNCHANGED <<now, proc, baseline, audit, bars, told, starts>>
    BY <1>4 DEF Enter, Outliving, leg
  <2>4. [leg |-> leg, tapped |-> TRUE] \in Held BY <2>1 DEF Held
  <2>5. posFile' \in [Day -> [Runner -> Leg \cup {None}]] BY <2>1, <2>3 DEF TypeOK
  <2>6. /\ held' \in [Runner -> Held \cup {None}] /\ phase' \in [Runner -> {"flat", "open", "overnight", "done"}]
        /\ \A q \in Runner : InTrade(q)' => held'[q] \in Held
    BY <2>3, <2>4 DEF TypeOK, InTrade
  <2> QED BY <2>2, <2>3, <2>5, <2>6 DEF TypeOK
<1>5. ASSUME NEW r \in Runner, NEW onBook \in BOOLEAN, Exit(r, onBook) PROVE TypeOK'
  <2>1. proc.dir \in Day /\ audit' \in [Day -> Seq(AuditRecord)] BY <1>5, ExitAppends
  <2>2. /\ \E p \in {"done", "flat"} : phase' = [phase EXCEPT ![r] = p]
        /\ held' = [held EXCEPT ![r] = None]
        /\ posFile' = [posFile EXCEPT ![proc.dir][r] = None]
        /\ outlived' = outlived \/ outlived' = outlived \cup {Today}
        /\ UNCHANGED <<now, proc, baseline, bars, told, starts>>
    BY <1>5 DEF Exit, AfterExit, Outliving
  <2>5. Today \in Day BY TodayIsADay DEF TypeOK
  <2>3. posFile' \in [Day -> [Runner -> Leg \cup {None}]] BY <2>1, <2>2 DEF TypeOK
  <2>4. /\ held' \in [Runner -> Held \cup {None}] /\ phase' \in [Runner -> {"flat", "open", "overnight", "done"}]
        /\ \A q \in Runner : InTrade(q)' => held'[q] \in Held
    BY <2>2 DEF TypeOK, InTrade
  <2> QED BY <2>1, <2>2, <2>3, <2>4, <2>5 DEF TypeOK
<1>6. CASE TimePasses
  <2>1. now' \in 0..(2 * MaxDay + 1) BY <1>6, DayAssumption DEF TimePasses, TypeOK
  <2>2. /\ phase' \in [Runner -> {"flat", "open", "overnight", "done"}]
        /\ \A r \in Runner : InTrade(r)' => InTrade(r)
    BY <1>6 DEF TimePasses, TypeOK, InTrade
  <2>3. UNCHANGED <<proc, held, diskVars, told, outlived, starts>> BY <1>6 DEF TimePasses
  <2> QED BY <2>1, <2>2, <2>3 DEF TypeOK, diskVars
<1>7. CASE UNCHANGED vars BY <1>7 DEF vars, diskVars, TypeOK, InTrade
<1> QED BY <1>1, <1>2, <1>3, <1>4, <1>5, <1>6, <1>7 DEF Next

-----------------------------------------------------------------------------
(* The frozen system.                                                       *)

LEMMA InitFrozen == Init => FrozenInv
<1> SUFFICES ASSUME Init PROVE FrozenInv
  OBVIOUS
<1>1. \A d \in Day : audit[d] = <<>> /\ posFile[d] = NoLegs /\ DOMAIN audit[d] = {}
  BY DEF Init
<1>2. RecordsFrozen BY <1>1 DEF RecordsFrozen
<1>3. PositionsFrozen BY <1>1 DEF PositionsFrozen, NoLegs
<1>4. RunnersFrozen /\ ProcessFrozen BY DEF Init, RunnersFrozen, ProcessFrozen, AllFlat, InTrade
<1> QED BY <1>1, <1>2, <1>3, <1>4 DEF Init, FrozenInv

\* Files that do not change stay frozen; with no baseline yet there are none.
LEMMA FilesStayFrozen ==
  ASSUME FrozenInv, ~told, UNCHANGED <<posFile, audit>>,
         baseline # None => baseline' = baseline
  PROVE  (PositionsFrozen /\ RecordsFrozen)'
<1>1. CASE baseline = None
  <2>1. \A d \in Day : DOMAIN audit[d] = {} /\ posFile[d] = NoLegs BY <1>1 DEF FrozenInv
  <2> QED BY <2>1 DEF PositionsFrozen, RecordsFrozen, NoLegs
<1>2. CASE baseline # None
  BY <1>2 DEF FrozenInv, PositionsFrozen, RecordsFrozen, IsFrozen, Frozen
<1> QED BY <1>1, <1>2

\* A start either shows the violation or runs with the fingerprint of the baseline, the one
\* it found or, if there was none, the one it writes.
LEMMA StartFrozen ==
  ASSUME TypeOK, FrozenInv, NEW b \in Build, NEW f \in Future, NEW flag \in LotFlag,
         NEW reset \in BOOLEAN, Start(b, f, flag, reset)
  PROVE  FrozenInv'
<1> DEFINE s == [build |-> b, lot |-> EffLot(flag, f)]
           fp == Fingerprint(s)
           new == [version |-> fp.version, hash |-> fp.hash, since |-> Today]
<1>1. s \in System /\ fp \in Fingerprints BY LotIsSound, FingerprintType
<1>2. Today \in Day BY TodayIsADay DEF TypeOK
<1>3. Today' = Today BY DEF Start, Today
<1>4. /\ proc'.system = s /\ held' = HeldAfterReplay(s)
      /\ baseline' = IF reset \/ baseline = None THEN new ELSE baseline
      /\ told' = (told \/ ~(baseline = None \/ reset \/ Match(fp)) \/ (reset /\ baseline # None))
      /\ UNCHANGED <<now, posFile, audit, bars, outlived>>
  BY DEF Start, WritesBaseline
<1>5. fp = [version |-> fp.version, hash |-> fp.hash] BY DEF Fingerprint
<1>6. new # None
  <2> HIDE DEF fp
  <2> QED BY <1>1, <1>2, NoneAssumption DEF Baseline
<1>7. baseline' # None /\ (baseline # None /\ ~told' => baseline' = baseline)
  BY <1>4, <1>6
<1>8. ASSUME ~told' PROVE ~told /\ fp = Frozen'
  <2> HIDE DEF fp
  <2> QED BY <1>4, <1>5, <1>7, <1>8 DEF Frozen, Match
<1>9. baseline'.since <= Today'
  BY <1>2, <1>3, <1>4 DEF FrozenInv, Day
<1>10. ASSUME ~told' PROVE ProcessFrozen'
  BY <1>4, <1>7, <1>8, <1>10 DEF ProcessFrozen, IsFrozen
<1>11. ASSUME ~told' PROVE (PositionsFrozen /\ RecordsFrozen)'
  BY <1>4, <1>7, <1>8, <1>11, FilesStayFrozen
<1>12. ASSUME ~told' PROVE RunnersFrozen'
  <2> SUFFICES ASSUME NEW r \in Runner, InTrade(r)' PROVE IsFrozen(held[r].leg.system)'
    BY DEF RunnersFrozen
  <2>3. phase'[r] = "open" BY DEF Start, Recovers, AllFlat, Resumed, InTrade
  <2>1. \/ held'[r].leg = posFile[Today][r] /\ posFile[Today][r] # None
        \/ held'[r].leg.system = s
    BY <1>4, <2>3 DEF HeldAfterReplay
  <2>2. posFile[Today][r] # None => IsFrozen(posFile[Today][r].system)'
    BY <1>2, <1>3, <1>4, <1>11, <1>12 DEF PositionsFrozen, IsFrozen
  <2> HIDE DEF s
  <2> QED BY <1>3, <1>4, <1>7, <1>8, <1>12, <2>1, <2>2 DEF IsFrozen
<1> QED BY <1>7, <1>9, <1>10, <1>11, <1>12 DEF FrozenInv

\* Every other step leaves the baseline alone and trades with the process's own system.
LEMMA StepFrozen == TypeOK /\ FrozenInv /\ [Next]_vars => FrozenInv'
<1> SUFFICES ASSUME TypeOK, FrozenInv, [Next]_vars PROVE FrozenInv'
  OBVIOUS
<1>1. ASSUME NEW b \in Build, NEW f \in Future, NEW flag \in LotFlag, NEW reset \in BOOLEAN,
             Start(b, f, flag, reset)
      PROVE  FrozenInv'
  BY <1>1, StartFrozen
<1>2. ASSUME UNCHANGED <<baseline, told, posFile, audit>>, Today <= Today',
             Today \in Nat, Today' \in Nat,
             proc' = None \/ proc' = proc,
             \A r \in Runner : InTrade(r)' => InTrade(r) /\ held'[r] = held[r]
      PROVE  FrozenInv'
  <2>1. baseline # None => baseline.since <= Today'
    BY <1>2 DEF FrozenInv, TypeOK, Baseline, Day
  <2>2. ~told => (PositionsFrozen /\ RecordsFrozen)' BY <1>2, FilesStayFrozen
  <2>3. ~told => (ProcessFrozen /\ RunnersFrozen)'
    BY <1>2 DEF FrozenInv, ProcessFrozen, RunnersFrozen, IsFrozen, Frozen
  <2> QED BY <1>2, <2>1, <2>2, <2>3 DEF FrozenInv
<1>3. CASE Stop \/ LogBar \/ UNCHANGED vars
  <2>1. Today' = Today /\ Today \in Nat BY <1>3, TodayIsADay DEF Stop, LogBar, vars, Today, TypeOK
  <2>2. /\ UNCHANGED <<baseline, told, posFile, audit>> /\ (proc' = None \/ proc' = proc)
        /\ \A r \in Runner : InTrade(r)' => InTrade(r) /\ held'[r] = held[r]
    BY <1>3 DEF Stop, LogBar, vars, diskVars, AllFlat, InTrade
  <2> QED BY <1>2, <2>1, <2>2
<1>4. CASE TimePasses
  <2>1. Today <= Today' /\ Today \in Nat /\ Today' \in Nat
    BY <1>4, NextDay DEF TimePasses, TypeOK
  <2>2. /\ UNCHANGED <<baseline, told, posFile, audit>> /\ proc' = proc
        /\ \A r \in Runner : InTrade(r)' => InTrade(r) /\ held'[r] = held[r]
    BY <1>4 DEF TimePasses, diskVars, InTrade
  <2> QED BY <1>2, <2>1, <2>2
<1>5. ASSUME NEW r \in Runner, NEW onBook \in BOOLEAN, Enter(r, onBook) PROVE FrozenInv'
  <2> DEFINE leg == [system |-> proc.system, onBook |-> onBook]
  <2>1. /\ proc # None /\ proc.dir \in Day /\ baseline # None
        /\ leg.system = proc.system
    BY <1>5 DEF Enter, Driven, TypeOK, FrozenInv
  <2> HIDE DEF leg
  <2>2. /\ phase' = [phase EXCEPT ![r] = "open"]
        /\ held' = [held EXCEPT ![r] = [leg |-> leg, tapped |-> TRUE]]
        /\ posFile' = [posFile EXCEPT ![proc.dir][r] = leg]
        /\ UNCHANGED <<now, proc, baseline, audit, told>>
    BY <1>5 DEF Enter, leg
  <2>3. \A q \in Runner : InTrade(q)' =>
          (InTrade(q) /\ held'[q] = held[q]) \/ held'[q].leg = leg
    BY <2>2 DEF TypeOK, InTrade
  <2>4. \A d \in Day, q \in Runner : posFile'[d][q] = posFile[d][q] \/ posFile'[d][q] = leg
    BY <2>1, <2>2 DEF TypeOK
  <2>5. ASSUME ~told PROVE (ProcessFrozen /\ RunnersFrozen /\ PositionsFrozen /\ RecordsFrozen)'
    <3>1. IsFrozen(leg.system) /\ Frozen' = Frozen
      BY <2>1, <2>2, <2>5 DEF FrozenInv, ProcessFrozen, Frozen
    <3>2. ProcessFrozen' /\ RecordsFrozen'
      BY <2>2, <2>5, <3>1 DEF FrozenInv, ProcessFrozen, RecordsFrozen, IsFrozen
    <3>3. RunnersFrozen' BY <2>2, <2>3, <2>5, <3>1 DEF FrozenInv, RunnersFrozen, IsFrozen
    <3>4. PositionsFrozen' BY <2>2, <2>4, <2>5, <3>1 DEF FrozenInv, PositionsFrozen, IsFrozen
    <3> QED BY <3>2, <3>3, <3>4
  <2> QED BY <2>1, <2>2, <2>5 DEF FrozenInv, Today
<1>6. ASSUME NEW r \in Runner, NEW onBook \in BOOLEAN, Exit(r, onBook) PROVE FrozenInv'
  <2> DEFINE rec == Record(r, onBook)
             n == Len(audit[proc.dir]) + 1
  <2>1. proc # None /\ InTrade(r) /\ baseline # None
    BY <1>6 DEF Exit, Driven, FrozenInv
  <2>2. ~told => /\ IsFrozen(rec.entry.system) /\ IsFrozen(rec.exit.system)
                 /\ rec.stamp = Frozen /\ rec.day >= baseline.since
    <3>1. /\ rec.entry = held[r].leg /\ rec.exit.system = proc.system /\ rec.day = Today
          /\ rec.stamp = Fingerprint(proc.system)
      BY DEF Record
    <3>2. baseline.since <= Today /\ Today \in Nat /\ baseline.since \in Nat
      BY <2>1, TodayIsADay DEF FrozenInv, TypeOK, Baseline, Day
    <3> HIDE DEF rec
    <3> QED BY <2>1, <3>1, <3>2 DEF FrozenInv, ProcessFrozen, RunnersFrozen, IsFrozen
  <2>3. /\ proc.dir \in Day
        /\ \A d \in Day : d # proc.dir => audit'[d] = audit[d]
        /\ DOMAIN audit'[proc.dir] = 1..n /\ DOMAIN audit[proc.dir] = 1..(n - 1) /\ n \in Nat
        /\ audit'[proc.dir][n] = rec
        /\ \A i \in 1..(n - 1) : audit'[proc.dir][i] = audit[proc.dir][i]
    BY <1>6, ExitAppends
  <2>4. /\ \E p \in {"done", "flat"} : phase' = [phase EXCEPT ![r] = p]
        /\ held' = [held EXCEPT ![r] = None]
        /\ posFile' = [posFile EXCEPT ![proc.dir][r] = None]
        /\ UNCHANGED <<now, proc, baseline, told>>
    BY <1>6 DEF Exit, AfterExit
  <2> HIDE DEF rec, n
  <2>5. \A q \in Runner : InTrade(q)' => InTrade(q) /\ held'[q] = held[q]
    BY <2>4 DEF TypeOK, InTrade
  <2>6. \A d \in Day, q \in Runner : posFile'[d][q] = posFile[d][q] \/ posFile'[d][q] = None
    BY <2>3, <2>4 DEF TypeOK
  <2>7. \A d \in Day : \A i \in DOMAIN audit'[d] :
          (i \in DOMAIN audit[d] /\ audit'[d][i] = audit[d][i]) \/ audit'[d][i] = rec
    BY <2>3
  <2>8. ASSUME ~told PROVE (ProcessFrozen /\ RunnersFrozen /\ PositionsFrozen /\ RecordsFrozen)'
    <3>1. Frozen' = Frozen BY <2>4 DEF Frozen
    <3>2. RecordsFrozen'
      BY <2>2, <2>4, <2>7, <2>8, <3>1 DEF FrozenInv, RecordsFrozen, IsFrozen
    <3>3. (ProcessFrozen /\ RunnersFrozen)'
      BY <2>4, <2>5, <2>8, <3>1 DEF FrozenInv, ProcessFrozen, RunnersFrozen, IsFrozen
    <3>4. PositionsFrozen' BY <2>4, <2>6, <2>8, <3>1 DEF FrozenInv, PositionsFrozen, IsFrozen
    <3> QED BY <3>2, <3>3, <3>4
  <2> QED BY <2>1, <2>4, <2>8 DEF FrozenInv, Today
<1> QED BY <1>1, <1>3, <1>4, <1>5, <1>6 DEF Next

-----------------------------------------------------------------------------
(* Flags, directories, one trade a day.                                     *)

\* A record is added by an exit only, and then it is the exit's record.
LEMMA RecordsGrow ==
  ASSUME TypeOK, [Next]_vars
  PROVE  \/ audit' = audit
         \/ \E r \in Runner, onBook \in BOOLEAN :
              /\ Exit(r, onBook)
              /\ \A d \in Day : \A i \in DOMAIN audit'[d] :
                   \/ i \in DOMAIN audit[d] /\ audit'[d][i] = audit[d][i]
                   \/ d = proc.dir /\ audit'[d][i] = Record(r, onBook)
<1>1. ASSUME NEW r \in Runner, NEW onBook \in BOOLEAN, Exit(r, onBook)
      PROVE  \A d \in Day : \A i \in DOMAIN audit'[d] :
               \/ i \in DOMAIN audit[d] /\ audit'[d][i] = audit[d][i]
               \/ d = proc.dir /\ audit'[d][i] = Record(r, onBook)
  <2> DEFINE n == Len(audit[proc.dir]) + 1
  <2>1. /\ \A d \in Day : d # proc.dir => audit'[d] = audit[d]
        /\ DOMAIN audit'[proc.dir] = 1..n /\ DOMAIN audit[proc.dir] = 1..(n - 1) /\ n \in Nat
        /\ audit'[proc.dir][n] = Record(r, onBook)
        /\ \A i \in 1..(n - 1) : audit'[proc.dir][i] = audit[proc.dir][i]
    BY <1>1, ExitAppends
  <2> HIDE DEF n
  <2> QED BY <2>1
<1>2. ~(\E r \in Runner, onBook \in BOOLEAN : Exit(r, onBook)) => audit' = audit
  BY DEF Next, vars, Start, Stop, LogBar, Enter, TimePasses, diskVars
<1> QED BY <1>1, <1>2

LEMMA RunnersOnRecord ==
  ASSUME TypeOK, NEW d \in Day, NEW i \in DOMAIN audit[d]
  PROVE  audit[d][i] \in AuditRecord /\ audit[d][i].runner \in Runner
<1>1. audit[d] \in Seq(AuditRecord) BY DEF TypeOK
<1>2. audit[d][i] \in AuditRecord BY <1>1
<1> QED BY <1>2 DEF AuditRecord

LEMMA StepFlags == TypeOK /\ FlagInv /\ [Next]_vars => FlagInv'
<1> SUFFICES ASSUME TypeOK, FlagInv, [Next]_vars PROVE FlagInv'
  OBVIOUS
<1>1. CASE audit' = audit BY <1>1 DEF FlagInv
<1>2. ASSUME NEW r \in Runner, NEW onBook \in BOOLEAN,
             \A d \in Day : \A i \in DOMAIN audit'[d] :
               \/ i \in DOMAIN audit[d] /\ audit'[d][i] = audit[d][i]
               \/ d = proc.dir /\ audit'[d][i] = Record(r, onBook)
      PROVE  FlagInv'
  <2> DEFINE rec == Record(r, onBook)
  <2>1. /\ rec.whole /\ ~rec.entryFallback => rec.entry.onBook
        /\ ~rec.exitFallback => rec.exit.onBook
    BY DEF Record
  <2> HIDE DEF rec
  <2>2. \A d \in Day : \A i \in DOMAIN audit'[d] :
          (i \in DOMAIN audit[d] /\ audit'[d][i] = audit[d][i]) \/ audit'[d][i] = rec
    BY <1>2 DEF rec
  <2> QED BY <2>1, <2>2 DEF FlagInv
<1> QED BY <1>1, <1>2, RecordsGrow

LEMMA InitDirs == Init => FlagInv /\ DirInv /\ OnceInv
<1> SUFFICES ASSUME Init PROVE FlagInv /\ DirInv /\ OnceInv
  OBVIOUS
<1>1. proc = None /\ \A d \in Day : bars[d] = {} /\ audit[d] = <<>> /\ DOMAIN audit[d] = {}
  BY DEF Init
<1> QED BY <1>1 DEF FlagInv, DirInv, OnceInv

\* A process outlives its day when time passes with it running; a day it then trades on is in
\* outlived.
LEMMA StepDirs == TypeOK /\ DirInv /\ [Next]_vars => DirInv'
<1> SUFFICES ASSUME TypeOK, DirInv, [Next]_vars PROVE DirInv'
  OBVIOUS
<1>1. Today \in Day /\ Today \in Nat /\ \A d \in Day : d \in Nat
  BY TodayIsADay DEF TypeOK, Day
<1>2. ASSUME NEW b \in Build, NEW f \in Future, NEW flag \in LotFlag, NEW reset \in BOOLEAN,
             Start(b, f, flag, reset)
      PROVE  DirInv'
  <2>1. UNCHANGED <<now, audit, bars, outlived>> /\ proc'.dir = Today /\ Today' = Today
    BY <1>2 DEF Start, Today
  <2>2. proc'.dir <= Today' BY <1>1, <2>1
  <2>3. \A d \in Day : \A i \in DOMAIN audit'[d] : audit'[d][i].day \in {d} \cup outlived'
    BY <2>1 DEF DirInv
  <2>4. \A d \in Day : (audit'[d] # <<>> => bars'[d] # {}) /\ (d > Today' => bars'[d] = {})
    BY <2>1 DEF DirInv
  <2>5. \A r \in Runner : phase'[r] # "overnight"
    BY <1>2 DEF Start, Recovers, AllFlat, Resumed
  <2> QED BY <2>2, <2>3, <2>4, <2>5 DEF DirInv
<1>3. CASE Stop BY <1>3 DEF Stop, DirInv, Today, diskVars
<1>4. CASE LogBar
  <2>1. proc # None /\ proc.dir \in Day /\ proc.dir <= Today BY <1>4 DEF LogBar, DirInv, TypeOK
  <2>2. Today' = Today /\ UNCHANGED <<proc, phase, audit, outlived>> BY <1>4 DEF LogBar, Today
  <2>3. \A d \in Day : bars[d] \subseteq bars'[d] /\ (d # proc.dir => bars'[d] = bars[d])
    BY <1>4 DEF LogBar, TypeOK
  <2>4. \A d \in Day : d > Today => d # proc.dir BY <1>1, <2>1
  <2> QED BY <2>1, <2>2, <2>3, <2>4 DEF DirInv
<1>5. ASSUME NEW r \in Runner, NEW onBook \in BOOLEAN, Enter(r, onBook) PROVE DirInv'
  <2>1. Today' = Today /\ UNCHANGED <<proc, audit, bars>> BY <1>5 DEF Enter, Today
  <2>2. outlived \subseteq outlived' BY <1>5 DEF Enter, Outliving
  <2>3. \A q \in Runner : phase'[q] = phase[q] \/ phase'[q] = "open"
    BY <1>5 DEF Enter, TypeOK
  <2> QED BY <2>1, <2>2, <2>3 DEF DirInv
<1>6. ASSUME NEW r \in Runner, NEW onBook \in BOOLEAN, Exit(r, onBook) PROVE DirInv'
  <2> DEFINE rec == Record(r, onBook)
  <2>1. proc # None /\ bars[proc.dir] # {} /\ proc.dir \in Day
    BY <1>6, ExitAppends DEF Exit, Driven
  <2>2. \A d \in Day : \A i \in DOMAIN audit'[d] :
          \/ i \in DOMAIN audit[d] /\ audit'[d][i] = audit[d][i]
          \/ d = proc.dir /\ audit'[d][i].day = Today
    <3>1. rec.day = Today BY DEF Record
    <3>2. /\ \A d \in Day : d # proc.dir => audit'[d] = audit[d]
          /\ LET n == Len(audit[proc.dir]) + 1 IN
              /\ DOMAIN audit'[proc.dir] = 1..n /\ DOMAIN audit[proc.dir] = 1..(n - 1)
              /\ n \in Nat /\ audit'[proc.dir][n] = rec
              /\ \A i \in 1..(n - 1) : audit'[proc.dir][i] = audit[proc.dir][i]
      BY <1>6, ExitAppends
    <3> HIDE DEF rec
    <3> QED BY <3>1, <3>2
  <2>3. \A d \in Day : d # proc.dir => audit'[d] = audit[d] BY <1>6, ExitAppends
  <2>4. Today' = Today /\ UNCHANGED <<proc, bars>> BY <1>6 DEF Exit, Today
  <2>5. outlived \subseteq outlived' /\ Today \in {proc.dir} \cup outlived'
    BY <1>6 DEF Exit, Outliving
  <2>6. \A d \in Day : \A i \in DOMAIN audit'[d] : audit'[d][i].day \in {d} \cup outlived'
    BY <2>2, <2>5 DEF DirInv
  <2>7. \A q \in Runner : phase'[q] \in {phase[q], "done", "flat"}
    BY <1>6 DEF Exit, AfterExit, TypeOK
  <2> QED BY <2>1, <2>3, <2>4, <2>6, <2>7 DEF DirInv
<1>7. CASE TimePasses
  <2>1. Today <= Today' /\ Today' \in Nat BY <1>7, NextDay DEF TimePasses, TypeOK
  <2>2. UNCHANGED <<proc, audit, bars, outlived>> BY <1>7 DEF TimePasses, diskVars
  <2>3. proc # None => proc.dir \in Nat BY <1>1 DEF TypeOK
  <2>4. (Today' = Today /\ phase' = phase) \/ Today' = Today + 1
    BY <1>7, NextDay DEF TimePasses, TypeOK
  <2>5. proc' # None /\ proc'.dir = Today' => \A r \in Runner : phase'[r] # "overnight"
    BY <1>1, <2>2, <2>3, <2>4 DEF DirInv
  <2> QED BY <1>1, <2>1, <2>2, <2>3, <2>5 DEF DirInv
<1>8. CASE UNCHANGED vars BY <1>8 DEF vars, diskVars, DirInv, Today
<1> QED BY <1>2, <1>3, <1>4, <1>5, <1>6, <1>7, <1>8 DEF Next

\* The recovery of a runner that has traded today leaves it done, if the bars are all its
\* own build's and future's; and it is not driven before such a bar.
LEMMA StepOnce == TypeOK /\ DirInv /\ OnceInv /\ [Next]_vars => OnceInv'
<1> SUFFICES ASSUME TypeOK, DirInv, OnceInv, [Next]_vars PROVE OnceInv'
  OBVIOUS
<1>1. Today \in Day /\ Today \in Nat /\ \A d \in Day : d \in Nat
  BY TodayIsADay DEF TypeOK, Day
<1>2. ASSUME NEW b \in Build, NEW f \in Future, NEW flag \in LotFlag, NEW reset \in BOOLEAN,
             Start(b, f, flag, reset)
      PROVE  OnceInv'
  <2>1. /\ UNCHANGED <<now, audit, bars, outlived>> /\ Today' = Today
        /\ proc'.system.build = b /\ proc'.future = f
    BY <1>2 DEF Start, Today
  <2>2. ASSUME OneSource(Today), <<b, f>> \in bars[Today]
        PROVE  \A i \in DOMAIN audit[Today] : phase'[audit[Today][i].runner] = "done"
    <3>1. bars[Today] = {<<b, f>>} BY <2>2 DEF OneSource
    <3>2. phase' = [r \in Runner |-> Resumed(r)] BY <1>2, <2>2, <3>1 DEF Start, Recovers
    <3>3. \A i \in DOMAIN audit[Today] : audit[Today][i].runner \in Runner
      BY <1>1, RunnersOnRecord
    <3> QED BY <3>2, <3>3 DEF Resumed
  <2> QED BY <2>1, <2>2 DEF OnceInv, OneSource
<1>3. CASE Stop BY <1>3 DEF Stop, OnceInv, OneSource, Today, diskVars
<1>4. CASE LogBar
  <2> DEFINE x == <<proc.system.build, proc.future>>
  <2>1. proc.dir \in Day /\ x \notin bars[proc.dir] BY <1>4 DEF LogBar, TypeOK
  <2>2. Today' = Today /\ UNCHANGED <<proc, phase, audit, outlived>> BY <1>4 DEF LogBar, Today
  <2>3. bars' = [bars EXCEPT ![proc.dir] = @ \cup {x}] BY <1>4 DEF LogBar
  <2> HIDE DEF x
  <2>4. \A d \in Day : bars[d] \subseteq bars'[d] BY <2>1, <2>3 DEF TypeOK
  <2>5. \A d \in Day : OneSource(d)' => OneSource(d) BY <2>4 DEF OneSource
  <2>6. OneSource(proc.dir)' => bars[proc.dir] = {} /\ audit[proc.dir] = <<>>
    <3>1. x \in bars'[proc.dir] BY <2>1, <2>3 DEF TypeOK
    <3> QED BY <2>1, <2>2, <2>4, <3>1 DEF OneSource, DirInv
  <2>7. audit[proc.dir] = <<>> => DOMAIN audit[proc.dir] = {} OBVIOUS
  <2> QED BY <2>2, <2>5, <2>6, <2>7 DEF OnceInv, OneSource
<1>5. ASSUME NEW r \in Runner, NEW onBook \in BOOLEAN, Enter(r, onBook) PROVE OnceInv'
  <2>1. Today' = Today /\ UNCHANGED <<proc, audit, bars>> /\ outlived \subseteq outlived'
    BY <1>5 DEF Enter, Outliving, Today
  <2>2. \A q \in Runner : phase[q] = "done" => phase'[q] = "done" BY <1>5 DEF Enter, TypeOK
  <2>3. \A i \in DOMAIN audit[Today] : audit[Today][i].runner \in Runner
    BY <1>1, RunnersOnRecord
  <2> QED BY <1>1, <2>1, <2>2, <2>3 DEF OnceInv, OneSource
<1>6. ASSUME NEW r \in Runner, NEW onBook \in BOOLEAN, Exit(r, onBook) PROVE OnceInv'
  <2> DEFINE rec == Record(r, onBook)
             n == Len(audit[proc.dir]) + 1
  <2>1. rec.runner = r /\ rec.day = Today BY DEF Record
  <2>2. /\ proc # None /\ phase[r] # "done" /\ proc.dir \in Day
        /\ <<proc.system.build, proc.future>> \in bars[proc.dir]
    BY <1>6, ExitAppends DEF Exit, Driven, InTrade
  <2>3. /\ \A d \in Day : d # proc.dir => audit'[d] = audit[d]
        /\ DOMAIN audit'[proc.dir] = 1..n /\ DOMAIN audit[proc.dir] = 1..(n - 1) /\ n \in Nat
        /\ audit'[proc.dir][n] = rec
        /\ \A i \in 1..(n - 1) : audit'[proc.dir][i] = audit[proc.dir][i]
    BY <1>6, ExitAppends
  <2> HIDE DEF rec, n
  <2>4. /\ Today' = Today /\ UNCHANGED <<proc, bars>> /\ outlived \subseteq outlived'
        /\ proc.dir # Today => Today \in outlived'
    BY <1>6 DEF Exit, Outliving, Today
  <2>10. proc.dir = Today => phase[r] # "overnight" BY <2>2 DEF DirInv
  <2>11. PICK p \in AfterExit(r) : phase' = [phase EXCEPT ![r] = p] BY <1>6 DEF Exit
  <2>12. proc.dir = Today => phase'[r] = "done" BY <2>10, <2>11 DEF AfterExit, TypeOK
  <2>5. \A q \in Runner : phase[q] = "done" /\ q # r => phase'[q] = "done" BY <2>11 DEF TypeOK
  <2>6. \A i \in DOMAIN audit[proc.dir] : audit[proc.dir][i].runner \in Runner
    BY <2>2, RunnersOnRecord
  <2>7. proc.dir = Today /\ Today \notin outlived /\ OneSource(Today)
        => \A i \in 1..(n - 1) : audit[proc.dir][i].runner # r
    BY <2>2, <2>3 DEF OnceInv
  <2>8. ASSUME NEW d \in Day, d \notin outlived, OneSource(d),
               NEW i \in DOMAIN audit'[d], NEW j \in DOMAIN audit'[d],
               audit'[d][i].runner = audit'[d][j].runner,
               audit'[d][i].day = d, audit'[d][j].day = d
        PROVE  i = j
    <3>1. CASE d # proc.dir BY <2>3, <2>8, <3>1 DEF OnceInv
    <3>2. CASE d = proc.dir /\ d # Today
      <4>1. i \in 1..(n - 1) /\ j \in 1..(n - 1) BY <2>1, <2>3, <2>8, <3>2
      <4> QED BY <2>3, <2>8, <3>2, <4>1 DEF OnceInv
    <3>3. CASE d = proc.dir /\ d = Today
      <4>1. i \in 1..(n - 1) /\ j \in 1..(n - 1) => i = j BY <2>3, <2>8, <3>3 DEF OnceInv
      <4>2. i \in 1..n /\ j \in 1..n BY <2>3, <2>8, <3>3
      <4> QED BY <2>1, <2>3, <2>7, <2>8, <3>3, <4>1, <4>2
    <3> QED BY <3>1, <3>2, <3>3
  <2>9. /\ proc # None /\ proc.dir = Today /\ Today \notin outlived /\ OneSource(Today)
        /\ <<proc.system.build, proc.future>> \in bars[Today]
        => \A i \in DOMAIN audit'[Today] : phase'[audit'[Today][i].runner] = "done"
    BY <2>1, <2>3, <2>5, <2>6, <2>12 DEF OnceInv
  <2> QED BY <2>4, <2>8, <2>9 DEF OnceInv, OneSource
<1>7. CASE TimePasses
  <2>1. UNCHANGED <<proc, audit, bars, outlived>> BY <1>7 DEF TimePasses, diskVars
  <2>2. CASE Trading
    <3>1. Today' = Today + 1 BY <1>7, <2>2, NextDay DEF TimePasses, TypeOK
    <3>2. proc # None => proc.dir # Today' BY <1>1, <3>1 DEF DirInv, TypeOK
    <3> QED BY <2>1, <3>2 DEF OnceInv, OneSource
  <2>3. CASE ~Trading
    <3>1. Today' = Today /\ phase' = phase
      BY <1>7, <2>3, NextDay DEF TimePasses, TypeOK
    <3> QED BY <2>1, <3>1 DEF OnceInv, OneSource
  <2> QED BY <2>2, <2>3
<1>8. CASE UNCHANGED vars BY <1>8 DEF vars, diskVars, OnceInv, OneSource, Today
<1> QED BY <1>2, <1>3, <1>4, <1>5, <1>6, <1>7, <1>8 DEF Next

-----------------------------------------------------------------------------
(* The theorems.                                                            *)

\* IInv is an invariant of the incubation.
THEOREM IncubationInvariance == Spec => []IInv
<1>1. Init => IInv BY InitTypes, InitFrozen, InitDirs DEF IInv
<1>2. IInv /\ [Next]_vars => IInv' BY StepTypes, StepFrozen, StepFlags, StepDirs, StepOnce DEF IInv
<1> QED BY <1>1, <1>2, PTL DEF Spec

\* The types; in particular no process ever trades a lot of 0.
THEOREM IncubationTypeCorrect == Spec => []TypeOK
  BY IncubationInvariance, PTL DEF IInv

\* A trade that is counted is one of some day's records.
LEMMA TradeIsARecord ==
  ASSUME NEW t \in Trades
  PROVE  /\ t[1] \in Day /\ t[2] \in DOMAIN audit[t[1]] /\ t = <<t[1], t[2]>>
         /\ Rec(t) = audit[t[1]][t[2]]
  BY DEF Trades, Rec

\* The gate never silently mixes a pinned system with another one.
THEOREM NoSilentMix == Spec => []MixIsNeverSilent
<1>1. IInv => MixIsNeverSilent
  <2> SUFFICES ASSUME IInv, ~told, NEW t \in Trades, NEW u \in Trades,
                      \/ Rec(t).entry.system.build \in Pinned
                      \/ Rec(u).exit.system.build \in Pinned
               PROVE  Rec(t).entry.system = Rec(u).exit.system
    BY DEF MixIsNeverSilent, Counted
  <2>1. IsFrozen(Rec(t).entry.system) /\ IsFrozen(Rec(u).exit.system)
    BY TradeIsARecord DEF IInv, FrozenInv, RecordsFrozen
  <2>2. Rec(t) \in AuditRecord /\ Rec(u) \in AuditRecord BY TradeIsARecord DEF IInv, TypeOK
  <2>3. Rec(t).entry.system \in System /\ Rec(u).exit.system \in System
    BY <2>2 DEF AuditRecord, Leg
  <2> QED BY <2>1, <2>3, PinnedIsUnique DEF IsFrozen
<1> QED BY <1>1, IncubationInvariance, PTL

\* The dashboard's label "frozen V . H since D" describes every counted trade.
THEOREM LabelIsTrue == Spec => []LabelDescribesRecord
<1>1. IInv => LabelDescribesRecord
  <2> SUFFICES ASSUME IInv, ~told, NEW t \in Trades
               PROVE  /\ baseline # None /\ Rec(t).day >= baseline.since
                      /\ Rec(t).stamp = Frozen
    BY DEF LabelDescribesRecord, Counted, Frozen
  <2> QED BY TradeIsARecord DEF IInv, FrozenInv, RecordsFrozen, IsFrozen
<1> QED BY <1>1, IncubationInvariance, PTL

\* At most one trade a runner a day, over any restarts with the same build and future.
THEOREM AtMostOneTradeADay == Spec => []OneTradeADay
<1>1. IInv => OneTradeADay
  <2> SUFFICES ASSUME IInv, NEW t \in Trades, NEW u \in Trades,
                      Rec(t).runner = Rec(u).runner, Rec(u).day = Rec(t).day,
                      Rec(t).day \notin outlived, OneSource(Rec(t).day)
               PROVE  t = u
    BY DEF OneTradeADay
  <2>1. t[1] = Rec(t).day /\ u[1] = Rec(t).day BY TradeIsARecord DEF IInv, DirInv
  <2>2. t[2] = u[2] BY <2>1, TradeIsARecord DEF IInv, OnceInv
  <2> QED BY <2>1, <2>2, TradeIsARecord
<1> QED BY <1>1, IncubationInvariance, PTL

\* A verdict's trades are finitely many.
LEMMA TradesAreFinite ==
  ASSUME TypeOK
  PROVE  IsFiniteSet(Trades)
<1> DEFINE Of(d) == {<<d, i>> : i \in DOMAIN audit[d]}
<1>1. ASSUME NEW d \in Day PROVE IsFiniteSet(Of(d))
  <2> DEFINE g == [i \in DOMAIN audit[d] |-> <<d, i>>]
  <2>1. audit[d] \in Seq(AuditRecord) BY DEF TypeOK
  <2>2. DOMAIN audit[d] = 1..Len(audit[d]) /\ Len(audit[d]) \in Nat BY <2>1
  <2>3. IsFiniteSet(DOMAIN audit[d]) BY <2>2, FS_Interval
  <2>4. g \in Surjection(DOMAIN audit[d], Of(d)) BY DEF Surjection
  <2> QED BY <2>3, <2>4, FS_Surjection
<1>2. IsFiniteSet({Of(d) : d \in Day})
  <2> DEFINE h == [d \in Day |-> Of(d)]
  <2>1. IsFiniteSet(Day) BY FS_Interval, DayAssumption DEF Day
  <2> HIDE DEF Of
  <2>2. h \in Surjection(Day, {Of(d) : d \in Day}) BY DEF Surjection
  <2> QED BY <2>1, <2>2, FS_Surjection
<1>3. Trades = UNION {Of(d) : d \in Day} BY DEF Trades
<1> HIDE DEF Of
<1> QED BY <1>1, <1>2, <1>3, FS_UNION

\* A verdict rests on enough trades filled on the book, those split by a restart left out.
THEOREM VerdictsAreOnBook == Spec => []NoVerdictOnFallbacks
<1>1. IInv => NoVerdictOnFallbacks
  <2> SUFFICES ASSUME IInv, Decided PROVE NoVerdictOnFallbacks
    BY DEF NoVerdictOnFallbacks
  <2> DEFINE split == {t \in Counted : ~Rec(t).whole}
             onBook == {t \in Trades : Rec(t).whole /\ Rec(t).entry.onBook /\ Rec(t).exit.onBook}
  <2>1. IsFiniteSet(Trades) BY TradesAreFinite DEF IInv
  <2>2. IsFiniteSet(split) /\ IsFiniteSet(onBook) /\ IsFiniteSet(Counted)
    BY <2>1, FS_Subset DEF Counted
  <2>3. Counted \subseteq onBook \cup split
    <3> SUFFICES ASSUME NEW t \in Counted, Rec(t).whole PROVE t \in onBook
      OBVIOUS
    <3>1. t \in Trades /\ ~Rec(t).entryFallback /\ ~Rec(t).exitFallback BY DEF Counted, Valid
    <3>2. Rec(t).entry.onBook /\ Rec(t).exit.onBook
      BY <3>1, TradeIsARecord DEF IInv, FlagInv
    <3> QED BY <3>1, <3>2
  <2> HIDE DEF split, onBook
  <2>4. Cardinality(Counted) <= Cardinality(onBook \cup split)
    BY <2>2, <2>3, FS_Union, FS_Subset
  <2>5. /\ Cardinality(onBook) \in Nat /\ Cardinality(split) \in Nat
        /\ Cardinality(onBook \cap split) \in Nat /\ Cardinality(Counted) \in Nat
    BY <2>2, FS_CardinalityType, FS_Intersection
  <2>6. Cardinality(onBook \cup split)
          = Cardinality(onBook) + Cardinality(split) - Cardinality(onBook \cap split)
    BY <2>2, FS_Union
  <2>7. Cardinality(onBook) + Cardinality(split) >= MinSample
    BY <2>4, <2>5, <2>6, BoundAssumption DEF Decided
  <2> QED BY <2>7 DEF NoVerdictOnFallbacks, split, onBook
<1> QED BY <1>1, IncubationInvariance, PTL
=============================================================================
