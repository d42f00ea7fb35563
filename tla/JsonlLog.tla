------------------------------ MODULE JsonlLog ------------------------------
(***************************************************************************)
(* One append-only JSONL file (audit.jsonl or bars.jsonl) below the level  *)
(* at which PaperSession sees it: a write reaches the file in pieces, it   *)
(* may stop after any of them because the disk refuses the rest or the     *)
(* process dies, a restart opens the file again with O_APPEND, and         *)
(* readJSONL may read it at any moment.                                    *)
(*                                                                         *)
(* Records are numbered in the order append is called with them.  What is  *)
(* on a line is either one record or bytes that do not parse.              *)
(***************************************************************************)
EXTENDS Naturals, Sequences

CONSTANTS
  MaxRecords,  \* bound: calls of append
  MaxFailures, \* bound: writes that fail half way and processes that die
  Broken       \* bytes that do not parse as one record

ASSUME BoundAssumption == MaxRecords \in Nat /\ MaxFailures \in Nat
ASSUME BrokenAssumption == Broken \notin Nat

VARIABLES
  lines,    \* what each newline-terminated line holds
  tail,     \* what follows the last newline: 0 is nothing
  pc,       \* "idle", "writing" or "down"
  last,     \* the record append was last called with
  fresh,    \* whether the record being written began on a line of its own
  acked,    \* history: the records whose append returned no error
  torn,     \* history: the first record that left bytes and no newline, or 0
  failures

vars == <<lines, tail, pc, last, fresh, acked, torn, failures>>

Record == 1..MaxRecords

Init ==
  /\ lines = <<>> /\ tail = 0
  /\ pc = "idle" /\ last = 0 /\ fresh = TRUE
  /\ acked = {} /\ torn = 0 /\ failures = 0

\* append marshals the record and takes the mutex: the bytes start to reach the file.
Begin ==
  /\ pc = "idle" /\ last < MaxRecords
  /\ last' = last + 1 /\ fresh' = (tail = 0) /\ pc' = "writing"
  /\ UNCHANGED <<lines, tail, acked, torn, failures>>

\* Some of the bytes, or all but the newline, which is a line that parses if nothing
\* was in front of it.
Piece ==
  /\ pc = "writing" /\ tail # last
  /\ tail' \in {Broken} \cup (IF fresh THEN {last} ELSE {})
  /\ tail' # tail
  /\ UNCHANGED <<lines, pc, last, fresh, acked, torn, failures>>

\* mutants: the newline ends whatever has been written so far; it is never written
LineCutShort == lines' = Append(lines, tail) /\ tail' = 0
LineUnterminated ==
  /\ tail' = (IF fresh THEN last ELSE Broken)
  /\ UNCHANGED lines
LineDone ==
  /\ lines' = Append(lines, IF fresh THEN last ELSE Broken)
  /\ tail' = 0

\* The write is complete and the file is synced.
Finish ==
  /\ pc = "writing"
  /\ LineDone
  /\ pc' = "idle" /\ acked' = acked \cup {last}
  /\ UNCHANGED <<last, fresh, torn, failures>>

\* The write is complete and Sync fails: the line is there and append returns an error.
SyncFails ==
  /\ pc = "writing" /\ failures < MaxFailures
  /\ LineDone
  /\ pc' = "idle" /\ failures' = failures + 1
  /\ UNCHANGED <<last, fresh, acked, torn>>

\* What the interrupted write has left on the file stays there.
Interrupted == torn' = IF torn = 0 /\ tail # 0 THEN last ELSE torn

\* Write returns short, say because the disk is full; the caller logs it and goes on.
WriteFails ==
  /\ pc = "writing" /\ failures < MaxFailures
  /\ pc' = "idle" /\ failures' = failures + 1
  /\ Interrupted
  /\ UNCHANGED <<lines, tail, last, fresh, acked>>

Crash ==
  /\ pc # "down" /\ failures < MaxFailures
  /\ pc' = "down" /\ failures' = failures + 1
  /\ Interrupted
  /\ UNCHANGED <<lines, tail, last, fresh, acked>>

\* mutant: the file is opened with O_TRUNC for O_APPEND
ReopenEmpty ==
  /\ pc = "down" /\ pc' = "idle" /\ lines' = <<>> /\ tail' = 0
  /\ UNCHANGED <<last, fresh, acked, torn, failures>>
\* openJSONL appends to the file as it is.
Reopen ==
  /\ pc = "down" /\ pc' = "idle"
  /\ UNCHANGED <<lines, tail, last, fresh, acked, torn, failures>>

Next == Begin \/ Piece \/ Finish \/ SyncFails \/ WriteFails \/ Crash \/ Reopen

Spec == Init /\ [][Next]_vars

-----------------------------------------------------------------------------
(* readJSONL: the lines, and whatever follows the last newline, up to the   *)
(* first that does not parse.                                               *)

Content == IF tail = 0 THEN lines ELSE Append(lines, tail)

\* mutant: a line that does not parse is skipped
ParsedAnywhere == {i \in DOMAIN Content : Content[i] # Broken}
Parsed == {i \in DOMAIN Content : \A j \in 1..i : Content[j] # Broken}
Read == {Content[i] : i \in Parsed}

-----------------------------------------------------------------------------
(* Properties                                                               *)

\* Every variable has its type.
TypeOK ==
  /\ lines \in Seq(Record \cup {Broken}) /\ tail \in Record \cup {0, Broken}
  /\ pc \in {"idle", "writing", "down"} /\ last \in 0..MaxRecords
  /\ fresh \in BOOLEAN
  /\ acked \subseteq Record /\ torn \in 0..MaxRecords
  /\ failures \in 0..MaxFailures

\* No hole is silent: with a record a reader gets every earlier one that append reported as
\* written.  What is missing in between was refused to its caller, which Recorder.OnBar only
\* logs, or its process died: so a replay may run on a bar log with such a bar missing inside.
NoSilentHole == \A r \in Read : \A a \in acked : a < r => a \in Read

\* A record reported as written before the first write that was cut short is read by every
\* later reader, across crashes, restarts and further appends.
KeptBeforeTear == \A a \in acked : torn = 0 \/ a < torn => a \in Read

\* What one reader got, whether append has reported it yet or not, every later reader gets,
\* up to the first write that was cut short: the dashboard never counts a trade that a
\* restart or another append takes back.
SeenStaysRead == [][\A r \in Read : torn = 0 \/ r < torn => r \in Read']_vars

-----------------------------------------------------------------------------
(* The inductive invariant.                                                 *)

\* A record that stands on a line of its own with no broken line up to it.
Good(a) == \E i \in DOMAIN lines : lines[i] = a /\ \A j \in 1..i : lines[j] # Broken

\* Each record reported as written took one line: it is there or the line is broken, and
\* only earlier records are above it.
SlotInv ==
  \A a \in acked : \E i \in DOMAIN lines :
    /\ lines[i] = a \/ lines[i] = Broken
    /\ \A j \in 1..(i - 1) : lines[j] # Broken => lines[j] < a

\* Lines and tail hold records append has been called with, the tail the last one of them
\* unless a write was cut short.
LastInv ==
  /\ \A i \in DOMAIN lines :
       lines[i] # Broken => lines[i] <= last /\ (pc = "writing" => lines[i] < last)
  /\ \A a \in acked : a <= last
  /\ tail # Broken => tail <= last
  /\ pc = "writing" => last # 0

\* Until a write is cut short the file is whole.
TearInv ==
  /\ \A a \in acked : torn = 0 \/ a < torn => Good(a)
  /\ torn = 0 => \A i \in DOMAIN lines : lines[i] # Broken
  /\ torn = 0 /\ pc # "writing" => tail = 0
  /\ torn = 0 /\ pc = "writing" => fresh
  /\ torn = 0 => tail \in {0, Broken, last}
  /\ torn # 0 /\ tail \notin {0, Broken} => torn <= tail
  /\ torn <= last
  /\ torn # 0 /\ pc = "writing" => torn < last

IInv == TypeOK /\ SlotInv /\ LastInv /\ TearInv

\* store.go: "a crash loses at most the in-flight line; a torn final line is discarded on
\* read", so every record reported as written is there to be read.
OnlyInFlightIsLost == acked \subseteq Read
=============================================================================
