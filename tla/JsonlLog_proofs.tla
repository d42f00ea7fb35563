--------------------------- MODULE JsonlLog_proofs ---------------------------
(* What a reader of the log can count on, for any number of records and failures. *)
EXTENDS JsonlLog, TLAPS

\* LineDone adds one line, which parses when the write began on a line of its own.
LEMMA LineDoneGrows ==
  ASSUME IInv, pc = "writing", LineDone
  PROVE  /\ lines' \in Seq(Record \cup {Broken}) /\ Len(lines') = Len(lines) + 1
         /\ \A i \in DOMAIN lines : i \in DOMAIN lines' /\ lines'[i] = lines[i]
         /\ lines'[Len(lines) + 1] = IF fresh THEN last ELSE Broken
         /\ DOMAIN lines' = 1..(Len(lines) + 1) /\ DOMAIN lines = 1..Len(lines)
         /\ Len(lines) \in Nat /\ last \in Record /\ tail' = 0
<1>1. lines \in Seq(Record \cup {Broken}) /\ last \in 0..MaxRecords /\ fresh \in BOOLEAN
  BY DEF IInv, TypeOK
<1>2. last \in Record
  BY <1>1, BoundAssumption DEF IInv, TearInv, LastInv, Record
<1> QED BY <1>1, <1>2 DEF LineDone

\* The inductive invariant holds at the start.
LEMMA InitIInv == Init => IInv
<1> SUFFICES ASSUME Init PROVE IInv
  OBVIOUS
<1> USE BoundAssumption DEF Init
<1>1. TypeOK
  BY DEF TypeOK, Record
<1>2. SlotInv /\ LastInv /\ TearInv
  BY DEF SlotInv, LastInv, TearInv
<1> QED BY <1>1, <1>2 DEF IInv

\* A record with a good line keeps it, and a slot stays a slot, when a line is added.
LEMMA SlotsStay ==
  ASSUME IInv, pc = "writing", LineDone
  PROVE  /\ \A a \in acked : Good(a) => Good(a)'
         /\ \A a \in acked : \E i \in DOMAIN lines' :
              /\ lines'[i] = a \/ lines'[i] = Broken
              /\ \A j \in 1..(i - 1) : lines'[j] # Broken => lines'[j] < a
<1>1. ASSUME NEW a \in acked, Good(a) PROVE Good(a)'
  <2>1. PICK i \in DOMAIN lines : lines[i] = a /\ \A j \in 1..i : lines[j] # Broken
    BY <1>1 DEF Good
  <2>2. \A j \in 1..i : j \in DOMAIN lines
    BY LineDoneGrows, <2>1
  <2> QED BY LineDoneGrows, <2>1, <2>2 DEF Good
<1>2. ASSUME NEW a \in acked
      PROVE \E i \in DOMAIN lines' :
              /\ lines'[i] = a \/ lines'[i] = Broken
              /\ \A j \in 1..(i - 1) : lines'[j] # Broken => lines'[j] < a
  <2>1. PICK i \in DOMAIN lines :
          /\ lines[i] = a \/ lines[i] = Broken
          /\ \A j \in 1..(i - 1) : lines[j] # Broken => lines[j] < a
    BY DEF IInv, SlotInv
  <2>2. \A j \in 1..(i - 1) : j \in DOMAIN lines
    BY LineDoneGrows, <2>1
  <2> QED BY LineDoneGrows, <2>1, <2>2
<1> QED BY <1>1, <1>2

\* The step that completes a line, whether or not append reports it as written.
LEMMA CompleteStep ==
  ASSUME IInv, Finish \/ SyncFails
  PROVE  IInv'
<1> DEFINE n == Len(lines) + 1
<1>1. pc = "writing" /\ LineDone /\ pc' = "idle" /\ UNCHANGED <<last, fresh, torn>>
  BY DEF Finish, SyncFails
<1>2. acked' \subseteq acked \cup {last} /\ failures' \in 0..MaxFailures
  BY BoundAssumption DEF Finish, SyncFails, IInv, TypeOK
<1>3. TypeOK'
  BY <1>1, <1>2, LineDoneGrows DEF IInv, TypeOK
<1>4. SlotInv'
  <2>1. n \in DOMAIN lines' /\ (lines'[n] = last \/ lines'[n] = Broken)
    BY <1>1, LineDoneGrows
  <2>2. \A j \in 1..(n - 1) : lines'[j] # Broken => lines'[j] < last
    BY <1>1, LineDoneGrows DEF IInv, LastInv
  <2>3. \A a \in acked' : a \in acked \/ a = last
    BY <1>2
  <2> QED BY <2>1, <2>2, <2>3, <1>1, SlotsStay DEF SlotInv
<1>5. LastInv'
  <2>1. \A i \in DOMAIN lines' : lines'[i] # Broken => lines'[i] <= last
    <3> SUFFICES ASSUME NEW i \in DOMAIN lines', lines'[i] # Broken PROVE lines'[i] <= last
      OBVIOUS
    <3>1. CASE i = n
      BY <3>1, <1>1, LineDoneGrows DEF Record
    <3>2. CASE i \in DOMAIN lines
      BY <3>2, <1>1, LineDoneGrows DEF IInv, LastInv
    <3> QED BY <3>1, <3>2, <1>1, LineDoneGrows
  <2>2. \A a \in acked' : a <= last
    BY <1>1, <1>2, LineDoneGrows DEF IInv, LastInv, Record
  <2>3. tail' <= last
    BY <1>1, LineDoneGrows DEF Record
  <2> QED BY <2>1, <2>2, <2>3, <1>1 DEF LastInv
<1>6. TearInv'
  <2>1. torn = 0 => \A i \in DOMAIN lines' : lines'[i] # Broken
    <3> SUFFICES ASSUME torn = 0, NEW i \in DOMAIN lines' PROVE lines'[i] # Broken
      OBVIOUS
    <3>1. CASE i = n
      BY <3>1, <1>1, LineDoneGrows, BrokenAssumption DEF IInv, TearInv, Record
    <3>2. CASE i \in DOMAIN lines
      BY <3>2, <1>1, LineDoneGrows DEF IInv, TearInv
    <3> QED BY <3>1, <3>2, <1>1, LineDoneGrows
  <2>2. torn # 0 => ~(last < torn)
    BY <1>1, LineDoneGrows DEF IInv, TearInv, TypeOK, Record
  <2>3. torn = 0 => lines'[n] = last
    BY <1>1, LineDoneGrows DEF IInv, TearInv
  <2>4. torn = 0 => Good(last)'
    <3>1. n \in DOMAIN lines' /\ \A j \in 1..n : j \in DOMAIN lines'
      BY <1>1, LineDoneGrows
    <3>2. last' = last
      BY <1>1
    <3> QED BY <3>1, <3>2, <2>1, <2>3 DEF Good
  <2>5. \A a \in acked' : torn = 0 \/ a < torn => Good(a)'
    <3> SUFFICES ASSUME NEW a \in acked', torn = 0 \/ a < torn PROVE Good(a)'
      OBVIOUS
    <3>1. CASE a \in acked
      BY <3>1, <1>1, SlotsStay DEF IInv, TearInv
    <3>2. CASE a = last
      <4>1. torn = 0
        BY <3>2, <2>2
      <4>2. Good(last)'
        BY <4>1, <2>4
      <4> QED BY <3>2, <4>2, <1>1 DEF Good
    <3> QED BY <3>1, <3>2, <1>2
  <2> QED BY <2>1, <2>5, <1>1, LineDoneGrows DEF TearInv, IInv
<1> QED BY <1>3, <1>4, <1>5, <1>6 DEF IInv

\* Every step keeps the inductive invariant.
LEMMA NextIInv == IInv /\ [Next]_vars => IInv'
<1> SUFFICES ASSUME IInv, [Next]_vars PROVE IInv'
  OBVIOUS
<1> USE BoundAssumption, BrokenAssumption DEF IInv
<1>1. CASE Begin
  <2>1. TypeOK'
    BY <1>1 DEF Begin, TypeOK, Record
  <2>2. SlotInv'
    BY <1>1 DEF Begin, SlotInv
  <2>3. LastInv'
    <3>1. \A i \in DOMAIN lines : lines[i] # Broken => lines[i] \in Nat
      BY DEF TypeOK, Record
    <3>2. \A a \in acked : a \in Nat
      BY DEF TypeOK, Record
    <3>3. tail # Broken => tail \in Nat
      BY DEF TypeOK, Record
    <3> QED BY <1>1, <3>1, <3>2, <3>3 DEF Begin, LastInv, TypeOK
  <2>4. TearInv'
    <3>1. \A a \in acked : Good(a) => Good(a)'
      BY <1>1 DEF Begin, Good
    <3>2. /\ UNCHANGED <<lines, tail, acked, torn>> /\ pc = "idle" /\ pc' = "writing"
          /\ fresh' = (tail = 0) /\ last' = last + 1
      BY <1>1 DEF Begin
    <3>3. \A a \in acked' : torn' = 0 \/ a < torn' => Good(a)'
      BY <3>1, <3>2 DEF TearInv
    <3>4. torn \in Nat /\ last \in Nat
      BY DEF TypeOK
    <3>5. torn' <= last' /\ torn' < last'
      BY <3>2, <3>4 DEF TearInv
    <3>6. torn' = 0 => fresh' /\ \A i \in DOMAIN lines' : lines'[i] # Broken
      BY <3>2 DEF TearInv
    <3> QED BY <3>2, <3>3, <3>5, <3>6 DEF TearInv
  <2> QED BY <2>1, <2>2, <2>3, <2>4
<1>2. CASE Piece
  BY <1>2 DEF Piece, TypeOK, SlotInv, LastInv, TearInv, Good, Record
<1>3. CASE Finish \/ SyncFails
  BY <1>3, CompleteStep
<1>4. CASE WriteFails
  BY <1>4 DEF WriteFails, Interrupted, TypeOK, SlotInv, LastInv, TearInv, Good, Record
<1>5. CASE Crash
  BY <1>5 DEF Crash, Interrupted, TypeOK, SlotInv, LastInv, TearInv, Good, Record
<1>6. CASE Reopen
  BY <1>6 DEF Reopen, TypeOK, SlotInv, LastInv, TearInv, Good, Record
<1>7. CASE UNCHANGED vars
  BY <1>7 DEF vars, TypeOK, SlotInv, LastInv, TearInv, Good, Record
<1> QED BY <1>1, <1>2, <1>3, <1>4, <1>5, <1>6, <1>7 DEF Next

\* Lines are where they were in what a reader sees.
LEMMA ContentExtends ==
  ASSUME TypeOK
  PROVE  /\ DOMAIN lines \subseteq DOMAIN Content
         /\ \A i \in DOMAIN lines : Content[i] = lines[i]
         /\ DOMAIN lines = 1..Len(lines) /\ Len(lines) \in Nat
         /\ DOMAIN Content \subseteq 1..(Len(lines) + 1)
<1>1. lines \in Seq(Record \cup {Broken})
  BY DEF TypeOK
<1>2. CASE tail = 0
  BY <1>1, <1>2 DEF Content
<1>3. CASE tail # 0
  <2>1. tail \in Record \cup {0, Broken}
    BY DEF TypeOK
  <2>2. Content = Append(lines, tail) /\ tail \in Record \cup {Broken}
    BY <1>3, <2>1 DEF Content
  <2> QED BY <1>1, <2>2
<1> QED BY <1>2, <1>3

\* A record missing from what is read, with a later one there, was not reported as written.
LEMMA IInvNoSilentHole == IInv => NoSilentHole
<1> SUFFICES ASSUME IInv, NEW r \in Read, NEW a \in acked, a < r PROVE a \in Read
  BY DEF NoSilentHole
<1>1. TypeOK /\ a \in Nat
  BY DEF IInv, TypeOK, Record
<1>2. PICK k \in Parsed : r = Content[k]
  BY DEF Read
<1>3. PICK i \in DOMAIN lines :
        /\ lines[i] = a \/ lines[i] = Broken
        /\ \A j \in 1..(i - 1) : lines[j] # Broken => lines[j] < a
  BY DEF IInv, SlotInv
<1>4. k \in DOMAIN Content /\ k \in Nat /\ i \in Nat /\ k >= 1 /\ i >= 1
      /\ \A j \in 1..k : Content[j] # Broken
  BY <1>1, <1>2, <1>3, ContentExtends DEF Parsed
<1>5. k >= i
  <2> SUFFICES ASSUME k < i PROVE FALSE
    BY <1>4
  <2>1. k \in DOMAIN lines /\ k \in 1..(i - 1)
    BY <1>1, <1>3, <1>4, ContentExtends
  <2>2. lines[k] = r /\ lines[k] # Broken
    BY <1>1, <1>2, <1>4, <2>1, ContentExtends
  <2>3. lines[k] \in Nat
    BY <2>1, <2>2, <1>1 DEF TypeOK, Record
  <2> QED BY <2>1, <2>2, <2>3, <1>1, <1>3
<1>6. i \in DOMAIN Content /\ Content[i] = lines[i] /\ \A j \in 1..i : Content[j] # Broken
  BY <1>1, <1>3, <1>4, <1>5, ContentExtends
<1>7. Content[i] = a
  BY <1>3, <1>4, <1>6
<1> QED BY <1>6, <1>7 DEF Read, Parsed

\* The invariant keeps every record from before the first torn write.
LEMMA IInvKept == IInv => KeptBeforeTear
<1> SUFFICES ASSUME IInv, NEW a \in acked, torn = 0 \/ a < torn PROVE a \in Read
  BY DEF KeptBeforeTear
<1>1. TypeOK /\ Good(a)
  BY DEF IInv, TearInv
<1>2. PICK i \in DOMAIN lines : lines[i] = a /\ \A j \in 1..i : lines[j] # Broken
  BY <1>1 DEF Good
<1>3. \A j \in 1..i : j \in DOMAIN lines
  BY <1>1, <1>2, ContentExtends
<1> QED BY <1>1, <1>2, <1>3, ContentExtends DEF Read, Parsed

\* Every step leaves the lines above the end of the file where they are.
LEMMA LinesStay ==
  ASSUME IInv, [Next]_vars
  PROVE  \A i \in DOMAIN lines : i \in DOMAIN lines' /\ lines'[i] = lines[i]
<1>1. CASE Finish \/ SyncFails
  <2>1. lines' = Append(lines, IF fresh THEN last ELSE Broken)
    BY <1>1 DEF Finish, SyncFails, LineDone
  <2>2. lines \in Seq(Record \cup {Broken})
    BY DEF IInv, TypeOK
  <2> QED BY <2>1, <2>2
<1>2. CASE Begin \/ Piece \/ WriteFails \/ Crash \/ Reopen \/ UNCHANGED vars
  BY <1>2 DEF Begin, Piece, WriteFails, Crash, Reopen, vars
<1> QED BY <1>1, <1>2 DEF Next

\* A step keeps what a reader sees of the file before the first tear: a record on a line
\* stays there, and one at the very end is the record being written, about to get its newline.
LEMMA StepKeepsRead ==
  ASSUME IInv, [Next]_vars, NEW r \in Read, torn = 0 \/ r < torn
  PROVE  r \in Read'
<1> USE BoundAssumption, BrokenAssumption
<1>1. IInv' BY NextIInv
<1>2. TypeOK /\ TypeOK' BY <1>1 DEF IInv
<1>3. PICK k \in Parsed : r = Content[k]
  BY DEF Read
<1>4. k \in DOMAIN Content /\ k \in 1..(Len(lines) + 1) /\ \A j \in 1..k : Content[j] # Broken
  BY <1>2, <1>3, ContentExtends DEF Parsed
<1>5. \A i \in DOMAIN lines : i \in DOMAIN lines' /\ lines'[i] = lines[i]
  BY LinesStay
<1>6. /\ \A i \in DOMAIN lines' : i \in DOMAIN Content' /\ Content'[i] = lines'[i]
      /\ \A i \in DOMAIN lines : Content[i] = lines[i]
      /\ DOMAIN lines = 1..Len(lines) /\ Len(lines) \in Nat
  <2>1. \A i \in DOMAIN lines : Content[i] = lines[i] /\ DOMAIN lines = 1..Len(lines)
    BY <1>2, ContentExtends
  <2>2. (TypeOK => /\ DOMAIN lines \subseteq DOMAIN Content
                   /\ \A i \in DOMAIN lines : Content[i] = lines[i])'
    BY ContentExtends, PTL
  <2> QED BY <1>2, <2>1, <2>2, ContentExtends
<1>7. CASE k \in DOMAIN lines
  <2>1. \A j \in 1..k : j \in DOMAIN lines /\ j \in DOMAIN Content' /\ Content'[j] = Content[j]
    BY <1>4, <1>5, <1>6, <1>7
  <2> QED BY <1>3, <1>4, <2>1 DEF Read, Parsed
<1>8. CASE k = Len(lines) + 1
  <2>1. tail # 0 /\ r = tail /\ tail # Broken
    BY <1>2, <1>3, <1>4, <1>6, <1>8 DEF Content, TypeOK
  <2>2. torn = 0 /\ tail = last /\ pc = "writing" /\ fresh
    <3>1. tail \in Nat /\ torn \in Nat BY <1>2, <2>1 DEF TypeOK, Record
    <3> QED BY <2>1, <3>1 DEF IInv, TearInv
  <2>3. CASE Finish \/ SyncFails
    <3>1. lines' = Append(lines, last) /\ lines \in Seq(Record \cup {Broken})
      BY <1>2, <2>2, <2>3 DEF Finish, SyncFails, LineDone, TypeOK
    <3>2. k \in DOMAIN lines' /\ lines'[k] = r
      BY <1>8, <2>1, <2>2, <3>1
    <3>3. \A j \in 1..k : j \in DOMAIN Content' /\ Content'[j] = Content[j]
      <4>1. \A j \in 1..k : j = k \/ j \in DOMAIN lines
        BY <1>4, <1>6, <1>8
      <4> QED BY <1>3, <1>5, <1>6, <3>2, <4>1
    <3> QED BY <1>3, <1>4, <3>3 DEF Read, Parsed
  <2>4. CASE WriteFails \/ Crash \/ UNCHANGED vars
    <3>1. UNCHANGED <<lines, tail>>
      BY <2>4 DEF WriteFails, Crash, vars
    <3> QED BY <3>1 DEF Read, Parsed, Content
  <2>5. ~Begin /\ ~Piece /\ ~Reopen
    BY <2>2 DEF Begin, Piece, Reopen
  <2> QED BY <2>3, <2>4, <2>5 DEF Next
<1> QED BY <1>4, <1>6, <1>7, <1>8

\* The inductive invariant is an invariant.
THEOREM Invariance == Spec => []IInv
<1> QED BY InitIInv, NextIInv, PTL DEF Spec

\* The types.
THEOREM TypeCorrect == Spec => []TypeOK
  BY Invariance, PTL DEF IInv

\* A reader of bars.jsonl or audit.jsonl that gets a record gets every earlier one whose append
\* returned no error, however many writes were cut short by a full disk or a crash.
THEOREM HolesAreNotSilent == Spec => []NoSilentHole
<1> QED BY Invariance, IInvNoSilentHole, PTL

\* A line that was written before the first torn one is read for ever.
THEOREM WrittenIsKept == Spec => []KeptBeforeTear
<1> QED BY Invariance, IInvKept, PTL

\* A record that one reader saw is seen by every later one, until a write is cut short.
THEOREM ReadersNeverGoBack == Spec => SeenStaysRead
<1>1. IInv /\ [Next]_vars => [\A r \in Read : torn = 0 \/ r < torn => r \in Read']_vars
  BY StepKeepsRead
<1> QED BY <1>1, Invariance, PTL DEF Spec, SeenStaysRead
=============================================================================
