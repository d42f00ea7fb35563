------------------------------- MODULE Backoff -------------------------------
(***************************************************************************)
(* backoffDelay of internal/feed/supervisor.go: how long Run waits before  *)
(* it retries, as computed on signed integers of Width bits.  attempt is   *)
(* never reset while the connection keeps failing, so the shift overflows. *)
(***************************************************************************)
EXTENDS Integers

CONSTANTS
  Width,     \* bits of a time.Duration (64 in the code)
  MaxBase,   \* bound: base delays tried
  MaxTries   \* bound: attempts tried, past Width so that every bit is shifted out

ASSUME WidthAssumption == Width \in Nat \ {0} /\ MaxBase \in Nat /\ MaxTries \in Nat

\* What n steps make of x.
Iterated(step, x, n) ==
  LET after[k \in 0..n] == IF k = 0 THEN x ELSE step[after[k - 1]] IN after[n]

TwoTo(n) == Iterated([d \in Nat |-> 2 * d], 1, n)

LargestDuration == TwoTo(Width - 1) - 1

\* base << attempt: bits shifted past the width are lost, the top one is the sign.
ShiftedLeft(base, failures) ==
  LET range == TwoTo(Width)
      bits == Iterated([d \in Nat |-> (2 * d) % range], base, failures)
  IN  IF bits > LargestDuration THEN bits - range ELSE bits

\* mutant: the shift is trusted not to overflow
DelayUnguarded(failures, base, max) ==
  LET d == ShiftedLeft(base, failures) IN IF d > max THEN max ELSE d
backoffDelay(failures, base, max) ==
  LET d == ShiftedLeft(base, failures) IN IF d <= 0 \/ d > max THEN max ELSE d

\* The schedule of its comment, 1, 2, 4, ... capped: doubling that stops at max.
Schedule(failures, base, max) ==
  Iterated([d \in Nat |-> IF 2 * d < max THEN 2 * d ELSE max], base, failures)

\* The cap is small enough for the base: what is left of an overflowed shift is a multiple of
\* a power of two no smaller than the width's range divided by what is left of the base once
\* its twos are taken out (its odd part at best), 2^43 ns for a base of one second.
CapFits(base, max) ==
  /\ base <= max
  /\ \E k \in 0..Width, rest \in 1..base :
       base = rest * TwoTo(k) /\ rest * max <= TwoTo(Width - 1)

Inputs == {in \in (1..MaxBase) \X (1..LargestDuration) : CapFits(in[1], in[2])}
\* On every base, and every cap that fits it, the delay is the scheduled one.
OnSchedule ==
  \A in \in Inputs : \A failures \in 0..MaxTries :
    backoffDelay(failures, in[1], in[2]) = Schedule(failures, in[1], in[2])
=============================================================================
