--------------------------- MODULE Backoff_proofs ---------------------------
(***************************************************************************)
(* backoffDelay on integers of any width, for any base and any number of   *)
(* failures: the delay is the scheduled one as long as the cap fits the    *)
(* base, however many bits of the shift are lost.                          *)
(***************************************************************************)
EXTENDS MCFeedSupervisor, FiniteSetTheorems, TLAPS

-----------------------------------------------------------------------------
(* Induction and iteration.  An induction principle over an operator cannot *)
(* be instantiated by the provers; one over a set follows by counting.      *)

\* A set of numbers up to n with 0 in it and the successor of each smaller member has n in
\* it: or else the successor would map the set into what is left of it without 0.
LEMMA Reaches ==
  ASSUME NEW n \in Nat, NEW T \in SUBSET (0..n), 0 \in T,
         \A k \in T : k < n => k + 1 \in T
  PROVE  n \in T
<1> SUFFICES ASSUME n \notin T PROVE FALSE
  OBVIOUS
<1> DEFINE succ == [k \in T |-> k + 1]
<1>1. IsFiniteSet(T) /\ Cardinality(T) \in Nat
  <2>1. IsFiniteSet(0..n) BY FS_Interval
  <2> QED BY <2>1, FS_Subset, FS_CardinalityType
<1>2. IsFiniteSet(T \ {0}) /\ Cardinality(T \ {0}) = Cardinality(T) - 1
  BY <1>1, FS_RemoveElement
<1>3. succ \in Injection(T, T \ {0}) BY DEF Injection, IsInjective
<1>4. Cardinality(T) <= Cardinality(T \ {0}) BY <1>2, <1>3, FS_Injection
<1> QED BY <1>1, <1>2, <1>4

\* A set with 0 and the successor of each of its members has every number in it.
LEMMA SetInduction ==
  ASSUME NEW T, 0 \in T, \A k \in Nat : k \in T => k + 1 \in T
  PROVE  \A n \in Nat : n \in T
<1> SUFFICES ASSUME NEW n \in Nat PROVE n \in T
  OBVIOUS
<1> DEFINE U == T \cap (0..n)
<1>1. n \in U
  <2>1. U \in SUBSET (0..n) /\ 0 \in U /\ \A k \in U : k < n => k + 1 \in U
    OBVIOUS
  <2> QED BY <2>1, Reaches
<1> QED BY <1>1

\* The sequence of what step makes of x, up to n.
IsPath(f, step, x, n) == f = [k \in 0..n |-> IF k = 0 THEN x ELSE step[f[k - 1]]]

\* There is one, and it stays where step does.
LEMMA PathExists ==
  ASSUME NEW S, NEW step \in [S -> S], NEW x \in S
  PROVE  \A n \in Nat : \E f \in [0..n -> S] : IsPath(f, step, x, n)
<1> DEFINE T == {n \in Nat : \E f \in [0..n -> S] : IsPath(f, step, x, n)}
<1>1. 0 \in T
  <2>1. [k \in 0..0 |-> x] \in [0..0 -> S] /\ IsPath([k \in 0..0 |-> x], step, x, 0)
    BY DEF IsPath
  <2> QED BY <2>1
<1>2. ASSUME NEW n \in Nat, n \in T PROVE n + 1 \in T
  <2>1. PICK f \in [0..n -> S] : IsPath(f, step, x, n) BY <1>2
  <2> DEFINE g == [k \in 0..(n + 1) |-> IF k = n + 1 THEN step[f[n]] ELSE f[k]]
  <2>2. g \in [0..(n + 1) -> S] OBVIOUS
  <2>3. IsPath(g, step, x, n + 1)
    <3>1. ASSUME NEW k \in 0..(n + 1)
          PROVE  g[k] = IF k = 0 THEN x ELSE step[g[k - 1]]
      <4>1. \A j \in 0..n : f[j] = IF j = 0 THEN x ELSE step[f[j - 1]] BY <2>1 DEF IsPath
      <4>2. CASE k = n + 1 BY <4>2
      <4>3. CASE k # n + 1
        <5>1. k \in 0..n /\ (k # 0 => k - 1 \in 0..n) BY <4>3
        <5> QED BY <4>1, <4>3, <5>1
      <4> QED BY <4>2, <4>3
    <3> QED BY <3>1 DEF IsPath
  <2> QED BY <2>2, <2>3
<1> HIDE DEF T
<1>3. \A n \in Nat : n \in T BY <1>1, <1>2, SetInduction
<1> QED BY <1>3 DEF T

\* And only one, so that a longer path continues a shorter one.
LEMMA PathIsUnique ==
  ASSUME NEW step, NEW x, NEW m \in Nat, NEW n \in Nat, NEW f, NEW g,
         IsPath(f, step, x, m), IsPath(g, step, x, n)
  PROVE  \A k \in Nat : k <= m /\ k <= n => f[k] = g[k]
<1> DEFINE T == {k \in Nat : k <= m /\ k <= n => f[k] = g[k]}
<1>1. /\ \A k \in 0..m : f[k] = IF k = 0 THEN x ELSE step[f[k - 1]]
      /\ \A k \in 0..n : g[k] = IF k = 0 THEN x ELSE step[g[k - 1]]
  BY DEF IsPath
<1>2. 0 \in T BY <1>1
<1>3. ASSUME NEW k \in Nat, k \in T PROVE k + 1 \in T
  <2> SUFFICES ASSUME k + 1 <= m, k + 1 <= n PROVE f[k + 1] = g[k + 1]
    OBVIOUS
  <2>1. f[k + 1] = step[f[k]] /\ g[k + 1] = step[g[k]] /\ f[k] = g[k] BY <1>1, <1>3
  <2> QED BY <2>1
<1> HIDE DEF T
<1>4. \A k \in Nat : k \in T BY <1>2, <1>3, SetInduction
<1> QED BY <1>4 DEF T

\* What n steps make of x, step by step.
LEMMA Iteration ==
  ASSUME NEW step, NEW x, NEW n \in Nat
  PROVE  \A S : step \in [S -> S] /\ x \in S =>
           /\ Iterated(step, x, n) \in S
           /\ Iterated(step, x, 0) = x
           /\ Iterated(step, x, n + 1) = step[Iterated(step, x, n)]
<1> SUFFICES ASSUME NEW S, step \in [S -> S], x \in S
             PROVE  /\ Iterated(step, x, n) \in S
                    /\ Iterated(step, x, 0) = x
                    /\ Iterated(step, x, n + 1) = step[Iterated(step, x, n)]
  OBVIOUS
<1>1. ASSUME NEW m \in Nat
      PROVE  \E f \in [0..m -> S] : IsPath(f, step, x, m) /\ Iterated(step, x, m) = f[m]
  <2> DEFINE f == CHOOSE g : IsPath(g, step, x, m)
  <2>1. PICK g \in [0..m -> S] : IsPath(g, step, x, m) BY PathExists
  <2>2. IsPath(f, step, x, m) BY <2>1
  <2>3. \A k \in Nat : k <= m => f[k] = g[k] BY <2>1, <2>2, PathIsUnique
  <2>4. f \in [0..m -> S]
    <3>1. f = [k \in 0..m |-> IF k = 0 THEN x ELSE step[f[k - 1]]] BY <2>2 DEF IsPath
    <3> HIDE DEF f
    <3>2. \A k \in 0..m : f[k] \in S BY <2>3
    <3> QED BY <3>1, <3>2
  <2>5. Iterated(step, x, m) = f[m] BY DEF Iterated, IsPath
  <2> QED BY <2>2, <2>4, <2>5
<1>2. PICK f \in [0..n -> S] : IsPath(f, step, x, n) /\ Iterated(step, x, n) = f[n] BY <1>1
<1>3. PICK g \in [0..(n + 1) -> S] :
        IsPath(g, step, x, n + 1) /\ Iterated(step, x, n + 1) = g[n + 1]
  <2>1. n + 1 \in Nat OBVIOUS
  <2> QED BY <1>1, <2>1, Zenon
<1>4. \A m \in Nat : m = 0 => Iterated(step, x, m) = x
  <2> SUFFICES ASSUME NEW m \in Nat, m = 0 PROVE Iterated(step, x, m) = x
    OBVIOUS
  <2>1. PICK h \in [0..m -> S] : IsPath(h, step, x, m) /\ Iterated(step, x, m) = h[m] BY <1>1
  <2>2. h[0] = x BY <2>1 DEF IsPath
  <2> QED BY <2>1, <2>2
<1>5. f[n] = g[n] BY <1>2, <1>3, PathIsUnique
<1>6. g[n + 1] = step[g[n]] BY <1>3 DEF IsPath
<1> QED BY <1>2, <1>3, <1>4, <1>5, <1>6

-----------------------------------------------------------------------------
(* Powers of two                                                            *)

\* TwoTo doubles, from 1 on.
LEMMA Powers ==
  /\ TwoTo(0) = 1
  /\ \A n \in Nat : TwoTo(n) \in Nat \ {0} /\ TwoTo(n + 1) = 2 * TwoTo(n)
<1> DEFINE double == [d \in Nat |-> 2 * d]
           T == {n \in Nat : TwoTo(n) \in Nat \ {0}}
<1>1. /\ double \in [Nat -> Nat] /\ \A d \in Nat : double[d] = 2 * d
      /\ \A n : TwoTo(n) = Iterated(double, 1, n)
  BY DEF TwoTo
<1> HIDE DEF double
<1>2. \A n \in Nat : TwoTo(n) \in Nat /\ TwoTo(0) = 1 /\ TwoTo(n + 1) = double[TwoTo(n)]
  <2> SUFFICES ASSUME NEW n \in Nat
               PROVE  TwoTo(n) \in Nat /\ TwoTo(0) = 1 /\ TwoTo(n + 1) = double[TwoTo(n)]
    OBVIOUS
  <2>1. 1 \in Nat OBVIOUS
  <2>2. /\ Iterated(double, 1, n) \in Nat /\ Iterated(double, 1, 0) = 1
        /\ Iterated(double, 1, n + 1) = double[Iterated(double, 1, n)]
    BY <1>1, <2>1, Iteration, Zenon
  <2> QED BY <1>1, <2>2
<1>3. \A n \in Nat : TwoTo(n) \in Nat /\ TwoTo(n + 1) = 2 * TwoTo(n) BY <1>1, <1>2
<1>4. TwoTo(0) = 1 BY <1>2
<1>5. 0 \in T BY <1>4
<1>6. \A n \in Nat : n \in T => n + 1 \in T BY <1>3
<1> HIDE DEF T
<1>7. \A n \in Nat : n \in T BY <1>5, <1>6, SetInduction
<1> QED BY <1>3, <1>4, <1>7 DEF T

\* Exponents add up.
LEMMA PowersMultiply ==
  ASSUME NEW i \in Nat
  PROVE  \A j \in Nat : TwoTo(i + j) = TwoTo(i) * TwoTo(j)
<1> DEFINE T == {j \in Nat : TwoTo(i + j) = TwoTo(i) * TwoTo(j)}
<1>1. 0 \in T BY Powers
<1>2. ASSUME NEW j \in Nat, j \in T PROVE j + 1 \in T
  <2>1. TwoTo((i + j) + 1) = 2 * TwoTo(i + j) /\ TwoTo(j + 1) = 2 * TwoTo(j) BY Powers
  <2>2. TwoTo(i) \in Nat /\ TwoTo(j) \in Nat BY Powers
  <2>3. 2 * (TwoTo(i) * TwoTo(j)) = TwoTo(i) * (2 * TwoTo(j)) BY <2>2
  <2>4. i + (j + 1) = (i + j) + 1 OBVIOUS
  <2> QED BY <1>2, <2>1, <2>3, <2>4
<1> HIDE DEF T
<1>3. \A j \in Nat : j \in T BY <1>1, <1>2, SetInduction
<1> QED BY <1>3 DEF T

-----------------------------------------------------------------------------
(* The shifted bits                                                         *)

Modulus == TwoTo(Width)
\* What the shift has made of base, as a number without sign.
Bits(base, n) == Iterated([d \in Nat |-> (2 * d) % TwoTo(Width)], base, n)

\* Half of the numbers of Width bits have no sign.
LEMMA ModulusIsTwice ==
  /\ TwoTo(Width - 1) \in Nat \ {0} /\ Modulus = 2 * TwoTo(Width - 1)
  /\ LargestDuration = TwoTo(Width - 1) - 1
  BY WidthAssumption, Powers DEF Modulus, LargestDuration

\* Doubling within the width loses at most the one bit.
LEMMA Wraps ==
  ASSUME NEW m \in Nat \ {0}, NEW b \in 0..(m - 1)
  PROVE  (2 * b) % m = IF 2 * b < m THEN 2 * b ELSE 2 * b - m
  OBVIOUS

\* The bits stay within the width and below what they would be without it.
LEMMA BitsStep ==
  ASSUME NEW base \in Nat, base < Modulus
  PROVE  \A n \in Nat :
           /\ Bits(base, 0) = base
           /\ Bits(base, n) \in 0..(Modulus - 1)
           /\ Bits(base, n) <= base * TwoTo(n)
           /\ Bits(base, n + 1) = IF 2 * Bits(base, n) < Modulus THEN 2 * Bits(base, n)
                                  ELSE 2 * Bits(base, n) - Modulus
<1> DEFINE shift == [d \in Nat |-> (2 * d) % TwoTo(Width)]
           T == {n \in Nat : /\ Bits(base, n) \in 0..(Modulus - 1)
                             /\ Bits(base, n) <= base * TwoTo(n)}
<1>1. Modulus \in Nat \ {0} BY WidthAssumption, Powers DEF Modulus
<1>2. /\ \A d \in Nat : shift[d] = (2 * d) % Modulus
      /\ \A n : Bits(base, n) = Iterated(shift, base, n)
  BY DEF Modulus, Bits
<1>3. shift \in [Nat -> Nat] BY <1>1 DEF Modulus
<1> HIDE DEF shift
<1>4. \A n \in Nat : Bits(base, n) \in Nat /\ Bits(base, 0) = base
                     /\ Bits(base, n + 1) = (2 * Bits(base, n)) % Modulus
  <2> SUFFICES ASSUME NEW n \in Nat
               PROVE  /\ Bits(base, n) \in Nat /\ Bits(base, 0) = base
                      /\ Bits(base, n + 1) = (2 * Bits(base, n)) % Modulus
    OBVIOUS
  <2>1. /\ Iterated(shift, base, n) \in Nat /\ Iterated(shift, base, 0) = base
        /\ Iterated(shift, base, n + 1) = shift[Iterated(shift, base, n)]
    BY <1>3, Iteration, Zenon
  <2> QED BY <1>2, <2>1
<1>5. 0 \in T BY <1>1, <1>4, Powers
<1>6. ASSUME NEW n \in Nat, n \in T
      PROVE  /\ Bits(base, n + 1) = IF 2 * Bits(base, n) < Modulus THEN 2 * Bits(base, n)
                                    ELSE 2 * Bits(base, n) - Modulus
             /\ n + 1 \in T
  <2>1. Bits(base, n + 1) = IF 2 * Bits(base, n) < Modulus THEN 2 * Bits(base, n)
                            ELSE 2 * Bits(base, n) - Modulus
    BY <1>1, <1>4, <1>6, Wraps
  <2>2. TwoTo(n) \in Nat /\ TwoTo(n + 1) = 2 * TwoTo(n) BY Powers
  <2>3. base * (2 * TwoTo(n)) = 2 * (base * TwoTo(n)) /\ base * TwoTo(n) \in Nat BY <2>2
  <2>4. Bits(base, n + 1) \in 0..(Modulus - 1) /\ Bits(base, n + 1) <= 2 * Bits(base, n)
    BY <1>1, <1>6, <2>1
  <2> QED BY <1>6, <2>1, <2>2, <2>3, <2>4
<1> HIDE DEF T
<1>7. \A n \in Nat : n \in T BY <1>5, <1>6, SetInduction
<1>8. \A n \in Nat : Bits(base, n) \in 0..(Modulus - 1) /\ Bits(base, n) <= base * TwoTo(n)
  BY <1>7 DEF T
<1> QED BY <1>4, <1>6, <1>7, <1>8

\* The bits are a multiple of the powers of two that were in the base and shifted in, until
\* nothing is left of them.
LEMMA BitsDivide ==
  ASSUME NEW k \in 0..Width, NEW rest \in Nat, NEW base \in Nat, base = rest * TwoTo(k),
         base < Modulus
  PROVE  \A n \in Nat :
           /\ k + n >= Width => Bits(base, n) = 0
           /\ k + n < Width => \E q \in Nat : Bits(base, n) = TwoTo(k + n) * q
<1> DEFINE Holds(n) == /\ k + n >= Width => Bits(base, n) = 0
                       /\ k + n < Width => \E q \in Nat : Bits(base, n) = TwoTo(k + n) * q
           T == {n \in Nat : Holds(n)}
<1>1. Width \in Nat /\ k \in Nat BY WidthAssumption
<1>2. Modulus \in Nat \ {0} BY Powers, <1>1 DEF Modulus
<1>3. 0 \in T
  <2>1. Bits(base, 0) = base BY BitsStep, 0 \in Nat
  <2>2. CASE k < Width
    <3>1. Bits(base, 0) = TwoTo(k + 0) * rest
      <4>1. TwoTo(k) \in Nat BY <1>1, Powers
      <4> QED BY <1>1, <2>1, <4>1
    <3> QED BY <1>1, <2>2, <3>1
  <2>3. CASE k = Width
    <3>1. base = rest * Modulus BY <2>3 DEF Modulus
    <3>2. rest = 0 BY <1>2, <3>1
    <3> QED BY <1>1, <1>2, <2>1, <2>3, <3>1, <3>2
  <2> QED BY <1>1, <2>2, <2>3
<1>4. ASSUME NEW n \in Nat, Holds(n) PROVE Holds(n + 1)
  <2> DEFINE b == Bits(base, n)
             p == TwoTo(k + n)
  <2>1. b \in 0..(Modulus - 1)
        /\ Bits(base, n + 1) = IF 2 * b < Modulus THEN 2 * b ELSE 2 * b - Modulus
    BY BitsStep
  <2>2. p \in Nat \ {0} /\ TwoTo(k + (n + 1)) = 2 * p
    <3>1. k + n \in Nat /\ k + (n + 1) = (k + n) + 1 BY <1>1
    <3> QED BY <3>1, Powers
  <2> HIDE DEF b, p
  <2>3. CASE k + n >= Width
    <3>1. b = 0 BY <1>4, <2>3 DEF b
    <3> QED BY <1>1, <1>2, <2>1, <2>3, <3>1
  <2>4. CASE k + n < Width
    <3>1. PICK q \in Nat : b = p * q BY <1>4, <2>4 DEF b, p
    <3>2. PICK r \in Nat \ {0} : Modulus = (2 * p) * r
      <4>1. Width - (k + (n + 1)) \in Nat /\ k + (n + 1) \in Nat
            /\ (k + (n + 1)) + (Width - (k + (n + 1))) = Width
        BY <1>1, <2>4
      <4>2. Modulus = TwoTo(k + (n + 1)) * TwoTo(Width - (k + (n + 1)))
        BY <4>1, PowersMultiply DEF Modulus
      <4>3. TwoTo(Width - (k + (n + 1))) \in Nat \ {0} BY <4>1, Powers
      <4> QED BY <2>2, <4>2, <4>3
    <3>3. 2 * b = (2 * p) * q BY <2>2, <3>1
    <3>4. \E s \in Nat : Bits(base, n + 1) = (2 * p) * s
      <4>1. CASE 2 * b < Modulus BY <2>1, <3>3, <4>1
      <4>2. CASE 2 * b >= Modulus
        <5>1. q >= r BY <2>2, <3>2, <3>3, <4>2
        <5>2. q - r \in Nat /\ Bits(base, n + 1) = (2 * p) * (q - r)
          BY <1>2, <2>1, <2>2, <3>2, <3>3, <4>2, <5>1
        <5> QED BY <5>2
      <4> QED BY <1>2, <2>1, <4>1, <4>2
    <3>5. CASE k + (n + 1) = Width
      <4>1. 2 * p = Modulus BY <2>2, <3>5 DEF Modulus
      <4>2. Bits(base, n + 1) \in 0..(Modulus - 1) BY <1>2, <2>1
      <4>3. Bits(base, n + 1) = 0 BY <1>2, <3>4, <4>1, <4>2
      <4> QED BY <1>1, <3>5, <4>3
    <3>6. CASE k + (n + 1) < Width
      <4>1. \E s \in Nat : Bits(base, n + 1) = TwoTo(k + (n + 1)) * s BY <2>2, <3>4
      <4> QED BY <1>1, <3>6, <4>1
    <3> QED BY <1>1, <2>4, <3>5, <3>6
  <2> QED BY <1>1, <2>3, <2>4
<1> HIDE DEF Holds
<1>5. \A n \in Nat : n \in T => n + 1 \in T BY <1>4
<1> HIDE DEF T
<1>6. \A n \in Nat : n \in T BY <1>3, <1>5, SetInduction
<1> QED BY <1>6 DEF T, Holds

-----------------------------------------------------------------------------
(* The schedule                                                             *)

\* The schedule doubles up to its cap.
LEMMA ScheduleStep ==
  ASSUME NEW base \in Nat, NEW max \in Nat
  PROVE  \A n \in Nat :
           /\ Schedule(0, base, max) = base
           /\ Schedule(n, base, max) \in Nat
           /\ Schedule(n + 1, base, max) = IF 2 * Schedule(n, base, max) < max
                                           THEN 2 * Schedule(n, base, max) ELSE max
<1> DEFINE grow == [d \in Nat |-> IF 2 * d < max THEN 2 * d ELSE max]
<1>1. /\ grow \in [Nat -> Nat] /\ \A d \in Nat : grow[d] = IF 2 * d < max THEN 2 * d ELSE max
      /\ \A n : Schedule(n, base, max) = Iterated(grow, base, n)
  BY DEF Schedule
<1> HIDE DEF grow
<1> SUFFICES ASSUME NEW n \in Nat
             PROVE  /\ Schedule(0, base, max) = base
                    /\ Schedule(n, base, max) \in Nat
                    /\ Schedule(n + 1, base, max) = IF 2 * Schedule(n, base, max) < max
                                                    THEN 2 * Schedule(n, base, max) ELSE max
  OBVIOUS
<1>2. /\ Iterated(grow, base, n) \in Nat /\ Iterated(grow, base, 0) = base
      /\ Iterated(grow, base, n + 1) = grow[Iterated(grow, base, n)]
  BY <1>1, Iteration, Zenon
<1> QED BY <1>1, <1>2

\* Of positive numbers, a factor can be taken off both sides.
LEMMA Cancels ==
  ASSUME NEW c \in Nat \ {0}, NEW x \in Nat, NEW y \in Nat, c * x <= c * y
  PROVE  x <= y
<1> SUFFICES ASSUME x >= y + 1 PROVE FALSE
  OBVIOUS
<1>1. c * x >= c * (y + 1) /\ c * (y + 1) = c * y + c OBVIOUS
<1> QED BY <1>1

\* Either the shift is exact and below the cap, or the schedule is at the cap and the bits that
\* are left are none, or no less than the cap.
LEMMA BitsFollowSchedule ==
  ASSUME NEW base \in Nat \ {0}, NEW max \in Nat \ {0}, CapFits(base, max)
  PROVE  \A n \in Nat :
           /\ Schedule(n, base, max) \in 1..max
           /\ \/ Bits(base, n) = Schedule(n, base, max)
              \/ Schedule(n, base, max) = max /\ (Bits(base, n) = 0 \/ Bits(base, n) >= max)
<1> DEFINE Holds(n) ==
             /\ Schedule(n, base, max) \in 1..max
             /\ \/ Bits(base, n) = Schedule(n, base, max)
                \/ Schedule(n, base, max) = max /\ (Bits(base, n) = 0 \/ Bits(base, n) >= max)
           half == TwoTo(Width - 1)
           T == {n \in Nat : Holds(n)}
<1>1. PICK k \in 0..Width, rest \in 1..base :
        base = rest * TwoTo(k) /\ rest * max <= half /\ base <= max
  BY DEF CapFits
<1>2. half \in Nat \ {0} /\ Modulus = 2 * half /\ k \in Nat /\ Width \in Nat
  BY ModulusIsTwice, WidthAssumption
<1> HIDE DEF half
<1>3. max <= half /\ base < Modulus
  <2>1. rest * max >= max BY <1>1
  <2> QED BY <1>1, <1>2, <2>1
<1>4. 0 \in T
  <2>1. Bits(base, 0) = base /\ Schedule(0, base, max) = base
    BY <1>3, BitsStep, ScheduleStep, 0 \in Nat
  <2> QED BY <1>1, <2>1
<1>5. ASSUME NEW n \in Nat, Holds(n) PROVE Holds(n + 1)
  <2> DEFINE b == Bits(base, n)
             s == Schedule(n, base, max)
  <2>1. /\ b \in 0..(Modulus - 1) /\ b <= base * TwoTo(n)
        /\ Bits(base, n + 1) = IF 2 * b < Modulus THEN 2 * b ELSE 2 * b - Modulus
    BY <1>3, BitsStep
  <2>2. Schedule(n + 1, base, max) = IF 2 * s < max THEN 2 * s ELSE max
    <3>1. base \in Nat /\ max \in Nat OBVIOUS
    <3> QED BY <3>1, ScheduleStep
  <2>3. s \in 1..max /\ (b = s \/ (s = max /\ (b = 0 \/ b >= max))) BY <1>5
  <2> HIDE DEF b, s
  <2>4. CASE b = s BY <1>2, <1>3, <2>1, <2>2, <2>3, <2>4
  <2>5. CASE s = max /\ b = 0 BY <1>2, <1>3, <2>1, <2>2, <2>3, <2>5
  <2>6. CASE s = max /\ b >= max /\ 2 * b < Modulus BY <1>2, <1>3, <2>1, <2>2, <2>3, <2>6
  <2>7. CASE s = max /\ b >= max /\ 2 * b >= Modulus
    \* The power of two shifted in is past the cap, and divides what is left.
    <3>1. TwoTo(k) \in Nat /\ TwoTo(n) \in Nat /\ TwoTo(k + n) = TwoTo(k) * TwoTo(n)
      BY <1>2, Powers, PowersMultiply
    <3>2. base * TwoTo(n) = rest * TwoTo(k + n)
      BY <1>1, <3>1
    <3>3. rest * max <= rest * TwoTo(k + n) BY <1>1, <1>2, <2>1, <2>7, <3>1, <3>2
    <3>4. max <= TwoTo(k + n) BY <1>1, <3>1, <3>3, Cancels
    <3>5. TwoTo(k + (n + 1)) \in Nat /\ TwoTo(k + (n + 1)) >= max
      <4>1. k + n \in Nat /\ k + (n + 1) = (k + n) + 1 BY <1>2
      <4>2. TwoTo(k + (n + 1)) = 2 * TwoTo(k + n) /\ TwoTo(k + n) \in Nat BY <4>1, Powers
      <4> QED BY <3>4, <4>2
    <3>6. \/ Bits(base, n + 1) = 0
          \/ \E q \in Nat : Bits(base, n + 1) = TwoTo(k + (n + 1)) * q
      <4>1. /\ k + (n + 1) >= Width => Bits(base, n + 1) = 0
            /\ k + (n + 1) < Width =>
                 \E q \in Nat : Bits(base, n + 1) = TwoTo(k + (n + 1)) * q
        <5>1. base \in Nat /\ rest \in Nat /\ n + 1 \in Nat BY <1>1
        <5>2. \A m \in Nat :
                /\ k + m >= Width => Bits(base, m) = 0
                /\ k + m < Width => \E q \in Nat : Bits(base, m) = TwoTo(k + m) * q
          BY <1>1, <1>3, <5>1, BitsDivide
        <5> QED BY <5>1, <5>2
      <4>2. k + (n + 1) >= Width \/ k + (n + 1) < Width BY <1>2
      <4> QED BY <4>1, <4>2
    <3>7. Bits(base, n + 1) = 0 \/ Bits(base, n + 1) >= max BY <3>5, <3>6
    <3> QED BY <2>2, <2>3, <2>7, <3>7
  <2> QED BY <1>2, <2>1, <2>3, <2>4, <2>5, <2>6, <2>7
<1> HIDE DEF Holds
<1>6. \A n \in Nat : n \in T => n + 1 \in T BY <1>5
<1> HIDE DEF T
<1>7. \A n \in Nat : n \in T BY <1>4, <1>6, SetInduction
<1> QED BY <1>7 DEF T, Holds

\* For integers of any width, any base and any number of failures, the delay is the scheduled
\* one: base, 2 base, 4 base, ... and max from there on, past every overflow.
THEOREM DelayFollowsSchedule ==
  ASSUME NEW failures \in Nat, NEW base \in Nat \ {0}, NEW max \in Nat \ {0},
         CapFits(base, max)
  PROVE  backoffDelay(failures, base, max) = Schedule(failures, base, max)
<1> DEFINE b == Bits(base, failures)
           s == Schedule(failures, base, max)
           half == TwoTo(Width - 1)
<1>1. half \in Nat \ {0} /\ Modulus = 2 * half /\ LargestDuration = half - 1 BY ModulusIsTwice
<1>2. max <= half /\ base < Modulus
  <2>1. PICK rest \in 1..base : rest * max <= half BY DEF CapFits
  <2>2. rest * max >= max BY <2>1
  <2>3. base <= max BY DEF CapFits
  <2> QED BY <1>1, <2>1, <2>2, <2>3
<1>3. b \in 0..(Modulus - 1) BY <1>2, BitsStep
<1>4. s \in 1..max /\ (b = s \/ (s = max /\ (b = 0 \/ b >= max))) BY BitsFollowSchedule
<1>5. backoffDelay(failures, base, max)
        = LET d == IF b > LargestDuration THEN b - Modulus ELSE b
          IN  IF d <= 0 \/ d > max THEN max ELSE d
  BY DEF backoffDelay, ShiftedLeft, Bits, Modulus
<1> HIDE DEF b, s, half
<1>6. CASE b > LargestDuration
  <2>1. b - Modulus <= 0 /\ s = max BY <1>1, <1>2, <1>3, <1>4, <1>6
  <2> QED BY <1>5, <1>6, <2>1 DEF s
<1>7. CASE ~(b > LargestDuration)
  <2>1. (IF b <= 0 \/ b > max THEN max ELSE b) = s BY <1>1, <1>2, <1>3, <1>4, <1>7
  <2> QED BY <1>5, <1>7, <2>1 DEF s
<1> QED BY <1>6, <1>7

\* Whenever Run waits to retry, backoffDelay gives the scheduled delay.
THEOREM BackoffIsOnSchedule == Spec => []BackoffFollowsSchedule
<1>1. OnSchedule
  <2> SUFFICES ASSUME NEW in \in Inputs, NEW failures \in 0..MaxTries
               PROVE  backoffDelay(failures, in[1], in[2]) = Schedule(failures, in[1], in[2])
    BY DEF OnSchedule
  <2>1. in[1] \in Nat \ {0} /\ in[2] \in Nat \ {0} /\ CapFits(in[1], in[2]) /\ failures \in Nat
    BY WidthAssumption DEF Inputs
  <2> QED BY <2>1, DelayFollowsSchedule
<1>2. BackoffFollowsSchedule BY <1>1 DEF BackoffFollowsSchedule
<1> QED BY <1>2, PTL
=============================================================================
