---------------------------- MODULE CountingLemmas ----------------------------
(***************************************************************************)
(* Facts about natural numbers, finite sets of them and their order that   *)
(* the proofs about the programs share. Blocks and pages are numbers, and  *)
(* the programs count the good blocks they pass.                           *)
(***************************************************************************)
EXTENDS Integers, Sequences, FiniteSetsExt, Functions, FiniteSetTheorems, TLAPS

\* Induction over the naturals, for a set: a number outside A would make the
\* predecessor function an injection of a finite set into less than itself.
LEMMA NatSetInduction ==
  ASSUME NEW A, 0 \in A, \A n \in Nat : n \in A => n + 1 \in A
  PROVE  Nat \subseteq A
<1> SUFFICES ASSUME NEW k \in Nat, k \notin A PROVE FALSE
  OBVIOUS
<1> DEFINE S == {n \in 0 .. k : n \notin A}
           T == S \ {k}
           f == [n \in S |-> n - 1]
<1>1. IsFiniteSet(S) /\ k \in S
  <2>1. IsFiniteSet(0 .. k)
    BY FS_Interval
  <2>2. S \in SUBSET (0 .. k) /\ k \in S
    OBVIOUS
  <2> HIDE DEF S
  <2>3. QED
    BY <2>1, <2>2, FS_Subset
<1>2. f \in [S -> T]
  <2> SUFFICES ASSUME NEW n \in S PROVE n - 1 \in T
    OBVIOUS
  <2>1. n \in Nat /\ n # 0 /\ n - 1 \in Nat /\ (n - 1) + 1 = n
    OBVIOUS
  <2>2. n - 1 \notin A
    BY <2>1
  <2>3. QED
    BY <2>1, <2>2
<1>3. IsFiniteSet(T) /\ Cardinality(T) < Cardinality(S)
  <2>1. IsFiniteSet(T) /\ Cardinality(T) = Cardinality(S) - 1
    BY <1>1, FS_RemoveElement
  <2>2. Cardinality(S) \in Nat
    BY <1>1, FS_CardinalityType
  <2>3. QED
    BY <2>1, <2>2
<1>4. \E x, y \in S : x # y /\ f[x] = f[y]
  <2> HIDE DEF S, T, f
  <2> QED BY <1>1, <1>2, <1>3, FS_PigeonHole
<1>5. QED
  BY <1>4

\* A set of numbers that is bounded has a greatest element, and Max is it.
LEMMA BoundedMax ==
  ASSUME NEW S, S \subseteq Int, S # {}, NEW k \in Int, \A x \in S : x <= k
  PROVE  Max(S) \in S /\ \A x \in S : x <= Max(S)
<1> DEFINE A == {n \in Nat : (\E x \in S : k - n <= x) => \E x \in S : \A y \in S : y <= x}
<1>1. 0 \in A
  OBVIOUS
<1>2. \A n \in Nat : n \in A => n + 1 \in A
  <2> SUFFICES ASSUME NEW n \in Nat, n \in A, NEW x \in S, k - (n + 1) <= x
               PROVE  \E z \in S : \A y \in S : y <= z
    OBVIOUS
  <2>1. CASE \E z \in S : k - n <= z
    BY <2>1
  <2>2. CASE ~\E z \in S : k - n <= z
    BY <2>2
  <2>3. QED
    BY <2>1, <2>2
<1>3. Nat \subseteq A
  <2> HIDE DEF A
  <2> QED BY <1>1, <1>2, NatSetInduction
<1>4. \E x \in S : \A y \in S : y <= x
  <2>1. PICK x \in S : TRUE
    OBVIOUS
  <2>2. k - x \in Nat /\ k - (k - x) <= x
    BY <2>1
  <2>3. k - x \in A
    BY <1>3, <2>2
  <2>4. QED
    BY <2>2, <2>3
<1>5. QED
  BY <1>4 DEF Max

\* The mirror image.
LEMMA BoundedMin ==
  ASSUME NEW S, S \subseteq Int, S # {}, NEW k \in Int, \A x \in S : k <= x
  PROVE  Min(S) \in S /\ \A x \in S : Min(S) <= x
<1> DEFINE A == {n \in Nat : (\E x \in S : x <= k + n) => \E x \in S : \A y \in S : x <= y}
<1>1. 0 \in A
  OBVIOUS
<1>2. \A n \in Nat : n \in A => n + 1 \in A
  <2> SUFFICES ASSUME NEW n \in Nat, n \in A, NEW x \in S, x <= k + (n + 1)
               PROVE  \E z \in S : \A y \in S : z <= y
    OBVIOUS
  <2>1. CASE \E z \in S : z <= k + n
    BY <2>1
  <2>2. CASE ~\E z \in S : z <= k + n
    BY <2>2
  <2>3. QED
    BY <2>1, <2>2
<1>3. Nat \subseteq A
  <2> HIDE DEF A
  <2> QED BY <1>1, <1>2, NatSetInduction
<1>4. \E x \in S : \A y \in S : x <= y
  <2>1. PICK x \in S : TRUE
    OBVIOUS
  <2>2. x - k \in Nat /\ x <= k + (x - k)
    BY <2>1
  <2>3. x - k \in A
    BY <1>3, <2>2
  <2>4. QED
    BY <2>2, <2>3
<1>5. QED
  BY <1>4 DEF Min

-----------------------------------------------------------------------------
\* The quotient and the remainder of a number that is written with them.
LEMMA DivMod ==
  ASSUME NEW m \in Nat \ {0}, NEW k \in Int, NEW i \in 0 .. m - 1
  PROVE  (k * m + i) \div m = k /\ (k * m + i) % m = i
<1> DEFINE n == k * m + i
           q == n \div m
           r == n % m
<1>1. k * m \in Int /\ n \in Int
  OBVIOUS
<1>2. q \in Int /\ r \in 0 .. m - 1 /\ n = m * q + r
  <2> HIDE DEF n
  <2> QED BY <1>1
<1>3. n = m * k + i
  OBVIOUS
<1>4. m * (q - k) = i - r
  <2> HIDE DEF q, r, n
  <2>1. m * (q - k) = m * q - m * k
    BY <1>2
  <2>2. m * q \in Int /\ m * k \in Int
    BY <1>2
  <2> QED BY <1>1, <1>2, <1>3, <2>1, <2>2
<1>5. q = k
  <2> HIDE DEF q, r, n
  <2>1. CASE q - k >= 1
    <3>1. m * (q - k) >= m
      BY <1>2, <2>1
    <3> QED BY <1>2, <1>4, <3>1
  <2>2. CASE q - k <= -1
    <3>1. m * (q - k) <= -m
      BY <1>2, <2>2
    <3> QED BY <1>2, <1>4, <3>1
  <2> QED BY <1>2, <2>1, <2>2
<1>6. r = i
  <2> HIDE DEF r, n
  <2>1. m * (q - k) = 0
    BY <1>5
  <2> QED BY <1>2, <1>4, <2>1
<1> QED BY <1>5, <1>6

\* What Append returns, element by element.
LEMMA AppendIs ==
  ASSUME NEW n \in Nat, NEW R, NEW f \in [1 .. n -> R], NEW g \in [1 .. n + 1 -> R],
         \A i \in 1 .. n : g[i] = f[i]
  PROVE  g = Append(f, g[n + 1]) /\ Len(f) = n
<1> DEFINE h == Append(f, g[n + 1])
<1>1. f \in Seq(R) /\ Len(f) = n /\ g[n + 1] \in R
  OBVIOUS
<1>2. /\ h \in Seq(R) /\ Len(h) = n + 1 /\ h[n + 1] = g[n + 1]
      /\ \A i \in 1 .. n : h[i] = f[i]
  BY <1>1
<1>3. h \in [1 .. n + 1 -> R]
  <2> HIDE DEF h
  <2>1. QED
    BY <1>2
<1>4. \A i \in 1 .. n + 1 : h[i] = g[i]
  <2>1. \A i \in 1 .. n + 1 : i \in 1 .. n \/ i = n + 1
    OBVIOUS
  <2> HIDE DEF h
  <2>2. QED
    BY <1>2, <2>1
<1>5. h = g
  <2> HIDE DEF h
  <2>1. QED
    BY <1>3, <1>4
<1>6. QED
  BY <1>1, <1>5
=============================================================================
