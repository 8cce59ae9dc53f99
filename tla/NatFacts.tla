------------------------------ MODULE NatFacts ------------------------------
(***************************************************************************)
(* What several proofs need of the natural numbers and of walks.           *)
(***************************************************************************)
EXTENDS Walks, WellFoundedInduction, TLAPS

\* A set of natural numbers that is not empty has a least element.
LEMMA LeastElement ==
    ASSUME NEW S \in SUBSET Nat, S # {}
    PROVE  \E n \in S : \A m \in S : n <= m
<1> DEFINE R == OpToRel(<, Nat)
<1>1. IsWellFoundedOn(R, Nat)
  BY NatLessThanWellFounded
<1>2. \A x, y \in Nat : x < y => <<x, y>> \in R
  BY DEF OpToRel
<1> HIDE DEF R
<1>3. PICK n \in S : \A m \in S : <<m, n>> \notin R
  BY <1>1, WFMin
<1>4. ASSUME NEW m \in S PROVE n <= m
  <2>1. n \in Nat /\ m \in Nat /\ <<m, n>> \notin R
    BY <1>3
  <2>2. ~ (m < n)
    BY <2>1, <1>2
  <2>. QED BY <2>1, <2>2
<1>. QED BY <1>4

\* A set of natural numbers with 0 that is closed under successor has them all.
LEMMA SetInduction ==
    ASSUME NEW S \in SUBSET Nat, 0 \in S, \A n \in S : n + 1 \in S
    PROVE  S = Nat
<1> SUFFICES ASSUME Nat \ S # {} PROVE FALSE
  OBVIOUS
<1> DEFINE R == Nat \ S
<1>0. R \in SUBSET Nat /\ R # {}
  OBVIOUS
<1>1. PICK n \in R : \A m \in R : n <= m
  <2> HIDE DEF R
  <2>. QED BY <1>0, LeastElement
<1>1a. n \in Nat /\ n \notin S /\ \A m \in Nat : m \notin S => n <= m
  BY <1>1
<1> HIDE DEF R
<1>2. n # 0 /\ n - 1 \in Nat
  BY <1>1a
<1>3. n - 1 \in S
  BY <1>1a, <1>2
<1>4. (n - 1) + 1 \in S
  BY <1>3
<1>. QED BY <1>1a, <1>4, <1>2

\* A set of natural numbers with an upper bound has a greatest element.
LEMMA GreatestElement ==
    ASSUME NEW b \in Nat, NEW S \in SUBSET 0..b, S # {}
    PROVE  \E n \in S : \A m \in S : m <= n
<1> DEFINE D == {b - m : m \in S}
<1>1. D # {} /\ D \in SUBSET Nat
  <2>1. PICK m \in S : TRUE
    OBVIOUS
  <2>2. b - m \in D
    OBVIOUS
  <2>3. \A d \in D : d \in Nat
    OBVIOUS
  <2>. QED BY <2>2, <2>3
<1>2. PICK d \in D : \A e \in D : d <= e
  BY <1>1, LeastElement
<1>3. PICK n \in S : d = b - n
  BY <1>2
<1>4. ASSUME NEW m \in S PROVE m <= n
  <2>1. b - m \in D
    OBVIOUS
  <2>2. d <= b - m
    BY <1>2, <2>1
  <2>. QED BY <1>3, <2>2
<1>. QED BY <1>4

-----------------------------------------------------------------------------
\* A walk is the function its definition says: it starts at x, and each of
\* its values is what next has for the one before.
IsWalk(g, next, x) == g = [n \in Nat |-> IF n = 0 THEN x ELSE next[g[n - 1]]]

LEMMA WalkExists ==
    ASSUME NEW next, NEW x
    PROVE  \E g : IsWalk(g, next, x)
<1> DEFINE Part(n, f) == \A k \in 0..n : f[k] = IF k = 0 THEN x ELSE next[f[k - 1]]
           S == {n \in Nat : \E f : Part(n, f)}
           f0 == [k \in Nat |-> x]
<1>1. S = Nat
  <2>1. Part(0, f0)
    OBVIOUS
  <2>2. 0 \in S
    BY <2>1
  <2>3. ASSUME NEW n \in S PROVE n + 1 \in S
    <3>1. PICK f : Part(n, f)
      OBVIOUS
    <3> DEFINE h == [k \in Nat |-> IF k <= n THEN f[k] ELSE next[f[n]]]
    <3>2. Part(n + 1, h)
      <4> SUFFICES ASSUME NEW k \in 0..(n + 1) PROVE h[k] = IF k = 0 THEN x ELSE next[h[k - 1]]
        OBVIOUS
      <4>1. CASE k <= n
        BY <3>1, <4>1
      <4>2. CASE k = n + 1
        BY <3>1, <4>2
      <4>. QED BY <4>1, <4>2
    <3> HIDE DEF h, Part
    <3>. QED BY <3>2
  <2> HIDE DEF S
  <2>4. S \in SUBSET Nat
    BY DEF S
  <2>. QED BY <2>2, <2>3, <2>4, SetInduction
<1> DEFINE c == [n \in Nat |-> CHOOSE f : Part(n, f)]
           g == [n \in Nat |-> c[n][n]]
<1>2. \A n \in Nat : Part(n, c[n])
  <2> SUFFICES ASSUME NEW n \in Nat PROVE Part(n, c[n])
    OBVIOUS
  <2>1. \E f : Part(n, f)
    BY <1>1
  <2> HIDE DEF Part
  <2>. QED BY <2>1
<1>3. \A n \in Nat : \A a, b : Part(n, a) /\ Part(n, b) => a[n] = b[n]
  <2> DEFINE T == {n \in Nat : \A a, b : Part(n, a) /\ Part(n, b) => a[n] = b[n]}
  <2>1. 0 \in T
    OBVIOUS
  <2>2. ASSUME NEW n \in T PROVE n + 1 \in T
    <3> SUFFICES ASSUME NEW a, NEW b, Part(n + 1, a), Part(n + 1, b) PROVE a[n + 1] = b[n + 1]
      OBVIOUS
    <3>1. Part(n, a) /\ Part(n, b)
      OBVIOUS
    <3>2. a[n] = b[n]
      BY <3>1
    <3>3. a[n + 1] = next[a[n]] /\ b[n + 1] = next[b[n]]
      OBVIOUS
    <3>. QED BY <3>2, <3>3
  <2>3. T \in SUBSET Nat
    OBVIOUS
  <2> HIDE DEF T
  <2>4. T = Nat
    BY <2>1, <2>2, <2>3, SetInduction
  <2>. QED BY <2>4 DEF T
<1>4. ASSUME NEW n \in Nat PROVE g[n] = IF n = 0 THEN x ELSE next[g[n - 1]]
  <2>1. Part(n, c[n])
    BY <1>2
  <2>2. CASE n = 0
    BY <2>1, <2>2
  <2>3. CASE n # 0
    <3>1. n - 1 \in Nat /\ Part(n - 1, c[n]) /\ Part(n - 1, c[n - 1])
      BY <2>1, <2>3, <1>2
    <3>2. c[n][n - 1] = c[n - 1][n - 1]
      BY <3>1, <1>3
    <3>3. c[n][n] = next[c[n][n - 1]]
      BY <2>1, <2>3
    <3>. QED BY <3>1, <3>2, <3>3, <2>3
  <2>. QED BY <2>2, <2>3
<1>5. g = [n \in Nat |-> g[n]]
  OBVIOUS
<1> HIDE DEF g
<1>6. g = [n \in Nat |-> IF n = 0 THEN x ELSE next[g[n - 1]]]
  BY <1>4, <1>5
<1>. QED BY <1>6 DEF IsWalk

LEMMA WalkChoice ==
    ASSUME NEW next, NEW x, NEW g, IsWalk(g, next, x)
    PROVE  Walk(next, x) = [n \in Nat |-> IF n = 0 THEN x ELSE next[Walk(next, x)[n - 1]]]
  BY DEF Walk, IsWalk

LEMMA WalkFacts ==
    ASSUME NEW next, NEW x
    PROVE  /\ Walk(next, x)[0] = x
           /\ \A n \in Nat : Walk(next, x)[n + 1] = next[Walk(next, x)[n]]
<1>1. PICK g : IsWalk(g, next, x)
  BY WalkExists
<1>2. Walk(next, x) = [n \in Nat |-> IF n = 0 THEN x ELSE next[Walk(next, x)[n - 1]]]
  BY <1>1, WalkChoice
<1>3. Walk(next, x)[0] = x
  BY <1>2
<1>4. ASSUME NEW n \in Nat PROVE Walk(next, x)[n + 1] = next[Walk(next, x)[n]]
  <2>1. n + 1 \in Nat /\ n + 1 # 0 /\ (n + 1) - 1 = n
    OBVIOUS
  <2>. QED BY <1>2, <2>1
<1>. QED BY <1>3, <1>4

=============================================================================
