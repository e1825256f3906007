-------------------------- MODULE InductionLemmas --------------------------
(***************************************************************************)
(* Induction over the naturals and definition by recursion, stated of sets *)
(* and functions instead of operators: a set of naturals takes the place   *)
(* of the predicate, a sequence of functions that of the step.             *)
(***************************************************************************)
EXTENDS Integers, SequencesExt, TLAPS, NaturalsInduction, WellFoundedInduction

\* A set that has 0 and, with a number, the next one, has all of them: a
\* least number outside would have its predecessor inside.
LEMMA SetInduction ==
    ASSUME NEW S, 0 \in S, \A n \in Nat : n \in S => n + 1 \in S
    PROVE  Nat \subseteq S
<1>1. SUFFICES ASSUME Nat \ S # {} PROVE FALSE
  OBVIOUS
<1>2. PICK x \in Nat \ S : \A y \in Nat \ S : <<y, x>> \notin OpToRel(<, Nat)
  BY <1>1, WFMin, NatLessThanWellFounded
<1>3. x \in Nat /\ x \notin S
  OBVIOUS
<1>4. x # 0
  BY <1>3
<1>5. x - 1 \in Nat /\ x - 1 < x
  BY <1>3, <1>4
<1>6. <<x - 1, x>> \in OpToRel(<, Nat)
  BY <1>3, <1>5 DEF OpToRel
<1>7. x - 1 \in S
  BY <1>2, <1>5, <1>6
<1>8. (x - 1) + 1 = x
  BY <1>3
<1>9. QED
  BY <1>3, <1>5, <1>7, <1>8

\* Strong induction: a set that has a number if it has all smaller ones.
LEMMA StrongSetInduction ==
    ASSUME NEW S, \A n \in Nat : (\A m \in 0..n - 1 : m \in S) => n \in S
    PROVE  Nat \subseteq S
<1> DEFINE Below == {n \in Nat : \A m \in 0..n - 1 : m \in S}
<1>1. 0 \in Below
  OBVIOUS
<1>2. ASSUME NEW n \in Nat, n \in Below PROVE n + 1 \in Below
  <2>1. n \in S
    BY <1>2
  <2>2. ASSUME NEW m \in 0..(n + 1) - 1 PROVE m \in S
    <3>1. m \in 0..n - 1 \/ m = n
      OBVIOUS
    <3>2. QED
      BY <1>2, <2>1, <3>1
  <2>3. QED
    BY <2>2
<1>3. Nat \subseteq Below
  <2> HIDE DEF Below
  <2> QED
    BY <1>1, <1>2, SetInduction
<1>4. ASSUME NEW n \in Nat PROVE n \in S
  BY <1>3
<1>5. QED
  BY <1>4

\* Steps that compute one value of V from another, and the values that they
\* compute, beginning with base, each from the value of an earlier number.
StepsOn(V, n) == [1..n -> [V -> V]]

EarlierThan(n) == {from \in [1..n -> Nat] : \A i \in 1..n : from[i] < i}

Computes(g, base, step, from, n) == g[0] = base /\ \A i \in 1..n : g[i] = step[i][g[from[i]]]

\* Values that are computed one from the other exist, as many as there are
\* steps.
LEMMA RecursionExists ==
    ASSUME NEW V, NEW base \in V, NEW n \in Nat, NEW step \in StepsOn(V, n), NEW from \in EarlierThan(n)
    PROVE  \E g \in [0..n -> V] : Computes(g, base, step, from, n)
<1> USE DEF StepsOn, Computes
<1>0. \A i \in 1..n : from[i] \in 0..i - 1
  BY DEF EarlierThan
<1> DEFINE Solves(g, k) == /\ g \in [0..k -> V] /\ g[0] = base
                           /\ \A i \in 1..k : g[i] = step[i][g[from[i]]]
           Solved == {k \in Nat : k <= n => \E g : Solves(g, k)}
<1>1. 0 \in Solved
  <2>1. Solves([i \in 0..0 |-> base], 0)
    OBVIOUS
  <2>2. QED
    BY <2>1
<1>2. ASSUME NEW k \in Nat, k \in Solved PROVE k + 1 \in Solved
  <2> SUFFICES ASSUME k + 1 <= n PROVE \E g : Solves(g, k + 1)
    <3>1. k + 1 \in Nat
      OBVIOUS
    <3>2. QED
      BY <3>1
  <2>1. PICK g : Solves(g, k)
    BY <1>2
  <2> DEFINE h == [i \in 0..k + 1 |-> IF i = k + 1 THEN step[k + 1][g[from[k + 1]]] ELSE g[i]]
  <2>2. step[k + 1][g[from[k + 1]]] \in V
    BY <1>0, <2>1
  <2>3. h \in [0..k + 1 -> V] /\ h[0] = base
    BY <2>1, <2>2
  <2>4. ASSUME NEW i \in 1..k + 1 PROVE h[i] = step[i][h[from[i]]]
    <3>1. from[i] \in 0..i - 1 /\ from[i] \in 0..k + 1 /\ from[i] # k + 1
      BY <1>0
    <3>2. h[from[i]] = g[from[i]]
      BY <3>1
    <3>3. QED
      BY <2>1, <3>2
  <2>5. QED
    BY <2>3, <2>4
<1>3. n \in Solved
  <2> HIDE DEF Solved
  <2> QED
    BY <1>1, <1>2, SetInduction
<1>4. QED
  BY <1>3

\* Where a value comes from that is computed from the one before it.
Before(n) == [i \in 1..n |-> i - 1]

LEMMA BeforeIsEarlier == \A n \in Nat : Before(n) \in EarlierThan(n)
BY DEF Before, EarlierThan

\* Two functions that start alike and are computed alike are alike.
LEMMA RecursionUnique ==
    ASSUME NEW n \in Nat, NEW g, NEW h, g[0] = h[0],
           \A i \in 1..n : g[i - 1] = h[i - 1] => g[i] = h[i]
    PROVE  \A i \in 0..n : g[i] = h[i]
<1> DEFINE Same == {k \in Nat : k <= n => g[k] = h[k]}
<1>1. 0 \in Same
  OBVIOUS
<1>2. ASSUME NEW k \in Nat, k \in Same PROVE k + 1 \in Same
  <2>1. CASE k + 1 <= n
    <3>1. k + 1 \in 1..n /\ (k + 1) - 1 = k /\ g[k] = h[k]
      BY <1>2, <2>1
    <3>2. g[k + 1] = h[k + 1]
      BY <3>1
    <3>3. QED
      BY <3>2
  <2>2. QED
    BY <2>1
<1>3. Nat \subseteq Same
  <2> HIDE DEF Same
  <2> QED
    BY <1>1, <1>2, SetInduction
<1>4. QED
  BY <1>3

\* A set of numbers with a bound has a greatest one.
LEMMA MaxIsGreatest ==
    ASSUME NEW n \in Nat, NEW S, S \subseteq 0..n, S # {}
    PROVE  Max(S) \in S /\ \A x \in S : x <= Max(S)
<1> DEFINE D == {d \in Nat : d <= n /\ n - d \in S}
<1>1. D # {}
  <2>1. PICK x : x \in S
    OBVIOUS
  <2>2. x \in 0..n
    BY <2>1
  <2>3. n - x \in Nat /\ n - x <= n /\ n - (n - x) = x
    BY <2>2
  <2>4. n - x \in D
    BY <2>1, <2>3
  <2>5. QED
    BY <2>4
<1>2. PICK d \in D : \A e \in D : <<e, d>> \notin OpToRel(<, Nat)
  <2>1. D \subseteq Nat
    OBVIOUS
  <2> HIDE DEF D
  <2>2. QED
    BY <1>1, <2>1, WFMin, NatLessThanWellFounded
<1>3. d \in Nat /\ d <= n /\ n - d \in S
  BY <1>2
<1>4. ASSUME NEW x \in S PROVE x <= n - d
  <2>1. x \in 0..n
    OBVIOUS
  <2>2. n - x \in D
    BY <2>1
  <2>3. ~(n - x < d)
    BY <1>2, <1>3, <2>2 DEF OpToRel
  <2>4. QED
    BY <1>3, <2>1, <2>3
<1>5. n - d \in S /\ \A y \in S : n - d >= y
  <2>1. ASSUME NEW y \in S PROVE n - d >= y
    <3>1. y <= n - d /\ y \in 0..n
      BY <1>4
    <3>2. QED
      BY <1>3, <3>1
  <2>2. QED
    BY <1>3, <2>1
<1>6. Max(S) \in S /\ \A y \in S : Max(S) >= y
  BY <1>5 DEF Max
<1>7. ASSUME NEW y \in S PROVE y <= Max(S)
  <2>1. y \in 0..n /\ Max(S) \in 0..n /\ Max(S) >= y
    BY <1>6
  <2>2. QED
    BY <2>1
<1>8. QED
  BY <1>6, <1>7

\* A set of naturals has a least one.
LEMMA MinIsLeast ==
    ASSUME NEW S, S \subseteq Nat, S # {}
    PROVE  Min(S) \in S /\ \A x \in S : Min(S) <= x
<1>1. PICK d \in S : \A e \in S : <<e, d>> \notin OpToRel(<, Nat)
  BY WFMin, NatLessThanWellFounded
<1>2. \A x \in S : d <= x
  <2>1. ASSUME NEW x \in S PROVE d <= x
    <3>1. ~(x < d)
      BY <1>1 DEF OpToRel
    <3>2. QED
      BY <3>1
  <2>2. QED
    BY <2>1
<1>3. QED
  BY <1>2 DEF Min

-----------------------------------------------------------------------------
(* Recursion from the end: what a number gets depends on any of those      *)
(* after it.                                                               *)

LEMMA LaterInduction ==
    ASSUME NEW n \in Nat, NEW S,
           \A i \in 1..n : (\A j \in i + 1..n : j \in S) => i \in S
    PROVE  \A i \in 1..n : i \in S
<1> DEFINE Good == {m \in Nat : m < n => n - m \in S}
<1>1. ASSUME NEW m \in Nat, \A k \in 0..m - 1 : k \in Good PROVE m \in Good
  <2> SUFFICES ASSUME m < n PROVE n - m \in S
    OBVIOUS
  <2>1. ASSUME NEW j \in n - m + 1..n PROVE j \in S
    <3>1. n - j \in 0..m - 1 /\ n - j < n /\ n - (n - j) = j
      OBVIOUS
    <3>2. QED
      BY <1>1, <3>1
  <2>2. QED
    BY <2>1
<1>2. Nat \subseteq Good
  <2> HIDE DEF Good
  <2> QED
    BY <1>1, StrongSetInduction
<1>3. ASSUME NEW i \in 1..n PROVE i \in S
  <2>1. n - i \in Nat /\ n - i < n /\ n - (n - i) = i
    OBVIOUS
  <2>2. QED
    BY <1>2, <2>1
<1>4. QED
  BY <1>3

LaterSteps(V, n) ==
    {step \in [1..n -> [[1..n -> V] -> V]] :
        \A i \in 1..n : \A h, k \in [1..n -> V] :
            (\A j \in i + 1..n : h[j] = k[j]) => step[i][h] = step[i][k]}

LEMMA RecursionFromLater ==
    ASSUME NEW n \in Nat, NEW V, NEW v \in V, NEW step \in LaterSteps(V, n)
    PROVE  \E g \in [1..n -> V] : \A i \in 1..n : g[i] = step[i][g]
<1> DEFINE Solves(g, m) == \A i \in n - m + 1..n : g[i] = step[i][g]
           Solved == {m \in Nat : m <= n => \E g \in [1..n -> V] : Solves(g, m)}
<1>0. /\ step \in [1..n -> [[1..n -> V] -> V]]
      /\ \A i \in 1..n : \A h, k \in [1..n -> V] :
            (\A j \in i + 1..n : h[j] = k[j]) => step[i][h] = step[i][k]
  BY DEF LaterSteps
<1>1. 0 \in Solved
  <2>1. [i \in 1..n |-> v] \in [1..n -> V]
    OBVIOUS
  <2>2. \A g : Solves(g, 0)
    OBVIOUS
  <2>3. QED
    BY <2>1, <2>2
<1>2. ASSUME NEW m \in Solved PROVE m + 1 \in Solved
  <2>0. m \in Nat /\ m + 1 \in Nat
    OBVIOUS
  <2> SUFFICES ASSUME m + 1 <= n PROVE \E h \in [1..n -> V] : Solves(h, m + 1)
    BY <2>0
  <2>1. PICK g \in [1..n -> V] : Solves(g, m)
    BY <2>0
  <2> DEFINE a == n - m
             h == [g EXCEPT ![a] = step[a][g]]
  <2>2. a \in 1..n /\ n - m + 1 = a + 1 /\ n - (m + 1) + 1 = a
    BY <2>0
  <2> HIDE DEF a
  <2>3. step[a][g] \in V /\ h \in [1..n -> V]
    BY <1>0, <2>1, <2>2
  <2>4. h[a] = step[a][g] /\ \A j \in a + 1..n : j \in 1..n /\ h[j] = g[j]
    BY <2>2
  <2> HIDE DEF h
  <2>5. ASSUME NEW i \in a..n PROVE h[i] = step[i][h]
    <3>1. i \in 1..n /\ \A j \in i + 1..n : j \in a + 1..n
      BY <2>2
    <3>2. step[i][g] = step[i][h]
      <4>1. \A j \in i + 1..n : g[j] = h[j]
        BY <2>4, <3>1
      <4>2. QED
        BY <1>0, <2>3, <3>1, <4>1
    <3>3. CASE i = a
      BY <2>4, <3>2, <3>3
    <3>4. CASE i # a
      <4>1. i \in a + 1..n
        BY <2>2, <3>4
      <4>2. g[i] = step[i][g]
        BY <2>1, <2>2, <4>1
      <4>3. QED
        BY <2>4, <3>2, <4>1, <4>2
    <3>5. QED
      BY <3>3, <3>4
  <2>6. Solves(h, m + 1)
    BY <2>2, <2>5
  <2>7. QED
    BY <2>3, <2>6
<1>3. n \in Solved
  <2>1. Nat \subseteq Solved
    <3>1. Solved \subseteq Nat
      OBVIOUS
    <3> HIDE DEF Solved
    <3> QED
      BY <1>1, <1>2, <3>1, SetInduction
  <2>2. QED
    BY <2>1
<1>4. PICK g \in [1..n -> V] : Solves(g, n)
  BY <1>3
<1>5. \A i \in 1..n : i \in n - n + 1..n
  OBVIOUS
<1>6. QED
  BY <1>4, <1>5

-----------------------------------------------------------------------------
(* Sequences that are joined.                                              *)

\* FlattenSeq joins the sequences from the left.
LEMMA FlattenIsJoined ==
    ASSUME NEW V, NEW s \in Seq(Seq(V)), NEW h \in [0..Len(s) -> Seq(V)],
           h[0] = <<>>, \A i \in 1..Len(s) : h[i] = h[i - 1] \o s[i]
    PROVE  FlattenSeq(s) = h[Len(s)]
<1> DEFINE n         == Len(s)
           Longer(g) == [i \in 1..n |-> IF i = 1 THEN s[i] ELSE g[i - 1] \o s[i]]
           flatten   == CHOOSE g : g = Longer(g)
<1>1. n \in Nat /\ DOMAIN s = 1..n /\ \A i \in 1..n : s[i] \in Seq(V)
  OBVIOUS
<1>2. CASE n = 0
  BY <1>1, <1>2 DEF FlattenSeq
<1>3. CASE n # 0
  <2> DEFINE k == [i \in 1..n |-> h[i]]
  <2>1. \A t \in Seq(V) : <<>> \o t = t
    OBVIOUS
  <2>2. h[1] = s[1]
    <3>1. 1 \in 1..n /\ 1 - 1 = 0 /\ s[1] \in Seq(V)
      BY <1>1, <1>3
    <3>2. h[1] = <<>> \o s[1]
      BY <3>1
    <3>3. QED
      BY <2>1, <3>1, <3>2
  <2>3. k = Longer(k)
    <3>1. ASSUME NEW i \in 1..n, i # 1 PROVE k[i] = k[i - 1] \o s[i]
      <4>1. i - 1 \in 1..n
        BY <1>1, <3>1
      <4>2. QED
        BY <3>1, <4>1
    <3>2. QED
      BY <2>2, <3>1
  <2>4. flatten = Longer(flatten)
    <3> HIDE DEF k, Longer
    <3> QED
      BY <2>3
  <2> DEFINE f == [i \in 0..n |-> IF i = 0 THEN <<>> ELSE flatten[i]]
  <2>5. \A i \in 1..n : flatten[i] = IF i = 1 THEN s[i] ELSE flatten[i - 1] \o s[i]
    <3> HIDE DEF flatten
    <3> QED
      BY <2>4
  <2> HIDE DEF flatten
  <2>6. f[0] = h[0]
    BY <1>1
  <2>7. ASSUME NEW i \in 1..n, f[i - 1] = h[i - 1] PROVE f[i] = h[i]
    <3>1. i \in 0..n /\ i - 1 \in 0..n /\ i # 0
      BY <1>1
    <3>2. f[i] = flatten[i]
      BY <3>1
    <3>3. CASE i = 1
      BY <2>2, <2>5, <3>2, <3>3
    <3>4. CASE i # 1
      <4>1. f[i - 1] = flatten[i - 1]
        BY <3>1, <3>4
      <4>2. QED
        BY <2>5, <2>7, <3>2, <3>4, <4>1
    <3>5. QED
      BY <3>3, <3>4
  <2>8. f[n] = h[n]
    <3>1. n \in Nat
      BY <1>1
    <3> HIDE DEF f, n, k, Longer
    <3>2. \A i \in 1..n : f[i - 1] = h[i - 1] => f[i] = h[i]
      BY <2>7
    <3>3. \A i \in 0..n : f[i] = h[i]
      BY <2>6, <3>1, <3>2, RecursionUnique, ZenonT(60)
    <3>4. QED
      BY <3>1, <3>3
  <2>9. f[n] = flatten[n]
    BY <1>1, <1>3
  <2>10. FlattenSeq(s) = flatten[n]
    BY <1>3 DEF FlattenSeq, flatten
  <2>11. QED
    BY <2>8, <2>9, <2>10
<1>4. QED
  BY <1>2, <1>3

Joins(h, s, n) == h[0] = <<>> /\ \A i \in 1..n : h[i] = h[i - 1] \o s[i]

LEMMA JoinedExists ==
    ASSUME NEW V, NEW n \in Nat, NEW s \in [1..n -> Seq(V)]
    PROVE  \E h \in [0..n -> Seq(V)] : Joins(h, s, n)
<1> DEFINE step == [i \in 1..n |-> [t \in Seq(V) |-> t \o s[i]]]
<1>1. step \in StepsOn(Seq(V), n)
  <2>1. \A t, u \in Seq(V) : t \o u \in Seq(V)
    OBVIOUS
  <2>2. \A i \in 1..n : s[i] \in Seq(V)
    OBVIOUS
  <2>3. QED
    BY <2>1, <2>2 DEF StepsOn
<1>2. <<>> \in Seq(V) /\ Before(n) \in EarlierThan(n)
  BY BeforeIsEarlier
<1>3. PICK h \in [0..n -> Seq(V)] : Computes(h, <<>>, step, Before(n), n)
  <2> HIDE DEF step
  <2>1. QED
    BY <1>1, <1>2, RecursionExists
<1>4. ASSUME NEW i \in 1..n PROVE h[i] = h[i - 1] \o s[i]
  <2>1. h[i] = step[i][h[i - 1]]
    BY <1>3 DEF Computes, Before
  <2>2. h[i - 1] \in Seq(V)
    BY <1>3
  <2>3. QED
    BY <2>1, <2>2
<1>5. QED
  BY <1>3, <1>4 DEF Computes, Joins
=============================================================================
