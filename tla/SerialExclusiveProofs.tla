----------------------- MODULE SerialExclusiveProofs -----------------------
(***************************************************************************)
(* Proofs about SerialExclusive, for any programs of counted nests.  The   *)
(* index of a thread is the number that its iterations are the digits of,  *)
(* in the base of the sizes of the block: the weight of a level is the     *)
(* number of threads below one of its iterations, and at every place of    *)
(* the execution the index is the iteration reached, as a number, times    *)
(* the weight of its level.  The exceptions are the places behind a check  *)
(* that fails: from there to the end of the nest no body is run.           *)
(***************************************************************************)
EXTENDS SerialExclusive, InductionLemmas, FiniteSetTheorems

-----------------------------------------------------------------------------
(* Numbers with a digit for each size of a block.                          *)

IsBlock(B, n)  == n \in Nat /\ B \in [1..n -> Nat \ {0}]
Fits(t, B, n)  == t \in [1..n -> Nat] /\ \A j \in 1..n : t[j] < B[j]

\* g are the values of the digits t, from the first.
Digits(g, B, n, t) ==
    g \in [0..n -> Nat] /\ g[0] = 0 /\ \A j \in 1..n : g[j] = g[j - 1] * B[j] + t[j]

LEMMA SameValue ==
    ASSUME NEW B, NEW n, IsBlock(B, n), NEW t, Fits(t, B, n),
           NEW g, NEW h, Digits(g, B, n, t), Digits(h, B, n, t)
    PROVE  g[n] = h[n]
<1>1. n \in Nat /\ g[0] = h[0]
  BY DEF Digits, IsBlock
<1>2. \A j \in 1..n : g[j - 1] = h[j - 1] => g[j] = h[j]
  BY DEF Digits
<1>3. \A j \in 0..n : g[j] = h[j]
  BY <1>1, <1>2, RecursionUnique, ZenonT(60)
<1>4. QED
  BY <1>1, <1>3

LEMMA Remainders ==
    ASSUME NEW b, b \in Nat, NEW q, q \in Nat, NEW p, p \in Nat, NEW s, s \in Nat, NEW t, t \in Nat,
           s < b, t < b, q * b + s = p * b + t
    PROVE  q = p /\ s = t
<1>1. ASSUME NEW x \in Nat, NEW y \in Nat, NEW u \in Nat, NEW v \in Nat, u < b, v < b, x < y
      PROVE  x * b + u < y * b + v
  <2>1. PICK d \in Nat : y = x + 1 + d
    <3>1. y - x - 1 \in Nat /\ y = x + 1 + (y - x - 1)
      BY <1>1
    <3>2. QED
      BY <3>1
  <2>2. y * b = x * b + b + d * b
    BY <2>1
  <2>3. d * b \in Nat /\ x * b \in Nat
    OBVIOUS
  <2>4. QED
    BY <1>1, <2>2, <2>3
<1>2. ~(q < p) /\ ~(p < q)
  BY <1>1
<1>3. q = p
  BY <1>2
<1>4. QED
  BY <1>3

LEMMA SameSequence ==
    ASSUME NEW n, NEW t \in [1..n -> Nat], NEW u \in [1..n -> Nat], \A j \in 1..n : t[j] = u[j]
    PROVE  t = u
<1>1. t = [j \in 1..n |-> t[j]] /\ u = [j \in 1..n |-> u[j]]
  BY Zenon
<1>2. [j \in 1..n |-> t[j]] = [j \in 1..n |-> u[j]]
  BY Zenon
<1>3. QED
  BY <1>1, <1>2

LEMMA SameDigits ==
    ASSUME NEW B, NEW n, IsBlock(B, n), NEW t, Fits(t, B, n), NEW u, Fits(u, B, n),
           NEW g, NEW h, Digits(g, B, n, t), Digits(h, B, n, u), g[n] = h[n]
    PROVE  t = u
<1> DEFINE S == {j \in 1..n : g[j - 1] = h[j - 1] /\ t[j] = u[j]}
<1>1. n \in Nat
  BY DEF IsBlock
<1>2. ASSUME NEW j \in 1..n, \A k \in j + 1..n : k \in S PROVE j \in S
  <2>1. g[j] = h[j]
    <3>1. CASE j = n
      BY <3>1
    <3>2. CASE j # n
      <4>1. j + 1 \in j + 1..n /\ (j + 1) - 1 = j
        BY <1>1, <3>2
      <4>2. QED
        BY <1>2, <4>1
    <3>3. QED
      BY <3>1, <3>2
  <2>2. PICK b \in Nat : b = B[j]
    BY DEF IsBlock
  <2>3. PICK q \in Nat : q = g[j - 1]
    <3>1. j - 1 \in 0..n
      BY <1>1
    <3>2. QED
      BY <3>1 DEF Digits
  <2>4. PICK p \in Nat : p = h[j - 1]
    <3>1. j - 1 \in 0..n
      BY <1>1
    <3>2. QED
      BY <3>1 DEF Digits
  <2>5. PICK x \in Nat : x = t[j] /\ x < b
    BY <2>2 DEF Fits
  <2>6. PICK y \in Nat : y = u[j] /\ y < b
    BY <2>2 DEF Fits
  <2>7. q * b + x = p * b + y
    BY <2>1, <2>2, <2>3, <2>4, <2>5, <2>6 DEF Digits
  <2>8. q = p /\ x = y
    BY <2>5, <2>6, <2>7, Remainders
  <2>9. QED
    BY <2>3, <2>4, <2>5, <2>6, <2>8
<1>3. \A j \in 1..n : j \in S
  <2> HIDE DEF S
  <2>1. QED
    BY <1>1, <1>2, LaterInduction
<1>4. \A j \in 1..n : t[j] = u[j]
  BY <1>3
<1>5. t \in [1..n -> Nat] /\ u \in [1..n -> Nat]
  BY DEF Fits
<1>6. QED
  <2> HIDE DEF S
  <2>1. QED
    BY ONLY <1>4, <1>5, SameSequence, Zenon

\* The products of the sizes.
Products(P, B, n) ==
    P \in [0..n -> Nat] /\ P[0] = 1 /\ \A j \in 1..n : P[j] = P[j - 1] * B[j]

LEMMA SameProducts ==
    ASSUME NEW B, NEW n, IsBlock(B, n), NEW P, NEW Q, Products(P, B, n), Products(Q, B, n)
    PROVE  P[n] = Q[n]
<1>1. n \in Nat /\ P[0] = Q[0]
  BY DEF Products, IsBlock
<1>2. \A j \in 1..n : P[j - 1] = Q[j - 1] => P[j] = Q[j]
  BY DEF Products
<1>3. \A j \in 0..n : P[j] = Q[j]
  BY <1>1, <1>2, RecursionUnique, ZenonT(60)
<1>4. QED
  BY <1>1, <1>3

LEMMA BelowProduct ==
    ASSUME NEW p \in Nat, NEW q \in Nat, q < p, NEW b \in Nat, NEW t \in Nat, t < b
    PROVE  q * b + t < p * b
<1>1. PICK d \in Nat : p = q + 1 + d
  <2>1. p - q - 1 \in Nat /\ p = q + 1 + (p - q - 1)
    OBVIOUS
  <2>2. QED
    BY <2>1
<1>2. p * b = q * b + b + d * b
  BY <1>1
<1>3. d * b \in Nat /\ q * b \in Nat
  OBVIOUS
<1>4. QED
  BY <1>2, <1>3

LEMMA ValueIsBelow ==
    ASSUME NEW B, NEW n, IsBlock(B, n), NEW t, Fits(t, B, n), NEW g, Digits(g, B, n, t),
           NEW P, Products(P, B, n)
    PROVE  g[n] \in Nat /\ P[n] \in Nat /\ g[n] < P[n]
<1> DEFINE S == {j \in Nat : j <= n => g[j] < P[j]}
<1>1. n \in Nat
  BY DEF IsBlock
<1>2. 0 \in S
  BY DEF Digits, Products
<1>3. ASSUME NEW j \in Nat, j \in S PROVE j + 1 \in S
  <2> SUFFICES ASSUME j + 1 <= n PROVE g[j + 1] < P[j + 1]
    OBVIOUS
  <2>1. j \in 0..n /\ j + 1 \in 1..n /\ (j + 1) - 1 = j /\ j <= n
    BY <1>1
  <2>2. PICK q \in Nat : q = g[j]
    BY <2>1 DEF Digits
  <2>3. PICK p \in Nat : p = P[j]
    BY <2>1 DEF Products
  <2>4. PICK b \in Nat : b = B[j + 1]
    BY <2>1 DEF IsBlock
  <2>5. PICK x \in Nat : x = t[j + 1] /\ x < b
    BY <2>1, <2>4 DEF Fits
  <2>6. g[j + 1] = q * b + x
    BY <2>1, <2>2, <2>4, <2>5 DEF Digits
  <2>7. P[j + 1] = p * b
    BY <2>1, <2>3, <2>4 DEF Products
  <2>8. q < p
    BY <1>3, <2>1, <2>2, <2>3
  <2>9. q * b + x < p * b
    BY <2>5, <2>8, BelowProduct
  <2>10. QED
    BY <2>6, <2>7, <2>9
<1>4. n \in S
  <2> HIDE DEF S
  <2>1. QED
    BY <1>1, <1>2, <1>3, SetInduction
<1>5. n \in 0..n
  BY <1>1
<1>6. QED
  BY <1>1, <1>4, <1>5 DEF Digits, Products

-----------------------------------------------------------------------------
(* The levels of a nest: those from r to c are @inner, the index is reset  *)
(* at r and counted at c.                                                  *)

\* The levels of a counted nest, with those from r to c @inner.
Shape(levels, r, c) ==
    /\ Len(levels) \in Nat /\ DOMAIN levels = 1..Len(levels)
    /\ r \in Nat /\ c \in Nat /\ 1 <= r /\ r <= c /\ c <= Len(levels)
    /\ \A d \in 1..Len(levels) :
          /\ levels[d].count \in Nat \ {0}
          /\ levels[d].role = "Inner" <=> r <= d /\ d <= c
          /\ levels[d].resets <=> d = r
          /\ levels[d].counts <=> d = c

\* The second loop of a tile.
IsSecond(levels, d) == d >= 2 /\ levels[d].loop = levels[d - 1].loop

\* The sizes of the two loops of a tile, the second of them at level d.
TileOf(loops, levels, d) ==
    LET loop == loops[levels[d].loop]
    IN  /\ loop.range \in Nat \ {0} /\ loop.tileSize \in Nat \ {0}
        /\ levels[d - 1].count = 1 + (loop.range - 1) \div loop.tileSize
        /\ levels[d].count = loop.tileSize

\* A tile in the middle has no check.
Tiles(loops, levels, r, c) ==
    \A d \in 1..Len(levels) :
        IsSecond(levels, d) =>
            /\ TileOf(loops, levels, d)
            /\ r + 1 < d /\ d < c => ~loops[levels[d].loop].check

\* The check behind level d is not passed.
Fails(loops, levels, it, d) ==
    /\ IsSecond(levels, d) /\ loops[levels[d].loop].check
    /\ ~(it[d - 1] * loops[levels[d].loop].tileSize + it[d] < loops[levels[d].loop].range)

-----------------------------------------------------------------------------
(* The index.                                                              *)

\* How many threads one iteration of a level is run by.
Weights(W, levels, r, c) ==
    /\ W \in [1..Len(levels) -> Nat]
    /\ \A d \in c..Len(levels) : W[d] = 1
    /\ \A d \in r + 1..c : W[d - 1] = levels[d].count * W[d]

\* The iteration of the @inner levels around the execution, as one number.
Ranks(h, levels, r, c, it) ==
    /\ h \in [0..Len(it) -> Nat]
    /\ \A d \in 0..Len(it) : d < r => h[d] = 0
    /\ \A d \in 1..Len(it) : r <= d /\ d <= c => h[d] = h[d - 1] * levels[d].count + it[d]
    /\ \A d \in 1..Len(it) : d > c => h[d] = h[d - 1]

\* Where only values past the end of the range follow, until the next reset.
PastEnd(loops, levels, r, it, left) ==
    \/ (Len(it) = r \/ Len(it) = r + 1) /\ Fails(loops, levels, it, Len(it))
    \/ Len(it) = r /\ left /\ it[r] + 1 = levels[r].count

\* x is the number of threads before those of the place, and of those in it
\* when they have been left.
Counted(levels, r, c, it, left, x) ==
    \E W, h : /\ Weights(W, levels, r, c) /\ Ranks(h, levels, r, c, it)
              /\ x = IF left /\ Len(it) < c THEN (h[Len(it)] + 1) * W[Len(it)] ELSE h[Len(it)] * W[Len(it)]

\* Inside of the @inner levels the index is counted, or its value is not used again.
Indexed(loops, levels, r, c, it, left, x) ==
    Len(it) >= r => PastEnd(loops, levels, r, it, left) \/ Counted(levels, r, c, it, left, x)

\* iters of a nest.
IsPlace(levels, it) ==
    /\ it \in Seq(Nat) /\ Len(it) <= Len(levels)
    /\ \A d \in 1..Len(it) : it[d] < levels[d].count

LEMMA WeightsExist ==
    ASSUME NEW levels, NEW r, NEW c, Shape(levels, r, c)
    PROVE  \E W : Weights(W, levels, r, c)
<1>1. PICK n \in Nat : n = Len(levels)
  BY DEF Shape
<1>2. PICK k : k = [d \in 1..n |-> levels[d].count]
  OBVIOUS
<1>3. k \in [1..n -> Nat] /\ r \in Nat /\ c \in Nat /\ 1 <= r /\ r <= c /\ c <= n
  BY <1>1, <1>2 DEF Shape
<1> DEFINE of(h, d) == IF d < c THEN k[d + 1] * h[d + 1] ELSE 1
           step     == [d \in 1..n |-> [h \in [1..n -> Nat] |-> of(h, d)]]
<1>4. step \in LaterSteps(Nat, n)
  <2>1. ASSUME NEW d \in 1..n, NEW h \in [1..n -> Nat] PROVE of(h, d) \in Nat
    <3>1. CASE d < c
      <4>1. d + 1 \in 1..n
        BY <1>3, <3>1
      <4>2. h[d + 1] \in Nat /\ k[d + 1] \in Nat
        BY <1>3, <4>1
      <4>3. QED
        BY <3>1, <4>2
    <3>2. CASE ~(d < c)
      BY <3>2
    <3>3. QED
      BY <3>1, <3>2
  <2>2. ASSUME NEW d \in 1..n, NEW g \in [1..n -> Nat], NEW h \in [1..n -> Nat], \A j \in d + 1..n : g[j] = h[j]
        PROVE  of(g, d) = of(h, d)
    <3>1. d < c => d + 1 \in d + 1..n
      BY <1>3
    <3>2. QED
      BY <2>2, <3>1
  <2> HIDE DEF of
  <2>3. QED
    BY <2>1, <2>2 DEF LaterSteps
<1>5. PICK W \in [1..n -> Nat] : \A d \in 1..n : W[d] = step[d][W]
  <2> DEFINE V == Nat
  <2>1. 0 \in V
    OBVIOUS
  <2> HIDE DEF step, V
  <2>2. step \in LaterSteps(V, n)
    BY <1>4 DEF V
  <2>3. \E g \in [1..n -> V] : \A i \in 1..n : g[i] = step[i][g]
    BY <2>1, <2>2, RecursionFromLater
  <2>4. QED
    BY <2>3 DEF V
<1>6. \A d \in 1..n : W[d] = of(W, d)
  <2> HIDE DEF of
  <2>1. QED
    BY <1>5
<1>7. \A d \in c..n : W[d] = 1
  BY <1>3, <1>6
<1>8. ASSUME NEW d \in r + 1..c PROVE W[d - 1] = levels[d].count * W[d]
  <2>1. d - 1 \in 1..n /\ d - 1 < c /\ (d - 1) + 1 = d /\ d \in 1..n
    BY <1>3
  <2>2. QED
    BY <1>2, <1>6, <2>1
<1>9. QED
  BY <1>1, <1>5, <1>7, <1>8 DEF Weights

LEMMA LongerRun ==
    ASSUME NEW it, it \in Seq(Nat)
    PROVE  /\ Len(it) \in Nat /\ Append(it, 0) \in Seq(Nat) /\ Len(Append(it, 0)) = Len(it) + 1
           /\ Append(it, 0)[Len(it) + 1] = 0 /\ \A d \in 1..Len(it) : Append(it, 0)[d] = it[d]
OBVIOUS

-----------------------------------------------------------------------------
(* What each step of the execution does to the index.                      *)

\* A level begins with its first iteration.
LEMMA Entering ==
    ASSUME NEW loops, NEW levels, NEW r, NEW c, NEW it, NEW x,
           Shape(levels, r, c), IsPlace(levels, it), Len(it) < Len(levels),
           ~Fails(loops, levels, it, Len(it)), Indexed(loops, levels, r, c, it, FALSE, x)
    PROVE  /\ IsPlace(levels, Append(it, 0))
           /\ Indexed(loops, levels, r, c, Append(it, 0), FALSE, IF levels[Len(it) + 1].resets THEN 0 ELSE x)
<1>1. PICK n \in Nat : n = Len(it)
  BY DEF IsPlace
<1>2. PICK D \in Nat : D = Len(levels)
  BY DEF Shape
<1>3. PICK u : u = Append(it, 0)
  OBVIOUS
<1>4. u \in Seq(Nat) /\ Len(u) = n + 1 /\ u[n + 1] = 0 /\ \A d \in 1..n : u[d] = it[d]
  BY <1>1, <1>3, LongerRun DEF IsPlace
<1>5. n + 1 \in 1..D /\ n + 1 <= D
  BY <1>1, <1>2
<1>6. r \in Nat /\ c \in Nat /\ 1 <= r /\ r <= c /\ c <= D
  BY <1>2 DEF Shape
<1>7. levels[n + 1].count \in Nat \ {0} /\ (levels[n + 1].resets <=> n + 1 = r)
  BY <1>2, <1>5 DEF Shape
<1>8. IsPlace(levels, u)
  <2>1. \A d \in 1..n : it[d] < levels[d].count
    BY <1>1 DEF IsPlace
  <2>2. \A d \in 1..n + 1 : u[d] < levels[d].count
    <3>1. ASSUME NEW d \in 1..n + 1 PROVE u[d] < levels[d].count
      <4>1. d \in 1..n \/ d = n + 1
        OBVIOUS
      <4>2. QED
        BY <1>4, <1>7, <2>1, <4>1
    <3>2. QED
      BY <3>1
  <2>3. QED
    BY <1>2, <1>4, <1>5, <2>2 DEF IsPlace
<1> SUFFICES Indexed(loops, levels, r, c, u, FALSE, IF n + 1 = r THEN 0 ELSE x)
  <2>1. (IF levels[n + 1].resets THEN 0 ELSE x) = IF n + 1 = r THEN 0 ELSE x
    BY <1>7
  <2>2. QED
    BY <1>1, <1>3, <1>8, <2>1
<1>9. CASE n + 1 < r
  <2>1. ~(Len(u) >= r)
    BY <1>4, <1>6, <1>9
  <2>2. QED
    BY <2>1 DEF Indexed
<1>10. CASE n + 1 = r
  <2>1. PICK W : Weights(W, levels, r, c)
    BY WeightsExist
  <2>2. PICK h : h = [d \in 0..n + 1 |-> 0]
    OBVIOUS
  <2>3. 0 * levels[r].count + u[r] = 0
    BY <1>4, <1>7, <1>10
  <2>4. Ranks(h, levels, r, c, u)
    <3>1. h \in [0..n + 1 -> Nat] /\ \A d \in 0..n + 1 : h[d] = 0
      BY <2>2
    <3>2. \A d \in 1..n + 1 : r <= d => d = r
      BY <1>10
    <3>3. \A d \in 1..n + 1 : d - 1 \in 0..n + 1 /\ d \in 0..n + 1 /\ ~(d > c)
      BY <1>6, <1>10
    <3>4. QED
      BY <1>4, <2>3, <3>1, <3>2, <3>3 DEF Ranks
  <2>5. W[n + 1] \in Nat
    BY <1>2, <1>5, <2>1 DEF Weights
  <2>6. h[n + 1] * W[n + 1] = 0
    BY <2>2, <2>5
  <2>7. Counted(levels, r, c, u, FALSE, 0)
    BY <1>4, <2>1, <2>4, <2>6 DEF Counted
  <2>8. QED
    BY <1>10, <2>7 DEF Indexed
<1>11. CASE n + 1 > r
  <2>1. n >= r /\ n + 1 # r
    BY <1>6, <1>11
  <2>2. ~PastEnd(loops, levels, r, it, FALSE)
    BY <1>1 DEF PastEnd
  <2>3. Counted(levels, r, c, it, FALSE, x)
    BY <1>1, <2>1, <2>2 DEF Indexed
  <2>4. PICK W, g : Weights(W, levels, r, c) /\ Ranks(g, levels, r, c, it) /\ x = g[n] * W[n]
    BY <1>1, <2>3 DEF Counted
  <2>5. g \in [0..n -> Nat]
    BY <1>1, <2>4 DEF Ranks
  <2>6. PICK m \in Nat : m = levels[n + 1].count
    BY <1>7
  <2>7. PICK q \in Nat : q = g[n]
    <3>1. n \in 0..n
      OBVIOUS
    <3>2. QED
      BY <2>5, <3>1
  <2>8. PICK y \in Nat : y = IF n + 1 <= c THEN q * m + 0 ELSE q
    OBVIOUS
  <2>9. PICK h : h = [d \in 0..n + 1 |-> IF d = n + 1 THEN y ELSE g[d]]
    OBVIOUS
  <2>10. h \in [0..n + 1 -> Nat] /\ h[n + 1] = y /\ \A d \in 0..n : h[d] = g[d]
    <3>1. \A d \in 0..n + 1 : d # n + 1 => d \in 0..n
      OBVIOUS
    <3>2. n + 1 \in 0..n + 1 /\ \A d \in 0..n : d # n + 1 /\ d \in 0..n + 1
      OBVIOUS
    <3>3. QED
      BY <2>5, <2>9, <3>1, <3>2
  <2>11. Ranks(h, levels, r, c, u)
    <3>1. ASSUME NEW d \in 0..n + 1, d < r PROVE h[d] = 0
      <4>1. d \in 0..n
        BY <1>6, <2>1, <3>1
      <4>2. QED
        BY <1>1, <2>4, <2>10, <3>1, <4>1 DEF Ranks
    <3>2. ASSUME NEW d \in 1..n + 1, r <= d, d <= c PROVE h[d] = h[d - 1] * levels[d].count + u[d]
      <4>1. CASE d = n + 1
        <5>1. d - 1 = n /\ n \in 0..n
          BY <4>1
        <5>2. QED
          BY <1>4, <2>6, <2>7, <2>8, <2>10, <3>2, <4>1, <5>1
      <4>2. CASE d # n + 1
        <5>1. d \in 1..n /\ d \in 0..n /\ d - 1 \in 0..n
          BY <4>2
        <5>2. g[d] = g[d - 1] * levels[d].count + it[d]
          BY <1>1, <2>4, <3>2, <5>1 DEF Ranks
        <5>3. QED
          BY <1>4, <2>10, <5>1, <5>2
      <4>3. QED
        BY <4>1, <4>2
    <3>3. ASSUME NEW d \in 1..n + 1, d > c PROVE h[d] = h[d - 1]
      <4>1. CASE d = n + 1
        <5>1. d - 1 = n /\ n \in 0..n /\ ~(d <= c)
          BY <1>6, <3>3, <4>1
        <5>2. QED
          BY <2>7, <2>8, <2>10, <4>1, <5>1
      <4>2. CASE d # n + 1
        <5>1. d \in 1..n /\ d \in 0..n /\ d - 1 \in 0..n
          BY <4>2
        <5>2. g[d] = g[d - 1]
          BY <1>1, <2>4, <3>3, <5>1 DEF Ranks
        <5>3. QED
          BY <2>10, <5>1, <5>2
      <4>3. QED
        BY <4>1, <4>2
    <3>4. QED
      BY <1>4, <2>10, <3>1, <3>2, <3>3 DEF Ranks
  <2>12. h[n + 1] * W[n + 1] = x
    <3>1. n \in 1..D
      BY <1>6, <1>5, <2>1
    <3>2. PICK w \in Nat : w = W[n + 1]
      BY <1>2, <1>5, <2>4 DEF Weights
    <3>3. CASE n + 1 <= c
      <4>1. n + 1 \in r + 1..c /\ (n + 1) - 1 = n
        BY <1>6, <2>1, <3>3
      <4>2. W[n] = m * w
        BY <2>4, <2>6, <3>2, <4>1 DEF Weights
      <4>3. (q * m + 0) * w = q * (m * w)
        OBVIOUS
      <4>4. QED
        BY <2>4, <2>7, <2>8, <2>10, <3>2, <3>3, <4>2, <4>3
    <3>4. CASE ~(n + 1 <= c)
      <4>1. n \in c..D /\ n + 1 \in c..D
        BY <1>5, <1>6, <3>4
      <4>2. W[n] = 1 /\ W[n + 1] = 1
        BY <1>2, <2>4, <4>1 DEF Weights
      <4>3. QED
        BY <2>4, <2>7, <2>8, <2>10, <3>4, <4>2
    <3>5. QED
      BY <3>3, <3>4
  <2>13. Counted(levels, r, c, u, FALSE, x)
    BY <1>4, <2>4, <2>11, <2>12 DEF Counted
  <2>14. QED
    BY <2>1, <2>13 DEF Indexed
<1>12. n + 1 < r \/ n + 1 = r \/ n + 1 > r
  BY <1>6
<1>13. QED
  BY <1>9, <1>10, <1>11, <1>12

\* At the end of a body nothing is counted yet.
LEMMA Ending ==
    ASSUME NEW loops, NEW levels, NEW r, NEW c, NEW it, NEW x,
           Shape(levels, r, c), Tiles(loops, levels, r, c), IsPlace(levels, it),
           Fails(loops, levels, it, Len(it)) \/ Len(it) = Len(levels),
           Indexed(loops, levels, r, c, it, FALSE, x)
    PROVE  Indexed(loops, levels, r, c, it, TRUE, x)
<1>1. PICK n \in Nat : n = Len(it)
  BY DEF IsPlace
<1>2. PICK D \in Nat : D = Len(levels)
  BY DEF Shape
<1>3. n <= D
  BY <1>1, <1>2 DEF IsPlace
<1>4. r \in Nat /\ c \in Nat /\ 1 <= r /\ r <= c /\ c <= D
  BY <1>2 DEF Shape
<1> SUFFICES ASSUME n >= r
             PROVE  PastEnd(loops, levels, r, it, TRUE) \/ Counted(levels, r, c, it, TRUE, x)
  BY <1>1 DEF Indexed
<1>5. CASE PastEnd(loops, levels, r, it, FALSE)
  BY <1>5 DEF PastEnd
<1>6. CASE Fails(loops, levels, it, n) /\ (n = r \/ n = r + 1)
  BY <1>1, <1>6 DEF PastEnd
<1>7. CASE Counted(levels, r, c, it, FALSE, x) /\ ~(Fails(loops, levels, it, n) /\ (n = r \/ n = r + 1))
  <2>1. ~(n < c)
    <3>1. CASE n = D
      BY <1>4, <3>1
    <3>2. CASE Fails(loops, levels, it, n)
      <4>1. IsSecond(levels, n) /\ loops[levels[n].loop].check
        BY <3>2 DEF Fails
      <4>2. n \in 1..D
        BY <1>3, <1>4
      <4>3. ~(r + 1 < n /\ n < c)
        BY <1>2, <4>1, <4>2 DEF Tiles
      <4>4. n > r + 1
        BY <1>4, <1>7, <3>2
      <4>5. QED
        BY <1>4, <4>3, <4>4
    <3>3. QED
      BY <1>1, <1>2, <3>1, <3>2
  <2>2. PICK W, h : /\ Weights(W, levels, r, c) /\ Ranks(h, levels, r, c, it)
                    /\ x = IF FALSE /\ n < c THEN (h[n] + 1) * W[n] ELSE h[n] * W[n]
    BY <1>1, <1>7 DEF Counted
  <2>3. x = IF TRUE /\ n < c THEN (h[n] + 1) * W[n] ELSE h[n] * W[n]
    BY <2>1, <2>2
  <2>4. QED
    BY <1>1, <2>2, <2>3 DEF Counted
<1>8. QED
  BY <1>1, <1>5, <1>7, <1>6 DEF Indexed

\* The deepest body, reached with the checks of all its loops passed; the number of the place.
IsDeepest(levels, it)     == Len(it) = Len(levels)
Passes(loops, levels, it) == ~Fails(loops, levels, it, Len(it))
AtNumber(levels, r, c, it, x) == \E h : Ranks(h, levels, r, c, it) /\ x = h[Len(levels)]

\* In the deepest body the index is the number of the thread.
LEMMA AtBottom ==
    ASSUME NEW loops, NEW levels, NEW r, NEW c, NEW it, NEW x,
           Shape(levels, r, c), IsPlace(levels, it), IsDeepest(levels, it),
           Passes(loops, levels, it), Indexed(loops, levels, r, c, it, FALSE, x)
    PROVE  AtNumber(levels, r, c, it, x)
<1>0. Len(it) = Len(levels)
  BY DEF IsDeepest
<1>1. PICK D \in Nat : D = Len(levels)
  BY DEF Shape
<1>2. r \in Nat /\ c \in Nat /\ 1 <= r /\ r <= c /\ c <= D
  BY <1>1 DEF Shape
<1>3. ~PastEnd(loops, levels, r, it, FALSE)
  BY <1>0 DEF PastEnd, Passes
<1>4. Counted(levels, r, c, it, FALSE, x)
  <2>1. Len(it) >= r
    BY <1>0, <1>1, <1>2
  <2>2. QED
    BY <1>3, <2>1 DEF Indexed
<1>5. PICK W, h : Weights(W, levels, r, c) /\ Ranks(h, levels, r, c, it) /\ x = h[D] * W[D]
  BY <1>0, <1>1, <1>4 DEF Counted
<1>6. W[D] = 1
  <2>1. D \in c..Len(levels)
    BY <1>0, <1>1, <1>2
  <2>2. QED
    BY <1>5, <2>1 DEF Weights
<1>7. h[D] \in Nat
  BY <1>0, <1>1, <1>5 DEF Ranks
<1>8. QED
  BY <1>1, <1>5, <1>6, <1>7 DEF AtNumber

\* Values of a tile that are past the end of the range.
LEMMA AllPastEnd ==
    ASSUME NEW i \in Nat, NEW size \in Nat, NEW j \in Nat, NEW range \in Nat, ~(i * size + j < range)
    PROVE  ~(i * size + (j + 1) < range) /\ ~((i + 1) * size + j < range)
<1>1. i * size \in Nat /\ (i + 1) * size = i * size + size
  OBVIOUS
<1>2. QED
  BY <1>1

\* They begin in the last iteration of the first loop.
LEMMA LastOfTile ==
    ASSUME NEW i \in Nat, NEW size \in Nat \ {0}, NEW j \in Nat, NEW range \in Nat \ {0},
           j < size, ~(i * size + j < range), NEW count, count = 1 + (range - 1) \div size, i < count
    PROVE  i + 1 = count
<1>1. PICK q \in Nat : q = (range - 1) \div size
  <2>1. range - 1 \in Nat
    OBVIOUS
  <2>2. (range - 1) \div size \in Nat
    BY <2>1
  <2>3. QED
    BY <2>2
<1>2. q * size <= range - 1
  <2>1. range - 1 \in Nat
    OBVIOUS
  <2>2. q * size <= range - 1
    BY <1>1, <2>1
  <2>3. QED
    BY <2>2
<1>3. i <= q
  BY <1>1
<1>4. CASE i < q
  <2>1. PICK e \in Nat : q = i + 1 + e
    <3>1. q - i - 1 \in Nat /\ q = i + 1 + (q - i - 1)
      BY <1>4
    <3>2. QED
      BY <3>1
  <2>2. q * size = i * size + size + e * size
    BY <2>1
  <2>3. e * size \in Nat /\ i * size \in Nat
    OBVIOUS
  <2>4. QED
    BY <1>2, <2>2, <2>3
<1>5. QED
  BY <1>1, <1>3, <1>4

LEMMA AgainIn ==
    ASSUME NEW it, it \in Seq(Nat), NEW n, n = Len(it), n > 0
    PROVE  \E u : /\ u = [it EXCEPT ![n] = @ + 1]
                  /\ n \in Nat /\ u \in Seq(Nat) /\ Len(u) = n /\ u[n] = it[n] + 1
                  /\ \A d \in 1..n : d # n => u[d] = it[d]
<1>1. PICK u : u = [it EXCEPT ![n] = @ + 1]
  OBVIOUS
<1>2. n \in Nat /\ n \in 1..n /\ it[n] \in Nat
  OBVIOUS
<1>3. u \in Seq(Nat) /\ Len(u) = n /\ u[n] = it[n] + 1 /\ \A d \in 1..n : d # n => u[d] = it[d]
  <2>1. Len(u) = n /\ u[n] = it[n] + 1 /\ \A d \in 1..n : d # n => u[d] = it[d]
    BY <1>1, <1>2
  <2>2. it[n] + 1 \in Nat
    BY <1>2
  <2>3. u \in Seq(Nat)
    BY <1>1, <1>2, <2>2
  <2>4. QED
    BY <2>1, <2>3
<1>4. QED
  BY <1>1, <1>2, <1>3

\* The next iteration of a level.
LEMMA Again ==
    ASSUME NEW loops, NEW levels, NEW r, NEW c, NEW it, NEW x, NEW n \in Nat, n = Len(it), n > 0,
           Shape(levels, r, c), Tiles(loops, levels, r, c), IsPlace(levels, it),
           it[n] + 1 < levels[n].count, Indexed(loops, levels, r, c, it, TRUE, x), x \in Int,
           NEW u, u = [it EXCEPT ![n] = @ + 1],
           NEW y, y = IF levels[n].counts THEN x + 1 ELSE x
    PROVE  IsPlace(levels, u) /\ Indexed(loops, levels, r, c, u, FALSE, y)
<1>2. PICK D \in Nat : D = Len(levels)
  BY DEF Shape
<1>3. n <= D /\ n \in 1..D /\ n \in 1..n
  BY <1>2 DEF IsPlace
<1>4. r \in Nat /\ c \in Nat /\ 1 <= r /\ r <= c /\ c <= D
  BY <1>2 DEF Shape
<1>5. u \in Seq(Nat) /\ Len(u) = n /\ u[n] = it[n] + 1 /\ \A d \in 1..n : d # n => u[d] = it[d]
  BY AgainIn DEF IsPlace
<1>6. \A d \in 1..n : it[d] \in Nat
  BY DEF IsPlace
<1>7. IsPlace(levels, u)
  <2>1. ASSUME NEW d \in 1..n PROVE u[d] < levels[d].count
    <3>1. CASE d = n
      BY <1>5, <3>1
    <3>2. CASE d # n
      BY <1>5, <3>2 DEF IsPlace
    <3>3. QED
      BY <3>1, <3>2
  <2>2. QED
    BY <1>3, <1>5, <2>1, <1>2 DEF IsPlace
<1> SUFFICES ASSUME n >= r
             PROVE  PastEnd(loops, levels, r, u, FALSE) \/ Counted(levels, r, c, u, FALSE, y)
  BY <1>5, <1>7 DEF Indexed
<1>8. CASE PastEnd(loops, levels, r, it, TRUE)
  <2>1. ~(n = r /\ it[r] + 1 = levels[r].count)
    <3>1. levels[n].count \in Nat
      BY <1>2, <1>3 DEF Shape
    <3>2. QED
      BY <1>3, <1>6, <3>1
  <2>2. (n = r \/ n = r + 1) /\ Fails(loops, levels, it, n)
    BY <1>8, <2>1 DEF PastEnd
  <2>3. IsSecond(levels, n) /\ loops[levels[n].loop].check
    BY <2>2 DEF Fails
  <2>4. TileOf(loops, levels, n)
    BY <1>2, <1>3, <2>3 DEF Tiles
  <2>5. PICK range \in Nat, size \in Nat : range = loops[levels[n].loop].range /\ size = loops[levels[n].loop].tileSize
    BY <2>4 DEF TileOf
  <2>6. n - 1 \in 1..n /\ n - 1 # n
    BY <1>3, <2>3 DEF IsSecond
  <2>7. PICK i \in Nat, j \in Nat : i = it[n - 1] /\ j = it[n]
    BY <1>3, <1>6, <2>6
  <2>8. ~(i * size + j < range)
    BY <2>2, <2>5, <2>7 DEF Fails
  <2>9. u[n - 1] = i /\ u[n] = j + 1
    BY <1>5, <2>6, <2>7
  <2>10. ~(i * size + (j + 1) < range)
    BY <2>8, AllPastEnd
  <2>11. Fails(loops, levels, u, n)
    BY <2>3, <2>5, <2>9, <2>10 DEF Fails
  <2>12. QED
    BY <1>5, <2>2, <2>11 DEF PastEnd
<1>9. CASE Counted(levels, r, c, it, TRUE, x)
  <2>1. PICK W, g : /\ Weights(W, levels, r, c) /\ Ranks(g, levels, r, c, it)
                    /\ x = IF n < c THEN (g[n] + 1) * W[n] ELSE g[n] * W[n]
    BY <1>9 DEF Counted
  <2>2. g \in [0..n -> Nat] /\ n \in 0..n /\ n - 1 \in 0..n
    BY <1>3, <2>1 DEF Ranks
  <2>3. PICK q \in Nat : q = g[n]
    BY <2>2
  <2>4. PICK w \in Nat : w = W[n]
    BY <1>2, <1>3, <2>1 DEF Weights
  <2>5. PICK z \in Nat : z = IF n <= c THEN q + 1 ELSE q
    OBVIOUS
  <2>6. PICK h : h = [g EXCEPT ![n] = z]
    OBVIOUS
  <2>7. h \in [0..n -> Nat] /\ h[n] = z /\ \A d \in 0..n : d # n => h[d] = g[d]
    BY <2>2, <2>6
  <2>8. Ranks(h, levels, r, c, u)
    <3>1. ASSUME NEW d \in 0..n, d < r PROVE h[d] = 0
      <4>1. d # n
        BY <1>4, <3>1
      <4>2. QED
        BY <2>1, <2>7, <3>1, <4>1 DEF Ranks
    <3>2. ASSUME NEW d \in 1..n, r <= d, d <= c PROVE h[d] = h[d - 1] * levels[d].count + u[d]
      <4>1. d \in 0..n /\ d - 1 \in 0..n /\ d - 1 # n
        OBVIOUS
      <4>2. g[d] = g[d - 1] * levels[d].count + it[d] /\ h[d - 1] = g[d - 1]
        BY <2>1, <2>7, <3>2, <4>1 DEF Ranks
      <4>3. CASE d = n
        <5>1. PICK v \in Nat : v = g[d - 1] * levels[d].count
          <6>1. g[d - 1] \in Nat /\ levels[d].count \in Nat
            BY <1>2, <1>3, <2>2, <4>1, <4>3 DEF Shape
          <6>2. QED
            BY <6>1
        <5>2. q = v + it[n] /\ z = q + 1
          BY <2>3, <2>5, <3>2, <4>2, <4>3, <5>1
        <5>3. h[d - 1] * levels[d].count = v
          BY <4>2, <5>1
        <5>4. z = v + u[n]
          BY <1>3, <1>5, <1>6, <5>2
        <5>5. QED
          BY <2>7, <4>3, <5>3, <5>4
      <4>4. CASE d # n
        BY <1>5, <2>7, <4>1, <4>2, <4>4
      <4>5. QED
        BY <4>3, <4>4
    <3>3. ASSUME NEW d \in 1..n, d > c PROVE h[d] = h[d - 1]
      <4>1. d \in 0..n /\ d - 1 \in 0..n /\ d - 1 # n
        OBVIOUS
      <4>2. g[d] = g[d - 1] /\ h[d - 1] = g[d - 1]
        BY <2>1, <2>7, <3>3, <4>1 DEF Ranks
      <4>3. CASE d = n
        <5>1. ~(n <= c)
          BY <1>4, <3>3, <4>3
        <5>2. QED
          BY <2>3, <2>5, <2>7, <4>2, <4>3, <5>1
      <4>4. CASE d # n
        BY <2>7, <4>1, <4>2, <4>4
      <4>5. QED
        BY <4>3, <4>4
    <3>4. QED
      BY <1>5, <2>7, <3>1, <3>2, <3>3 DEF Ranks
  <2>9. levels[n].counts <=> n = c
    BY <1>2, <1>3 DEF Shape
  <2>10. y = z * w
    <3>1. CASE n < c
      <4>1. y = (q + 1) * w
        BY <1>4, <2>1, <2>3, <2>4, <2>9, <3>1
      <4>2. z = q + 1
        BY <1>4, <2>5, <3>1
      <4>3. QED
        BY <4>1, <4>2
    <3>2. CASE n = c
      <4>1. w = 1
        <5>1. n \in c..Len(levels)
          BY <1>2, <1>3, <1>4, <3>2
        <5>2. QED
          BY <2>1, <2>4, <5>1 DEF Weights
      <4>2. x = q * w
        BY <1>4, <2>1, <2>3, <2>4, <3>2
      <4>3. z = q + 1 /\ y = x + 1
        BY <1>4, <2>5, <2>9, <3>2
      <4>4. QED
        BY <4>1, <4>2, <4>3
    <3>3. CASE n > c
      <4>1. ~(n < c) /\ n # c /\ ~(n <= c)
        BY <1>4, <3>3
      <4>2. QED
        BY <2>1, <2>3, <2>4, <2>5, <2>9, <4>1
    <3>4. n < c \/ n = c \/ n > c
      BY <1>4
    <3>5. QED
      BY <3>1, <3>2, <3>3, <3>4
  <2>11. y = h[n] * W[n]
    BY <2>4, <2>7, <2>10
  <2>12. y = IF FALSE /\ n < c THEN (h[n] + 1) * W[n] ELSE h[n] * W[n]
    BY <2>11
  <2>13. QED
    BY <1>5, <2>1, <2>8, <2>12 DEF Counted
<1>10. QED
  BY <1>8, <1>9 DEF Indexed

LEMMA FrontOf ==
    ASSUME NEW it, it \in Seq(Nat), NEW m \in Nat, m + 1 = Len(it)
    PROVE  Front(it) \in Seq(Nat) /\ Len(Front(it)) = m /\ \A d \in 1..m : Front(it)[d] = it[d]
<1>1. m = Len(it) - 1 /\ Len(it) \in Nat
  OBVIOUS
<1>2. Front(it) = SubSeq(it, 1, m)
  BY <1>1 DEF Front
<1>3. QED
  BY <1>1, <1>2

LEMMA LastDigit ==
    ASSUME NEW q \in Nat, NEW k \in Nat, NEW i \in Nat, i + 1 = k, NEW w \in Nat
    PROVE  (q * k + i + 1) * w = (q + 1) * (k * w)
<1>1. q * k + i + 1 = (q + 1) * k
  <2>1. (q + 1) * k = q * k + k
    OBVIOUS
  <2>2. q * k \in Nat
    OBVIOUS
  <2>3. QED
    BY <2>1, <2>2
<1>2. ((q + 1) * k) * w = (q + 1) * (k * w)
  OBVIOUS
<1>3. QED
  BY <1>1, <1>2

\* The end of a level.
LEMMA Leave ==
    ASSUME NEW loops, NEW levels, NEW r, NEW c, NEW it, NEW x, NEW n \in Nat, n = Len(it), n > 0,
           Shape(levels, r, c), Tiles(loops, levels, r, c), IsPlace(levels, it),
           ~(it[n] + 1 < levels[n].count), Indexed(loops, levels, r, c, it, TRUE, x), x \in Int,
           NEW u, u = Front(it),
           NEW y, y = IF levels[n].counts THEN x + 1 ELSE x
    PROVE  IsPlace(levels, u) /\ Indexed(loops, levels, r, c, u, TRUE, y)
<1>1. PICK m \in Nat : m = n - 1
  OBVIOUS
<1>2. PICK D \in Nat : D = Len(levels)
  BY DEF Shape
<1>3. n <= D /\ n \in 1..D /\ n \in 1..n /\ m + 1 = n /\ m <= D
  BY <1>1, <1>2 DEF IsPlace
<1>4. r \in Nat /\ c \in Nat /\ 1 <= r /\ r <= c /\ c <= D
  BY <1>2 DEF Shape
<1>5. u \in Seq(Nat) /\ Len(u) = m /\ \A d \in 1..m : u[d] = it[d]
  BY <1>3, FrontOf DEF IsPlace
<1>6. \A d \in 1..n : it[d] \in Nat
  BY DEF IsPlace
<1>7. \A d \in 1..m : d \in 1..n
  BY <1>1
<1>8. IsPlace(levels, u)
  <2>1. \A d \in 1..m : u[d] < levels[d].count
    BY <1>5, <1>7 DEF IsPlace
  <2>2. QED
    BY <1>2, <1>3, <1>5, <2>1 DEF IsPlace
<1>9. PICK k \in Nat, i \in Nat : k = levels[n].count /\ i = it[n] /\ i + 1 = k
  <2>1. levels[n].count \in Nat /\ it[n] \in Nat /\ it[n] < levels[n].count
    BY <1>2, <1>3, <1>6 DEF Shape, IsPlace
  <2>2. QED
    BY <2>1
<1> SUFFICES ASSUME m >= r
             PROVE  PastEnd(loops, levels, r, u, TRUE) \/ Counted(levels, r, c, u, TRUE, y)
  BY <1>5, <1>8 DEF Indexed
<1>10. m \in 1..m /\ m \in 1..n /\ n > r /\ n >= r /\ n # r
  BY <1>1, <1>4
<1>11. CASE PastEnd(loops, levels, r, it, TRUE)
  <2>1. n = r + 1 /\ Fails(loops, levels, it, n)
    BY <1>10, <1>11 DEF PastEnd
  <2>2. m = r
    BY <1>1, <1>4, <2>1
  <2>3. IsSecond(levels, n)
    BY <2>1 DEF Fails
  <2>4. TileOf(loops, levels, n)
    BY <1>2, <1>3, <2>3 DEF Tiles
  <2>5. PICK range \in Nat \ {0}, size \in Nat \ {0} :
            range = loops[levels[n].loop].range /\ size = loops[levels[n].loop].tileSize
    BY <2>4 DEF TileOf
  <2>6. PICK j \in Nat : j = it[m]
    BY <1>6, <1>10
  <2>7. n - 1 = m
    BY <1>1
  <2>8. ~(j * size + i < range)
    BY <1>9, <2>1, <2>5, <2>6, <2>7 DEF Fails
  <2>9. levels[m].count = 1 + (range - 1) \div size /\ k = size
    BY <1>9, <2>4, <2>5, <2>7 DEF TileOf
  <2>10. i < size
    BY <1>9, <2>9
  <2>11. j < levels[m].count
    BY <1>10, <2>6 DEF IsPlace
  <2>12. j + 1 = levels[m].count
    BY <2>8, <2>9, <2>10, <2>11, LastOfTile
  <2>13. u[m] = j
    BY <1>5, <1>10, <2>6
  <2>14. QED
    BY <1>5, <2>2, <2>12, <2>13 DEF PastEnd
<1>12. CASE Counted(levels, r, c, it, TRUE, x)
  <2>1. PICK W, g : /\ Weights(W, levels, r, c) /\ Ranks(g, levels, r, c, it)
                    /\ x = IF n < c THEN (g[n] + 1) * W[n] ELSE g[n] * W[n]
    BY <1>12 DEF Counted
  <2>2. g \in [0..n -> Nat] /\ n \in 0..n /\ m \in 0..n /\ n - 1 = m
    BY <1>1, <1>3, <2>1 DEF Ranks
  <2>3. PICK q \in Nat : q = g[m]
    BY <2>2
  <2>4. PICK p \in Nat : p = g[n]
    BY <2>2
  <2>5. PICK w \in Nat : w = W[n]
    BY <1>2, <1>3, <2>1 DEF Weights
  <2>6. PICK h : h = [d \in 0..m |-> g[d]]
    OBVIOUS
  <2>7. h \in [0..m -> Nat] /\ \A d \in 0..m : h[d] = g[d]
    <3>1. \A d \in 0..m : d \in 0..n
      BY <1>1
    <3>2. QED
      BY <2>2, <2>6, <3>1
  <2>8. Ranks(h, levels, r, c, u)
    <3>1. \A d \in 0..m : d \in 0..n
      BY <1>1
    <3>2. \A d \in 1..m : d \in 1..n /\ d \in 0..m /\ d - 1 \in 0..m
      BY <1>1
    <3>3. \A d \in 0..m : d < r => h[d] = 0
      BY <2>1, <2>7, <3>1 DEF Ranks
    <3>4. ASSUME NEW d \in 1..m, r <= d, d <= c PROVE h[d] = h[d - 1] * levels[d].count + u[d]
      <4>1. g[d] = g[d - 1] * levels[d].count + it[d]
        BY <2>1, <3>2, <3>4 DEF Ranks
      <4>2. QED
        BY <1>5, <2>7, <3>2, <4>1
    <3>5. ASSUME NEW d \in 1..m, d > c PROVE h[d] = h[d - 1]
      <4>1. g[d] = g[d - 1]
        BY <2>1, <3>2, <3>5 DEF Ranks
      <4>2. QED
        BY <2>7, <3>2, <4>1
    <3>6. QED
      BY <1>5, <2>7, <3>3, <3>4, <3>5 DEF Ranks
  <2>9. levels[n].counts <=> n = c
    BY <1>2, <1>3 DEF Shape
  <2>10. y = IF m < c THEN (q + 1) * W[m] ELSE q * W[m]
    <3>1. CASE n <= c
      <4>1. p = q * k + i
        <5>1. r <= n
          BY <1>10, <1>4
        <5>2. g[n] = g[n - 1] * levels[n].count + it[n]
          BY <1>3, <2>1, <3>1, <5>1 DEF Ranks
        <5>3. QED
          BY <1>9, <2>2, <2>3, <2>4, <5>2
      <4>2. W[m] = k * w
        <5>1. n \in r + 1..c
          BY <1>4, <1>10, <3>1
        <5>2. QED
          BY <1>9, <2>1, <2>2, <2>5, <5>1 DEF Weights
      <4>3. y = (p + 1) * w
        <5>1. CASE n < c
          BY <1>4, <2>1, <2>4, <2>5, <2>9, <5>1
        <5>2. CASE n = c
          <6>1. w = 1
            <7>1. n \in c..Len(levels)
              BY <1>2, <1>3, <1>4, <5>2
            <7>2. QED
              BY <2>1, <2>5, <7>1 DEF Weights
          <6>2. x = p * w /\ y = x + 1
            BY <1>4, <2>1, <2>4, <2>5, <2>9, <5>2
          <6>3. QED
            BY <6>1, <6>2
        <5>3. QED
          BY <1>4, <3>1, <5>1, <5>2
      <4>4. (p + 1) * w = (q + 1) * (k * w)
        <5>1. (q * k + i + 1) * w = (q + 1) * (k * w)
          <6>1. i + 1 = k /\ q \in Nat /\ k \in Nat /\ i \in Nat /\ w \in Nat
            BY <1>9
          <6>2. \A a, b, e, f \in Nat : e + 1 = b => (a * b + e + 1) * f = (a + 1) * (b * f)
            BY LastDigit
          <6>3. QED
            BY ONLY <6>1, <6>2, SMT
        <5>2. QED
          BY <4>1, <5>1
      <4>5. m < c
        BY <1>1, <1>4, <3>1
      <4>6. QED
        BY <4>2, <4>3, <4>4, <4>5
    <3>2. CASE n > c
      <4>1. ~(n < c) /\ n # c /\ ~(m < c)
        BY <1>1, <1>4, <3>2
      <4>2. y = p * w
        BY <2>1, <2>4, <2>5, <2>9, <4>1
      <4>3. p = q
        BY <1>3, <2>1, <2>2, <2>3, <2>4, <3>2 DEF Ranks
      <4>4. W[m] = 1 /\ w = 1
        <5>1. n \in c..Len(levels) /\ m \in c..Len(levels)
          BY <1>2, <1>3, <1>4, <4>1
        <5>2. QED
          BY <2>1, <2>5, <5>1 DEF Weights
      <4>5. QED
        BY <4>1, <4>2, <4>3, <4>4
    <3>3. n <= c \/ n > c
      BY <1>4
    <3>4. QED
      BY <3>1, <3>2, <3>3
  <2>11. m \in 0..m /\ h[m] = q
    BY <2>3, <2>7
  <2>12. y = IF TRUE /\ m < c THEN (h[m] + 1) * W[m] ELSE h[m] * W[m]
    BY <2>10, <2>11
  <2>13. QED
    BY <1>5, <2>1, <2>8, <2>12 DEF Counted
<1>13. QED
  BY <1>10, <1>11, <1>12 DEF Indexed

-----------------------------------------------------------------------------
(* The levels of a nest.                                                   *)

\* The levels of loop i begin after start[i] others.
Starts(start, s, n, L) ==
    /\ start \in [1..n + 1 -> Nat] /\ start[1] = 0 /\ start[n + 1] = Len(L)
    /\ \A i \in 1..n : start[i + 1] = start[i] + Len(s[i])
    /\ \A i \in 1..n : \A k \in 1..Len(s[i]) : L[start[i] + k] = s[i][k]

\* The i-th of the sequences s, in the join of the first m of them.
JoinedAt(h, s, i, m) ==
    /\ Len(h[i]) = Len(h[i - 1]) + Len(s[i]) /\ Len(h[i]) <= Len(h[m])
    /\ \A k \in 1..Len(s[i]) : h[m][Len(h[i - 1]) + k] = s[i][k]

LEMMA StartsExist ==
    ASSUME NEW V, NEW n \in Nat, NEW s \in [1..n -> Seq(V)], NEW h \in [0..n -> Seq(V)], Joins(h, s, n)
    PROVE  \E start : Starts(start, s, n, h[n])
<1> DEFINE S == {m \in Nat : m <= n => \A i \in 1..m : JoinedAt(h, s, i, m)}
<1>1. 0 \in S
  OBVIOUS
<1>2. ASSUME NEW m \in Nat, m \in S PROVE m + 1 \in S
  <2> SUFFICES ASSUME m + 1 <= n PROVE \A i \in 1..m + 1 : JoinedAt(h, s, i, m + 1)
    OBVIOUS
  <2>1. \A i \in 1..m : JoinedAt(h, s, i, m)
    BY <1>2
  <2>2. m + 1 \in 1..n /\ (m + 1) - 1 = m /\ m \in 0..n /\ m + 1 \in 0..n
    OBVIOUS
  <2>3. PICK t \in Seq(V) : t = h[m]
    BY <2>2
  <2>4. PICK u \in Seq(V) : u = s[m + 1]
    BY <2>2
  <2>5. h[m + 1] = t \o u
    BY <2>2, <2>3, <2>4 DEF Joins
  <2>6. /\ Len(t \o u) = Len(t) + Len(u)
        /\ \A j \in 1..Len(t) : (t \o u)[j] = t[j]
        /\ \A j \in 1..Len(u) : (t \o u)[Len(t) + j] = u[j]
    OBVIOUS
  <2>7. ASSUME NEW i \in 1..m
        PROVE  JoinedAt(h, s, i, m + 1)
    <3>1. PICK a \in Nat, b \in Nat : a = Len(h[i - 1]) /\ b = Len(s[i])
      <4>1. i - 1 \in 0..n /\ i \in 1..n
        OBVIOUS
      <4>2. h[i - 1] \in Seq(V) /\ s[i] \in Seq(V)
        BY <4>1
      <4>3. QED
        BY <4>2
    <3>2. Len(h[i]) = a + b /\ a + b <= Len(t) /\ \A k \in 1..b : t[a + k] = s[i][k]
      BY <2>1, <2>3, <3>1 DEF JoinedAt
    <3>3. \A k \in 1..b : a + k \in 1..Len(t)
      BY <3>2
    <3>4. \A k \in 1..b : h[m + 1][a + k] = s[i][k]
      BY <2>5, <2>6, <3>2, <3>3
    <3>5. a + b <= Len(h[m + 1])
      BY <2>5, <2>6, <3>2
    <3>6. QED
      BY <3>1, <3>2, <3>4, <3>5 DEF JoinedAt
  <2>8. /\ Len(h[m + 1]) = Len(h[m]) + Len(s[m + 1])
        /\ \A k \in 1..Len(s[m + 1]) : h[m + 1][Len(h[m]) + k] = s[m + 1][k]
    BY <2>3, <2>4, <2>5, <2>6
  <2>9. Len(h[m + 1]) \in Nat
    BY <2>2
  <2>10. ASSUME NEW i \in 1..m + 1
         PROVE  JoinedAt(h, s, i, m + 1)
    <3>1. CASE i \in 1..m
      BY <2>7, <3>1
    <3>2. CASE i = m + 1
      <4>1. m + 1 - 1 = m /\ Len(h[m + 1]) <= Len(h[m + 1])
        BY <2>9
      <4>2. JoinedAt(h, s, m + 1, m + 1)
        BY <2>8, <4>1 DEF JoinedAt
      <4>3. QED
        BY <3>2, <4>2
    <3>3. QED
      BY <3>1, <3>2
  <2>11. QED
    BY <2>10
<1>3. n \in S
  <2> HIDE DEF S
  <2>1. QED
    BY <1>1, <1>2, SetInduction
<1>4. \A i \in 1..n : JoinedAt(h, s, i, n)
  BY <1>3
<1> HIDE DEF S
<1>5. PICK start : start = [i \in 1..n + 1 |-> Len(h[i - 1])]
  OBVIOUS
<1>6. start \in [1..n + 1 -> Nat]
  <2>1. ASSUME NEW i \in 1..n + 1 PROVE Len(h[i - 1]) \in Nat
    <3>1. i - 1 \in 0..n
      OBVIOUS
    <3>2. h[i - 1] \in Seq(V)
      BY <3>1
    <3>3. QED
      BY <3>2
  <2>2. QED
    BY <1>5, <2>1
<1>7. start[1] = 0 /\ start[n + 1] = Len(h[n])
  <2>1. 1 \in 1..n + 1 /\ n + 1 \in 1..n + 1 /\ 1 - 1 = 0 /\ (n + 1) - 1 = n
    OBVIOUS
  <2>2. h[0] = <<>>
    BY DEF Joins
  <2>3. start[1] = Len(h[0]) /\ start[n + 1] = Len(h[n])
    BY <1>5, <2>1
  <2>4. QED
    BY <2>2, <2>3
<1>8. ASSUME NEW i \in 1..n
      PROVE  /\ start[i + 1] = start[i] + Len(s[i])
             /\ \A k \in 1..Len(s[i]) : h[n][start[i] + k] = s[i][k]
  <2>1. i \in 1..n + 1 /\ i + 1 \in 1..n + 1 /\ (i + 1) - 1 = i
    OBVIOUS
  <2>2. start[i] = Len(h[i - 1]) /\ start[i + 1] = Len(h[i])
    BY <1>5, <2>1
  <2>3. QED
    BY <1>4, <2>2 DEF JoinedAt
<1>9. QED
  BY <1>6, <1>7, <1>8 DEF Starts

\* Levels are those of the loops, in their order.
LEMMA LevelOfLoop ==
    ASSUME NEW n \in Nat, NEW s, NEW L, NEW start, Starts(start, s, n, L),
           \A i \in 1..n : Len(s[i]) \in Nat
    PROVE  /\ \A i \in 1..n, j \in 1..n : i < j => start[i] + Len(s[i]) <= start[j]
           /\ \A i \in 1..n : start[i] + Len(s[i]) <= Len(L)
           /\ \A d \in 1..Len(L) : \E i \in 1..n : \E k \in 1..Len(s[i]) : d = start[i] + k
<1>0. PICK e : e = start
  OBVIOUS
<1>1. /\ e \in [1..n + 1 -> Nat] /\ e[1] = 0 /\ e[n + 1] = Len(L)
      /\ \A i \in 1..n : e[i + 1] = e[i] + Len(s[i])
  BY <1>0 DEF Starts
<1>2. ASSUME NEW i \in 1..n PROVE \A j \in 1..n + 1 : i < j => e[i] + Len(s[i]) <= e[j]
  <2> DEFINE S == {m \in Nat : i + 1 + m <= n + 1 => e[i] + Len(s[i]) <= e[i + 1 + m]}
  <2>1. 0 \in S
    <3>1. i + 1 + 0 = i + 1 /\ e[i + 1] = e[i] + Len(s[i]) /\ e[i + 1] \in Nat
      BY <1>1
    <3>2. QED
      BY <3>1
  <2>2. ASSUME NEW m \in Nat, m \in S PROVE m + 1 \in S
    <3> SUFFICES ASSUME i + 1 + (m + 1) <= n + 1 PROVE e[i] + Len(s[i]) <= e[i + 1 + (m + 1)]
      OBVIOUS
    <3>1. PICK j \in 1..n : j = i + 1 + m
      OBVIOUS
    <3>2. j + 1 = i + 1 + (m + 1) /\ j <= n + 1
      BY <3>1
    <3>3. e[i] + Len(s[i]) <= e[j]
      BY <2>2, <3>1, <3>2
    <3>4. e[j + 1] = e[j] + Len(s[j]) /\ e[j] \in Nat /\ Len(s[j]) \in Nat /\ e[i] \in Nat /\ Len(s[i]) \in Nat
      BY <1>1
    <3>5. e[i] + Len(s[i]) <= e[j + 1]
      BY <3>3, <3>4
    <3>6. QED
      BY <3>2, <3>5
  <2>3. Nat \subseteq S
    <3> HIDE DEF S
    <3>1. QED
      BY <2>1, <2>2, SetInduction
  <2>4. ASSUME NEW j \in 1..n + 1, i < j PROVE e[i] + Len(s[i]) <= e[j]
    <3>1. j - (i + 1) \in Nat /\ i + 1 + (j - (i + 1)) = j
      BY <2>4
    <3>2. PICK m \in Nat : i + 1 + m = j /\ m \in S
      BY <2>3, <3>1
    <3>3. QED
      BY <3>2
  <2>5. QED
    BY <2>4
<1>3. ASSUME NEW d \in 1..Len(L) PROVE \E i \in 1..n : \E k \in 1..Len(s[i]) : d = e[i] + k
  <2> DEFINE S == {m \in 0..n : e[m + 1] < d}
  <2>1. S \subseteq 0..n /\ 0 \in S
    BY <1>1
  <2>2. PICK m \in S : \A x \in S : x <= m
    <3> HIDE DEF S
    <3>1. Max(S) \in S /\ \A x \in S : x <= Max(S)
      BY <2>1, MaxIsGreatest
    <3>2. QED
      BY <3>1
  <2>3. m \in 0..n /\ e[m + 1] < d
    BY <2>2
  <2>4. m # n
    <3>1. e[n + 1] \in Nat /\ ~(e[n + 1] < d)
      BY <1>1
    <3>2. QED
      BY <2>3, <3>1
  <2>5. PICK i \in 1..n : i = m + 1
    BY <2>3, <2>4
  <2>6. ~(i \in S) /\ i \in 0..n
    <3>1. ~(i <= m)
      BY <2>3, <2>5
    <3>2. QED
      BY <2>2, <3>1
  <2>7. ~(e[i + 1] < d)
    BY <2>6
  <2>8. e[i] \in Nat /\ Len(s[i]) \in Nat /\ e[i + 1] = e[i] + Len(s[i]) /\ e[i] < d
    BY <1>1, <2>3, <2>5
  <2>9. d - e[i] \in 1..Len(s[i]) /\ d = e[i] + (d - e[i])
    BY <2>7, <2>8
  <2>10. QED
    BY <2>9
<1>4. \A i \in 1..n, j \in 1..n : i < j => e[i] + Len(s[i]) <= e[j]
  <2>1. \A j \in 1..n : j \in 1..n + 1
    OBVIOUS
  <2>2. QED
    BY <1>2, <2>1
<1>5. \A i \in 1..n : e[i] + Len(s[i]) <= Len(L)
  <2>1. ASSUME NEW i \in 1..n PROVE e[i] + Len(s[i]) <= e[n + 1]
    <3>1. n + 1 \in 1..n + 1 /\ i < n + 1
      OBVIOUS
    <3>2. QED
      BY <1>2, <3>1
  <2>2. QED
    BY <1>1, <2>1
<1>6. QED
  BY <1>0, <1>3, <1>4, <1>5

\* The n-th level of a loop.
LevelIs(loops, i, n, v) ==
    /\ v.loop = i /\ v.role = loops[i].type[n] /\ v.count \in Nat \ {0}
    /\ v.resets <=> Resets(loops, i) /\ n = Min({m \in DOMAIN loops[i].type : loops[i].type[m] = "Inner"})
    /\ v.counts <=> Counts(loops, i) /\ CountingLevel(loops[i]) = n

\* The counts of the two levels s of a tile.
TileCounts(loop, s) ==
    /\ s[1].count = 1 + (loop.range - 1) \div loop.tileSize
    /\ s[2].count = loop.tileSize

LevelRecord ==
    [loop : Nat, role : {"Regular", "Inner", "Outer"}, count : Nat, known : BOOLEAN,
     resets : BOOLEAN, counts : BOOLEAN]

\* The types of a loop.
TypesOf(t) ==
    \/ Len(t) = 1 /\ DOMAIN t = 1..1 /\ t[1] \in {"Regular", "Inner"}
    \/ Len(t) = 2 /\ DOMAIN t = 1..2 /\ t[1] \in LoopType /\ t[2] \in LoopType

LEMMA LoopTypes ==
    ASSUME NEW loop \in Loop
    PROVE  /\ TypesOf(loop.type) /\ loop.range \in Nat \ {0} /\ loop.tileSize \in Nat \ {0}
           /\ loop.check \in BOOLEAN /\ loop.literal \in BOOLEAN /\ loop.tileLiteral \in BOOLEAN
<1>1. /\ loop.type \in {<<"Regular">>, <<"Inner">>} \cup (LoopType \X LoopType)
      /\ loop.range \in Nat \ {0} /\ loop.tileSize \in Nat \ {0} /\ loop.check \in BOOLEAN
      /\ loop.literal \in BOOLEAN /\ loop.tileLiteral \in BOOLEAN
  BY DEF Loop
<1>2. CASE loop.type \in {<<"Regular">>, <<"Inner">>}
  BY <1>2, <1>1 DEF TypesOf
<1>3. CASE loop.type \in LoopType \X LoopType
  <2>1. PICK a \in LoopType, b \in LoopType : loop.type = <<a, b>>
    BY <1>3
  <2>2. QED
    BY <2>1, <1>1 DEF TypesOf
<1>4. QED
  BY <1>1, <1>2, <1>3

LEMMA TileCount ==
    ASSUME NEW range \in Nat \ {0}, NEW size \in Nat \ {0}
    PROVE  1 + (range - 1) \div size \in Nat \ {0}
<1>1. range - 1 \in Nat
  OBVIOUS
<1>2. (range - 1) \div size \in Nat
  BY <1>1
<1>3. QED
  BY <1>2

LEMMA KnownIsBoolean ==
    ASSUME NEW loop, NEW n, loop.literal \in BOOLEAN
    PROVE  SizeKnown(loop, n) \in BOOLEAN
<1>1. CASE Len(loop.type) = 1
  BY <1>1 DEF SizeKnown
<1>2. CASE Len(loop.type) # 1
  <2>1. (loop.tileLiteral /\ (n = 1 => loop.literal)) \in BOOLEAN
    BY Zenon
  <2>2. QED
    BY <1>2, <2>1 DEF SizeKnown
<1>3. QED
  BY <1>1, <1>2

LEMMA LevelMade ==
    ASSUME NEW loops, NEW i \in Nat, NEW n, NEW count \in Nat \ {0}, loops[i].type[n] \in LoopType,
           loops[i].literal \in BOOLEAN,
           NEW v, v = [loop   |-> i,
                       role   |-> loops[i].type[n],
                       count  |-> count,
                       known  |-> SizeKnown(loops[i], n),
                       resets |-> /\ Resets(loops, i)
                                  /\ n = Min({m \in DOMAIN loops[i].type : loops[i].type[m] = "Inner"}),
                       counts |-> Counts(loops, i) /\ CountingLevel(loops[i]) = n]
    PROVE  LevelIs(loops, i, n, v) /\ v \in LevelRecord /\ v.count = count
<1>1. /\ v.loop = i /\ v.role = loops[i].type[n] /\ v.count = count
      /\ v.known = SizeKnown(loops[i], n)
      /\ v.resets = (/\ Resets(loops, i)
                     /\ n = Min({m \in DOMAIN loops[i].type : loops[i].type[m] = "Inner"}))
      /\ v.counts = (Counts(loops, i) /\ CountingLevel(loops[i]) = n)
  OBVIOUS
<1>2. LevelIs(loops, i, n, v)
  BY <1>1 DEF LevelIs
<1>3. v.resets \in BOOLEAN /\ v.counts \in BOOLEAN
  BY <1>1, Zenon
<1>4. v.known \in BOOLEAN
  BY <1>1, KnownIsBoolean
<1>5. v = [loop |-> v.loop, role |-> v.role, count |-> v.count, known |-> v.known,
           resets |-> v.resets, counts |-> v.counts]
  BY <1>1
<1>6. v \in LevelRecord
  BY <1>1, <1>3, <1>4, <1>5 DEF LevelRecord, LoopType
<1>7. QED
  BY <1>1, <1>2, <1>6

LEMMA LevelsOfLoop ==
    ASSUME NEW loops, NEW i \in Nat, loops[i] \in Loop
    PROVE  \E s : /\ s = LoopLevels(loops, i) /\ s \in Seq(LevelRecord) /\ Len(s) = Len(loops[i].type)
                  /\ Len(s) \in {1, 2}
                  /\ \A n \in 1..Len(s) : LevelIs(loops, i, n, s[n])
                  /\ Len(s) = 2 => TileCounts(loops[i], s)
<1>1. PICK loop : loop = loops[i]
  OBVIOUS
<1>2. /\ TypesOf(loop.type) /\ loop.range \in Nat \ {0} /\ loop.tileSize \in Nat \ {0}
      /\ loops[i].literal \in BOOLEAN
  BY <1>1, LoopTypes
<1> DEFINE level(n, count) ==
             [loop   |-> i,
              role   |-> loops[i].type[n],
              count  |-> count,
              known  |-> SizeKnown(loops[i], n),
              resets |-> /\ Resets(loops, i)
                         /\ n = Min({m \in DOMAIN loops[i].type : loops[i].type[m] = "Inner"}),
              counts |-> Counts(loops, i) /\ CountingLevel(loops[i]) = n]
<1>3. CASE Len(loop.type) = 1
  <2>1. PICK v : v = level(1, loop.range)
    OBVIOUS
  <2>2. loops[i].type[1] \in LoopType
    BY <1>1, <1>2, <1>3 DEF TypesOf, LoopType
  <2>3. LevelIs(loops, i, 1, v) /\ v \in LevelRecord
    BY <1>2, <2>1, <2>2, LevelMade
  <2>4. LoopLevels(loops, i) = <<v>>
    BY <1>1, <1>3, <2>1 DEF LoopLevels
  <2> HIDE DEF level
  <2>5. <<v>> \in Seq(LevelRecord) /\ Len(<<v>>) = 1 /\ \A n \in 1..1 : n = 1 /\ <<v>>[n] = v
    BY <2>3
  <2>6. PICK s : s = <<v>>
    OBVIOUS
  <2>7. s \in Seq(LevelRecord) /\ Len(s) = 1 /\ \A n \in 1..Len(s) : LevelIs(loops, i, n, s[n])
    BY <2>3, <2>5, <2>6
  <2>8. s = LoopLevels(loops, i) /\ Len(s) = Len(loops[i].type) /\ Len(s) # 2
    BY <1>1, <1>3, <2>4, <2>6, <2>7
  <2>9. QED
    BY <2>7, <2>8
<1>4. CASE Len(loop.type) = 2
  <2>0. PICK k \in Nat \ {0}, m \in Nat \ {0} : k = 1 + (loop.range - 1) \div loop.tileSize /\ m = loop.tileSize
    BY <1>2, TileCount
  <2>1. PICK v, w : v = level(1, k) /\ w = level(2, m)
    OBVIOUS
  <2>2. loops[i].type[1] \in LoopType /\ loops[i].type[2] \in LoopType
    BY <1>1, <1>2, <1>4 DEF TypesOf
  <2>3. LevelIs(loops, i, 1, v) /\ v \in LevelRecord /\ v.count = k
    BY <1>2, <2>1, <2>2, LevelMade
  <2>4. LevelIs(loops, i, 2, w) /\ w \in LevelRecord /\ w.count = m
    BY <1>2, <2>1, <2>2, LevelMade
  <2>5. LoopLevels(loops, i) = <<v, w>>
    BY <1>1, <1>4, <2>0, <2>1 DEF LoopLevels
  <2> HIDE DEF level
  <2>6. /\ <<v, w>> \in Seq(LevelRecord) /\ Len(<<v, w>>) = 2 /\ <<v, w>>[1] = v /\ <<v, w>>[2] = w
        /\ \A n \in 1..2 : n = 1 \/ n = 2
    BY <2>3, <2>4
  <2>7. TileCounts(loops[i], <<v, w>>)
    BY <1>1, <2>0, <2>3, <2>4, <2>6 DEF TileCounts
  <2>8. \A n \in 1..Len(<<v, w>>) : LevelIs(loops, i, n, <<v, w>>[n])
    BY <2>3, <2>4, <2>6
  <2>9. QED
    BY <1>1, <1>4, <2>5, <2>6, <2>7, <2>8
<1>5. QED
  BY <1>2, <1>3, <1>4 DEF TypesOf

-----------------------------------------------------------------------------
(* The nests for which the handlers count: where they reset, and where they*)
(* increment.                                                              *)

\* The types of the loops of a nest, as CountedNest has them.
Kinds(loops, n, f) ==
    /\ n \in Nat /\ f \in 1..n /\ \A i \in 1..n : loops[i] \in Loop
    /\ \A i \in 1..n : TypesOf(loops[i].type) /\ loops[i].check \in BOOLEAN
    /\ \A i \in 1..n : i < f => IsRegular(loops[i].type)
    /\ \A i \in 1..n : i >= f =>
          LET t == loops[i].type
          IN  \/ t[1] = "Inner" /\ (Len(t) = 2 => t[2] = "Inner")
              \/ i = f /\ Len(t) = 2 /\ t[1] = "Outer" /\ t[2] = "Inner"
              \/ i = n /\ Len(t) = 2 /\ t[1] = "Inner" /\ t[2] = "Regular" /\ loops[i].check
    /\ loops[f].type[1] = "Outer" => f = n \/ Len(loops[n].type) # 1
    /\ \A i \in f + 1..n - 1 : Len(loops[i].type) = 2 => ~loops[i].check

LEMMA NestHasKinds ==
    ASSUME NEW loops \in Seq(Loop), CountedNest(loops)
    PROVE  \E f : Kinds(loops, Len(loops), f)
<1>1. PICK n \in Nat : n = Len(loops)
  OBVIOUS
<1>2. \A i \in 1..n : loops[i] \in Loop /\ TypesOf(loops[i].type) /\ loops[i].check \in BOOLEAN
  BY <1>1, LoopTypes
<1> DEFINE type == [i \in 1..n |-> loops[i].type]
<1>3. PICK f \in 1..n :
           /\ \A i \in 1..f - 1 : IsRegular(type[i])
           /\ type[f] = <<"Outer", "Inner">> => f = n \/ type[n] # <<"Inner">>
           /\ \A i \in f..n :
                 \/ type[i] \in {<<"Inner">>, <<"Inner", "Inner">>}
                 \/ i = f /\ type[i] = <<"Outer", "Inner">>
                 \/ i = n /\ type[i] = <<"Inner", "Regular">> /\ loops[i].check
           /\ \A i \in f + 1..n - 1 : Len(type[i]) = 2 => ~loops[i].check
  BY <1>1 DEF CountedNest
<1>4. \A i \in 1..n : type[i] = loops[i].type
  OBVIOUS
<1> HIDE DEF type
<1>5. ASSUME NEW i \in 1..n, i < f PROVE IsRegular(loops[i].type)
  <2>1. i \in 1..f - 1
    BY <1>5
  <2>2. QED
    BY <1>3, <1>4, <2>1
<1>6. ASSUME NEW i \in 1..n, i >= f, NEW t, t = loops[i].type
      PROVE  \/ t[1] = "Inner" /\ (Len(t) = 2 => t[2] = "Inner")
             \/ i = f /\ Len(t) = 2 /\ t[1] = "Outer" /\ t[2] = "Inner"
             \/ i = n /\ Len(t) = 2 /\ t[1] = "Inner" /\ t[2] = "Regular" /\ loops[i].check
  <2>1. i \in f..n
    BY <1>6
  <2>2. \/ t = <<"Inner">> \/ t = <<"Inner", "Inner">>
        \/ i = f /\ t = <<"Outer", "Inner">>
        \/ i = n /\ t = <<"Inner", "Regular">> /\ loops[i].check
    BY <1>3, <1>4, <1>6, <2>1
  <2>3. CASE t = <<"Inner">>
    BY <2>3
  <2>4. CASE t = <<"Inner", "Inner">>
    BY <2>4
  <2>5. CASE i = f /\ t = <<"Outer", "Inner">>
    BY <2>5
  <2>6. CASE i = n /\ t = <<"Inner", "Regular">> /\ loops[i].check
    BY <2>6
  <2>7. QED
    BY <2>2, <2>3, <2>4, <2>5, <2>6
<1>7. ASSUME loops[f].type[1] = "Outer" PROVE f = n \/ Len(loops[n].type) # 1
  <2>1. n \in 1..n /\ n >= f
    OBVIOUS
  <2>2. PICK t : t = loops[f].type
    OBVIOUS
  <2>3. f \in f..n
    OBVIOUS
  <2>4. t[1] = "Outer"
    BY <1>7, <2>2
  <2>5. t = <<"Outer", "Inner">>
    <3>1. \/ t = <<"Inner">> \/ t = <<"Inner", "Inner">>
          \/ t = <<"Outer", "Inner">> \/ t = <<"Inner", "Regular">>
      BY <1>3, <1>4, <2>2, <2>3
    <3>2. t # <<"Inner">> /\ t # <<"Inner", "Inner">> /\ t # <<"Inner", "Regular">>
      BY <2>4
    <3>3. QED
      BY <3>1, <3>2
  <2>6. f = n \/ loops[n].type # <<"Inner">>
    BY <1>3, <1>4, <2>1, <2>2, <2>5
  <2>7. CASE f # n /\ Len(loops[n].type) = 1
    <3>1. PICK u : u = loops[n].type
      OBVIOUS
    <3>2. n \in f..n
      OBVIOUS
    <3>3. u = <<"Inner">> \/ u = <<"Inner", "Inner">> \/ u = <<"Inner", "Regular">>
      BY <1>3, <1>4, <2>1, <2>7, <3>1, <3>2
    <3>4. Len(u) = 1
      BY <2>7, <3>1
    <3>5. u # <<"Inner", "Inner">> /\ u # <<"Inner", "Regular">>
      BY <3>4
    <3>6. QED
      BY <2>6, <2>7, <3>1, <3>3, <3>5
  <2>8. QED
    BY <2>7
<1>8. \A i \in f + 1..n - 1 : Len(loops[i].type) = 2 => ~loops[i].check
  <2>1. \A i \in f + 1..n - 1 : i \in 1..n
    OBVIOUS
  <2>2. QED
    BY <1>3, <1>4, <2>1
<1>9. Kinds(loops, n, f)
  BY <1>2, <1>5, <1>6, <1>7, <1>8 DEF Kinds
<1>10. QED
  BY <1>1, <1>9

\* Where the threads of a nest begin and end among the levels of a loop.
FirstInner(loops, f) == IF loops[f].type[1] = "Outer" THEN 2 ELSE 1
LastInner(loops, n)  == IF loops[n].type[Len(loops[n].type)] = "Regular" THEN 1 ELSE Len(loops[n].type)

LEMMA ParentExists ==
    ASSUME NEW m \in Nat, NEW S, S \subseteq 1..m, S # {}
    PROVE  Nearest(S) # 0
<1>1. S \subseteq 0..m
  OBVIOUS
<1>2. Max(S) \in S
  BY <1>1, MaxIsGreatest
<1>3. PICK x : x = Max(S)
  OBVIOUS
<1>4. x \in 1..m
  BY <1>2, <1>3
<1>5. Nearest(S) = x
  BY <1>3 DEF Nearest
<1>6. QED
  BY <1>4, <1>5

\* The index is reset in the first loop with a type.
LEMMA ResetInFirst ==
    ASSUME NEW loops, NEW n, NEW f, Kinds(loops, n, f), NEW i \in 1..n
    PROVE  Resets(loops, i) <=> i = f
<1>1. n \in Nat /\ f \in 1..n
  BY DEF Kinds
<1> DEFINE above == {j \in 1..(i - 1) : ~IsRegular(loops[j].type)}
<1>2. CASE i < f
  <2>1. ~Has(loops[i].type, "Inner")
    BY <1>2 DEF Kinds, IsRegular, Has
  <2>2. QED
    BY <1>1, <1>2, <2>1 DEF Resets
<1>3. CASE i = f
  <2>1. above = {}
    <3>1. \A j \in 1..(i - 1) : IsRegular(loops[j].type)
      BY <1>1, <1>3 DEF Kinds
    <3>2. QED
      BY <3>1
  <2>2. AttributedParentOf(loops, i) = 0
    BY <2>1 DEF AttributedParentOf, Nearest
  <2>3. Has(loops[i].type, "Inner")
    <3>1. TypesOf(loops[i].type)
      BY DEF Kinds
    <3>2. loops[i].type[1] = "Inner" \/ (Len(loops[i].type) = 2 /\ loops[i].type[2] = "Inner")
      BY <1>1, <1>3 DEF Kinds
    <3>3. QED
      BY <3>1, <3>2 DEF Has, TypesOf
  <2>4. QED
    BY <1>3, <2>2, <2>3 DEF Resets
<1>4. CASE i > f
  <2>1. f \in 1..(i - 1)
    BY <1>1, <1>4
  <2>2. ~IsRegular(loops[f].type)
    <3>1. TypesOf(loops[f].type)
      BY <1>1 DEF Kinds
    <3>2. loops[f].type[1] = "Inner" \/ loops[f].type[1] = "Outer"
      BY <1>1 DEF Kinds
    <3>3. QED
      BY <3>1, <3>2 DEF IsRegular, TypesOf
  <2>3. f \in above
    BY <2>1, <2>2
  <2>4. above \subseteq 1..(i - 1) /\ above # {} /\ i - 1 \in Nat
    BY <2>3
  <2>5. Nearest(above) # 0
    <3> HIDE DEF above
    <3>1. QED
      BY <2>4, ParentExists
  <2>6. AttributedParentOf(loops, i) # 0
    BY <2>5 DEF AttributedParentOf
  <2>7. QED
    BY <1>1, <1>4, <2>6 DEF Resets
<1>5. QED
  BY <1>1, <1>2, <1>3, <1>4

LEMMA LeastInner ==
    ASSUME NEW loops, NEW n, NEW f, Kinds(loops, n, f)
    PROVE  /\ Min({m \in DOMAIN loops[f].type : loops[f].type[m] = "Inner"}) = FirstInner(loops, f)
           /\ FirstInner(loops, f) \in 1..Len(loops[f].type)
<1>1. PICK t : t = loops[f].type
  OBVIOUS
<1>2. TypesOf(t) /\ f \in 1..n /\ n \in Nat
  BY <1>1 DEF Kinds
<1>3. \/ t[1] = "Inner" /\ (Len(t) = 2 => t[2] \in {"Inner", "Regular"})
      \/ Len(t) = 2 /\ t[1] = "Outer" /\ t[2] = "Inner"
  BY <1>1, <1>2 DEF Kinds
<1>4. PICK S : S = {m \in DOMAIN t : t[m] = "Inner"}
  OBVIOUS
<1>5. CASE t[1] = "Inner"
  <2>1. FirstInner(loops, f) = 1
    BY <1>1, <1>5 DEF FirstInner
  <2>2. 1 \in S /\ S \subseteq Nat /\ S # {} /\ \A x \in S : x >= 1
    BY <1>2, <1>4, <1>5 DEF TypesOf
  <2>3. Min(S) \in S /\ \A x \in S : Min(S) <= x
    BY <2>2, MinIsLeast
  <2>4. Min(S) = 1
    <3>1. PICK x : x = Min(S)
      OBVIOUS
    <3>2. x \in Nat /\ x >= 1 /\ x <= 1
      BY <2>2, <2>3, <3>1
    <3>3. QED
      BY <3>1, <3>2
  <2>5. QED
    BY <1>1, <1>2, <1>4, <2>1, <2>4 DEF TypesOf
<1>6. CASE Len(t) = 2 /\ t[1] = "Outer" /\ t[2] = "Inner"
  <2>1. FirstInner(loops, f) = 2
    BY <1>1, <1>6 DEF FirstInner
  <2>2. S = {2}
    BY <1>2, <1>4, <1>6 DEF TypesOf
  <2>3. Min(S) \in S
    BY <2>2, MinIsLeast
  <2>4. QED
    BY <1>1, <1>4, <1>6, <2>1, <2>2, <2>3
<1>7. QED
  BY <1>3, <1>5, <1>6

\* It is counted in the last loop.
LEMMA CountInLast ==
    ASSUME NEW loops, NEW n, NEW f, Kinds(loops, n, f), n = Len(loops), NEW i \in 1..n
    PROVE  Counts(loops, i) <=> i = n
<1>1. n \in Nat /\ f \in 1..n /\ n \in 1..n
  BY DEF Kinds
<1>2. ASSUME i = n, Len(loops[n].type) = 1
      PROVE  Has(loops[n].type, "Inner") /\ OuterParentOf(loops, n) = 0
  <2>1. TypesOf(loops[n].type)
    BY <1>1 DEF Kinds
  <2>2. loops[n].type[1] = "Inner"
    BY <1>1, <1>2 DEF Kinds
  <2>3. Has(loops[n].type, "Inner")
    BY <1>2, <2>1, <2>2 DEF Has, TypesOf
  <2>4. ASSUME NEW j \in 1..(n - 1) PROVE ~Has(loops[j].type, "Outer")
    <3>1. j \in 1..n /\ j # n
      BY <1>1
    <3>2. TypesOf(loops[j].type)
      BY <3>1 DEF Kinds
    <3>3. CASE j < f
      BY <3>1, <3>3 DEF Kinds, IsRegular, Has
    <3>4. CASE j >= f
      <4>1. \/ loops[j].type[1] = "Inner" /\ (Len(loops[j].type) = 2 => loops[j].type[2] = "Inner")
            \/ j = f /\ loops[j].type[1] = "Outer"
        BY <3>1, <3>4 DEF Kinds
      <4>2. ~(j = f /\ loops[j].type[1] = "Outer")
        BY <1>2, <3>1 DEF Kinds
      <4>3. QED
        BY <3>2, <4>1, <4>2 DEF Has, TypesOf
    <3>5. QED
      BY <1>1, <3>3, <3>4
  <2>5. {j \in 1..(n - 1) : Has(loops[j].type, "Outer")} = {}
    BY <2>4
  <2>6. OuterParentOf(loops, n) = 0
    BY <2>5 DEF OuterParentOf, Nearest
  <2>7. QED
    BY <2>3, <2>6
<1>3. QED
  BY <1>2 DEF Counts

LEMMA CountingLevelIsLast ==
    ASSUME NEW loops, NEW n, NEW f, Kinds(loops, n, f)
    PROVE  CountingLevel(loops[n]) = LastInner(loops, n) /\ LastInner(loops, n) \in 1..Len(loops[n].type)
<1>1. PICK t, check : t = loops[n].type /\ check = loops[n].check
  OBVIOUS
<1>2. n \in Nat /\ f \in 1..n /\ n \in 1..n /\ n >= f
  BY DEF Kinds
<1>3. TypesOf(t) /\ check \in BOOLEAN
  BY <1>1, <1>2 DEF Kinds
<1>4. \/ t[1] = "Inner" /\ (Len(t) = 2 => t[2] = "Inner")
      \/ Len(t) = 2 /\ t[1] = "Outer" /\ t[2] = "Inner"
      \/ Len(t) = 2 /\ t[1] = "Inner" /\ t[2] = "Regular" /\ check
  BY <1>1, <1>2 DEF Kinds
<1>5. CASE Len(t) = 1
  <2>1. t[1] = "Inner"
    BY <1>4, <1>5
  <2>2. QED
    BY <1>1, <1>5, <2>1 DEF CountingLevel, LastInner
<1>6. CASE Len(t) = 2 /\ t[2] = "Inner"
  <2>1. t[1] # "Regular" /\ t[1] \in LoopType
    BY <1>3, <1>4, <1>6 DEF TypesOf
  <2>2. ~Has(t, "Regular")
    BY <1>3, <1>6, <2>1 DEF Has, TypesOf
  <2>3. QED
    BY <1>1, <1>6, <2>2 DEF CountingLevel, LastInner
<1>7. CASE Len(t) = 2 /\ t[2] = "Regular"
  <2>1. check
    BY <1>4, <1>7
  <2>2. Has(t, "Regular")
    BY <1>3, <1>7 DEF Has, TypesOf
  <2>3. QED
    BY <1>1, <1>7, <2>1, <2>2 DEF CountingLevel, LastInner
<1>8. QED
  BY <1>3, <1>4, <1>5, <1>6, <1>7 DEF TypesOf

\* The levels L of the loops, those of loop i after e[i] others.
Placed(loops, n, e, L) ==
    /\ Len(L) \in Nat /\ DOMAIN L = 1..Len(L) /\ n = Len(loops)
    /\ \A i \in 1..n : e[i] \in Nat /\ e[i] + Len(loops[i].type) <= Len(L)
    /\ \A i \in 1..n, j \in 1..n : i < j => e[i] + Len(loops[i].type) <= e[j]
    /\ \A i \in 1..n : \A k \in 1..Len(loops[i].type) : LevelIs(loops, i, k, L[e[i] + k])
    /\ \A d \in 1..Len(L) : \E i \in 1..n : \E k \in 1..Len(loops[i].type) : d = e[i] + k
    /\ \A i \in 1..n : Len(loops[i].type) = 2 =>
          /\ L[e[i] + 1].count = 1 + (loops[i].range - 1) \div loops[i].tileSize
          /\ L[e[i] + 2].count = loops[i].tileSize

LEMMA LevelsArePlaced ==
    ASSUME NEW loops \in Seq(Loop), NEW n \in Nat, n = Len(loops)
    PROVE  \E e : Placed(loops, n, e, Levels(loops))
<1>1. PICK s : s = [i \in 1..n |-> LoopLevels(loops, i)]
  OBVIOUS
<1>2. DOMAIN loops = 1..n /\ \A i \in 1..n : loops[i] \in Loop
  OBVIOUS
<1>3. ASSUME NEW i \in 1..n
      PROVE  /\ s[i] \in Seq(LevelRecord) /\ Len(s[i]) = Len(loops[i].type) /\ Len(s[i]) \in {1, 2}
             /\ \A k \in 1..Len(s[i]) : LevelIs(loops, i, k, s[i][k])
             /\ Len(s[i]) = 2 => TileCounts(loops[i], s[i])
  <2>1. i \in Nat /\ loops[i] \in Loop
    BY <1>2
  <2>2. PICK t : /\ t = LoopLevels(loops, i) /\ t \in Seq(LevelRecord) /\ Len(t) = Len(loops[i].type)
                 /\ Len(t) \in {1, 2}
                 /\ \A k \in 1..Len(t) : LevelIs(loops, i, k, t[k])
                 /\ Len(t) = 2 => TileCounts(loops[i], t)
    BY <2>1, LevelsOfLoop
  <2>3. s[i] = t
    BY <1>1, <2>2
  <2>4. QED
    BY <2>2, <2>3
<1>4. s \in [1..n -> Seq(LevelRecord)] /\ s \in Seq(Seq(LevelRecord)) /\ Len(s) = n
  BY <1>1, <1>3
<1>5. PICK h \in [0..n -> Seq(LevelRecord)] : Joins(h, s, n)
  BY <1>4, JoinedExists
<1>6. h[n] = Levels(loops)
  <2>1. FlattenSeq(s) = h[n]
    <3>1. h \in [0..Len(s) -> Seq(LevelRecord)] /\ h[0] = <<>> /\ \A i \in 1..Len(s) : h[i] = h[i - 1] \o s[i]
      BY <1>4, <1>5 DEF Joins
    <3>2. FlattenSeq(s) = h[Len(s)]
      BY <1>4, <3>1, FlattenIsJoined
    <3>3. QED
      BY <1>4, <3>2
  <2>2. QED
    BY <1>1, <1>2, <2>1 DEF Levels
<1>7. PICK L : L = h[n]
  OBVIOUS
<1>8. L \in Seq(LevelRecord) /\ Len(L) \in Nat /\ DOMAIN L = 1..Len(L)
  <2>1. n \in 0..n
    OBVIOUS
  <2>2. L \in Seq(LevelRecord)
    BY <1>5, <1>7, <2>1
  <2>3. QED
    BY <2>2
<1>9. PICK e : Starts(e, s, n, L)
  BY <1>4, <1>5, <1>7, StartsExist
<1>10. \A i \in 1..n : Len(s[i]) \in Nat
  BY <1>3
<1>11. /\ \A i \in 1..n, j \in 1..n : i < j => e[i] + Len(s[i]) <= e[j]
       /\ \A i \in 1..n : e[i] + Len(s[i]) <= Len(L)
       /\ \A d \in 1..Len(L) : \E i \in 1..n : \E k \in 1..Len(s[i]) : d = e[i] + k
  BY <1>9, <1>10, LevelOfLoop
<1>12. \A i \in 1..n : e[i] \in Nat
  <2>1. \A i \in 1..n : i \in 1..n + 1
    OBVIOUS
  <2>2. QED
    BY <1>9, <2>1 DEF Starts
<1>13. \A i \in 1..n : \A k \in 1..Len(s[i]) : L[e[i] + k] = s[i][k]
  BY <1>9 DEF Starts
<1>14. ASSUME NEW i \in 1..n, Len(loops[i].type) = 2
       PROVE  /\ L[e[i] + 1].count = 1 + (loops[i].range - 1) \div loops[i].tileSize
              /\ L[e[i] + 2].count = loops[i].tileSize
  <2>1. Len(s[i]) = 2 /\ TileCounts(loops[i], s[i])
    BY <1>3, <1>14
  <2>2. L[e[i] + 1] = s[i][1] /\ L[e[i] + 2] = s[i][2]
    BY <1>13, <2>1
  <2>3. QED
    BY <2>1, <2>2 DEF TileCounts
<1>15. \A i \in 1..n : Len(s[i]) = Len(loops[i].type)
  BY <1>3
<1>16. ASSUME NEW i \in 1..n, NEW k \in 1..Len(loops[i].type) PROVE LevelIs(loops, i, k, L[e[i] + k])
  BY <1>3, <1>13, <1>15
<1>17. ASSUME NEW d \in 1..Len(L) PROVE \E i \in 1..n : \E k \in 1..Len(loops[i].type) : d = e[i] + k
  BY <1>11, <1>15
<1>18. Placed(loops, n, e, L)
  BY <1>8, <1>11, <1>12, <1>14, <1>15, <1>16, <1>17 DEF Placed
<1>19. QED
  BY <1>6, <1>7, <1>18

LEMMA OneOrTwo == \A l \in {1, 2} : \A a \in 1..l : a \in 1..2 /\ a <= l
OBVIOUS

LEMMA TwoOfTwo ==
    ASSUME NEW l \in {1, 2}, NEW k \in 1..l, NEW m \in 1..l, NEW x \in Nat, NEW d, d = x + k, d - 1 = x + m
    PROVE  k = 2 /\ m = 1 /\ l = 2
OBVIOUS

LEMMA NestShape ==
    ASSUME NEW loops, NEW n, NEW f, Kinds(loops, n, f), NEW e, NEW L, Placed(loops, n, e, L)
    PROVE  \E r, c : Shape(L, r, c) /\ Tiles(loops, L, r, c)
<1>1. n \in Nat /\ f \in 1..n /\ n \in 1..n /\ n = Len(loops)
  BY DEF Kinds, Placed
<1>2. \A i \in 1..n : TypesOf(loops[i].type) /\ Len(loops[i].type) \in {1, 2}
  BY DEF Kinds, TypesOf
<1>3. PICK a \in 1..2, b \in 1..2 :
          /\ a = FirstInner(loops, f) /\ b = LastInner(loops, n)
          /\ a <= Len(loops[f].type) /\ b <= Len(loops[n].type)
  <2>1. FirstInner(loops, f) \in 1..Len(loops[f].type) /\ LastInner(loops, n) \in 1..Len(loops[n].type)
    BY LeastInner, CountingLevelIsLast
  <2>2. PICK l \in {1, 2}, m \in {1, 2} : l = Len(loops[f].type) /\ m = Len(loops[n].type)
    BY <1>1, <1>2
  <2>3. PICK a, b : a = FirstInner(loops, f) /\ b = LastInner(loops, n)
    OBVIOUS
  <2>4. a \in 1..l /\ b \in 1..m
    BY <2>1, <2>2, <2>3
  <2>5. a \in 1..2 /\ b \in 1..2 /\ a <= l /\ b <= m
    BY <2>2, <2>4, OneOrTwo
  <2>6. QED
    BY <2>2, <2>3, <2>5
<1>4. PICK r \in Nat, c \in Nat : r = e[f] + a /\ c = e[n] + b
  BY <1>1 DEF Placed
<1>5. Len(L) \in Nat /\ DOMAIN L = 1..Len(L)
  BY DEF Placed
<1>6. ASSUME NEW i \in 1..n, NEW k \in 1..Len(loops[i].type)
      PROVE  /\ L[e[i] + k].loop = i /\ L[e[i] + k].role = loops[i].type[k] /\ L[e[i] + k].count \in Nat \ {0}
             /\ L[e[i] + k].resets <=> i = f /\ k = a
             /\ L[e[i] + k].counts <=> i = n /\ k = b
  <2>1. LevelIs(loops, i, k, L[e[i] + k])
    BY DEF Placed
  <2>2. Resets(loops, i) <=> i = f
    BY ResetInFirst
  <2>3. Counts(loops, i) <=> i = n
    BY <1>1, CountInLast
  <2>4. i = f => Min({m \in DOMAIN loops[i].type : loops[i].type[m] = "Inner"}) = a
    BY <1>3, LeastInner
  <2>5. i = n => CountingLevel(loops[i]) = b
    BY <1>3, CountingLevelIsLast
  <2>6. L[e[i] + k].resets <=> i = f /\ k = a
    BY <2>1, <2>2, <2>4 DEF LevelIs
  <2>7. L[e[i] + k].counts <=> i = n /\ k = b
    BY <2>1, <2>3, <2>5 DEF LevelIs
  <2>8. QED
    BY <2>1, <2>6, <2>7 DEF LevelIs
\* Levels are ordered like loops.
<1>7. ASSUME NEW i \in 1..n, NEW k \in 1..Len(loops[i].type), NEW j \in 1..n, NEW m \in 1..Len(loops[j].type)
      PROVE  /\ e[i] + k < e[j] + m <=> i < j \/ (i = j /\ k < m)
             /\ e[i] + k = e[j] + m <=> i = j /\ k = m
  <2>1. e[i] \in Nat /\ e[j] \in Nat /\ Len(loops[i].type) \in Nat /\ Len(loops[j].type) \in Nat
    BY <1>2 DEF Placed
  <2>2. i < j => e[i] + Len(loops[i].type) <= e[j]
    BY DEF Placed
  <2>3. j < i => e[j] + Len(loops[j].type) <= e[i]
    BY DEF Placed
  <2>4. i < j \/ j < i \/ i = j
    BY <1>1
  <2>5. CASE i < j
    BY <1>1, <2>1, <2>2, <2>5
  <2>6. CASE j < i
    BY <1>1, <2>1, <2>3, <2>6
  <2>7. CASE i = j
    BY <1>1, <2>1, <2>7
  <2>8. QED
    BY <2>4, <2>5, <2>6, <2>7
<1>8. r <= c /\ 1 <= r /\ c <= Len(L)
  <2>1. a \in 1..Len(loops[f].type) /\ b \in 1..Len(loops[n].type)
    BY <1>1, <1>2, <1>3
  <2>2. f < n \/ (f = n /\ a <= b)
    <3>1. CASE f = n
      <4>1. PICK t : t = loops[f].type
        OBVIOUS
      <4>2. TypesOf(t)
        BY <1>1, <1>2, <4>1
      <4>3. \/ t[1] = "Inner"
            \/ Len(t) = 2 /\ t[1] = "Outer" /\ t[2] = "Inner"
        BY <1>1, <4>1 DEF Kinds
      <4>4. a \in Nat /\ b \in Nat /\ 1 <= b
        OBVIOUS
      <4>5. t[1] = "Inner" => a = 1
        BY <1>3, <4>1 DEF FirstInner
      <4>6. t[1] = "Outer" /\ Len(t) = 2 /\ t[2] = "Inner" => a = 2 /\ b = 2
        BY <1>3, <3>1, <4>1 DEF FirstInner, LastInner
      <4>7. QED
        BY <3>1, <4>3, <4>4, <4>5, <4>6
    <3>2. QED
      BY <1>1, <3>1
  <2>3. ~(e[n] + b < e[f] + a)
    <3>1. e[n] + b < e[f] + a <=> n < f \/ (n = f /\ b < a)
      BY <1>1, <1>7, <2>1
    <3>2. QED
      BY <1>1, <2>2, <3>1
  <2>4. e[n] + Len(loops[n].type) <= Len(L) /\ e[n] \in Nat /\ e[f] \in Nat
    BY <1>1 DEF Placed
  <2>5. PICK x \in Nat, y \in Nat, w \in Nat, D \in Nat :
            x = e[f] /\ y = e[n] /\ w = Len(loops[n].type) /\ D = Len(L)
    BY <1>1, <1>2, <1>5, <2>4
  <2>6. r = x + a /\ c = y + b /\ ~(y + b < x + a) /\ y + w <= D /\ b <= w
    BY <1>3, <1>4, <2>3, <2>4, <2>5
  <2>7. r <= c /\ 1 <= r /\ c <= D
    BY <2>6
  <2>8. QED
    BY <2>5, <2>7
<1>9. ASSUME NEW i \in 1..n, NEW k \in 1..Len(loops[i].type)
      PROVE  loops[i].type[k] = "Inner" <=> ~(e[i] + k < r) /\ ~(c < e[i] + k)
  <2>1. a \in 1..Len(loops[f].type) /\ b \in 1..Len(loops[n].type)
    BY <1>1, <1>2, <1>3
  <2>2. e[i] + k < r <=> i < f \/ (i = f /\ k < a)
    BY <1>1, <1>4, <1>7, <2>1
  <2>3. c < e[i] + k <=> n < i \/ (n = i /\ b < k)
    BY <1>1, <1>4, <1>7, <2>1
  <2>4. ~(n < i)
    BY <1>1
  <2>5. PICK t : t = loops[i].type
    OBVIOUS
  <2>6. k \in 1..2 /\ k <= Len(t) /\ TypesOf(t)
    <3>1. PICK l \in {1, 2} : l = Len(t)
      BY <1>2, <2>5
    <3>2. k \in 1..l
      BY <2>5, <3>1
    <3>3. k \in 1..2 /\ k <= l
      BY <3>1, <3>2
    <3>4. QED
      BY <1>2, <2>5, <3>1, <3>3
  <2>7. CASE i < f
    <3>1. t[k] = "Regular"
      <4>1. IsRegular(t)
        BY <2>5, <2>7 DEF Kinds
      <4>2. k \in DOMAIN t
        BY <2>6 DEF TypesOf
      <4>3. QED
        BY <4>1, <4>2 DEF IsRegular
    <3>2. QED
      BY <2>2, <2>5, <2>7, <3>1
  <2>8. CASE i >= f
    <3>1. \/ t[1] = "Inner" /\ (Len(t) = 2 => t[2] = "Inner")
          \/ i = f /\ Len(t) = 2 /\ t[1] = "Outer" /\ t[2] = "Inner"
          \/ i = n /\ Len(t) = 2 /\ t[1] = "Inner" /\ t[2] = "Regular"
      BY <2>5, <2>8 DEF Kinds
    <3>2. i = f => a = IF t[1] = "Outer" THEN 2 ELSE 1
      BY <1>3, <2>5 DEF FirstInner
    <3>3. i = n => b = IF t[Len(t)] = "Regular" THEN 1 ELSE Len(t)
      BY <1>3, <2>5 DEF LastInner
    <3>4. ~(i < f) /\ Len(t) \in {1, 2}
      BY <1>1, <1>2, <2>5, <2>8
    <3>5. CASE t[1] = "Inner" /\ (Len(t) = 2 => t[2] = "Inner")
      <4>1. t[k] = "Inner"
        BY <2>6, <3>4, <3>5
      <4>2. ~(i = f /\ k < a)
        BY <2>6, <3>2, <3>5
      <4>3. ~(n = i /\ b < k)
        BY <2>6, <3>3, <3>4, <3>5
      <4>4. QED
        BY <2>2, <2>3, <2>4, <2>5, <3>4, <4>1, <4>2, <4>3
    <3>6. CASE i = f /\ Len(t) = 2 /\ t[1] = "Outer" /\ t[2] = "Inner"
      <4>1. t[k] = "Inner" <=> ~(k < a)
        BY <2>6, <3>2, <3>6
      <4>2. ~(n = i /\ b < k)
        BY <2>6, <3>3, <3>6
      <4>3. QED
        BY <2>2, <2>3, <2>4, <2>5, <3>4, <3>6, <4>1, <4>2
    <3>7. CASE i = n /\ Len(t) = 2 /\ t[1] = "Inner" /\ t[2] = "Regular"
      <4>1. t[k] = "Inner" <=> ~(b < k)
        BY <2>6, <3>3, <3>7
      <4>2. ~(i = f /\ k < a)
        BY <2>6, <3>2, <3>7
      <4>3. QED
        BY <2>2, <2>3, <2>4, <2>5, <3>4, <3>7, <4>1, <4>2
    <3>8. QED
      BY <3>1, <3>5, <3>6, <3>7
  <2>9. QED
    BY <1>1, <2>7, <2>8
<1>10. Shape(L, r, c)
  <2>1. ASSUME NEW d \in 1..Len(L)
        PROVE  /\ L[d].count \in Nat \ {0}
               /\ L[d].role = "Inner" <=> r <= d /\ d <= c
               /\ L[d].resets <=> d = r
               /\ L[d].counts <=> d = c
    <3>0. PICK i \in 1..n : \E k \in 1..Len(loops[i].type) : d = e[i] + k
      BY DEF Placed
    <3>1. PICK k \in 1..Len(loops[i].type) : d = e[i] + k
      BY <3>0
    <3>2. a \in 1..Len(loops[f].type) /\ b \in 1..Len(loops[n].type)
      BY <1>1, <1>2, <1>3
    <3>3. (d = r <=> i = f /\ k = a) /\ (d = c <=> i = n /\ k = b)
      BY <1>1, <1>4, <1>7, <3>1, <3>2
    <3>4. L[d].role = "Inner" <=> ~(d < r) /\ ~(c < d)
      <4>1. L[d].role = loops[i].type[k]
        BY <1>6, <3>1
      <4>2. loops[i].type[k] = "Inner" <=> ~(d < r) /\ ~(c < d)
        BY <1>9, <3>1
      <4>3. QED
        BY <4>1, <4>2
    <3>5. L[d].count \in Nat \ {0} /\ (L[d].resets <=> d = r) /\ (L[d].counts <=> d = c)
      BY <1>6, <3>1, <3>3
    <3>6. (~(d < r) <=> r <= d) /\ (~(c < d) <=> d <= c)
      BY <1>5
    <3>7. QED
      BY <3>4, <3>5, <3>6
  <2>2. QED
    BY <1>5, <1>8, <2>1 DEF Shape
<1>11. Tiles(loops, L, r, c)
  <2>1. ASSUME NEW d \in 1..Len(L), IsSecond(L, d)
        PROVE  TileOf(loops, L, d) /\ (r + 1 < d /\ d < c => ~loops[L[d].loop].check)
    <3>0. PICK i \in 1..n : \E k \in 1..Len(loops[i].type) : d = e[i] + k
      BY DEF Placed
    <3>1. PICK k \in 1..Len(loops[i].type) : d = e[i] + k
      BY <3>0
    <3>2. d - 1 \in 1..Len(L) /\ d >= 2
      BY <1>5, <2>1 DEF IsSecond
    <3>2a. PICK j \in 1..n : \E m \in 1..Len(loops[j].type) : d - 1 = e[j] + m
      BY <3>2 DEF Placed
    <3>3. PICK m \in 1..Len(loops[j].type) : d - 1 = e[j] + m
      BY <3>2a
    <3>4. L[d].loop = i /\ L[d - 1].loop = j
      BY <1>6, <3>1, <3>3
    <3>5. i = j
      BY <2>1, <3>4 DEF IsSecond
    <3>6. e[i] \in Nat /\ Len(loops[i].type) \in {1, 2}
      BY <1>2 DEF Placed
    <3>7. k = 2 /\ m = 1 /\ Len(loops[i].type) = 2
      <4>1. PICK l \in {1, 2}, x \in Nat : l = Len(loops[i].type) /\ x = e[i]
        BY <3>6
      <4>2. k \in 1..l /\ m \in 1..l
        BY <3>5, <4>1
      <4>3. d = x + k /\ d - 1 = x + m
        BY <3>1, <3>3, <3>5, <4>1
      <4>4. k = 2 /\ m = 1 /\ l = 2
        BY ONLY l \in {1, 2}, x \in Nat, <4>2, <4>3, TwoOfTwo, Zenon
      <4>5. QED
        BY <4>1, <4>4
    <3>8. d = e[i] + 2 /\ d - 1 = e[i] + 1
      BY <3>1, <3>3, <3>5, <3>7
    <3>9. loops[i].range \in Nat \ {0} /\ loops[i].tileSize \in Nat \ {0} /\ loops[i].check \in BOOLEAN
      <4>1. loops[i] \in Loop
        BY DEF Kinds
      <4>2. QED
        BY <4>1, LoopTypes
    <3>10. /\ L[e[i] + 1].count = 1 + (loops[i].range - 1) \div loops[i].tileSize
           /\ L[e[i] + 2].count = loops[i].tileSize
      BY <3>7 DEF Placed
    <3>11. TileOf(loops, L, d)
      BY <3>4, <3>8, <3>9, <3>10 DEF TileOf
    <3>12. ASSUME r + 1 < d, d < c, loops[i].check PROVE FALSE
      <4>1. a \in 1..Len(loops[f].type) /\ b \in 1..Len(loops[n].type) /\ 1 \in 1..Len(loops[i].type)
        BY <1>1, <1>2, <1>3, <3>7
      <4>2. e[f] \in Nat /\ e[n] \in Nat
        BY <1>1 DEF Placed
      <4>3. i # f
        <5>1. i = f => d <= r + 1
          <6>1. 1 <= a
            OBVIOUS
          <6>2. PICK x \in Nat : x = e[f]
            BY <4>2
          <6>3. i = f => d = x + 2 /\ r = x + a
            BY <1>4, <3>8, <6>2
          <6>4. QED
            BY <6>1, <6>3
        <5>2. QED
          BY <3>12, <3>8, <3>6, <5>1
      <4>4. i # n
        <5>1. i = n /\ Len(loops[n].type) = 2
          => (loops[n].type[2] = "Regular" /\ b = 1) \/ b = 2
          BY <1>3 DEF LastInner
        <5>2. i = n => d = e[n] + 2 /\ Len(loops[n].type) = 2
          BY <3>7, <3>8
        <5>3. i = n => ~(d < c)
          BY <1>4, <4>2, <5>1, <5>2
        <5>4. QED
          BY <3>12, <5>3
      <4>5. ~(i < f)
        <5>1. ~(d < r)
          BY <1>5, <3>12
        <5>2. d < r <=> i < f \/ (i = f /\ k < a)
          BY <1>1, <1>4, <1>7, <3>1, <4>1
        <5>3. QED
          BY <5>1, <5>2
      <4>6. i \in f + 1..n - 1
        BY <1>1, <4>3, <4>4, <4>5
      <4>7. ~loops[i].check
        BY <3>7, <4>6 DEF Kinds
      <4>8. QED
        BY <3>12, <4>7
    <3>13. QED
      BY <3>4, <3>11, <3>12
  <2>2. QED
    BY <2>1 DEF Tiles
<1>12. QED
  BY <1>10, <1>11

\* A nest for which the handlers count has its @inner levels in a row.
LEMMA CountedLevels ==
    ASSUME NEW loops \in Seq(Loop), CountedNest(loops)
    PROVE  \E r, c : Shape(Levels(loops), r, c) /\ Tiles(loops, Levels(loops), r, c)
<1>1. PICK n \in Nat : n = Len(loops)
  OBVIOUS
<1>2. PICK f : Kinds(loops, n, f)
  BY <1>1, NestHasKinds
<1>3. PICK e : Placed(loops, n, e, Levels(loops))
  BY <1>1, LevelsArePlaced
<1>4. QED
  BY <1>2, <1>3, NestShape

-----------------------------------------------------------------------------
(* The threads.                                                            *)

LEMMA NthOfInterval ==
    ASSUME NEW r \in Nat, NEW c \in Nat, 1 <= r, NEW j \in Nat, 1 <= j, r + j - 1 <= c
    PROVE  Nth(r..c, j) = r + j - 1
<1>1. ASSUME NEW d \in r..c PROVE Cardinality({e \in r..c : e <= d}) = d - r + 1
  <2>1. {e \in r..c : e <= d} = r..d
    OBVIOUS
  <2>2. Cardinality(r..d) = d - r + 1
    <3>1. r \in Int /\ d \in Int /\ ~(r > d)
      OBVIOUS
    <3>2. QED
      BY <3>1, FS_Interval
  <2>3. QED
    BY <2>1, <2>2
<1>2. PICK x : x = r + j - 1
  OBVIOUS
<1>3. x \in r..c /\ x - r + 1 = j
  BY <1>2
<1>4. Cardinality({e \in r..c : e <= x}) = j
  BY <1>1, <1>3
<1>5. ASSUME NEW d \in r..c, Cardinality({e \in r..c : e <= d}) = j PROVE d = x
  <2>1. d - r + 1 = j
    BY <1>1, <1>5
  <2>2. QED
    BY <1>3, <2>1
<1>6. Nth(r..c, j) = x
  BY <1>3, <1>4, <1>5 DEF Nth
<1>7. QED
  BY <1>2, <1>6

\* The @inner levels, and what belongs to each of them.
LEMMA InnerLevels ==
    ASSUME NEW levels, NEW r, NEW c, Shape(levels, r, c)
    PROVE  \E n \in Nat : /\ n = c - r + 1 /\ WithRole(levels, "Inner") = r..c
                          /\ Cardinality(WithRole(levels, "Inner")) = n
                          /\ \A j \in 1..n : Nth(WithRole(levels, "Inner"), j) = r + j - 1 /\ r + j - 1 \in 1..Len(levels)
<1>1. r \in Nat /\ c \in Nat /\ 1 <= r /\ r <= c /\ c <= Len(levels) /\ Len(levels) \in Nat
  BY DEF Shape
<1>2. PICK n \in Nat : n = c - r + 1
  <2>1. c - r + 1 \in Nat
    BY <1>1
  <2>2. QED
    BY <2>1
<1>3. WithRole(levels, "Inner") = r..c
  <2>1. \A d \in 1..Len(levels) : levels[d].role = "Inner" <=> r <= d /\ d <= c
    BY DEF Shape
  <2>2. \A d : d \in r..c <=> d \in 1..Len(levels) /\ r <= d /\ d <= c
    BY <1>1
  <2>3. DOMAIN levels = 1..Len(levels)
    BY DEF Shape
  <2>4. QED
    BY <2>1, <2>2, <2>3 DEF WithRole
<1>4. Cardinality(r..c) = n
  <2>1. r \in Int /\ c \in Int /\ ~(r > c)
    BY <1>1
  <2>2. QED
    BY <1>2, <2>1, FS_Interval
<1>5. ASSUME NEW j \in 1..n PROVE Nth(r..c, j) = r + j - 1 /\ r + j - 1 \in 1..Len(levels)
  <2>1. j \in Nat /\ 1 <= j /\ r + j - 1 <= c
    BY <1>1, <1>2
  <2>2. r + j - 1 \in 1..Len(levels)
    BY <1>1, <2>1
  <2>3. QED
    BY <1>1, <2>1, <2>2, NthOfInterval
<1>6. QED
  BY <1>2, <1>3, <1>4, <1>5

LEMMA BlockIs ==
    ASSUME NEW levels, NEW r, NEW c, Shape(levels, r, c), NEW B, B = BlockOf(levels), NEW n, n = c - r + 1
    PROVE  IsBlock(B, n) /\ \A j \in 1..n : B[j] = levels[r + j - 1].count
<1>1. /\ n \in Nat /\ Cardinality(WithRole(levels, "Inner")) = n
      /\ \A j \in 1..n : Nth(WithRole(levels, "Inner"), j) = r + j - 1 /\ r + j - 1 \in 1..Len(levels)
  BY InnerLevels
<1>2. PICK D : D = WithRole(levels, "Inner")
  OBVIOUS
<1>3. B = [j \in 1..n |-> levels[Nth(D, j)].count]
  BY <1>1, <1>2 DEF BlockOf
<1>4. \A j \in 1..n : B[j] = levels[r + j - 1].count
  BY <1>1, <1>2, <1>3
<1>5. \A d \in 1..Len(levels) : levels[d].count \in Nat \ {0}
  BY DEF Shape
<1>6. \A j \in 1..n : levels[r + j - 1].count \in Nat \ {0}
  BY <1>1, <1>5
<1>7. B \in [1..n -> Nat \ {0}]
  BY <1>3, <1>4, <1>6
<1>8. QED
  BY <1>1, <1>4, <1>7 DEF IsBlock

\* What stays as it is below the @inner levels.
LEMMA Unchanged ==
    ASSUME NEW g, NEW c \in Nat, NEW D \in Nat, c <= D, \A d \in 1..D : d > c => g[d] = g[d - 1]
    PROVE  g[D] = g[c]
<1> DEFINE S == {m \in Nat : c + m <= D => g[c + m] = g[c]}
<1>1. 0 \in S
  OBVIOUS
<1>2. ASSUME NEW m \in Nat, m \in S PROVE m + 1 \in S
  <2> SUFFICES ASSUME c + (m + 1) <= D PROVE g[c + (m + 1)] = g[c]
    OBVIOUS
  <2>1. PICK d \in Nat : d = c + (m + 1)
    OBVIOUS
  <2>2. d \in 1..D /\ d > c /\ d - 1 = c + m
    BY <2>1
  <2>3. g[c + m] = g[c]
    BY <1>2, <2>2
  <2>4. g[d] = g[d - 1]
    BY <2>2
  <2>5. QED
    BY <2>1, <2>2, <2>3, <2>4
<1>3. Nat \subseteq S
  <2> HIDE DEF S
  <2>1. QED
    BY <1>1, <1>2, SetInduction
<1>4. PICK m \in Nat : m = D - c
  OBVIOUS
<1>5. c + m = D
  BY <1>4
<1>6. m \in S
  BY <1>3
<1>7. QED
  BY <1>5, <1>6

\* t is the thread of the place, in the block B of n dimensions.
IsThread(levels, r, c, it, B, n, t) ==
    B = BlockOf(levels) /\ n = c - r + 1 /\ t = [j \in 1..n |-> it[r + j - 1]]

\* v is the number of the thread t in the block B.
HasNumber(B, n, t, v) == Fits(t, B, n) /\ \E g : Digits(g, B, n, t) /\ g[n] = v

\* The thread of a place has the number of the place.
LEMMA ThreadDigits ==
    ASSUME NEW levels, NEW r, NEW c, Shape(levels, r, c), NEW it, IsPlace(levels, it), IsDeepest(levels, it),
           NEW v, AtNumber(levels, r, c, it, v), NEW B, NEW n, NEW t, IsThread(levels, r, c, it, B, n, t)
    PROVE  HasNumber(B, n, t, v)
<1> PICK h : Ranks(h, levels, r, c, it) /\ v = h[Len(levels)]
  BY DEF AtNumber
<1>0. Len(it) = Len(levels) /\ B = BlockOf(levels) /\ n = c - r + 1 /\ t = [j \in 1..n |-> it[r + j - 1]]
  BY DEF IsDeepest, IsThread
<1>1. PICK D \in Nat : D = Len(levels)
  BY DEF Shape
<1>2. r \in Nat /\ c \in Nat /\ 1 <= r /\ r <= c /\ c <= D
  BY <1>0, <1>1 DEF Shape
<1>3. n \in Nat /\ n = c - r + 1
  BY <1>0, <1>2
<1>4. IsBlock(B, n) /\ \A j \in 1..n : B[j] = levels[r + j - 1].count
  BY <1>0, BlockIs
<1>5. \A j \in 1..n : r + j - 1 \in 1..D
  BY <1>0, <1>2, <1>3
<1>6. \A d \in 1..D : it[d] \in Nat /\ it[d] < levels[d].count
  BY <1>0, <1>1 DEF IsPlace
<1>7. Fits(t, B, n)
  <2>1. \A j \in 1..n : t[j] = it[r + j - 1]
    BY <1>0
  <2>2. ASSUME NEW j \in 1..n PROVE t[j] \in Nat /\ t[j] < B[j]
    BY <1>0, <1>4, <1>5, <1>6, <2>1
  <2>3. t \in [1..n -> Nat]
    BY <1>0, <2>2
  <2>4. QED
    BY <1>0, <2>2, <2>3 DEF Fits
<1>8. PICK g : g = [j \in 0..n |-> h[r + j - 1]]
  OBVIOUS
<1>9. h \in [0..D -> Nat] /\ \A d \in 0..D : d < r => h[d] = 0
  BY <1>0, <1>1 DEF Ranks
<1>10. g \in [0..n -> Nat]
  <2>1. ASSUME NEW j \in 0..n PROVE h[r + j - 1] \in Nat
    <3>1. r + j - 1 \in 0..D
      BY <1>0, <1>2, <1>3
    <3>2. QED
      BY <1>0, <1>9, <3>1
  <2>2. QED
    BY <1>0, <1>8, <2>1
<1>11. g[0] = 0
  <2>1. 0 \in 0..n /\ r + 0 - 1 \in 0..D /\ r + 0 - 1 < r
    BY <1>0, <1>2, <1>3
  <2>2. QED
    BY <1>0, <1>8, <1>9, <2>1
<1>12. ASSUME NEW j \in 1..n PROVE g[j] = g[j - 1] * B[j] + t[j]
  <2>1. PICK d \in 1..D : d = r + j - 1
    BY <1>0, <1>5
  <2>2. j \in 0..n /\ j - 1 \in 0..n /\ r + (j - 1) - 1 = d - 1 /\ r <= d /\ d <= c
    BY <1>0, <1>2, <1>3, <2>1
  <2>3. g[j] = h[d] /\ g[j - 1] = h[d - 1]
    BY <1>0, <1>8, <2>1, <2>2
  <2>4. h[d] = h[d - 1] * levels[d].count + it[d]
    BY <1>0, <1>1, <2>2 DEF Ranks
  <2>5. B[j] = levels[d].count /\ t[j] = it[d]
    BY <1>0, <1>4, <2>1
  <2>6. QED
    BY <1>0, <2>3, <2>4, <2>5
<1>13. h[D] = h[c]
  <2>1. \A d \in 1..D : d > c => h[d] = h[d - 1]
    BY <1>0, <1>1 DEF Ranks
  <2>2. QED
    BY <1>0, <1>2, <2>1, Unchanged
<1>14. g[n] = h[D]
  <2>1. n \in 0..n /\ r + n - 1 = c
    BY <1>0, <1>2, <1>3
  <2>2. QED
    BY <1>0, <1>8, <1>13, <2>1
<1>15. Digits(g, B, n, t)
  BY <1>0, <1>10, <1>11, <1>12 DEF Digits
<1>16. QED
  BY <1>0, <1>1, <1>7, <1>14, <1>15 DEF HasNumber

\* The product of the sizes of the block.
LEMMA ThreadsAre ==
    ASSUME NEW levels, NEW r, NEW c, Shape(levels, r, c), NEW B, B = BlockOf(levels), NEW n, n = c - r + 1
    PROVE  \E P : Products(P, B, n) /\ Threads(levels) = P[n]
<1>1. PICK D \in Nat : D = Len(levels)
  BY DEF Shape
<1>2. r \in Nat /\ c \in Nat /\ 1 <= r /\ r <= c /\ c <= D /\ n \in Nat
  BY <1>1 DEF Shape
<1>3. IsBlock(B, n) /\ \A j \in 1..n : B[j] = levels[r + j - 1].count
  BY BlockIs
<1> DEFINE factor(d) == IF levels[d].role = "Inner" THEN levels[d].count ELSE 1
           step == [d \in 1..D |-> [x \in Nat |-> IF levels[d].role = "Inner" THEN x * levels[d].count ELSE x]]
           Sizes(f) == [d \in 0..D |-> IF d = 0 THEN 1
                                       ELSE IF levels[d].role = "Inner" THEN f[d - 1] * levels[d].count
                                       ELSE f[d - 1]]
           size == CHOOSE f : f = Sizes(f)
<1>4. step \in StepsOn(Nat, D)
  <2>1. ASSUME NEW d \in 1..D, NEW x \in Nat
        PROVE  (IF levels[d].role = "Inner" THEN x * levels[d].count ELSE x) \in Nat
    <3>1. levels[d].count \in Nat
      BY <1>1 DEF Shape
    <3>2. QED
      BY <3>1
  <2>2. QED
    BY <2>1 DEF StepsOn
<1>5. PICK g \in [0..D -> Nat] : Computes(g, 1, step, Before(D), D)
  <2> HIDE DEF step
  <2>1. Before(D) \in EarlierThan(D)
    BY BeforeIsEarlier
  <2>2. QED
    BY <1>4, <2>1, RecursionExists
<1>6. g[0] = 1 /\ \A d \in 1..D : g[d] = IF levels[d].role = "Inner" THEN g[d - 1] * levels[d].count ELSE g[d - 1]
  <2>1. ASSUME NEW d \in 1..D
        PROVE  g[d] = IF levels[d].role = "Inner" THEN g[d - 1] * levels[d].count ELSE g[d - 1]
    <3>1. g[d] = step[d][g[d - 1]]
      BY <1>5 DEF Computes, Before
    <3>2. g[d - 1] \in Nat
      <4>1. d - 1 \in 0..D
        OBVIOUS
      <4>2. QED
        BY <4>1
    <3>3. QED
      BY <3>1, <3>2
  <2>2. QED
    BY <1>5, <2>1 DEF Computes
<1>7. g = Sizes(g)
  <2>1. \A d \in 0..D : g[d] = Sizes(g)[d]
    <3>1. ASSUME NEW d \in 0..D PROVE g[d] = Sizes(g)[d]
      <4>1. CASE d = 0
        BY <1>6, <4>1
      <4>2. CASE d # 0
        <5>1. d \in 1..D
          BY <4>2
        <5>2. QED
          BY <1>6, <4>2, <5>1
      <4>3. QED
        BY <4>1, <4>2
    <3>2. QED
      BY <3>1
  <2>2. g = [d \in 0..D |-> g[d]]
    OBVIOUS
  <2>3. QED
    BY <2>1, <2>2
<1>8. size = Sizes(size)
  <2> HIDE DEF Sizes, step
  <2>1. QED
    BY <1>7
<1>9. \A d \in 0..D : size[d] = IF d = 0 THEN 1
                                ELSE IF levels[d].role = "Inner" THEN size[d - 1] * levels[d].count
                                ELSE size[d - 1]
  <2> HIDE DEF size
  <2>1. QED
    BY <1>8
<1>10. Threads(levels) = size[D]
  BY <1>1 DEF Threads
<1> HIDE DEF size, Sizes, step
<1>11. size[D] = g[D]
  <2>1. size[0] = g[0]
    BY <1>6, <1>9
  <2>2. \A d \in 1..D : size[d - 1] = g[d - 1] => size[d] = g[d]
    <3>1. ASSUME NEW d \in 1..D, size[d - 1] = g[d - 1] PROVE size[d] = g[d]
      <4>1. d \in 0..D /\ d # 0
        OBVIOUS
      <4>2. QED
        BY <1>6, <1>9, <3>1, <4>1
    <3>2. QED
      BY <3>1
  <2>3. \A d \in 0..D : size[d] = g[d]
    BY <2>1, <2>2, RecursionUnique, ZenonT(60)
  <2>4. QED
    BY <2>3
<1>12. \A d \in 1..D : levels[d].role = "Inner" <=> r <= d /\ d <= c
  BY <1>1 DEF Shape
<1>13. g[D] = g[c]
  <2>1. \A d \in 1..D : d > c => g[d] = g[d - 1]
    BY <1>2, <1>6, <1>12
  <2>2. QED
    BY <1>2, <2>1, Unchanged
<1>14. g[r - 1] = 1
  <2>1. r - 1 \in Nat /\ r - 1 <= D
    BY <1>2
  <2>2. \A d \in 1..r - 1 : d > 0 => g[d] = g[d - 1]
    BY <1>2, <1>6, <1>12
  <2>3. g[r - 1] = g[0]
    <3>1. PICK m \in Nat, z \in Nat : m = r - 1 /\ z = 0
      BY <2>1
    <3>2. z <= m /\ \A d \in 1..m : d > z => g[d] = g[d - 1]
      BY <2>2, <3>1
    <3>3. g[m] = g[z]
      BY <3>2, Unchanged
    <3>4. QED
      BY <3>1, <3>3
  <2>4. QED
    BY <1>6, <2>3
<1>15. PICK P : P = [j \in 0..n |-> g[r + j - 1]]
  OBVIOUS
<1>16. P \in [0..n -> Nat]
  <2>1. \A j \in 0..n : r + j - 1 \in 0..D
    BY <1>2
  <2>2. QED
    BY <1>15, <2>1
<1>17. P[0] = 1
  <2>1. 0 \in 0..n /\ r + 0 - 1 = r - 1
    BY <1>2
  <2>2. QED
    BY <1>14, <1>15, <2>1
<1>18. ASSUME NEW j \in 1..n PROVE P[j] = P[j - 1] * B[j]
  <2>1. PICK d \in 1..D : d = r + j - 1
    BY <1>2
  <2>2. j \in 0..n /\ j - 1 \in 0..n /\ r + (j - 1) - 1 = d - 1 /\ r <= d /\ d <= c
    BY <1>2, <2>1
  <2>3. P[j] = g[d] /\ P[j - 1] = g[d - 1]
    BY <1>15, <2>1, <2>2
  <2>4. g[d] = g[d - 1] * levels[d].count
    BY <1>6, <1>12, <2>2
  <2>5. B[j] = levels[d].count
    BY <1>3, <2>1
  <2>6. QED
    BY <2>3, <2>4, <2>5
<1>19. P[n] = g[D]
  <2>1. n \in 0..n /\ r + n - 1 = c
    BY <1>2
  <2>2. QED
    BY <1>13, <1>15, <2>1
<1>20. Products(P, B, n)
  BY <1>16, <1>17, <1>18 DEF Products
<1>21. QED
  BY <1>10, <1>11, <1>19, <1>20

-----------------------------------------------------------------------------
(* The inductive invariant.                                                *)

\* Execution stands at iteration `it` of the loops of nest k.
AtNest(p, k, it, left, x) ==
    LET levels == Levels(p[k])
    IN  /\ IsPlace(levels, it)
        /\ \E r, c : /\ Shape(levels, r, c) /\ Tiles(p[k], levels, r, c)
                     /\ Indexed(p[k], levels, r, c, it, left, x)

\* The slot of a use is the number of its thread.
Numbered(u, B) ==
    /\ IsBlock(B, Len(B)) /\ Fits(u.thread, B, Len(B))
    /\ \E g : Digits(g, B, Len(B), u.thread) /\ g[Len(B)] = u.slot

AllNumbered(p, us) == \A u \in us : \E k \in DOMAIN p : Numbered(u, BlockOf(Levels(p[k])))

\* The loops stay those that were emitted, the place is one of the nest under
\* execution, the index is right for it, and the slots that were used were.
SerialInv ==
    /\ program \in Programs
    /\ emitted = [k \in DOMAIN program |-> Levels(program[k])]
    /\ nest \in Nat \ {0} /\ leaving \in BOOLEAN /\ index \in Int
    /\ nest <= Len(program) => AtNest(program, nest, iters, leaving, index)
    /\ leaving => nest <= Len(program)
    /\ AllNumbered(program, uses)

LEMMA ProgramIs ==
    ASSUME NEW p \in Programs
    PROVE  /\ Len(p) \in Nat /\ DOMAIN p = 1..Len(p)
           /\ \A k \in DOMAIN p : p[k] \in Seq(Loop) /\ CountedNest(p[k])
           /\ \A j, k \in DOMAIN p : BlockOf(Levels(p[j])) = BlockOf(Levels(p[k]))
<1>1. p \in Seq(Seq(Loop))
  BY ProgramsAssumption
<1>2. Len(p) \in Nat /\ DOMAIN p = 1..Len(p) /\ \A k \in DOMAIN p : p[k] \in Seq(Loop)
  BY <1>1
<1>3. \A k \in DOMAIN p : p[k] \in ToSet(p)
  BY DEF ToSet
<1>4. \A loops \in ToSet(p) : CountedNest(loops)
  BY NestsAssumption
<1>5. \A m, n \in ToSet(p) : BlockOf(Levels(m)) = BlockOf(Levels(n))
  BY NestsAssumption
<1>6. QED
  BY <1>2, <1>3, <1>4, <1>5

\* Before a nest is entered.
LEMMA BeforeNest ==
    ASSUME NEW p \in Programs, NEW k \in DOMAIN p, NEW x
    PROVE  AtNest(p, k, <<>>, FALSE, x)
<1>1. PICK levels : levels = Levels(p[k])
  OBVIOUS
<1>2. PICK r, c : Shape(levels, r, c) /\ Tiles(p[k], levels, r, c)
  <2>1. p[k] \in Seq(Loop) /\ CountedNest(p[k])
    BY ProgramIs
  <2>2. QED
    BY <1>1, <2>1, CountedLevels
<1>3. PICK e : e = <<>>
  OBVIOUS
<1>4. e \in Seq(Nat) /\ Len(e) = 0
  BY <1>3
<1>5. Len(levels) \in Nat /\ r \in Nat /\ 1 <= r
  BY <1>2 DEF Shape
<1>6. IsPlace(levels, e)
  BY <1>4, <1>5 DEF IsPlace
<1>7. ~(Len(e) >= r)
  BY <1>4, <1>5
<1>8. Indexed(p[k], levels, r, c, e, FALSE, x)
  BY <1>7 DEF Indexed
<1>9. QED
  BY <1>1, <1>2, <1>3, <1>6, <1>8 DEF AtNest

LEMMA CheckIsFails ==
    PassesCheck <=> ~Fails(program[nest], Here, iters, Depth)
BY DEF PassesCheck, Fails, IsSecond

\* The steps of execution, as steps of the place.
LEMMA EnterAt ==
    ASSUME NEW p, NEW k, NEW it, NEW x, NEW levels, levels = Levels(p[k]), AtNest(p, k, it, FALSE, x),
           Len(it) < Len(levels), ~Fails(p[k], levels, it, Len(it)),
           NEW y, y = IF levels[Len(it) + 1].resets THEN 0 ELSE x
    PROVE  AtNest(p, k, Append(it, 0), FALSE, y)
<1>1. PICK r, c : /\ IsPlace(levels, it) /\ Shape(levels, r, c) /\ Tiles(p[k], levels, r, c)
                  /\ Indexed(p[k], levels, r, c, it, FALSE, x)
  BY DEF AtNest
<1>2. IsPlace(levels, Append(it, 0)) /\ Indexed(p[k], levels, r, c, Append(it, 0), FALSE, y)
  BY <1>1, Entering
<1>3. QED
  BY <1>1, <1>2 DEF AtNest

LEMMA EndAt ==
    ASSUME NEW p, NEW k, NEW it, NEW x, NEW levels, levels = Levels(p[k]), AtNest(p, k, it, FALSE, x),
           Fails(p[k], levels, it, Len(it)) \/ Len(it) = Len(levels)
    PROVE  AtNest(p, k, it, TRUE, x)
<1>1. PICK r, c : /\ IsPlace(levels, it) /\ Shape(levels, r, c) /\ Tiles(p[k], levels, r, c)
                  /\ Indexed(p[k], levels, r, c, it, FALSE, x)
  BY DEF AtNest
<1>2. Indexed(p[k], levels, r, c, it, TRUE, x)
  BY <1>1, Ending
<1>3. QED
  BY <1>1, <1>2 DEF AtNest

LEMMA AgainAt ==
    ASSUME NEW p, NEW k, NEW it, NEW x, NEW levels, levels = Levels(p[k]), AtNest(p, k, it, TRUE, x),
           x \in Int, NEW n \in Nat, n = Len(it), n > 0, it[n] + 1 < levels[n].count,
           NEW y, y = IF levels[n].counts THEN x + 1 ELSE x,
           NEW u, u = [it EXCEPT ![n] = @ + 1]
    PROVE  AtNest(p, k, u, FALSE, y)
<1>1. PICK r, c : /\ IsPlace(levels, it) /\ Shape(levels, r, c) /\ Tiles(p[k], levels, r, c)
                  /\ Indexed(p[k], levels, r, c, it, TRUE, x)
  BY DEF AtNest
<1>2. IsPlace(levels, u) /\ Indexed(p[k], levels, r, c, u, FALSE, y)
  BY <1>1, Again
<1>3. QED
  BY <1>1, <1>2 DEF AtNest

LEMMA LeaveAt ==
    ASSUME NEW p, NEW k, NEW it, NEW x, NEW levels, levels = Levels(p[k]), AtNest(p, k, it, TRUE, x),
           x \in Int, NEW n \in Nat, n = Len(it), n > 0, ~(it[n] + 1 < levels[n].count),
           NEW y, y = IF levels[n].counts THEN x + 1 ELSE x,
           NEW u, u = Front(it)
    PROVE  AtNest(p, k, u, TRUE, y)
<1>1. PICK r, c : /\ IsPlace(levels, it) /\ Shape(levels, r, c) /\ Tiles(p[k], levels, r, c)
                  /\ Indexed(p[k], levels, r, c, it, TRUE, x)
  BY DEF AtNest
<1>2. IsPlace(levels, u) /\ Indexed(p[k], levels, r, c, u, TRUE, y)
  BY <1>1, Leave
<1>3. QED
  BY <1>1, <1>2 DEF AtNest

\* The thread of a place.
ThreadOf(levels, it) ==
    [n \in 1..Cardinality(WithRole(levels, "Inner")) |-> it[Nth(WithRole(levels, "Inner"), n)]]

LEMMA UseAt ==
    ASSUME NEW p, NEW k, NEW it, NEW x, NEW levels, levels = Levels(p[k]), AtNest(p, k, it, FALSE, x),
           Len(it) = Len(levels), ~Fails(p[k], levels, it, Len(it)),
           NEW u, u.thread = ThreadOf(levels, it), u.slot = x
    PROVE  Numbered(u, BlockOf(levels))
<1>1. PICK r, c : /\ IsPlace(levels, it) /\ Shape(levels, r, c)
                  /\ Indexed(p[k], levels, r, c, it, FALSE, x)
  BY DEF AtNest
<1>2. AtNumber(levels, r, c, it, x)
  <2>1. PICK loops : loops = p[k]
    OBVIOUS
  <2>2. /\ Shape(levels, r, c) /\ IsPlace(levels, it) /\ IsDeepest(levels, it)
        /\ Passes(loops, levels, it) /\ Indexed(loops, levels, r, c, it, FALSE, x)
    BY <1>1, <2>1 DEF IsDeepest, Passes
  <2>3. QED
    BY ONLY <2>2, AtBottom, Zenon
<1>3. PICK B : B = BlockOf(levels)
  OBVIOUS
<1>4. PICK n \in Nat : /\ n = c - r + 1 /\ Cardinality(WithRole(levels, "Inner")) = n
                       /\ \A j \in 1..n : Nth(WithRole(levels, "Inner"), j) = r + j - 1
  BY <1>1, InnerLevels
<1>5. IsBlock(B, n)
  BY <1>1, <1>3, <1>4, BlockIs
<1>6. Len(B) = n
  BY <1>5 DEF IsBlock
<1>7. PICK t : t = [j \in 1..n |-> it[r + j - 1]]
  OBVIOUS
<1>8. u.thread = t
  <2>1. ThreadOf(levels, it) = [j \in 1..n |-> it[Nth(WithRole(levels, "Inner"), j)]]
    BY <1>4 DEF ThreadOf
  <2>2. \A j \in 1..n : it[Nth(WithRole(levels, "Inner"), j)] = it[r + j - 1]
    BY <1>4
  <2>3. [j \in 1..n |-> it[Nth(WithRole(levels, "Inner"), j)]] = t
    BY <1>7, <2>2
  <2>4. QED
    BY <2>1, <2>3
<1>9. HasNumber(B, n, t, x)
  <2>1. /\ Shape(levels, r, c) /\ IsPlace(levels, it) /\ IsDeepest(levels, it)
        /\ AtNumber(levels, r, c, it, x) /\ IsThread(levels, r, c, it, B, n, t)
    BY <1>1, <1>2, <1>3, <1>4, <1>7 DEF IsDeepest, IsThread
  <2>2. QED
    BY ONLY <2>1, ThreadDigits, Zenon
<1>10. Numbered(u, B)
  BY <1>5, <1>6, <1>8, <1>9 DEF Numbered, HasNumber
<1>11. QED
  BY <1>3, <1>10

LEMMA SerialInit == Init => SerialInv
<1> SUFFICES ASSUME Init PROVE SerialInv
  OBVIOUS
<1>1. /\ program \in Programs /\ emitted = [k \in DOMAIN program |-> Levels(program[k])]
      /\ nest = 1 /\ iters = <<>> /\ leaving = FALSE /\ index = -1 /\ uses = {}
  BY DEF Init
<1>2. 1 <= Len(program) => AtNest(program, 1, <<>>, FALSE, -1)
  <2>1. Len(program) \in Nat /\ DOMAIN program = 1..Len(program)
    BY <1>1, ProgramIs
  <2>2. 1 <= Len(program) => 1 \in DOMAIN program
    BY <2>1
  <2>3. QED
    BY <1>1, <2>2, BeforeNest
<1>3. nest \in Nat \ {0} /\ leaving \in BOOLEAN /\ index \in Int
  <2>1. nest \in Nat \ {0} /\ index \in Int
    BY <1>1
  <2>2. leaving \in BOOLEAN
    BY <1>1, Zenon
  <2>3. QED
    BY <2>1, <2>2
<1>4. nest <= Len(program) => AtNest(program, nest, iters, leaving, index)
  BY <1>1, <1>2
<1>5. AllNumbered(program, uses)
  BY <1>1 DEF AllNumbered
<1>6. ~leaving
  BY <1>1
<1>7. QED
  BY <1>1, <1>3, <1>4, <1>5, <1>6 DEF SerialInv

\* What holds in a nest.
LEMMA InNest ==
    ASSUME SerialInv, nest <= Len(program)
    PROVE  /\ nest \in DOMAIN program /\ Here = Levels(program[nest])
           /\ AtNest(program, nest, iters, leaving, index) /\ Len(iters) \in Nat
<1>1. Len(program) \in Nat /\ DOMAIN program = 1..Len(program) /\ nest \in Nat \ {0}
  BY ProgramIs DEF SerialInv
<1>2. nest \in DOMAIN program
  BY <1>1
<1>3. Here = Levels(program[nest])
  BY <1>2 DEF SerialInv, Here
<1>4. AtNest(program, nest, iters, leaving, index)
  BY DEF SerialInv
<1>5. iters \in Seq(Nat)
  BY <1>4 DEF AtNest, IsPlace
<1>6. QED
  BY <1>2, <1>3, <1>4, <1>5

LEMMA SerialStep == SerialInv /\ [Next]_vars => SerialInv'
<1> SUFFICES ASSUME SerialInv, [Next]_vars PROVE SerialInv'
  OBVIOUS
<1>1. /\ program \in Programs /\ emitted = [k \in DOMAIN program |-> Levels(program[k])]
      /\ nest \in Nat \ {0} /\ leaving \in BOOLEAN /\ index \in Int
      /\ leaving => nest <= Len(program)
      /\ AllNumbered(program, uses)
  BY DEF SerialInv
<1>2. ASSUME Enter PROVE SerialInv'
  <2>1. /\ nest <= Len(program) /\ leaving = FALSE /\ Depth < Len(Here) /\ PassesCheck
        /\ iters' = Append(iters, 0) /\ index' = IF Here[Depth + 1].resets THEN 0 ELSE index
        /\ program' = program /\ emitted' = emitted /\ nest' = nest /\ leaving' = leaving /\ uses' = uses
    BY <1>1, <1>2 DEF Enter
  <2>2. Here = Levels(program[nest]) /\ AtNest(program, nest, iters, FALSE, index)
    BY <2>1, InNest
  <2>3. AtNest(program, nest, Append(iters, 0), FALSE, index')
    <3>1. PICK levels : levels = Here
      OBVIOUS
    <3>2. ~Fails(program[nest], levels, iters, Len(iters))
      BY <2>1, <3>1, CheckIsFails DEF Depth
    <3>3. Len(iters) < Len(levels) /\ index' = IF levels[Len(iters) + 1].resets THEN 0 ELSE index
      BY <2>1, <3>1 DEF Depth
    <3>4. QED
      BY <2>2, <3>1, <3>2, <3>3, EnterAt
  <2>4. index' \in Int
    BY <1>1, <2>1
  <2>5. QED
    BY <1>1, <2>1, <2>3, <2>4 DEF SerialInv
<1>3. ASSUME FailCheck PROVE SerialInv'
  <2>1. /\ nest <= Len(program) /\ leaving = FALSE /\ ~PassesCheck /\ leaving' = TRUE
        /\ program' = program /\ emitted' = emitted /\ nest' = nest /\ iters' = iters
        /\ index' = index /\ uses' = uses
    BY <1>1, <1>3 DEF FailCheck
  <2>2. Here = Levels(program[nest]) /\ AtNest(program, nest, iters, FALSE, index)
    BY <2>1, InNest
  <2>3. AtNest(program, nest, iters, TRUE, index)
    <3>1. PICK levels : levels = Here
      OBVIOUS
    <3>2. Fails(program[nest], levels, iters, Len(iters))
      BY <2>1, <3>1, CheckIsFails DEF Depth
    <3>3. QED
      BY <2>2, <3>1, <3>2, EndAt
  <2>4. QED
    BY <1>1, <2>1, <2>3 DEF SerialInv
<1>4. ASSUME Use PROVE SerialInv'
  <2>1. /\ nest <= Len(program) /\ leaving = FALSE /\ Depth = Len(Here) /\ PassesCheck /\ leaving' = TRUE
        /\ uses' = uses \cup {[block |-> ItersOf("Outer"), thread |-> ItersOf("Inner"), slot |-> index]}
        /\ program' = program /\ emitted' = emitted /\ nest' = nest /\ iters' = iters /\ index' = index
    BY <1>1, <1>4 DEF Use
  <2>2. /\ nest \in DOMAIN program /\ Here = Levels(program[nest])
        /\ AtNest(program, nest, iters, FALSE, index)
    BY <2>1, InNest
  <2>3. PICK levels : levels = Here
    OBVIOUS
  <2>4. Len(iters) = Len(levels) /\ ~Fails(program[nest], levels, iters, Len(iters))
    BY <2>1, <2>3, CheckIsFails DEF Depth
  <2>5. AtNest(program, nest, iters, TRUE, index)
    BY <2>2, <2>3, <2>4, EndAt
  <2>6. PICK u : u = [block |-> ItersOf("Outer"), thread |-> ItersOf("Inner"), slot |-> index]
    OBVIOUS
  <2>7. u.thread = ThreadOf(levels, iters) /\ u.slot = index
    BY <2>3, <2>6 DEF ItersOf, ThreadOf
  <2>8. Numbered(u, BlockOf(levels))
    BY <2>2, <2>3, <2>4, <2>7, UseAt
  <2>9. AllNumbered(program, uses')
    <3>1. uses' = uses \cup {u}
      BY <2>1, <2>6
    <3>2. \E k \in DOMAIN program : Numbered(u, BlockOf(Levels(program[k])))
      BY <2>2, <2>3, <2>8
    <3>3. QED
      BY <1>1, <3>1, <3>2 DEF AllNumbered
  <2>10. QED
    BY <1>1, <2>1, <2>5, <2>9 DEF SerialInv
<1>5. ASSUME EndOfBody PROVE SerialInv'
  <2>1. /\ leaving = TRUE /\ Depth > 0 /\ index' = IF Here[Depth].counts THEN index + 1 ELSE index
        /\ IF iters[Depth] + 1 < Here[Depth].count
           THEN iters' = [iters EXCEPT ![Depth] = @ + 1] /\ leaving' = FALSE
           ELSE iters' = Front(iters) /\ leaving' = TRUE
        /\ program' = program /\ emitted' = emitted /\ nest' = nest /\ uses' = uses
    BY <1>1, <1>5 DEF EndOfBody
  <2>2. /\ nest <= Len(program) /\ Here = Levels(program[nest]) /\ Len(iters) \in Nat
        /\ AtNest(program, nest, iters, TRUE, index)
    BY <1>1, <2>1, InNest
  <2>3. PICK levels : levels = Here
    OBVIOUS
  <2>4. PICK n \in Nat : n = Len(iters)
    BY <2>2
  <2>5. n > 0 /\ index' = IF levels[n].counts THEN index + 1 ELSE index
    BY <2>1, <2>3, <2>4 DEF Depth
  <2>6. index' \in Int
    BY <1>1, <2>5
  <2>7. CASE iters[n] + 1 < levels[n].count
    <3>1. iters' = [iters EXCEPT ![n] = @ + 1] /\ leaving' = FALSE
      BY <2>1, <2>3, <2>4, <2>7 DEF Depth
    <3>2. PICK u : u = [iters EXCEPT ![n] = @ + 1]
      OBVIOUS
    <3>3. PICK y : y = index'
      OBVIOUS
    <3>4. AtNest(program, nest, u, FALSE, y)
      BY <1>1, <2>2, <2>3, <2>4, <2>5, <2>7, <3>2, <3>3, AgainAt
    <3>5. iters' = u
      BY <3>1, <3>2
    <3>6. QED
      BY <1>1, <2>1, <2>2, <2>6, <3>1, <3>3, <3>4, <3>5 DEF SerialInv
  <2>8. CASE ~(iters[n] + 1 < levels[n].count)
    <3>1. iters' = Front(iters) /\ leaving' = TRUE
      BY <2>1, <2>3, <2>4, <2>8 DEF Depth
    <3>2. PICK u : u = Front(iters)
      OBVIOUS
    <3>3. PICK y : y = index'
      OBVIOUS
    <3>4. AtNest(program, nest, u, TRUE, y)
      BY <1>1, <2>2, <2>3, <2>4, <2>5, <2>8, <3>2, <3>3, LeaveAt
    <3>5. iters' = u
      BY <3>1, <3>2
    <3>6. QED
      BY <1>1, <2>1, <2>2, <2>6, <3>1, <3>3, <3>4, <3>5 DEF SerialInv
  <2>9. QED
    BY <2>7, <2>8
<1>6. ASSUME NextNest PROVE SerialInv'
  <2>1. /\ leaving = TRUE /\ Depth = 0 /\ nest' = nest + 1 /\ leaving' = FALSE
        /\ program' = program /\ emitted' = emitted /\ iters' = iters /\ index' = index /\ uses' = uses
    BY <1>1, <1>6 DEF NextNest
  <2>2. iters = <<>>
    <3>1. AtNest(program, nest, iters, TRUE, index)
      BY <1>1, <2>1, InNest
    <3>2. iters \in Seq(Nat)
      BY <3>1 DEF AtNest, IsPlace
    <3>3. QED
      BY <2>1, <3>2 DEF Depth
  <2>3. Len(program) \in Nat /\ DOMAIN program = 1..Len(program)
    BY <1>1, ProgramIs
  <2>4. nest + 1 <= Len(program) => nest + 1 \in DOMAIN program
    BY <1>1, <2>3
  <2>5. nest + 1 <= Len(program) => AtNest(program, nest + 1, <<>>, FALSE, index)
    BY <1>1, <2>4, BeforeNest
  <2>6. nest + 1 \in Nat \ {0}
    BY <1>1
  <2>7. QED
    BY <1>1, <2>1, <2>2, <2>5, <2>6 DEF SerialInv
<1>7. ASSUME UNCHANGED vars PROVE SerialInv'
  BY <1>7 DEF SerialInv, vars
<1>8. QED
  BY <1>2, <1>3, <1>4, <1>5, <1>6, <1>7 DEF Next

LEMMA SerialInvHolds == Spec => []SerialInv
BY SerialInit, SerialStep, PTL DEF Spec

-----------------------------------------------------------------------------
(* The theorems.                                                           *)

LEMMA OwnSlots == SerialInv => OwnSlotPerThread
<1> SUFFICES ASSUME SerialInv, NEW u \in uses, NEW v \in uses
             PROVE  u.thread = v.thread <=> u.slot = v.slot
  BY DEF OwnSlotPerThread
<1>1. program \in Programs /\ AllNumbered(program, uses)
  BY DEF SerialInv
<1>2. PICK j \in DOMAIN program : Numbered(u, BlockOf(Levels(program[j])))
  BY <1>1 DEF AllNumbered
<1>3. PICK k \in DOMAIN program : Numbered(v, BlockOf(Levels(program[k])))
  BY <1>1 DEF AllNumbered
<1>4. PICK B : B = BlockOf(Levels(program[j]))
  OBVIOUS
<1>5. BlockOf(Levels(program[k])) = B
  BY <1>1, <1>4, ProgramIs
<1>6. Numbered(u, B) /\ Numbered(v, B)
  BY <1>2, <1>3, <1>4, <1>5
<1>7. PICK n : n = Len(B)
  OBVIOUS
<1>8. PICK t, w : t = u.thread /\ w = v.thread
  OBVIOUS
<1>9. IsBlock(B, n) /\ Fits(t, B, n) /\ Fits(w, B, n)
  BY <1>6, <1>7, <1>8 DEF Numbered
<1>10. PICK g : Digits(g, B, n, t) /\ g[n] = u.slot
  BY <1>6, <1>7, <1>8 DEF Numbered
<1>11. PICK h : Digits(h, B, n, w) /\ h[n] = v.slot
  BY <1>6, <1>7, <1>8 DEF Numbered
<1>12. ASSUME t = w PROVE u.slot = v.slot
  <2>1. Digits(h, B, n, t)
    BY <1>11, <1>12
  <2>2. g[n] = h[n]
    BY <1>9, <1>10, <2>1, SameValue
  <2>3. QED
    BY <1>10, <1>11, <2>2
<1>13. ASSUME u.slot = v.slot PROVE t = w
  <2>1. g[n] = h[n]
    BY <1>10, <1>11, <1>13
  <2>2. QED
    BY <1>9, <1>10, <1>11, <2>1, SameDigits
<1>14. QED
  BY <1>8, <1>12, <1>13

\* The arrays of a kernel are at least as large as its blocks.
LEMMA ArraySizeIs ==
    ASSUME SerialInv, UnknownBlocksFit, NEW k \in DOMAIN program, NEW B, B = BlockOf(Levels(program[k]))
    PROVE  \E P : /\ Products(P, B, Len(B)) /\ IsBlock(B, Len(B))
                  /\ ArraySize \in Nat /\ P[Len(B)] <= ArraySize
<1>1. program \in Programs /\ emitted = [j \in DOMAIN program |-> Levels(program[j])]
  BY DEF SerialInv
<1>2. ASSUME NEW j \in DOMAIN program
      PROVE  \E P : Products(P, B, Len(B)) /\ IsBlock(B, Len(B)) /\ Threads(Levels(program[j])) = P[Len(B)]
  <2>1. PICK levels : levels = Levels(program[j])
    OBVIOUS
  <2>2. program[j] \in Seq(Loop) /\ CountedNest(program[j]) /\ B = BlockOf(levels)
    BY <1>1, <2>1, ProgramIs
  <2>3. PICK r, c : Shape(levels, r, c)
    BY <2>1, <2>2, CountedLevels
  <2>4. PICK n : n = c - r + 1
    OBVIOUS
  <2>5. IsBlock(B, n)
    BY <2>2, <2>3, <2>4, BlockIs
  <2>6. Len(B) = n
    BY <2>5 DEF IsBlock
  <2>7. PICK P : Products(P, B, n) /\ Threads(levels) = P[n]
    BY <2>2, <2>3, <2>4, ThreadsAre
  <2>8. QED
    BY <2>1, <2>5, <2>6, <2>7
<1>3. PICK P : Products(P, B, Len(B)) /\ IsBlock(B, Len(B)) /\ Threads(Levels(program[k])) = P[Len(B)]
  BY <1>2
<1>4. PICK q \in Nat : q = P[Len(B)]
  <2>1. PICK n \in Nat : n = Len(B)
    BY <1>3 DEF IsBlock
  <2>2. P[n] \in Nat
    BY <1>3, <2>1 DEF Products
  <2>3. QED
    BY <2>1, <2>2
<1>5. ASSUME NEW j \in DOMAIN program PROVE Threads(emitted[j]) = q
  <2>1. PICK Q : Products(Q, B, Len(B)) /\ Threads(Levels(program[j])) = Q[Len(B)]
    BY <1>2
  <2>2. Q[Len(B)] = P[Len(B)]
    BY <1>3, <2>1, SameProducts
  <2>3. QED
    BY <1>1, <1>4, <2>1, <2>2
<1>6. {Threads(emitted[j]) : j \in DOMAIN emitted} = {q}
  BY <1>1, <1>5
<1>7. Max({q}) = q
  <2>1. {q} \subseteq 0..q /\ {q} # {}
    OBVIOUS
  <2>2. Max({q}) \in {q}
    BY <2>1, MaxIsGreatest
  <2>3. QED
    BY <2>2
<1>8. ArraySize \in Nat /\ q <= ArraySize
  <2>1. CASE \E j \in DOMAIN emitted : HasNullOpts(emitted[j])
    <3>1. PICK j \in DOMAIN emitted : HasNullOpts(emitted[j])
      BY <2>1
    <3>2. Threads(emitted[j]) <= FixedSize
      BY <3>1 DEF UnknownBlocksFit
    <3>3. Threads(emitted[j]) = q
      BY <1>1, <1>5
    <3>4. ArraySize = FixedSize
      BY <2>1 DEF ArraySize
    <3>5. QED
      BY <3>2, <3>3, <3>4, FixedSizeAssumption
  <2>2. CASE ~\E j \in DOMAIN emitted : HasNullOpts(emitted[j])
    <3>1. ArraySize = q
      BY <1>6, <1>7, <2>2 DEF ArraySize
    <3>2. QED
      BY <3>1
  <2>3. QED
    BY <2>1, <2>2
<1>9. QED
  BY <1>3, <1>4, <1>8

LEMMA SlotsFit == SerialInv => SlotsInArray
<1> SUFFICES ASSUME SerialInv, UnknownBlocksFit, NEW u \in uses PROVE u.slot \in 0..(ArraySize - 1)
  BY DEF SlotsInArray
<1>1. PICK k \in DOMAIN program : Numbered(u, BlockOf(Levels(program[k])))
  BY DEF SerialInv, AllNumbered
<1>2. PICK B : B = BlockOf(Levels(program[k]))
  OBVIOUS
<1>3. PICK P : /\ Products(P, B, Len(B)) /\ IsBlock(B, Len(B))
               /\ ArraySize \in Nat /\ P[Len(B)] <= ArraySize
  BY <1>2, ArraySizeIs
<1>4. Fits(u.thread, B, Len(B)) /\ \E g : Digits(g, B, Len(B), u.thread) /\ g[Len(B)] = u.slot
  BY <1>1, <1>2 DEF Numbered
<1>5. PICK g : Digits(g, B, Len(B), u.thread) /\ g[Len(B)] = u.slot
  BY <1>4
<1>6. g[Len(B)] \in Nat /\ P[Len(B)] \in Nat /\ g[Len(B)] < P[Len(B)]
  BY <1>3, <1>4, <1>5, ValueIsBelow
<1>7. PICK x \in Nat, y \in Nat : x = u.slot /\ y = ArraySize /\ x < y
  BY <1>3, <1>5, <1>6
<1>8. x \in 0..(y - 1)
  BY <1>7
<1>9. QED
  BY <1>7, <1>8

\* For any body of nests that run on one block, of any depth and with any ranges
\* and sizes of tiles: the resets and increments that the handlers of @inner and
\* @tile emit separately give two uses the same element of an @exclusive array
\* exactly when they are in the same thread, also across sibling nests.
THEOREM ThreadsHaveSlots == Spec => []OwnSlotPerThread
BY SerialInvHolds, OwnSlots, PTL

\* For any such body: no use of an @exclusive variable lies outside of the array
\* that handleExclusiveDeclAttribute sizes from the loops or, where one of their
\* sizes is not known when the code is generated, gives a fixed size: then as
\* long as the block has no more threads than that.
THEOREM SlotsAreInArray == Spec => []SlotsInArray
BY SerialInvHolds, SlotsFit, PTL
=============================================================================
