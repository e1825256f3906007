-------------------------- MODULE AttributesProofs --------------------------
(***************************************************************************)
(* Attributes from their registration to the code, for any parameters that *)
(* are written, any access and any order of the static constructors; and   *)
(* the parser, for any list of arguments.                                  *)
(***************************************************************************)
EXTENDS Attributes, InductionLemmas

-----------------------------------------------------------------------------
(* The index of an access: the nested text of buildIndexCalculation, from  *)
(* the last dimension outwards, is the sum of the offsets, from the first. *)

LEMMA ValuesAreInts == \A e \in Operand : ValueOf(e) \in Int
BY DEF Operand, ValueOf

\* The sizes and arguments in the order of the dimensions, as integers.
Ints(s, order) == [k \in 1..Len(order) |-> ValueOf(s[order[k] + 1])]

LEMMA OrderedInts ==
    ASSUME NEW s \in Seq(Operand), NEW order \in Seq(Nat), \A k \in DOMAIN order : order[k] < Len(s)
    PROVE  Ints(s, order) \in [1..Len(order) -> Int]
<1>1. ASSUME NEW k \in 1..Len(order) PROVE ValueOf(s[order[k] + 1]) \in Int
  <2>1. order[k] \in Nat /\ order[k] < Len(s) /\ Len(s) \in Nat
    OBVIOUS
  <2>2. order[k] + 1 \in 1..Len(s)
    BY <2>1
  <2>3. s[order[k] + 1] \in Operand
    BY <2>2
  <2>4. QED
    BY <2>3, ValuesAreInts
<1>2. QED
  BY <1>1 DEF Ints

LEMMA BlocksAre ==
    ASSUME NEW s \in Seq(Operand), NEW order \in Seq(Nat), \A k \in DOMAIN order : order[k] < Len(s)
    PROVE  /\ BlockSizes(s, order) \in [0..Len(order) -> Int]
           /\ BlockSizes(s, order)[0] = 1
           /\ \A k \in 1..Len(order) :
                 BlockSizes(s, order)[k] = BlockSizes(s, order)[k - 1] * Ints(s, order)[k]
<1> DEFINE n         == Len(order)
           d         == Ints(s, order)
           step      == [i \in 1..n |-> [x \in Int |-> x * d[i]]]
           Blocks(b) == [k \in 0..n |-> IF k = 0 THEN 1 ELSE b[k - 1] * ValueOf(s[order[k] + 1])]
<1>1. n \in Nat /\ d \in [1..n -> Int]
  BY OrderedInts
<1>2. \A k \in 1..n : d[k] = ValueOf(s[order[k] + 1])
  BY DEF Ints
<1> HIDE DEF n, d
<1>3. PICK g \in [0..n -> Int] : Computes(g, 1, step, Before(n), n)
  <2> DEFINE V == Int
  <2>1. step \in StepsOn(V, n) /\ 1 \in V
    BY <1>1 DEF StepsOn
  <2>2. Before(n) \in EarlierThan(n)
    BY <1>1, BeforeIsEarlier
  <2> HIDE DEF V, step
  <2>3. \E g \in [0..n -> V] : Computes(g, 1, step, Before(n), n)
    BY <1>1, <2>1, <2>2, RecursionExists
  <2>4. QED
    BY <2>3 DEF V
<1>4. g[0] = 1 /\ \A k \in 1..n : g[k] = g[k - 1] * d[k]
  <2>1. g[0] = 1 /\ \A k \in 1..n : g[k] = step[k][g[k - 1]]
    BY <1>1, <1>3 DEF Computes, Before
  <2>2. \A k \in 1..n : g[k - 1] \in Int
    BY <1>1
  <2>3. QED
    BY <2>1, <2>2
<1>5. g = Blocks(g)
  <2>1. \A k \in 0..n : g[k] = IF k = 0 THEN 1 ELSE g[k - 1] * ValueOf(s[order[k] + 1])
    BY <1>1, <1>2, <1>4
  <2>2. QED
    BY <2>1
<1> DEFINE block == CHOOSE b : b = Blocks(b)
<1>6. block = Blocks(block)
  BY <1>5
<1>7. BlockSizes(s, order) = block
  BY DEF BlockSizes, n
<1> HIDE DEF block
<1>8. block[0] = 1 /\ \A k \in 1..n : block[k] = block[k - 1] * d[k]
  BY <1>1, <1>2, <1>6
<1>9. \A k \in 0..n : block[k] = g[k]
  <2> DEFINE b == block
             h == g
             m == n
  <2>1. m \in Nat /\ h[0] = b[0]
    BY <1>1, <1>4, <1>8
  <2>2. \A i \in 1..m : h[i - 1] = b[i - 1] => h[i] = b[i]
    BY <1>4, <1>8
  <2> HIDE DEF b, h, m
  <2>3. \A i \in 0..m : h[i] = b[i]
    BY <2>1, <2>2, RecursionUnique, ZenonT(60)
  <2>4. QED
    BY <2>3 DEF b, h, m
<1>10. block \in [0..n -> Int]
  <2>1. block = [k \in 0..n |-> block[k]]
    BY <1>6
  <2>2. QED
    BY <1>9, <2>1
<1>11. QED
  BY <1>7, <1>8, <1>10 DEF n, d

\* The sums of offsets in blocks of sizes b.
IsSum(sum, n, a, b) ==
    /\ sum \in [0..n -> Int] /\ sum[0] = 0
    /\ \A k \in 1..n : sum[k] = sum[k - 1] + b[k - 1] * a[k]

LEMMA SumsAre ==
    ASSUME NEW n \in Nat, NEW a \in [1..n -> Int], NEW b \in [0..n -> Int]
    PROVE  \E sum : IsSum(sum, n, a, b)
<1> DEFINE step == [i \in 1..n |-> [x \in Int |-> x + b[i - 1] * a[i]]]
<1>1. \A i \in 1..n : b[i - 1] \in Int /\ a[i] \in Int
  OBVIOUS
<1>2. PICK g \in [0..n -> Int] : Computes(g, 0, step, Before(n), n)
  <2> DEFINE V == Int
  <2>1. step \in StepsOn(V, n) /\ 0 \in V
    BY <1>1 DEF StepsOn
  <2>2. Before(n) \in EarlierThan(n)
    BY BeforeIsEarlier
  <2> HIDE DEF V, step
  <2>3. \E g \in [0..n -> V] : Computes(g, 0, step, Before(n), n)
    BY <2>1, <2>2, RecursionExists
  <2>4. QED
    BY <2>3 DEF V
<1>3. g[0] = 0 /\ \A k \in 1..n : g[k] = step[k][g[k - 1]]
  BY <1>2 DEF Computes, Before
<1>4. \A k \in 1..n : g[k - 1] \in Int
  OBVIOUS
<1>5. \A k \in 1..n : g[k] = g[k - 1] + b[k - 1] * a[k]
  BY <1>3, <1>4
<1>6. IsSum(g, n, a, b)
  BY <1>3, <1>5 DEF IsSum
<1>7. QED
  BY <1>6

\* The text from the last dimension outwards.
IsText(rest, n, a, d) ==
    /\ rest \in [1..n -> Int]
    /\ \A k \in 1..n : rest[k] = IF k = n THEN a[n] ELSE a[k] + d[k] * rest[k + 1]

LEMMA NestedTexts ==
    ASSUME NEW n, n \in Nat, NEW a, a \in [1..n -> Int], NEW d, d \in [1..n -> Int]
    PROVE  \E rest : IsText(rest, n, a, d)
<1> DEFINE of(h, k) == IF k = n THEN a[n] ELSE a[k] + d[k] * h[k + 1]
           step     == [k \in 1..n |-> [h \in [1..n -> Int] |-> of(h, k)]]
<1>1. step \in LaterSteps(Int, n)
  <2>1. ASSUME NEW k \in 1..n, NEW h \in [1..n -> Int] PROVE of(h, k) \in Int
    <3>1. CASE k = n
      BY <3>1
    <3>2. CASE k # n
      <4>1. k + 1 \in 1..n
        BY <3>2
      <4>2. h[k + 1] \in Int /\ a[k] \in Int /\ d[k] \in Int
        BY <4>1
      <4>3. QED
        BY <3>2, <4>2
    <3>3. QED
      BY <3>1, <3>2
  <2>2. ASSUME NEW i \in 1..n, NEW h \in [1..n -> Int], NEW k \in [1..n -> Int], \A j \in i + 1..n : h[j] = k[j]
        PROVE  of(h, i) = of(k, i)
    <3>1. i # n => h[i + 1] = k[i + 1]
      BY <2>2
    <3>2. QED
      BY <3>1
  <2> HIDE DEF of
  <2>3. QED
    BY <2>1, <2>2 DEF LaterSteps
<1>2. PICK g \in [1..n -> Int] : \A i \in 1..n : g[i] = step[i][g]
  <2> DEFINE V == Int
  <2>1. 0 \in V /\ n \in Nat
    OBVIOUS
  <2> HIDE DEF step, V
  <2>2. step \in LaterSteps(V, n)
    BY <1>1 DEF V
  <2>3. \E g \in [1..n -> V] : \A i \in 1..n : g[i] = step[i][g]
    BY <2>1, <2>2, RecursionFromLater
  <2>4. QED
    BY <2>3 DEF V
<1>3. \A k \in 1..n : g[k] = of(g, k)
  <2> HIDE DEF of
  <2>1. QED
    BY <1>2
<1>4. IsText(g, n, a, d)
  BY <1>3 DEF IsText
<1>5. QED
  BY <1>4

LEMMA Regroups ==
    ASSUME NEW s0 \in Int, NEW b0 \in Int, NEW a \in Int, NEW d \in Int, NEW r \in Int, NEW total \in Int,
           (s0 + b0 * a) + (b0 * d) * r = total
    PROVE  s0 + b0 * (a + d * r) = total
OBVIOUS

\* b are the sizes of the blocks, rest the texts, sum the offsets so far.
Related(n, a, d, b, sum, rest) ==
    /\ n \in Nat \ {0}
    /\ a \in [1..n -> Int] /\ d \in [1..n -> Int]
    /\ b \in [0..n -> Int] /\ b[0] = 1
    /\ \A k \in 1..n : b[k] = b[k - 1] * d[k]
    /\ IsSum(sum, n, a, b)
    /\ IsText(rest, n, a, d)

LEMMA TextIsSum ==
    ASSUME NEW n, NEW a, NEW d, NEW b, NEW sum, NEW rest, Related(n, a, d, b, sum, rest)
    PROVE  rest[1] = sum[n]
<1> DEFINE S == {k \in 1..n : sum[k - 1] + b[k - 1] * rest[k] = sum[n]}
<1>0. n \in Nat /\ n >= 1
  BY DEF Related, IsSum, IsText
<1>1. ASSUME NEW k \in 1..n, \A j \in k + 1..n : j \in S PROVE k \in S
  <2>1. CASE k = n
    BY <2>1 DEF Related, IsSum, IsText
  <2>2. CASE k # n
    <3>1. k + 1 \in 1..n /\ k + 1 \in k + 1..n /\ (k + 1) - 1 = k /\ k - 1 \in 0..n /\ k \in 0..n
      BY <1>0, <2>2
    <3>2. sum[k] + b[k] * rest[k + 1] = sum[n]
      BY <1>1, <3>1
    <3> DEFINE s0 == sum[k - 1]
               b0 == b[k - 1]
               x  == a[k]
               y  == d[k]
               r  == rest[k + 1]
               t  == sum[n]
    <3>3. s0 \in Int /\ b0 \in Int /\ x \in Int /\ y \in Int /\ r \in Int /\ t \in Int
      <4>1. n \in 0..n
        BY <1>0
      <4>2. QED
        BY <3>1, <4>1 DEF Related, IsSum, IsText
    <3>4. rest[k] = x + y * r
      BY <2>2 DEF Related, IsSum, IsText
    <3>5. b[k] = b0 * y /\ sum[k] = s0 + b0 * x
      BY DEF Related, IsSum, IsText
    <3>6. (s0 + b0 * x) + (b0 * y) * r = t
      BY <3>2, <3>5
    <3>7. s0 + b0 * (x + y * r) = t
      <4> HIDE DEF s0, b0, x, y, r, t
      <4>1. QED
        BY <3>3, <3>6, Regroups
    <3>8. sum[k - 1] + b[k - 1] * rest[k] = sum[n]
      BY <3>4, <3>7
    <3>9. QED
      BY <3>8
  <2>3. QED
    BY <2>1, <2>2
<1>2. \A k \in 1..n : k \in S
  <2> HIDE DEF S
  <2>1. QED
    BY <1>0, <1>1, LaterInduction
<1>3. sum[1 - 1] + b[1 - 1] * rest[1] = sum[n]
  BY <1>0, <1>2
<1>4. rest[1] \in Int /\ sum[0] = 0 /\ b[0] = 1 /\ 1 - 1 = 0
  BY <1>0 DEF Related, IsSum, IsText
<1>5. 0 + 1 * rest[1] = sum[n]
  BY <1>3, <1>4
<1>6. QED
  BY <1>4, <1>5

LEMMA OffsetIs ==
    ASSUME NEW args \in Seq(Operand), NEW sizes \in Seq(Operand), NEW order \in Seq(Nat),
           Len(order) = Len(sizes), Len(args) = Len(sizes),
           \A k \in DOMAIN order : order[k] < Len(sizes)
    PROVE  \E sum : /\ IsSum(sum, Len(order), Ints(args, order), BlockSizes(sizes, order))
                    /\ Offset(args, sizes, order) = sum[Len(order)]
<1> DEFINE n       == Len(order)
           a       == Ints(args, order)
           b       == BlockSizes(sizes, order)
           Sums(f) == [k \in 0..n |-> IF k = 0 THEN 0 ELSE f[k - 1] + b[k - 1] * ValueOf(args[order[k] + 1])]
           sum     == CHOOSE f : f = Sums(f)
<1>1. n \in Nat /\ a \in [1..n -> Int] /\ b \in [0..n -> Int]
  BY OrderedInts, BlocksAre
<1>2. \A k \in 1..n : a[k] = ValueOf(args[order[k] + 1])
  BY DEF Ints
<1>3. Offset(args, sizes, order) = sum[n]
  BY DEF Offset
<1> HIDE DEF n, a, b
<1>0. PICK g : IsSum(g, n, a, b)
  BY <1>1, SumsAre
<1>4. g \in [0..n -> Int] /\ g[0] = 0 /\ \A k \in 1..n : g[k] = g[k - 1] + b[k - 1] * a[k]
  BY <1>0 DEF IsSum
<1>5. g = Sums(g)
  <2>1. \A k \in 0..n : g[k] = IF k = 0 THEN 0 ELSE g[k - 1] + b[k - 1] * ValueOf(args[order[k] + 1])
    BY <1>1, <1>2, <1>4
  <2>2. QED
    BY <1>4, <2>1
<1>6. sum = Sums(sum)
  BY <1>5
<1> HIDE DEF sum
<1>7. sum[0] = 0 /\ \A k \in 1..n : sum[k] = sum[k - 1] + b[k - 1] * a[k]
  <2>1. \A k \in 0..n : sum[k] = IF k = 0 THEN 0 ELSE sum[k - 1] + b[k - 1] * ValueOf(args[order[k] + 1])
    BY <1>6
  <2>2. 0 \in 0..n /\ \A k \in 1..n : k \in 0..n /\ k # 0
    BY <1>1
  <2>3. QED
    BY <1>2, <2>1, <2>2
<1>8. \A k \in 0..n : g[k] = sum[k]
  <2> DEFINE h == sum
             f == g
             m == n
  <2>1. m \in Nat /\ f[0] = h[0]
    BY <1>1, <1>4, <1>7
  <2>2. \A i \in 1..m : f[i - 1] = h[i - 1] => f[i] = h[i]
    BY <1>4, <1>7
  <2> HIDE DEF h, f, m
  <2>3. \A i \in 0..m : f[i] = h[i]
    BY <2>1, <2>2, RecursionUnique, ZenonT(60)
  <2>4. QED
    BY <2>3 DEF h, f, m
<1>9. sum \in [0..n -> Int]
  <2>1. sum = [k \in 0..n |-> sum[k]]
    BY <1>6
  <2>2. QED
    BY <1>4, <1>8, <2>1
<1>10. IsSum(sum, n, a, b)
  BY <1>7, <1>9 DEF IsSum
<1>11. QED
  BY <1>3, <1>10 DEF n, a, b

LEMMA TextIs ==
    ASSUME NEW args \in Seq(Operand), NEW sizes \in Seq(Operand), NEW order \in Seq(Nat),
           Len(order) = Len(sizes), Len(args) = Len(sizes), sizes # <<>>,
           \A k \in DOMAIN order : order[k] < Len(sizes),
           \A i \in DOMAIN args : args[i].op # "choice",
           \A i \in DOMAIN sizes : sizes[i].op = "value"
    PROVE  \E rest : /\ IsText(rest, Len(order), Ints(args, order), Ints(sizes, order))
                     /\ IndexText(args, sizes, order) = rest[1]
<1> DEFINE n        == Len(order)
           a        == Ints(args, order)
           d        == Ints(sizes, order)
           Texts(f) == [k \in 1..n |->
                          IF k = n THEN ValueOf(args[order[k] + 1])
                          ELSE Plus(args[order[k] + 1], Times(sizes[order[k] + 1], f[k + 1]))]
           text     == CHOOSE f : f = Texts(f)
<1>1. n \in Nat \ {0} /\ a \in [1..n -> Int] /\ d \in [1..n -> Int]
  BY OrderedInts
<1>2. \A k \in 1..n : a[k] = ValueOf(args[order[k] + 1]) /\ d[k] = ValueOf(sizes[order[k] + 1])
  BY DEF Ints
<1>3. IndexText(args, sizes, order) = text[1]
  <2>1. Len(sizes) = n
    OBVIOUS
  <2>2. QED
    BY <2>1 DEF IndexText
<1>4. ASSUME NEW k \in 1..n, NEW x
      PROVE  Plus(args[order[k] + 1], Times(sizes[order[k] + 1], x)) = a[k] + d[k] * x
  <2> DEFINE u == args[order[k] + 1]
             v == sizes[order[k] + 1]
  <2>1. order[k] + 1 \in DOMAIN args /\ order[k] + 1 \in DOMAIN sizes
    OBVIOUS
  <2>2. u.op # "choice" /\ v.op = "value" /\ v \in Operand
    BY <2>1
  <2>3. a[k] = ValueOf(u) /\ d[k] = ValueOf(v)
    BY <1>2
  <2> HIDE DEF u, v, a, d
  <2>4. ValueOf(v) = v.value /\ Times(v, x) = v.value * x
    BY <2>2 DEF ValueOf, Times
  <2>5. Plus(u, Times(v, x)) = ValueOf(u) + Times(v, x)
    BY <2>2 DEF Plus
  <2>6. QED
    BY <2>3, <2>4, <2>5 DEF u, v
<1> HIDE DEF n, a, d
<1>0. PICK g : IsText(g, n, a, d)
  BY <1>1, NestedTexts
<1>5. g \in [1..n -> Int] /\ \A k \in 1..n : g[k] = IF k = n THEN a[n] ELSE a[k] + d[k] * g[k + 1]
  BY <1>0 DEF IsText
<1>6. g = Texts(g)
  <2>1. ASSUME NEW k \in 1..n PROVE g[k] = Texts(g)[k]
    <3>1. CASE k = n
      BY <1>2, <1>5, <3>1
    <3>2. CASE k # n
      BY <1>4, <1>5, <3>2
    <3>3. QED
      BY <3>1, <3>2
  <2>2. QED
    BY <1>5, <2>1
<1>7. text = Texts(text)
  BY <1>6
<1> HIDE DEF text
<1>8. ASSUME NEW k \in 1..n PROVE text[k] = IF k = n THEN a[n] ELSE a[k] + d[k] * text[k + 1]
  <2>1. CASE k = n
    BY <1>2, <1>7, <2>1
  <2>2. CASE k # n
    BY <1>4, <1>7, <2>2
  <2>3. QED
    BY <2>1, <2>2
<1>9. \A k \in 1..n : k \in {i \in 1..n : text[i] = g[i]}
  <2> DEFINE S == {i \in 1..n : text[i] = g[i]}
  <2>1. ASSUME NEW i \in 1..n, \A j \in i + 1..n : j \in S PROVE i \in S
    <3>1. CASE i = n
      BY <1>5, <1>8, <3>1
    <3>2. CASE i # n
      <4>1. i + 1 \in i + 1..n
        BY <1>1, <3>2
      <4>2. text[i + 1] = g[i + 1]
        BY <2>1, <4>1
      <4>3. QED
        BY <1>5, <1>8, <3>2, <4>2
    <3>3. QED
      BY <3>1, <3>2
  <2>2. n \in Nat
    BY <1>1
  <2> HIDE DEF S
  <2>3. \A i \in 1..n : i \in S
    BY <2>1, <2>2, LaterInduction
  <2>4. QED
    BY <2>3 DEF S
<1>10. text \in [1..n -> Int]
  <2>1. text = [k \in 1..n |-> text[k]]
    BY <1>7
  <2>2. QED
    BY <1>0, <1>5, <1>9, <2>1
<1>11. IsText(text, n, a, d)
  BY <1>8, <1>10 DEF IsText
<1>12. QED
  BY <1>3, <1>11 DEF n, a, d

\* For any number of dimensions in any order.
LEMMA IndexTextIsOffset ==
    ASSUME NEW args \in Seq(Operand), NEW sizes \in Seq(Operand), NEW order \in Seq(Nat), sizes # <<>>,
           FitsDims(args, sizes), OrderFits(order, sizes),
           \A i \in DOMAIN args : args[i].op # "choice",
           \A i \in DOMAIN sizes : sizes[i].op = "value"
    PROVE  IndexText(args, sizes, order) = Offset(args, sizes, order)
<1> DEFINE n == Len(order)
           a == Ints(args, order)
           d == Ints(sizes, order)
           b == BlockSizes(sizes, order)
<1>1. /\ Len(order) = Len(sizes) /\ Len(args) = Len(sizes)
      /\ \A k \in DOMAIN order : order[k] < Len(sizes)
  BY DEF FitsDims, OrderFits
<1>2. PICK rest : IsText(rest, n, a, d) /\ IndexText(args, sizes, order) = rest[1]
  BY <1>1, TextIs
<1>3. PICK sum : IsSum(sum, n, a, b) /\ Offset(args, sizes, order) = sum[n]
  BY <1>1, OffsetIs
<1>4. /\ n \in Nat \ {0} /\ a \in [1..n -> Int] /\ d \in [1..n -> Int]
      /\ b \in [0..n -> Int] /\ b[0] = 1
      /\ \A k \in 1..n : b[k] = b[k - 1] * d[k]
  BY <1>1, OrderedInts, BlocksAre
<1> HIDE DEF n, a, d, b
<1>5. Related(n, a, d, b, sum, rest)
  BY <1>2, <1>3, <1>4 DEF Related
<1>6. rest[1] = sum[n]
  BY <1>5, TextIsSum
<1>7. QED
  BY <1>2, <1>3, <1>6

-----------------------------------------------------------------------------
(* The table of handlers.                                                  *)

\* The type of the parameters that the frontend of an attribute returns.
ParamType(a) ==
    CASE a \in {"outer", "inner"} -> "AttributedLoop"
      [] a = "tile"               -> "TileParams"
      [] a = "barrier"            -> "AttributedBarrier"
      [] a = "dim"                -> "AttributedDim"
      [] a = "dimOrder"           -> "AttributedDimOrder"
      [] a = "max_inner_dims"     -> "AttributedLoopInnerSize"
      [] a = "simd_length"        -> "AttributedLoopSimdLength"
      [] OTHER                    -> "EmptyParams"

\* What a handler takes is decided by what it is registered under.
TakenBy(t, b, a) ==
    CASE t = "COMMON" /\ a \in {"dim", "max_inner_dims", "simd_length"}  -> ParamType(a)
      [] t = "BACKEND" /\ b = "LAUNCHER" /\ a \notin {"kernel", "restrict"} -> "any"
      [] t = "BACKEND" /\ b = "SERIAL" /\ a \in {"atomic", "barrier"} -> "any"
      [] t = "BACKEND" /\ b # "LAUNCHER" /\ a \in {"outer", "inner", "tile"} -> ParamType(a)
      [] t = "BACKEND" /\ b \in {"CUDA", "HIP"} /\ a = "barrier" -> ParamType(a)
      [] OTHER -> "no"

IsPlain(h) ==
    /\ h = Handler(h.t, h.backend, h.attr, h.kind, TakenBy(h.t, h.backend, h.attr))
    /\ h.attr = "kernel" => h.kind \in {Nil, "FunctionDecl"}

LEMMA Plain ==
    ASSUME NEW t, NEW b, NEW a, NEW k, NEW p, p = TakenBy(t, b, a),
           a = "kernel" => k \in {Nil, "FunctionDecl"}
    PROVE  IsPlain(Handler(t, b, a, k, p))
BY DEF IsPlain, Handler

LEMMA FrontendIsPlain == \A h \in FrontendHandlers : IsPlain(h)
<1> USE DEF Parser, Sema, Common
<1>1. \A h \in Parsers : IsPlain(h)
  <2>1. \A a : TakenBy("PARSER", Nil, a) = "no"
    BY DEF TakenBy
  <2>2. QED
    BY <2>1, Plain DEF Parsers
<1>2. \A h \in SemaHandlers : IsPlain(h)
  <2>1. \A a : TakenBy("SEMA", Nil, a) = "no"
    BY DEF TakenBy
  <2>2. QED
    BY <2>1, Plain DEF SemaHandlers
<1>3. \A h \in CommonDim \cup CommonDimOrder \cup CommonNoBarrier : IsPlain(h)
  <2>1. /\ TakenBy("COMMON", Nil, "dim") = "AttributedDim"
        /\ TakenBy("COMMON", Nil, "dimOrder") = "no"
        /\ TakenBy("COMMON", Nil, "nobarrier") = "no"
    BY DEF TakenBy, ParamType
  <2>2. QED
    BY <2>1, Plain DEF CommonDim, CommonDimOrder, CommonNoBarrier
<1>4. \A h \in CommonInnerDims \cup CommonSimdLength : IsPlain(h)
  <2>1. /\ TakenBy("COMMON", Nil, "max_inner_dims") = "AttributedLoopInnerSize"
        /\ TakenBy("COMMON", Nil, "simd_length") = "AttributedLoopSimdLength"
    BY DEF TakenBy, ParamType
  <2>2. QED
    BY <2>1, Plain DEF CommonInnerDims, CommonSimdLength
<1>5. QED
  BY <1>1, <1>2, <1>3, <1>4 DEF FrontendHandlers

LEMMA CudaIsPlain == \A h \in CudaHandlers : IsPlain(h)
<1> USE Plain DEF Backend, Implicit
<1>1. /\ \A a \in {"atomic", "exclusive", "shared", "kernel", "restrict"} : TakenBy("BACKEND", "CUDA", a) = "no"
      /\ \A a \in {"outer", "inner"} : TakenBy("BACKEND", "CUDA", a) = "AttributedLoop"
      /\ TakenBy("BACKEND", "CUDA", "tile") = "TileParams"
      /\ TakenBy("BACKEND", "CUDA", "barrier") = "AttributedBarrier"
      /\ TakenBy("IMPLICIT", "CUDA", "") = "no"
  BY DEF TakenBy, ParamType
<1>2. \A h \in CudaAtomic \cup CudaBarrier \cup CudaExclusive \cup CudaShared \cup CudaKernel : IsPlain(h)
  BY <1>1 DEF CudaAtomic, CudaBarrier, CudaExclusive, CudaShared, CudaKernel
<1>3. \A h \in CudaOuter \cup CudaInner \cup CudaTile \cup CudaRestrict : IsPlain(h)
  BY <1>1 DEF CudaOuter, CudaInner, CudaTile, CudaRestrict
<1>4. \A h \in CudaRecord \cup CudaConstant \cup CudaFunction \cup CudaTranslationUnit : IsPlain(h)
  BY <1>1 DEF CudaRecord, CudaConstant, CudaFunction, CudaTranslationUnit
<1>5. QED
  BY <1>2, <1>3, <1>4 DEF CudaHandlers

LEMMA HipIsPlain == \A h \in HipHandlers : IsPlain(h)
<1> USE Plain DEF Backend, Implicit
<1>1. /\ \A a \in {"atomic", "exclusive", "shared", "kernel", "restrict"} : TakenBy("BACKEND", "HIP", a) = "no"
      /\ \A a \in {"outer", "inner"} : TakenBy("BACKEND", "HIP", a) = "AttributedLoop"
      /\ TakenBy("BACKEND", "HIP", "tile") = "TileParams"
      /\ TakenBy("BACKEND", "HIP", "barrier") = "AttributedBarrier"
      /\ TakenBy("IMPLICIT", "HIP", "") = "no"
  BY DEF TakenBy, ParamType
<1>2. \A h \in HipAtomic \cup HipBarrier \cup HipExclusive \cup HipShared \cup HipKernel : IsPlain(h)
  BY <1>1 DEF HipAtomic, HipBarrier, HipExclusive, HipShared, HipKernel
<1>3. \A h \in HipOuter \cup HipInner \cup HipTile \cup HipRestrict : IsPlain(h)
  BY <1>1 DEF HipOuter, HipInner, HipTile, HipRestrict
<1>4. \A h \in HipRecord \cup HipConstant \cup HipFunction \cup HipTranslationUnit : IsPlain(h)
  BY <1>1 DEF HipRecord, HipConstant, HipFunction, HipTranslationUnit
<1>5. QED
  BY <1>2, <1>3, <1>4 DEF HipHandlers

LEMMA DpcppIsPlain == \A h \in DpcppHandlers : IsPlain(h)
<1> USE Plain DEF Backend, Implicit
<1>1. /\ \A a \in {"atomic", "barrier", "exclusive", "shared", "kernel", "restrict"} :
            TakenBy("BACKEND", "DPCPP", a) = "no"
      /\ \A a \in {"outer", "inner"} : TakenBy("BACKEND", "DPCPP", a) = "AttributedLoop"
      /\ TakenBy("BACKEND", "DPCPP", "tile") = "TileParams"
      /\ TakenBy("IMPLICIT", "DPCPP", "") = "no"
  BY DEF TakenBy, ParamType
<1>2. \A h \in DpcppAtomic \cup DpcppBarrier \cup DpcppExclusive \cup DpcppShared \cup DpcppKernel : IsPlain(h)
  BY <1>1 DEF DpcppAtomic, DpcppBarrier, DpcppExclusive, DpcppShared, DpcppKernel
<1>3. \A h \in DpcppOuter \cup DpcppInner \cup DpcppTile \cup DpcppRestrict : IsPlain(h)
  BY <1>1 DEF DpcppOuter, DpcppInner, DpcppTile, DpcppRestrict
<1>4. \A h \in DpcppFunction \cup DpcppTranslationUnit : IsPlain(h)
  BY <1>1 DEF DpcppFunction, DpcppTranslationUnit
<1>5. QED
  BY <1>2, <1>3, <1>4 DEF DpcppHandlers

LEMMA OpenMPIsPlain == \A h \in OpenMPHandlers : IsPlain(h)
<1> USE Plain DEF Backend
<1>1. /\ \A a \in {"atomic", "barrier", "exclusive", "shared", "kernel", "restrict"} :
            TakenBy("BACKEND", "OPENMP", a) = "no"
      /\ \A a \in {"outer", "inner"} : TakenBy("BACKEND", "OPENMP", a) = "AttributedLoop"
      /\ TakenBy("BACKEND", "OPENMP", "tile") = "TileParams"
  BY DEF TakenBy, ParamType
<1>2. \A h \in OpenMPAtomic \cup OpenMPBarrier \cup OpenMPExclusive \cup OpenMPShared \cup OpenMPKernel : IsPlain(h)
  BY <1>1 DEF OpenMPAtomic, OpenMPBarrier, OpenMPExclusive, OpenMPShared, OpenMPKernel
<1>3. \A h \in OpenMPOuter \cup OpenMPInner \cup OpenMPTile \cup OpenMPRestrict : IsPlain(h)
  BY <1>1 DEF OpenMPOuter, OpenMPInner, OpenMPTile, OpenMPRestrict
<1>4. QED
  BY <1>2, <1>3 DEF OpenMPHandlers

LEMMA SerialIsPlain == \A h \in SerialHandlers : IsPlain(h)
<1> USE Plain DEF Backend
<1>1. /\ \A a \in {"atomic", "barrier"} : TakenBy("BACKEND", "SERIAL", a) = "any"
      /\ \A a \in {"exclusive", "shared", "kernel", "restrict"} : TakenBy("BACKEND", "SERIAL", a) = "no"
      /\ \A a \in {"outer", "inner"} : TakenBy("BACKEND", "SERIAL", a) = "AttributedLoop"
      /\ TakenBy("BACKEND", "SERIAL", "tile") = "TileParams"
  BY DEF TakenBy, ParamType
<1>2. \A h \in SerialAtomic \cup SerialBarrier \cup SerialExclusiveVar \cup SerialShared \cup SerialKernel : IsPlain(h)
  BY <1>1 DEF SerialAtomic, SerialBarrier, SerialExclusiveVar, SerialShared, SerialKernel
<1>3. \A h \in SerialOuter \cup SerialInner \cup SerialTile \cup SerialRestrict : IsPlain(h)
  BY <1>1 DEF SerialOuter, SerialInner, SerialTile, SerialRestrict
<1>4. QED
  BY <1>2, <1>3 DEF SerialHandlers

LEMMA LauncherIsPlain == \A h \in Launcher \cup LauncherTranslationUnit : IsPlain(h)
<1> USE Plain DEF Backend, Implicit
<1>1. /\ \A a \in {"kernel", "restrict"} : TakenBy("BACKEND", "LAUNCHER", a) = "no"
      /\ \A a : a \notin {"kernel", "restrict"} => TakenBy("BACKEND", "LAUNCHER", a) = "any"
      /\ TakenBy("IMPLICIT", "LAUNCHER", "") = "no"
  BY DEF TakenBy
<1>2. \A h \in Launcher : IsPlain(h)
  BY <1>1 DEF Launcher
<1>3. \A h \in LauncherTranslationUnit : IsPlain(h)
  BY <1>1 DEF LauncherTranslationUnit
<1>4. QED
  BY <1>2, <1>3

LEMMA TableIsPlain == \A h \in Registrations : IsPlain(h)
BY FrontendIsPlain, CudaIsPlain, HipIsPlain, DpcppIsPlain, OpenMPIsPlain, SerialIsPlain, LauncherIsPlain
   DEF Registrations

\* No two handlers are registered under one key.
LEMMA KeysAreDistinct == \A g, h \in Registrations : Key(g) = Key(h) => g = h
<1> SUFFICES ASSUME NEW g \in Registrations, NEW h \in Registrations, Key(g) = Key(h) PROVE g = h
  OBVIOUS
<1>1. g.t = h.t /\ g.backend = h.backend /\ g.attr = h.attr /\ g.kind = h.kind
  BY DEF Key
<1>2. QED
  BY <1>1, TableIsPlain, Zenon DEF IsPlain

-----------------------------------------------------------------------------
(* Every node that an attribute can be attached to, or that uses what it   *)
(* declares, is served by a handler.                                       *)

InTable(t, b, a, k) == \E p : Handler(t, b, a, k, p) \in Registrations

LEMMA Serves ==
    ASSUME NEW handlersOf \in SUBSET Registrations, NEW t, NEW b, NEW a, NEW k, NEW p,
           Handler(t, b, a, k, p) \in handlersOf
    PROVE  InTable(t, b, a, k)
BY DEF InTable

LEMMA CudaServes ==
    /\ \A a \in {"outer", "inner", "tile"} : InTable("BACKEND", "CUDA", a, "ForStmt")
    /\ InTable("BACKEND", "CUDA", "atomic", "Stmt")
    /\ InTable("BACKEND", "CUDA", "barrier", "Stmt")
    /\ InTable("BACKEND", "CUDA", "exclusive", "Decl")
    /\ InTable("BACKEND", "CUDA", "exclusive", "Stmt")
    /\ InTable("BACKEND", "CUDA", "shared", "Decl")
    /\ InTable("BACKEND", "CUDA", "shared", "Stmt")
    /\ InTable("BACKEND", "CUDA", "kernel", "FunctionDecl")
    /\ InTable("BACKEND", "CUDA", "restrict", "Decl")
<1> USE Serves DEF Backend
<1>1. /\ CudaOuter \cup CudaInner \cup CudaTile \subseteq Registrations
      /\ CudaAtomic \cup CudaBarrier \cup CudaExclusive \cup CudaShared \cup CudaKernel \cup CudaRestrict \subseteq Registrations
  BY DEF CudaHandlers, Registrations
<1>2. \A a \in {"outer", "inner", "tile"} : InTable("BACKEND", "CUDA", a, "ForStmt")
  BY <1>1 DEF CudaOuter, CudaInner, CudaTile
<1>3. InTable("BACKEND", "CUDA", "atomic", "Stmt")
  BY <1>1 DEF CudaAtomic
<1>4. InTable("BACKEND", "CUDA", "barrier", "Stmt")
  BY <1>1 DEF CudaBarrier
<1>5. InTable("BACKEND", "CUDA", "exclusive", "Decl") /\ InTable("BACKEND", "CUDA", "exclusive", "Stmt")
  BY <1>1 DEF CudaExclusive
<1>6. InTable("BACKEND", "CUDA", "shared", "Decl") /\ InTable("BACKEND", "CUDA", "shared", "Stmt")
  BY <1>1 DEF CudaShared
<1>7. InTable("BACKEND", "CUDA", "kernel", "FunctionDecl")
  BY <1>1 DEF CudaKernel
<1>8. InTable("BACKEND", "CUDA", "restrict", "Decl")
  BY <1>1 DEF CudaRestrict
<1>9. QED
  BY <1>2, <1>3, <1>4, <1>5, <1>6, <1>7, <1>8

LEMMA HipServes ==
    /\ \A a \in {"outer", "inner", "tile"} : InTable("BACKEND", "HIP", a, "ForStmt")
    /\ InTable("BACKEND", "HIP", "atomic", "Stmt")
    /\ InTable("BACKEND", "HIP", "barrier", "Stmt")
    /\ InTable("BACKEND", "HIP", "exclusive", "Decl")
    /\ InTable("BACKEND", "HIP", "exclusive", "Stmt")
    /\ InTable("BACKEND", "HIP", "shared", "Decl")
    /\ InTable("BACKEND", "HIP", "shared", "Stmt")
    /\ InTable("BACKEND", "HIP", "kernel", "FunctionDecl")
    /\ InTable("BACKEND", "HIP", "restrict", "Decl")
<1> USE Serves DEF Backend
<1>1. /\ HipOuter \cup HipInner \cup HipTile \subseteq Registrations
      /\ HipAtomic \cup HipBarrier \cup HipExclusive \cup HipShared \cup HipKernel \cup HipRestrict \subseteq Registrations
  BY DEF HipHandlers, Registrations
<1>2. \A a \in {"outer", "inner", "tile"} : InTable("BACKEND", "HIP", a, "ForStmt")
  BY <1>1 DEF HipOuter, HipInner, HipTile
<1>3. InTable("BACKEND", "HIP", "atomic", "Stmt")
  BY <1>1 DEF HipAtomic
<1>4. InTable("BACKEND", "HIP", "barrier", "Stmt")
  BY <1>1 DEF HipBarrier
<1>5. InTable("BACKEND", "HIP", "exclusive", "Decl") /\ InTable("BACKEND", "HIP", "exclusive", "Stmt")
  BY <1>1 DEF HipExclusive
<1>6. InTable("BACKEND", "HIP", "shared", "Decl") /\ InTable("BACKEND", "HIP", "shared", "Stmt")
  BY <1>1 DEF HipShared
<1>7. InTable("BACKEND", "HIP", "kernel", "FunctionDecl")
  BY <1>1 DEF HipKernel
<1>8. InTable("BACKEND", "HIP", "restrict", "Decl")
  BY <1>1 DEF HipRestrict
<1>9. QED
  BY <1>2, <1>3, <1>4, <1>5, <1>6, <1>7, <1>8

LEMMA DpcppServes ==
    /\ \A a \in {"outer", "inner", "tile"} : InTable("BACKEND", "DPCPP", a, "ForStmt")
    /\ InTable("BACKEND", "DPCPP", "atomic", "Stmt")
    /\ InTable("BACKEND", "DPCPP", "barrier", "Stmt")
    /\ InTable("BACKEND", "DPCPP", "exclusive", "Decl")
    /\ InTable("BACKEND", "DPCPP", "exclusive", "Stmt")
    /\ InTable("BACKEND", "DPCPP", "shared", "VarDecl")
    /\ InTable("BACKEND", "DPCPP", "shared", "Stmt")
    /\ InTable("BACKEND", "DPCPP", "kernel", "FunctionDecl")
    /\ InTable("BACKEND", "DPCPP", "restrict", "Decl")
<1> USE Serves DEF Backend
<1>1. /\ DpcppOuter \cup DpcppInner \cup DpcppTile \subseteq Registrations
      /\ DpcppAtomic \cup DpcppBarrier \cup DpcppExclusive \cup DpcppShared \cup DpcppKernel \cup DpcppRestrict \subseteq Registrations
  BY DEF DpcppHandlers, Registrations
<1>2. \A a \in {"outer", "inner", "tile"} : InTable("BACKEND", "DPCPP", a, "ForStmt")
  BY <1>1 DEF DpcppOuter, DpcppInner, DpcppTile
<1>3. InTable("BACKEND", "DPCPP", "atomic", "Stmt")
  BY <1>1 DEF DpcppAtomic
<1>4. InTable("BACKEND", "DPCPP", "barrier", "Stmt")
  BY <1>1 DEF DpcppBarrier
<1>5. InTable("BACKEND", "DPCPP", "exclusive", "Decl") /\ InTable("BACKEND", "DPCPP", "exclusive", "Stmt")
  BY <1>1 DEF DpcppExclusive
<1>6. InTable("BACKEND", "DPCPP", "shared", "VarDecl") /\ InTable("BACKEND", "DPCPP", "shared", "Stmt")
  BY <1>1 DEF DpcppShared
<1>7. InTable("BACKEND", "DPCPP", "kernel", "FunctionDecl")
  BY <1>1 DEF DpcppKernel
<1>8. InTable("BACKEND", "DPCPP", "restrict", "Decl")
  BY <1>1 DEF DpcppRestrict
<1>9. QED
  BY <1>2, <1>3, <1>4, <1>5, <1>6, <1>7, <1>8

LEMMA OpenMPServes ==
    /\ \A a \in {"outer", "inner", "tile"} : InTable("BACKEND", "OPENMP", a, "ForStmt")
    /\ InTable("BACKEND", "OPENMP", "atomic", "Stmt")
    /\ InTable("BACKEND", "OPENMP", "barrier", "NullStmt")
    /\ InTable("BACKEND", "OPENMP", "exclusive", "VarDecl")
    /\ InTable("BACKEND", "OPENMP", "exclusive", "DeclRefExpr")
    /\ InTable("BACKEND", "OPENMP", "shared", "Decl")
    /\ InTable("BACKEND", "OPENMP", "shared", "Stmt")
    /\ InTable("BACKEND", "OPENMP", "kernel", "FunctionDecl")
    /\ InTable("BACKEND", "OPENMP", "restrict", "Decl")
<1> USE Serves DEF Backend
<1>1. /\ OpenMPOuter \cup OpenMPInner \cup OpenMPTile \subseteq Registrations
      /\ OpenMPAtomic \cup OpenMPBarrier \cup OpenMPExclusive \cup OpenMPShared \cup OpenMPKernel \cup OpenMPRestrict \subseteq Registrations
  BY DEF OpenMPHandlers, Registrations
<1>2. \A a \in {"outer", "inner", "tile"} : InTable("BACKEND", "OPENMP", a, "ForStmt")
  BY <1>1 DEF OpenMPOuter, OpenMPInner, OpenMPTile
<1>3. InTable("BACKEND", "OPENMP", "atomic", "Stmt")
  BY <1>1 DEF OpenMPAtomic
<1>4. InTable("BACKEND", "OPENMP", "barrier", "NullStmt")
  BY <1>1 DEF OpenMPBarrier
<1>5. InTable("BACKEND", "OPENMP", "exclusive", "VarDecl") /\ InTable("BACKEND", "OPENMP", "exclusive", "DeclRefExpr")
  BY <1>1 DEF OpenMPExclusive
<1>6. InTable("BACKEND", "OPENMP", "shared", "Decl") /\ InTable("BACKEND", "OPENMP", "shared", "Stmt")
  BY <1>1 DEF OpenMPShared
<1>7. InTable("BACKEND", "OPENMP", "kernel", "FunctionDecl")
  BY <1>1 DEF OpenMPKernel
<1>8. InTable("BACKEND", "OPENMP", "restrict", "Decl")
  BY <1>1 DEF OpenMPRestrict
<1>9. QED
  BY <1>2, <1>3, <1>4, <1>5, <1>6, <1>7, <1>8

LEMMA SerialServes ==
    /\ \A a \in {"outer", "inner", "tile"} : InTable("BACKEND", "SERIAL", a, "ForStmt")
    /\ InTable("BACKEND", "SERIAL", "atomic", "Stmt")
    /\ InTable("BACKEND", "SERIAL", "barrier", "Stmt")
    /\ InTable("BACKEND", "SERIAL", "exclusive", "VarDecl")
    /\ InTable("BACKEND", "SERIAL", "exclusive", "DeclRefExpr")
    /\ InTable("BACKEND", "SERIAL", "shared", "Decl")
    /\ InTable("BACKEND", "SERIAL", "shared", "Stmt")
    /\ InTable("BACKEND", "SERIAL", "kernel", "FunctionDecl")
    /\ InTable("BACKEND", "SERIAL", "restrict", "Decl")
<1> USE Serves DEF Backend
<1>1. /\ SerialOuter \cup SerialInner \cup SerialTile \subseteq Registrations
      /\ SerialAtomic \cup SerialBarrier \cup SerialExclusiveVar \cup SerialShared \cup SerialKernel \cup SerialRestrict \subseteq Registrations
  BY DEF SerialHandlers, Registrations
<1>2. \A a \in {"outer", "inner", "tile"} : InTable("BACKEND", "SERIAL", a, "ForStmt")
  BY <1>1 DEF SerialOuter, SerialInner, SerialTile
<1>3. InTable("BACKEND", "SERIAL", "atomic", "Stmt")
  BY <1>1 DEF SerialAtomic
<1>4. InTable("BACKEND", "SERIAL", "barrier", "Stmt")
  BY <1>1 DEF SerialBarrier
<1>5. InTable("BACKEND", "SERIAL", "exclusive", "VarDecl") /\ InTable("BACKEND", "SERIAL", "exclusive", "DeclRefExpr")
  BY <1>1 DEF SerialExclusiveVar
<1>6. InTable("BACKEND", "SERIAL", "shared", "Decl") /\ InTable("BACKEND", "SERIAL", "shared", "Stmt")
  BY <1>1 DEF SerialShared
<1>7. InTable("BACKEND", "SERIAL", "kernel", "FunctionDecl")
  BY <1>1 DEF SerialKernel
<1>8. InTable("BACKEND", "SERIAL", "restrict", "Decl")
  BY <1>1 DEF SerialRestrict
<1>9. QED
  BY <1>2, <1>3, <1>4, <1>5, <1>6, <1>7, <1>8

LEMMA LauncherServes ==
    /\ InTable("BACKEND", "LAUNCHER", "kernel", "FunctionDecl") /\ InTable("BACKEND", "LAUNCHER", "restrict", "Decl")
    /\ \A a \in {"outer", "inner", "tile", "atomic", "barrier", "exclusive", "shared"} :
          InTable("BACKEND", "LAUNCHER", a, "Stmt")
    /\ \A a \in {"exclusive", "shared"} : InTable("BACKEND", "LAUNCHER", a, "Decl")
<1>1. Launcher \subseteq Registrations
  BY DEF Registrations
<1>2. QED
  BY <1>1, Serves DEF Launcher, Backend

LEMMA CommonServes ==
    /\ \A k \in {"Decl", "Stmt"} : InTable("COMMON", Nil, "dim", k) /\ InTable("COMMON", Nil, "dimOrder", k)
    /\ \A a \in {"nobarrier", "max_inner_dims", "simd_length"} : InTable("COMMON", Nil, a, "ForStmt")
<1>1. CommonDim \cup CommonDimOrder \cup CommonNoBarrier \cup CommonInnerDims \cup CommonSimdLength
         \subseteq Registrations
  BY DEF FrontendHandlers, Registrations
<1>2. QED
  BY <1>1, Serves DEF CommonDim, CommonDimOrder, CommonNoBarrier, CommonInnerDims, CommonSimdLength, Common

\* The kinds of the nodes that can have an attribute, or that use what is
\* declared with it.
AccessKinds == {"RecoveryExpr", "CallExpr"}

NodeKinds(a) ==
    IF a \in LoopAttrs THEN {"ForStmt"}
    ELSE IF a = "barrier" THEN {"NullStmt"}
    ELSE IF a = "atomic" THEN {"BinaryOperator", "CompoundStmt"}
    ELSE IF a = "kernel" THEN Functions
    ELSE IF a = "restrict" THEN VarDecls \cup TypeDecls \cup Functions \cup {"FieldDecl"}
    ELSE VarDecls \cup TypeDecls \cup AccessKinds \cup {"DeclRefExpr"}

LEMMA SubjectKinds ==
    ASSUME NEW a \in OklAttrs, NEW s, "attached" \in AppertainsTo(a, s)
    PROVE  s.kind \in NodeKinds(a)
<1> USE DEF OklAttrs, LoopAttrs, TypeAttrs, AppertainsTo, NodeKinds, If, Attached, Rejected
<1>1. CASE a \in LoopAttrs
  BY <1>1 DEF TileOn, OuterOn, InnerOn, NoBarrierOn, MaxInnerDimsOn, SimdLengthOn
<1>2. CASE a \in {"barrier", "atomic", "kernel"}
  BY <1>2 DEF BarrierOn, AtomicOn, KernelOn
<1>3. CASE a = "restrict"
  BY <1>3 DEF RestrictOn, Functions, TypeDecls
<1>4. CASE a \in TypeAttrs
  <2>1. s.kind \in VarDecls \cup TypeDecls
    BY <1>4 DEF SharedOn, ExclusiveOn, DimOn, DimOrderOn, TypeDecls
  <2>2. QED
    BY <1>4, <2>1
<1>5. QED
  BY <1>1, <1>2, <1>3, <1>4

LEMMA UseKinds ==
    ASSUME NEW a \in OklAttrs, NEW s, NEW u \in UsesOf(a, s)
    PROVE  u \in Seq(NodeKinds(a))
<1>1. CASE u = <<>>
  BY <1>1
<1>2. CASE u # <<>>
  <2>1. a \in TypeAttrs /\ u \in {<<"DeclRefExpr">>, <<"DeclRefExpr", "RecoveryExpr">>, <<"DeclRefExpr", "CallExpr">>}
    BY <1>2 DEF UsesOf
  <2>2. {"DeclRefExpr", "RecoveryExpr", "CallExpr"} \subseteq NodeKinds(a)
    BY <2>1 DEF NodeKinds, TypeAttrs, LoopAttrs, AccessKinds
  <2> DEFINE K == NodeKinds(a)
  <2> HIDE DEF K
  <2>3. "DeclRefExpr" \in K /\ "RecoveryExpr" \in K /\ "CallExpr" \in K
    BY <2>2 DEF K
  <2>4. \A x, y \in K : <<x>> \in Seq(K) /\ <<x, y>> \in Seq(K)
    OBVIOUS
  <2>6. u \in Seq(K)
    BY <2>1, <2>3, <2>4, Zenon
  <2>5. QED
    BY <2>6 DEF K
<1>3. QED
  BY <1>1, <1>2

Served(b, a, k) ==
    \E kind \in {k, CladeKind(k)} : InTable("BACKEND", b, a, kind) \/ InTable("COMMON", Nil, a, kind)

LEMMA Clades ==
    /\ \A k \in VarDecls \cup TypeDecls \cup Functions \cup {"FieldDecl"} : CladeKind(k) = "Decl"
    /\ \A k \in AccessKinds \cup {"DeclRefExpr", "ForStmt", "NullStmt", "BinaryOperator", "CompoundStmt"} :
          CladeKind(k) = "Stmt"
BY DEF CladeKind, DeclKinds, VarDecls, TypeDecls, Functions, AccessKinds

LEMMA BackendServes ==
    ASSUME NEW b \in Backends
    PROVE  /\ \A a \in {"outer", "inner", "tile"} : InTable("BACKEND", b, a, "ForStmt")
           /\ InTable("BACKEND", b, "atomic", "Stmt")
           /\ InTable("BACKEND", b, "barrier", "Stmt") \/ InTable("BACKEND", b, "barrier", "NullStmt")
           /\ InTable("BACKEND", b, "kernel", "FunctionDecl")
           /\ InTable("BACKEND", b, "restrict", "Decl")
           /\ InTable("BACKEND", b, "shared", "Stmt")
           /\ b = "DPCPP" => InTable("BACKEND", b, "shared", "VarDecl")
           /\ b # "DPCPP" => InTable("BACKEND", b, "shared", "Decl")
           /\ b \in HostBackends => /\ InTable("BACKEND", b, "exclusive", "VarDecl")
                                    /\ InTable("BACKEND", b, "exclusive", "DeclRefExpr")
           /\ b \notin HostBackends => /\ InTable("BACKEND", b, "exclusive", "Decl")
                                       /\ InTable("BACKEND", b, "exclusive", "Stmt")
<1>1. b \in {"CUDA", "HIP", "DPCPP", "OPENMP", "SERIAL"}
  BY DEF Backends, HostBackends
<1>2. CASE b = "CUDA"
  BY <1>2, CudaServes DEF HostBackends
<1>3. CASE b = "HIP"
  BY <1>3, HipServes DEF HostBackends
<1>4. CASE b = "DPCPP"
  BY <1>4, DpcppServes DEF HostBackends
<1>5. CASE b = "OPENMP"
  BY <1>5, OpenMPServes DEF HostBackends
<1>6. CASE b = "SERIAL"
  BY <1>6, SerialServes DEF HostBackends
<1>7. QED
  BY <1>1, <1>2, <1>3, <1>4, <1>5, <1>6

LEMMA CommonCovers ==
    ASSUME NEW b, NEW a \in {"dim", "dimOrder", "nobarrier", "max_inner_dims", "simd_length"}, NEW k \in NodeKinds(a)
    PROVE  Served(b, a, k)
<1>1. CASE a \in {"dim", "dimOrder"}
  <2>1. k \in VarDecls \cup TypeDecls \cup AccessKinds \cup {"DeclRefExpr"}
    BY <1>1 DEF NodeKinds, LoopAttrs, TypeAttrs
  <2>2. CladeKind(k) \in {"Decl", "Stmt"}
    BY <2>1, Clades
  <2>3. QED
    BY <1>1, <2>2, CommonServes DEF Served
<1>2. CASE a \in {"nobarrier", "max_inner_dims", "simd_length"}
  <2>1. k = "ForStmt"
    BY <1>2 DEF NodeKinds, LoopAttrs
  <2>2. QED
    BY <1>2, <2>1, CommonServes DEF Served
<1>3. QED
  BY <1>1, <1>2

LEMMA BackendCovers ==
    ASSUME NEW b \in Backends, NEW a \in OklAttrs, NEW k \in NodeKinds(a)
    PROVE  Served(b, a, k) \/ [backend |-> b, attr |-> a, kind |-> k] \in Gaps
<1> DEFINE gap == [backend |-> b, attr |-> a, kind |-> k] \in Gaps
<1>1. CASE a \in {"dim", "dimOrder", "nobarrier", "max_inner_dims", "simd_length"}
  BY <1>1, CommonCovers
<1>2. CASE a \in {"outer", "inner", "tile"}
  <2>1. k = "ForStmt"
    BY <1>2 DEF NodeKinds, LoopAttrs
  <2>2. QED
    BY <1>2, <2>1, BackendServes DEF Served
<1>3. CASE a = "barrier"
  <2>1. k = "NullStmt" /\ CladeKind(k) = "Stmt"
    BY <1>3, Clades DEF NodeKinds, LoopAttrs
  <2>2. QED
    BY <1>3, <2>1, BackendServes DEF Served
<1>4. CASE a = "atomic"
  <2>1. CladeKind(k) = "Stmt"
    BY <1>4, Clades DEF NodeKinds, LoopAttrs
  <2>2. QED
    BY <1>4, <2>1, BackendServes DEF Served
<1>5. CASE a = "kernel"
  <2>1. k \in {"FunctionDecl", "CXXMethodDecl"}
    BY <1>5 DEF NodeKinds, LoopAttrs, Functions
  <2>2. CASE k = "FunctionDecl"
    BY <1>5, <2>2, BackendServes DEF Served
  <2>3. CASE k = "CXXMethodDecl"
    BY <1>5, <2>3 DEF Gaps
  <2>4. QED
    BY <2>1, <2>2, <2>3
<1>6. CASE a = "restrict"
  <2>1. CladeKind(k) = "Decl"
    BY <1>6, Clades DEF NodeKinds, LoopAttrs
  <2>2. QED
    BY <1>6, <2>1, BackendServes DEF Served
<1>7. CASE a = "shared"
  <2>1. k \in {"VarDecl", "ParmVarDecl", "TypedefDecl", "CXXRecordDecl", "RecoveryExpr", "CallExpr", "DeclRefExpr"}
    BY <1>7 DEF NodeKinds, LoopAttrs, TypeAttrs, VarDecls, TypeDecls, AccessKinds
  <2>2. CASE CladeKind(k) = "Stmt"
    BY <1>7, <2>2, BackendServes DEF Served
  <2>3. CASE CladeKind(k) = "Decl" /\ b # "DPCPP"
    BY <1>7, <2>3, BackendServes DEF Served
  <2>4. CASE k = "VarDecl" /\ b = "DPCPP"
    BY <1>7, <2>4, BackendServes DEF Served
  <2>5. CASE k \in {"ParmVarDecl", "TypedefDecl", "CXXRecordDecl"} /\ b = "DPCPP"
    BY <1>7, <2>5 DEF Gaps
  <2>6. k \in {"RecoveryExpr", "CallExpr", "DeclRefExpr"} => CladeKind(k) = "Stmt"
    BY Clades DEF AccessKinds
  <2>7. k \in {"VarDecl", "ParmVarDecl", "TypedefDecl", "CXXRecordDecl"} => CladeKind(k) = "Decl"
    BY Clades DEF VarDecls, TypeDecls
  <2>8. QED
    BY <2>1, <2>2, <2>3, <2>4, <2>5, <2>6, <2>7
<1>8. CASE a = "exclusive"
  <2>1. k \in {"VarDecl", "ParmVarDecl", "TypedefDecl", "CXXRecordDecl", "RecoveryExpr", "CallExpr", "DeclRefExpr"}
    BY <1>8 DEF NodeKinds, LoopAttrs, TypeAttrs, VarDecls, TypeDecls, AccessKinds
  <2>2. CladeKind(k) \in {"Decl", "Stmt"}
    BY <2>1, Clades DEF VarDecls, TypeDecls, AccessKinds
  <2>3. CASE b \notin HostBackends
    BY <1>8, <2>2, <2>3, BackendServes DEF Served
  <2>4. CASE b \in HostBackends /\ k \in {"VarDecl", "DeclRefExpr"}
    BY <1>8, <2>4, BackendServes DEF Served
  <2>5. CASE b \in HostBackends /\ k \notin {"VarDecl", "DeclRefExpr"}
    BY <1>8, <2>1, <2>5 DEF Gaps
  <2>6. QED
    BY <2>3, <2>4, <2>5
<1>9. QED
  BY <1>1, <1>2, <1>3, <1>4, <1>5, <1>6, <1>7, <1>8 DEF OklAttrs, LoopAttrs, TypeAttrs

LEMMA LauncherCovers ==
    ASSUME NEW a \in OklAttrs, NEW k \in NodeKinds(a), a = "kernel" => k = "FunctionDecl"
    PROVE  Served("LAUNCHER", a, k)
<1>1. CASE a \in {"dim", "dimOrder", "nobarrier", "max_inner_dims", "simd_length"}
  BY <1>1, CommonCovers
<1>2. CASE a \in {"outer", "inner", "tile", "barrier", "atomic"}
  <2>1. CladeKind(k) = "Stmt"
    BY <1>2, Clades DEF NodeKinds, LoopAttrs
  <2>2. QED
    BY <1>2, <2>1, LauncherServes DEF Served
<1>3. CASE a = "kernel"
  BY <1>3, LauncherServes DEF Served
<1>4. CASE a = "restrict"
  <2>1. CladeKind(k) = "Decl"
    BY <1>4, Clades DEF NodeKinds, LoopAttrs
  <2>2. QED
    BY <1>4, <2>1, LauncherServes DEF Served
<1>5. CASE a \in {"shared", "exclusive"}
  <2>1. CladeKind(k) \in {"Decl", "Stmt"}
    BY <1>5, Clades DEF NodeKinds, LoopAttrs, TypeAttrs
  <2>2. QED
    BY <1>5, <2>1, LauncherServes DEF Served
<1>6. QED
  BY <1>1, <1>2, <1>3, <1>4, <1>5 DEF OklAttrs, LoopAttrs, TypeAttrs

-----------------------------------------------------------------------------
(* Registration, for any table of handlers with keys of their own.         *)

\* No two handlers of one slice have the same key.
KeysDistinct == \A slice \in Slices : \A g, h \in slice : Key(g) = Key(h) => g = h

\* What has been registered and what has not are a slice, and the map has the
\* keys of what has been registered.
MapInv ==
    /\ registered \cup pending \in Slices
    /\ DOMAIN handlers = {Key(h) : h \in registered}
    /\ NoHandlerIsLost

LEMMA InitMapInv == MapInit => MapInv
BY DEF MapInit, MapInv, NoHandlerIsLost

\* The handler that is inserted does not find its key taken, and leaves the
\* others where they are.
LEMMA InsertKeepsMapInv ==
    ASSUME KeysDistinct, MapInv, NEW h, Insert(h)
    PROVE  MapInv'
<1>1. h \in pending /\ registered' = registered \cup {h} /\ pending' = pending \ {h}
  BY DEF Insert
<1>2. handlers' = [key \in DOMAIN handlers \cup {Key(h)} |->
                      IF key \in DOMAIN handlers THEN handlers[key] ELSE h]
  BY DEF Insert
<1>3. (registered \cup pending)' = registered \cup pending
  BY <1>1
<1>4. DOMAIN handlers' = {Key(g) : g \in registered'}
  <2>1. {Key(g) : g \in registered'} = {Key(g) : g \in registered} \cup {Key(h)}
    BY <1>1
  <2>2. QED
    BY <1>2, <2>1 DEF MapInv
<1>5. ASSUME NEW g \in registered'
      PROVE  Key(g) \in DOMAIN handlers' /\ handlers'[Key(g)] = g
  <2>1. Key(g) \in DOMAIN handlers'
    BY <1>4
  <2>2. CASE g \in registered
    BY <2>2, <2>1, <1>2 DEF MapInv, NoHandlerIsLost
  <2>3. CASE g \notin registered
    <3>1. g = h
      BY <2>3, <1>1
    <3>2. CASE Key(h) \in DOMAIN handlers
      <4>1. PICK f \in registered : Key(f) = Key(h)
        BY <3>2 DEF MapInv
      <4>2. f = h
        BY <4>1, <1>1 DEF KeysDistinct, MapInv
      <4>3. QED
        BY <4>1, <4>2, <3>1, <2>3
    <3>3. CASE Key(h) \notin DOMAIN handlers
      BY <3>1, <3>3, <2>1, <1>2
    <3>4. QED
      BY <3>2, <3>3
  <2>4. QED
    BY <2>2, <2>3
<1>6. NoHandlerIsLost'
  <2>1. \A g \in registered' : Key(g) \in DOMAIN handlers' /\ handlers'[Key(g)] = g
    BY <1>5
  <2>2. QED
    BY <2>1 DEF NoHandlerIsLost, Key
<1>7. QED
  BY <1>3, <1>4, <1>6 DEF MapInv, Key

\* Every handler that has been registered is found under its key, whatever
\* the order of the constructors (HandlerMap::insert).
THEOREM AllHandlersFound ==
    ASSUME KeysDistinct
    PROVE  MapSpec => []NoHandlerIsLost
<1>1. ASSUME MapInv, [Register]_mapVars
      PROVE  MapInv'
  <2>1. CASE Register
    BY <2>1, <1>1, InsertKeepsMapInv DEF Register
  <2>2. CASE UNCHANGED mapVars
    BY <2>2, <1>1 DEF mapVars, MapInv, NoHandlerIsLost, Key
  <2>3. QED
    BY <1>1, <2>1, <2>2
<1>2. MapInv => NoHandlerIsLost
  BY DEF MapInv
<1>3. QED
  BY <1>1, <1>2, InitMapInv, PTL DEF MapSpec

\* The table of this program is one of those.
LEMMA TableHasKeys == KeysDistinct
BY AttributesAssumption, KeysAreDistinct DEF KeysDistinct, AttributesAssumption

-----------------------------------------------------------------------------
(* Parsing keeps lists of arguments lists.                                 *)

FrameOK(f) == "args" \in DOMAIN f /\ \E S : f.args \in Seq(S)

FramesOK == \E S : frames \in Seq(S) /\ \A f \in S : FrameOK(f)

LEMMA NewFrame == ASSUME NEW name PROVE FrameOK(Frame(name))
<1>1. <<>> \in Seq({})
  OBVIOUS
<1>2. QED
  BY <1>1 DEF FrameOK, Frame

LEMMA StoreKeeps == ASSUME NEW f, FrameOK(f), NEW v PROVE FrameOK(Store(f, v))
<1>1. PICK S : f.args \in Seq(S)
  BY DEF FrameOK
<1>2. Append(f.args, v) \in Seq(S \cup {v})
  BY <1>1
<1>3. CASE f.key = NoKey
  <2> DEFINE g == [f EXCEPT !.args = Append(@, v)]
  <2>1. "args" \in DOMAIN g /\ g.args = Append(f.args, v)
    BY DEF FrameOK
  <2>2. FrameOK(g)
    BY <1>2, <2>1 DEF FrameOK
  <2>3. QED
    BY <1>3, <2>2 DEF Store
<1>4. CASE f.key # NoKey
  <2> DEFINE g == Store(f, v)
  <2>1. "args" \in DOMAIN g /\ g.args = f.args
    BY <1>4 DEF FrameOK, Store
  <2> HIDE DEF g
  <2>2. FrameOK(g)
    BY <1>1, <2>1 DEF FrameOK
  <2>3. QED
    BY <2>2 DEF g
<1>5. QED
  BY <1>3, <1>4

LEMMA OneReplaced ==
    ASSUME NEW S, NEW q \in Seq(S), NEW i \in DOMAIN q, NEW x
    PROVE  [q EXCEPT ![i] = x] \in Seq(S \cup {x})
<1> DEFINE T == S \cup {x}
<1>1. q \in Seq(T) /\ x \in T
  OBVIOUS
<1> HIDE DEF T
<1>2. [q EXCEPT ![i] = x] \in Seq(T)
  BY <1>1
<1>3. QED
  BY <1>2 DEF T

LEMMA StepKeepsFrames == FramesOK /\ ParserStep => FramesOK'
<1> SUFFICES ASSUME FramesOK, ParserStep PROVE FramesOK'
  OBVIOUS
<1>0. PICK S : frames \in Seq(S) /\ \A f \in S : FrameOK(f)
  BY DEF FramesOK
<1>1. ASSUME frames' = frames PROVE FramesOK'
  BY <1>0, <1>1 DEF FramesOK, FrameOK
<1>2. ASSUME NEW q, NEW Q, q \in Seq(Q), \A f \in Q : FrameOK(f), frames' = q PROVE FramesOK'
  BY <1>2 DEF FramesOK, FrameOK
<1>3. CASE OpenList \/ CloseList \/ RegularArg \/ NoArg \/ TakeArgToken \/ Comma \/ NoComma
  BY <1>1, <1>3 DEF OpenList, CloseList, RegularArg, NoArg, TakeArgToken, Comma, NoComma, Return
<1>4. CASE KeywordArg
  <2> DEFINE n == Len(frames)
             g == [frames[n] EXCEPT !.key = toks[at]]
             q == [frames EXCEPT ![n] = g]
  <2>1. frames' = q
    BY <1>4 DEF KeywordArg
  <2>2. n \in DOMAIN frames => FrameOK(g)
    <3> SUFFICES ASSUME n \in DOMAIN frames PROVE FrameOK(g)
      OBVIOUS
    <3>1. FrameOK(frames[n])
      BY <1>0
    <3>2. "args" \in DOMAIN g /\ g.args = frames[n].args
      BY <3>1 DEF FrameOK
    <3> HIDE DEF g
    <3>3. QED
      BY <3>1, <3>2 DEF FrameOK
  <2> HIDE DEF g
  <2>3. CASE n \in DOMAIN frames
    <3>1. q \in Seq(S \cup {g})
      BY <1>0, <2>3, OneReplaced
    <3>2. \A f \in S \cup {g} : FrameOK(f)
      BY <1>0, <2>2, <2>3
    <3> HIDE DEF q
    <3>3. QED
      BY <1>2, <2>1, <3>1, <3>2
  <2>4. CASE n \notin DOMAIN frames
    <3>1. q = frames
      BY <1>0, <2>4
    <3>2. QED
      BY <1>1, <2>1, <3>1
  <2>5. QED
    BY <2>3, <2>4
<1>5. CASE NestedAttr
  <2> DEFINE g == Frame(toks[at + 1])
             q == Append(frames, g)
  <2>1. frames' = q
    BY <1>5 DEF NestedAttr
  <2>2. FrameOK(g)
    BY NewFrame
  <2> HIDE DEF g
  <2>3. q \in Seq(S \cup {g})
    BY <1>0
  <2>4. \A f \in S \cup {g} : FrameOK(f)
    BY <1>0, <2>2
  <2> HIDE DEF q
  <2>5. QED
    BY <1>2, <2>1, <2>3, <2>4
<1>6. ASSUME NEW base, base \in Seq(S), NEW v,
             frames' = [base EXCEPT ![Len(base)] = Store(@, v)]
      PROVE  FramesOK'
  <2> DEFINE n == Len(base)
             g == Store(base[n], v)
             q == [base EXCEPT ![n] = g]
  <2>1. frames' = q
    BY <1>6
  <2>2. n \in DOMAIN base => FrameOK(g)
    BY <1>0, <1>6, StoreKeeps
  <2> HIDE DEF g
  <2>3. CASE n \in DOMAIN base
    <3>1. q \in Seq(S \cup {g})
      BY <1>6, <2>3, OneReplaced
    <3>2. \A f \in S \cup {g} : FrameOK(f)
      BY <1>0, <2>2, <2>3
    <3> HIDE DEF q
    <3>3. QED
      BY <1>2, <2>1, <3>1, <3>2
  <2>4. CASE n \notin DOMAIN base
    <3>1. q = base
      BY <1>6, <2>4
    <3>2. QED
      BY <1>0, <1>2, <1>6, <2>1, <3>1
  <2>5. QED
    BY <2>3, <2>4
<1>7. CASE FinishArg
  BY <1>0, <1>6, <1>7 DEF FinishArg
<1>8. CASE ReturnNested
  <2> DEFINE callers == Front0(frames)
             v       == AttrParam(<<>>, Parsed(Top(frames)))
  <2>1. frames' = [callers EXCEPT ![Len(callers)] = Store(@, v)]
    BY <1>8 DEF ReturnNested
  <2>2. callers \in Seq(S)
    BY <1>0, <1>8 DEF ReturnNested, Front0
  <2> HIDE DEF callers, v
  <2>3. QED
    BY <1>6, <2>1, <2>2
<1>9. QED
  BY <1>3, <1>4, <1>5, <1>7, <1>8 DEF ParserStep

-----------------------------------------------------------------------------
(* What the table means for the map of handlers.                           *)

HandlersOf(a) == {h \in Registrations : h.attr = a}

LEMMA ServedIsHandled ==
    ASSUME MapInv, NEW b, NEW a, NEW k, HandlersOf(a) \subseteq registered, Served(b, a, k)
    PROVE  IsHandled(b, a, k)
<1>1. PICK kind \in {k, CladeKind(k)} : InTable("BACKEND", b, a, kind) \/ InTable("COMMON", Nil, a, kind)
  BY DEF Served
<1>2. ASSUME NEW t, NEW c, InTable(t, c, a, kind) PROVE HasHandler(t, c, a, k)
  <2>1. PICK p : Handler(t, c, a, kind, p) \in Registrations
    BY <1>2 DEF InTable
  <2> DEFINE h == Handler(t, c, a, kind, p)
  <2>2. h.attr = a /\ Key(h) = <<t, c, a, kind>>
    BY DEF Handler, Key
  <2>3. Key(h) \in DOMAIN handlers
    BY <2>1, <2>2 DEF HandlersOf, MapInv
  <2>4. QED
    BY <2>2, <2>3 DEF HasHandler, KeysFor
<1>3. QED
  BY <1>1, <1>2 DEF IsHandled

LEMMA FoundInMap ==
    ASSUME MapInv, AttributesAssumption, NEW t, NEW b, NEW a, NEW k, HasHandler(t, b, a, k)
    PROVE  /\ Find(t, b, a, k) \in Registrations
           /\ Find(t, b, a, k).t = t /\ Find(t, b, a, k).backend = b /\ Find(t, b, a, k).attr = a
           /\ Find(t, b, a, k).kind \in {k, CladeKind(k)}
<1> DEFINE key == IF <<t, b, a, k>> \in DOMAIN handlers THEN <<t, b, a, k>> ELSE <<t, b, a, CladeKind(k)>>
<1>1. key \in DOMAIN handlers /\ Find(t, b, a, k) = handlers[key]
  BY DEF HasHandler, KeysFor, Find
<1>2. PICK h \in registered : Key(h) = key
  BY <1>1 DEF MapInv
<1>3. handlers[key] = h
  BY <1>2 DEF MapInv, NoHandlerIsLost
<1>4. h \in Registrations
  BY AttributesAssumption DEF MapInv, AttributesAssumption
<1>5. h.t = t /\ h.backend = b /\ h.attr = a /\ h.kind \in {k, CladeKind(k)}
  BY <1>2 DEF Key
<1>6. QED
  BY <1>1, <1>3, <1>4, <1>5

LEMMA FoundForNode ==
    ASSUME MapInv, NEW b, NEW a, NEW k, IsHandled(b, a, k)
    PROVE  /\ HandlerOf(b, a, k) \in Registrations
           /\ HandlerOf(b, a, k).attr = a
           /\ HandlerOf(b, a, k).kind \in {k, CladeKind(k)}
BY FoundInMap, AttributesAssumption DEF IsHandled, HandlerOf

\* No handler takes parameters of a type that the frontend does not return.
LEMMA HandlerTakes ==
    ASSUME MapInv, NEW b, NEW a, NEW k, IsHandled(b, a, k)
    PROVE  HandlerOf(b, a, k).params \in {"no", "any", ParamType(a)}
<1> DEFINE h == HandlerOf(b, a, k)
<1>1. h \in Registrations /\ h.attr = a
  BY FoundForNode
<1> HIDE DEF h
<1>2. h = Handler(h.t, h.backend, h.attr, h.kind, TakenBy(h.t, h.backend, h.attr))
  BY <1>1, TableIsPlain DEF IsPlain
<1>3. h.params = TakenBy(h.t, h.backend, a)
  BY <1>1, <1>2 DEF Handler
<1>4. \A t, c : TakenBy(t, c, a) \in {"no", "any", ParamType(a)}
  BY DEF TakenBy
<1>5. QED
  BY <1>3, <1>4 DEF h

LEMMA KernelsAreFunctions ==
    ASSUME MapInv, NEW b, NEW k \in Functions, IsHandled(b, "kernel", k)
    PROVE  k = "FunctionDecl"
<1> DEFINE h == HandlerOf(b, "kernel", k)
<1>1. h \in Registrations /\ h.attr = "kernel" /\ h.kind \in {k, CladeKind(k)}
  BY FoundForNode
<1>2. h.kind \in {Nil, "FunctionDecl"}
  BY <1>1, TableIsPlain DEF IsPlain
<1>3. CladeKind(k) = "Decl"
  BY Clades
<1>4. QED
  BY <1>1, <1>2, <1>3 DEF Nil, Functions

LEMMA ParamTypes ==
    ASSUME NEW a \in OklAttrs, NEW p, ParamsOf(a, p) # Bad
    PROVE  ParamsOf(a, p).type = ParamType(a)
<1> USE DEF ParamsOf, ParamType, Bad
<1>1. CASE a \in {"outer", "inner"}
  BY <1>1 DEF OuterParams, InnerParams, LoopParams, Loop
<1>2. CASE a = "tile"
  BY <1>2 DEF TileParams
<1>3. CASE a \in {"nobarrier", "atomic", "kernel"}
  BY <1>3 DEF NoBarrierParams, AtomicParams, KernelParams, NoParams
<1>4. CASE a \in {"restrict", "shared", "exclusive"}
  BY <1>4 DEF RestrictParams, SharedParams, ExclusiveParams, NoParams
<1>5. CASE a = "max_inner_dims"
  BY <1>5 DEF MaxInnerDimsParams
<1>6. CASE a = "simd_length"
  BY <1>6 DEF SimdLengthParams
<1>7. CASE a = "barrier"
  BY <1>7 DEF BarrierParams
<1>8. CASE a = "dim"
  BY <1>8 DEF DimParams
<1>9. CASE a = "dimOrder"
  BY <1>9 DEF DimOrderParams
<1>10. QED
  BY <1>1, <1>2, <1>3, <1>4, <1>5, <1>6, <1>7, <1>8, <1>9 DEF OklAttrs, LoopAttrs, TypeAttrs

\* A @dim has a list of dimensions, and one at least.
LEMMA DimsAreList ==
    ASSUME NEW p, FrameOK(p), DimParams(p) # Bad
    PROVE  \E n \in Nat \ {0} : DOMAIN DimParams(p).dim = 1..n
<1>1. p.args # <<>> /\ DimParams(p).dim = [i \in DOMAIN p.args |-> p.args[i].raw]
  BY DEF DimParams
<1>2. PICK S : p.args \in Seq(S)
  BY DEF FrameOK
<1>3. DOMAIN p.args = 1..Len(p.args) /\ Len(p.args) \in Nat \ {0}
  BY <1>1, <1>2
<1>4. QED
  BY <1>1, <1>3

-----------------------------------------------------------------------------
(* The life of an attribute.                                               *)

HasAccess(seq) == \E i \in DOMAIN seq : seq[i] \in AccessKinds

AllNodes == <<subject.kind>> \o uses

AcceptedKinds(a) == IF a = "kernel" THEN {"FunctionDecl"} ELSE NodeKinds(a)

\* An attribute is written when its handlers are there.
WrittenOK ==
    phase # "start" =>
        /\ pending = {} /\ attr \in OklAttrs
        /\ HandlersOf(attr) \subseteq registered
        /\ uses \in UsesOf(attr, subject)
        /\ backend \in Backends \cup {"LAUNCHER"}

PhaseOK ==
    /\ phase \in {"start", "clang", "walk", "parse", "handle", "done"}
    /\ phase \in {"start", "clang", "walk", "parse"} => access = NoAccess /\ backend # "LAUNCHER"
    /\ phase \in {"walk", "parse", "handle"} => "attached" \in AppertainsTo(attr, subject)
    /\ phase \in {"parse", "handle"} => (attr = "kernel" => subject.kind = "FunctionDecl")
    /\ phase # "done" => outcome = "none"

\* Until an access has been handled, it is among the nodes that are left.
NodesOK ==
    phase \in {"parse", "handle"} =>
        /\ nodes \in Seq(AcceptedKinds(attr))
        /\ attr = "dim" /\ HasAccess(AllNodes) => HasAccess(nodes) \/ access # NoAccess
        /\ HasAccess(nodes) => HasAccess(AllNodes)

\* The launcher pass finds every access handled.
HandleOK ==
    phase = "handle" =>
        /\ params.type = ParamType(attr)
        /\ access.result # <<"rejected">>
        /\ backend = "LAUNCHER" /\ attr = "dim" /\ HasAccess(AllNodes) => access # NoAccess

EndOK ==
    phase = "done" =>
        /\ outcome \in {"error", "warning", "no handler", "no handle for node", "bad parameters",
                        "bad access", "accepted"}
        /\ backend = "LAUNCHER" => outcome = "accepted"
        /\ AttachedIsHandled

AccessOK ==
    /\ access # NoAccess => /\ access.args \in Accesses /\ access.order \in Orders
                            /\ access.result = DimIndex(access.args, Sizes, access.order)
    /\ (phase = "handle" /\ attr = "dim") \/ access # NoAccess =>
          \E n \in Nat \ {0} : DOMAIN params.dim = 1..n

AttrInv == /\ MapInv /\ FramesOK /\ WrittenOK /\ PhaseOK
           /\ NodesOK /\ HandleOK /\ EndOK /\ AccessOK

LEMMA InitAttrInv == AttrInit => AttrInv
<1> SUFFICES ASSUME AttrInit PROVE AttrInv
  OBVIOUS
<1>1. MapInv
  BY InitMapInv DEF AttrInit
<1>2. FramesOK
  <2>1. frames \in Seq({})
    BY DEF AttrInit, ParserIdle
  <2>2. QED
    BY <2>1 DEF FramesOK
<1>3. WrittenOK /\ PhaseOK /\ NodesOK /\ HandleOK /\ EndOK
  BY DEF AttrInit, WrittenOK, PhaseOK, NodesOK, HandleOK, EndOK, Nil, Backends, HostBackends
<1>4. AccessOK
  BY DEF AttrInit, AccessOK
<1>5. QED
  BY <1>1, <1>2, <1>3, <1>4 DEF AttrInv

LEMMA AllNodesAre ==
    ASSUME attr \in OklAttrs, uses \in UsesOf(attr, subject), "attached" \in AppertainsTo(attr, subject),
           attr = "kernel" => subject.kind = "FunctionDecl"
    PROVE  AllNodes \in Seq(AcceptedKinds(attr))
<1>1. subject.kind \in NodeKinds(attr) /\ uses \in Seq(NodeKinds(attr))
  BY SubjectKinds, UseKinds
<1>2. CASE attr = "kernel"
  <2>1. uses = <<>> /\ subject.kind \in AcceptedKinds(attr)
    BY <1>2 DEF UsesOf, AcceptedKinds, TypeAttrs
  <2> DEFINE K == AcceptedKinds(attr)
  <2> HIDE DEF K
  <2>2. <<subject.kind>> \o uses \in Seq(K)
    BY <2>1 DEF K
  <2>3. QED
    BY <2>2 DEF K, AllNodes
<1>3. CASE attr # "kernel"
  <2> DEFINE K == NodeKinds(attr)
  <2>1. AcceptedKinds(attr) = K
    BY <1>3 DEF AcceptedKinds
  <2>2. subject.kind \in K /\ uses \in Seq(K)
    BY <1>1
  <2> HIDE DEF K
  <2>3. <<subject.kind>> \o uses \in Seq(K)
    BY <2>2
  <2>4. QED
    BY <2>1, <2>3 DEF AllNodes
<1>4. QED
  BY <1>2, <1>3

LEMMA TailHasAccess ==
    ASSUME NEW K, NEW s \in Seq(K), s # <<>>
    PROVE  /\ Tail(s) \in Seq(K) /\ Head(s) \in K
           /\ HasAccess(Tail(s)) => HasAccess(s)
           /\ HasAccess(s) => Head(s) \in AccessKinds \/ HasAccess(Tail(s))
<1>1. Tail(s) \in Seq(K) /\ Head(s) = s[1] /\ s[1] \in K /\ Len(Tail(s)) = Len(s) - 1
  OBVIOUS
<1>2. \A i \in 1..Len(s) - 1 : Tail(s)[i] = s[i + 1]
  OBVIOUS
<1>3. ASSUME NEW i \in DOMAIN Tail(s) PROVE i + 1 \in DOMAIN s /\ Tail(s)[i] = s[i + 1]
  BY <1>1, <1>2
<1>4. ASSUME NEW i \in DOMAIN s, i # 1 PROVE i - 1 \in DOMAIN Tail(s) /\ Tail(s)[i - 1] = s[i]
  BY <1>1, <1>2, <1>4
<1>5. QED
  BY <1>1, <1>3, <1>4 DEF HasAccess

LEMMA RegisterKeeps == AttrInv /\ RegisterHandler => AttrInv'
<1> SUFFICES ASSUME AttrInv, RegisterHandler PROVE AttrInv'
  OBVIOUS
<1>1. MapInv'
  BY TableHasKeys, InsertKeepsMapInv DEF RegisterHandler, Register, AttrInv
<1>2. phase = "start"
  BY DEF RegisterHandler, Register, Insert, AttrInv, WrittenOK
<1>3. UNCHANGED <<parserVars, lifeVars>>
  BY DEF RegisterHandler
<1>4. FramesOK' /\ AccessOK'
  BY <1>3 DEF AttrInv, FramesOK, AccessOK, FrameOK, Sizes, parserVars, lifeVars
<1>5. WrittenOK' /\ PhaseOK' /\ NodesOK' /\ HandleOK' /\ EndOK'
  BY <1>2, <1>3 DEF AttrInv, WrittenOK, PhaseOK, NodesOK, HandleOK, EndOK, lifeVars
<1>6. QED
  BY <1>1, <1>4, <1>5 DEF AttrInv

\* All other steps leave the map as it is.
LEMMA MapStays == AttrInv /\ UNCHANGED mapVars => MapInv'
BY DEF AttrInv, mapVars, MapInv, NoHandlerIsLost, Key

LEMMA FramesStay == AttrInv /\ UNCHANGED parserVars => FramesOK'
BY DEF AttrInv, parserVars, FramesOK, FrameOK

LEMMA AccessStays == AttrInv /\ UNCHANGED <<access, params>> /\ (phase' = "handle" => phase = "handle" /\ attr' = attr) => AccessOK'
<1> SUFFICES ASSUME AttrInv, UNCHANGED <<access, params>>, phase' = "handle" => phase = "handle" /\ attr' = attr
             PROVE  AccessOK'
  OBVIOUS
<1>1. Sizes' = Sizes
  BY DEF Sizes
<1>2. QED
  BY <1>1 DEF AttrInv, AccessOK

LEMMA WriteKeeps == AttrInv /\ Write => AttrInv'
<1> SUFFICES ASSUME AttrInv, Write PROVE AttrInv'
  OBVIOUS
<1>1. MapInv' /\ FramesOK' /\ AccessOK'
  BY MapStays, FramesStay, AccessStays DEF Write
<1>2. attr' \in OklAttrs /\ HandlersOf(attr') \subseteq registered
  BY AttributesAssumption DEF Write, HandlersOf, AttributesAssumption
<1>3. WrittenOK'
  BY <1>2 DEF Write, WrittenOK, mapVars, HandlersOf
<1>4. access = NoAccess /\ outcome = "none"
  BY DEF AttrInv, PhaseOK, Write
<1>5. PhaseOK' /\ NodesOK' /\ HandleOK' /\ EndOK'
  BY <1>4 DEF Write, PhaseOK, NodesOK, HandleOK, EndOK, Backends, HostBackends
<1>6. QED
  BY <1>1, <1>3, <1>5 DEF AttrInv

LEMMA AttachKeeps == AttrInv /\ Attach => AttrInv'
<1> SUFFICES ASSUME AttrInv, Attach PROVE AttrInv'
  OBVIOUS
<1>1. MapInv' /\ FramesOK'
  BY MapStays, FramesStay DEF Attach
<1>2. /\ phase = "clang" /\ UNCHANGED <<mapVars, attr, subject, uses, backend, access, params>>
      /\ \/ phase' = "walk" /\ "attached" \in AppertainsTo(attr, subject) /\ outcome' = outcome
         \/ phase' = "done" /\ outcome' \in AppertainsTo(attr, subject) \ {"attached"}
  BY DEF Attach, End
<1>3. AppertainsTo(attr, subject) \subseteq {"attached", "error", "warning"}
  <2>1. attr \in OklAttrs
    BY <1>2 DEF AttrInv, WrittenOK
  <2>2. QED
    BY <2>1 DEF OklAttrs, LoopAttrs, TypeAttrs, AppertainsTo, If, Attached, Rejected, TileOn, OuterOn, InnerOn,
                NoBarrierOn, MaxInnerDimsOn, SimdLengthOn, BarrierOn, AtomicOn, KernelOn, RestrictOn, SharedOn,
                ExclusiveOn, DimOn, DimOrderOn
<1>4. AccessOK'
  BY <1>2, AccessStays
<1>5. WrittenOK'
  BY <1>2 DEF AttrInv, WrittenOK, mapVars, HandlersOf
<1>6. access = NoAccess /\ backend # "LAUNCHER" /\ outcome = "none"
  BY <1>2 DEF AttrInv, PhaseOK
<1>7. PhaseOK' /\ NodesOK' /\ HandleOK'
  BY <1>2, <1>6 DEF PhaseOK, NodesOK, HandleOK
<1>8. EndOK'
  BY <1>2, <1>3, <1>6 DEF EndOK, AttachedIsHandled
<1>9. QED
  BY <1>1, <1>4, <1>5, <1>7, <1>8 DEF AttrInv

LEMMA CheckAttrsKeeps == AttrInv /\ CheckAttrs => AttrInv'
<1> SUFFICES ASSUME AttrInv, CheckAttrs PROVE AttrInv'
  OBVIOUS
<1>1. MapInv' /\ FramesOK'
  BY MapStays, FramesStay DEF CheckAttrs
<1>2. phase = "walk" /\ UNCHANGED <<mapVars, attr, subject, uses, backend, access, params>>
  BY DEF CheckAttrs
<1>3. \/ IsHandled(backend, attr, subject.kind) /\ phase' = "parse" /\ nodes' = AllNodes /\ outcome' = outcome
      \/ ~IsHandled(backend, attr, subject.kind) /\ phase' = "done" /\ outcome' = "no handler"
  BY DEF CheckAttrs, End, AllNodes
<1>4. /\ MapInv /\ attr \in OklAttrs /\ HandlersOf(attr) \subseteq registered /\ uses \in UsesOf(attr, subject)
      /\ backend \in Backends /\ backend # "LAUNCHER"
      /\ access = NoAccess /\ outcome = "none" /\ "attached" \in AppertainsTo(attr, subject)
  BY <1>2 DEF AttrInv, WrittenOK, PhaseOK
<1>5. subject.kind \in NodeKinds(attr)
  BY <1>4, SubjectKinds
<1>6. AccessOK'
  BY <1>2, <1>3, AccessStays
<1>7. WrittenOK'
  BY <1>2 DEF AttrInv, WrittenOK, mapVars, HandlersOf
<1>8. CASE IsHandled(backend, attr, subject.kind)
  <2>1. attr = "kernel" => subject.kind = "FunctionDecl"
    <3> SUFFICES ASSUME attr = "kernel" PROVE subject.kind = "FunctionDecl"
      OBVIOUS
    <3>1. subject.kind \in Functions
      BY <1>5 DEF NodeKinds, LoopAttrs
    <3>2. QED
      BY <1>4, <1>8, <3>1, KernelsAreFunctions
  <2>2. AllNodes \in Seq(AcceptedKinds(attr))
    BY <1>4, <2>1, AllNodesAre
  <2>3. phase' = "parse" /\ nodes' = AllNodes /\ AllNodes' = AllNodes /\ outcome' = "none"
    BY <1>2, <1>3, <1>4, <1>8 DEF AllNodes
  <2>4. PhaseOK' /\ HandleOK' /\ EndOK'
    BY <1>2, <1>4, <2>1, <2>3 DEF PhaseOK, HandleOK, EndOK
  <2>5. NodesOK'
    BY <1>2, <2>2, <2>3 DEF NodesOK
  <2>6. QED
    BY <1>1, <1>6, <1>7, <2>4, <2>5 DEF AttrInv
<1>9. CASE ~IsHandled(backend, attr, subject.kind)
  <2>1. phase' = "done" /\ outcome' = "no handler"
    BY <1>3, <1>9
  <2>2. [backend |-> backend, attr |-> attr, kind |-> subject.kind] \in Gaps
    BY <1>4, <1>5, <1>9, BackendCovers, ServedIsHandled
  <2>3. AttachedIsHandled'
    BY <1>2, <2>1, <2>2 DEF AttachedIsHandled
  <2>4. PhaseOK' /\ NodesOK' /\ HandleOK' /\ EndOK'
    BY <1>2, <1>4, <2>1, <2>3 DEF PhaseOK, NodesOK, HandleOK, EndOK
  <2>5. QED
    BY <1>1, <1>6, <1>7, <2>4 DEF AttrInv
<1>10. QED
  BY <1>8, <1>9

LEMMA ParseKeeps == AttrInv /\ (BeginParsing \/ Parse) => AttrInv'
<1> SUFFICES ASSUME AttrInv, BeginParsing \/ Parse PROVE AttrInv'
  OBVIOUS
<1>1. UNCHANGED <<mapVars, lifeVars>>
  BY DEF BeginParsing, Parse
<1>2. MapInv'
  BY <1>1, MapStays
<1>3. FramesOK'
  <2>1. CASE BeginParsing
    <3> DEFINE g == Frame(attr)
    <3>1. frames' = <<g>> /\ FrameOK(g)
      BY <2>1, NewFrame DEF BeginParsing, StartParsing
    <3> HIDE DEF g
    <3>2. <<g>> \in Seq({g}) /\ \A f \in {g} : FrameOK(f)
      BY <3>1
    <3>3. QED
      BY <3>1, <3>2 DEF FramesOK, FrameOK
  <2>2. CASE Parse
    BY <2>2, StepKeepsFrames DEF Parse, AttrInv
  <2>3. QED
    BY <2>1, <2>2
<1>4. AccessOK'
  BY <1>1, AccessStays DEF lifeVars
<1>5. WrittenOK' /\ PhaseOK' /\ HandleOK'
  BY <1>1 DEF AttrInv, WrittenOK, PhaseOK, HandleOK, mapVars, lifeVars, HandlersOf, AllNodes, HasAccess
<1>6. NodesOK'
  BY <1>1 DEF AttrInv, NodesOK, lifeVars, AllNodes, HasAccess
<1>7. EndOK'
  <2>1. phase = "parse" /\ phase' = phase
    BY <1>1 DEF BeginParsing, Parse, lifeVars
  <2>2. QED
    BY <2>1 DEF EndOK
<1>8. QED
  BY <1>2, <1>3, <1>4, <1>5, <1>6, <1>7 DEF AttrInv

LEMMA CheckParamsKeeps == AttrInv /\ CheckParams => AttrInv'
<1> SUFFICES ASSUME AttrInv, CheckParams PROVE AttrInv'
  OBVIOUS
<1>1. MapInv' /\ FramesOK'
  BY MapStays, FramesStay DEF CheckParams
<1>2. /\ phase = "parse" /\ ParserDone
      /\ UNCHANGED <<mapVars, attr, subject, uses, backend, access, nodes>>
  BY DEF CheckParams
<1>3. /\ params' = ParamsOf(attr, Result)
      /\ \/ params' = Bad /\ phase' = "done" /\ outcome' = "bad parameters"
         \/ params' # Bad /\ phase' = "handle" /\ outcome' = outcome
  BY DEF CheckParams, End
<1>4. /\ attr \in OklAttrs /\ backend # "LAUNCHER" /\ access = NoAccess /\ outcome = "none"
      /\ "attached" \in AppertainsTo(attr, subject)
      /\ attr = "kernel" => subject.kind = "FunctionDecl"
  BY <1>2 DEF AttrInv, WrittenOK, PhaseOK
<1>5. WrittenOK'
  BY <1>2 DEF AttrInv, WrittenOK, mapVars, HandlersOf
<1>6. PhaseOK' /\ EndOK'
  BY <1>2, <1>3, <1>4 DEF PhaseOK, EndOK, AttachedIsHandled
<1>7. NodesOK'
  BY <1>2, <1>3 DEF AttrInv, NodesOK, AllNodes, HasAccess
<1>8. HandleOK'
  <2>1. params' # Bad => params'.type = ParamType(attr)
    BY <1>3, <1>4, ParamTypes
  <2>2. access'.result = <<"none">>
    BY <1>2, <1>4 DEF NoAccess
  <2>3. QED
    BY <1>2, <1>3, <1>4, <2>1, <2>2 DEF HandleOK
<1>9. AccessOK'
  <2>1. ASSUME phase' = "handle", attr = "dim" PROVE \E n \in Nat \ {0} : DOMAIN params'.dim = 1..n
    <3>1. params' = DimParams(Result) /\ params' # Bad
      BY <1>3, <2>1 DEF ParamsOf
    <3>2. PICK S : frames \in Seq(S) /\ \A f \in S : FrameOK(f)
      BY DEF AttrInv, FramesOK
    <3>3. FrameOK(frames[1])
      BY <1>2, <3>2 DEF ParserDone
    <3>4. FrameOK(Result)
      BY <3>3 DEF FrameOK, Result, Parsed
    <3>5. QED
      BY <3>1, <3>4, DimsAreList
  <2>2. access' = NoAccess /\ attr' = attr
    BY <1>2, <1>4
  <2>3. QED
    BY <2>1, <2>2 DEF AccessOK
<1>10. QED
  BY <1>1, <1>5, <1>6, <1>7, <1>8, <1>9 DEF AttrInv

LEMMA IndexOrRejected ==
    \A args, sizes, order : DimIndex(args, sizes, order)[1] \in {"index", "rejected"}
BY DEF DimIndex

\* What becomes of an access.
LEMMA HandlingAccess ==
    ASSUME AttrInv, phase = "handle", nodes # <<>>, HandleAccess, UNCHANGED params
    PROVE  /\ access' # NoAccess =>
                 /\ access'.args \in Accesses /\ access'.order \in Orders
                 /\ access'.result = DimIndex(access'.args, Sizes, access'.order)
                 /\ attr = "dim" \/ access # NoAccess
           /\ access # NoAccess => access' # NoAccess
           /\ attr = "dim" /\ Node \in AccessKinds => access' # NoAccess
           /\ backend = "LAUNCHER" => access' = access
<1>1. CASE IsAccess /\ access = NoAccess
  <2>1. PICK args \in Accesses, order \in Orders :
           access' = [args |-> args, order |-> order, result |-> DimIndex(args, Sizes, order)]
    BY <1>1 DEF HandleAccess
  <2>2. access'.result[1] # "none"
    BY <2>1, IndexOrRejected
  <2>3. access' # NoAccess
    BY <2>2 DEF NoAccess
  <2>4. attr = "dim" /\ Node \in AccessKinds
    BY <1>1 DEF IsAccess, AccessKinds
  <2>5. backend # "LAUNCHER"
    <3>1. HasAccess(nodes)
      <4>1. nodes \in Seq(AcceptedKinds(attr))
        BY DEF AttrInv, NodesOK
      <4>2. 1 \in DOMAIN nodes /\ nodes[1] = Node
        BY <4>1 DEF Node
      <4>3. QED
        BY <2>4, <4>2 DEF HasAccess
    <3>2. HasAccess(AllNodes)
      BY <3>1 DEF AttrInv, NodesOK
    <3>3. QED
      BY <1>1, <2>4, <3>2 DEF AttrInv, HandleOK
  <2>6. QED
    BY <1>1, <2>1, <2>3, <2>4, <2>5
<1>2. CASE ~(IsAccess /\ access = NoAccess)
  <2>1. access' = access
    BY <1>2 DEF HandleAccess
  <2>2. attr = "dim" /\ Node \in AccessKinds => access # NoAccess
    BY <1>2 DEF IsAccess, AccessKinds
  <2>3. QED
    BY <2>1, <2>2 DEF AttrInv, AccessOK
<1>3. QED
  BY <1>1, <1>2

LEMMA HandleNodeKeeps == AttrInv /\ HandleNode => AttrInv'
<1> SUFFICES ASSUME AttrInv, HandleNode PROVE AttrInv'
  OBVIOUS
<1>1. MapInv' /\ FramesOK'
  BY MapStays, FramesStay DEF HandleNode
<1>2. /\ phase = "handle" /\ nodes # <<>>
      /\ UNCHANGED <<mapVars, attr, subject, uses, backend, params>>
  BY DEF HandleNode
<1>3. /\ MapInv /\ attr \in OklAttrs /\ HandlersOf(attr) \subseteq registered
      /\ backend \in Backends \cup {"LAUNCHER"}
      /\ "attached" \in AppertainsTo(attr, subject)
      /\ outcome = "none"
      /\ attr = "kernel" => subject.kind = "FunctionDecl"
  BY <1>2 DEF AttrInv, WrittenOK, PhaseOK
<1>4. WrittenOK'
  BY <1>2 DEF AttrInv, WrittenOK, mapVars, HandlersOf
<1>5. nodes \in Seq(AcceptedKinds(attr)) /\ AllNodes' = AllNodes /\ Sizes' = Sizes
  BY <1>2 DEF AttrInv, NodesOK, AllNodes, Sizes
<1>6. /\ Tail(nodes) \in Seq(AcceptedKinds(attr)) /\ Node \in AcceptedKinds(attr)
      /\ HasAccess(Tail(nodes)) => HasAccess(nodes)
      /\ HasAccess(nodes) => Node \in AccessKinds \/ HasAccess(Tail(nodes))
  BY <1>2, <1>5, TailHasAccess DEF Node
<1>7. Node \in NodeKinds(attr) /\ (attr = "kernel" => Node = "FunctionDecl")
  BY <1>6 DEF AcceptedKinds, NodeKinds, LoopAttrs, Functions
<1>8. CASE ~IsHandled(backend, attr, Node)
  <2>1. phase' = "done" /\ outcome' = "no handle for node" /\ UNCHANGED <<nodes, access>>
    BY <1>8 DEF HandleNode, End
  <2>2. backend # "LAUNCHER"
    BY <1>3, <1>7, <1>8, LauncherCovers, ServedIsHandled
  <2>3. [backend |-> backend, attr |-> attr, kind |-> Node] \in Gaps
    BY <1>3, <1>7, <1>8, <2>2, BackendCovers, ServedIsHandled
  <2>4. AttachedIsHandled'
    BY <1>2, <2>1, <2>3 DEF AttachedIsHandled, Node
  <2>5. PhaseOK' /\ NodesOK' /\ HandleOK' /\ EndOK'
    BY <1>2, <2>1, <2>2, <2>4 DEF PhaseOK, NodesOK, HandleOK, EndOK
  <2>6. AccessOK'
    BY <1>2, <2>1, AccessStays
  <2>7. QED
    BY <1>1, <1>4, <2>5, <2>6 DEF AttrInv
<1>9. CASE IsHandled(backend, attr, Node)
  <2>1. Takes(HandlerOf(backend, attr, Node))
    BY <1>2, <1>3, <1>9, HandlerTakes DEF Takes, AttrInv, HandleOK
  <2>2. /\ HandleAccess
        /\ \/ access'.result = <<"rejected">> /\ phase' = "done" /\ outcome' = "bad access" /\ nodes' = nodes
           \/ access'.result # <<"rejected">> /\ phase' = phase /\ outcome' = outcome /\ nodes' = Tail(nodes)
    BY <1>9, <2>1 DEF HandleNode, End
  <2>3. /\ access' # NoAccess =>
              /\ access'.args \in Accesses /\ access'.order \in Orders
              /\ access'.result = DimIndex(access'.args, Sizes, access'.order)
              /\ attr = "dim" \/ access # NoAccess
        /\ access # NoAccess => access' # NoAccess
        /\ attr = "dim" /\ Node \in AccessKinds => access' # NoAccess
        /\ backend = "LAUNCHER" => access' = access
    BY <1>2, <2>2, HandlingAccess
  <2>4. AccessOK'
    <3>1. (phase = "handle" /\ attr = "dim") \/ access # NoAccess => \E n \in Nat \ {0} : DOMAIN params.dim = 1..n
      BY DEF AttrInv, AccessOK
    <3>2. QED
      BY <1>2, <1>5, <2>3, <3>1 DEF AccessOK
  <2>5. CASE access'.result = <<"rejected">>
    <3>1. phase' = "done" /\ outcome' = "bad access"
      BY <2>2, <2>5
    <3>2. backend # "LAUNCHER"
      BY <1>2, <2>3, <2>5 DEF AttrInv, HandleOK
    <3>3. PhaseOK' /\ NodesOK' /\ HandleOK' /\ EndOK'
      BY <1>2, <3>1, <3>2 DEF PhaseOK, NodesOK, HandleOK, EndOK, AttachedIsHandled
    <3>4. QED
      BY <1>1, <1>4, <2>4, <3>3 DEF AttrInv
  <2>6. CASE access'.result # <<"rejected">>
    <3>1. phase' = "handle" /\ outcome' = "none" /\ nodes' = Tail(nodes)
      BY <1>2, <1>3, <2>2, <2>6
    <3>2. PhaseOK' /\ EndOK'
      BY <1>2, <1>3, <3>1 DEF PhaseOK, EndOK
    <3>3. NodesOK'
      <4>1. attr = "dim" /\ HasAccess(AllNodes) => HasAccess(nodes) \/ access # NoAccess
        BY <1>2 DEF AttrInv, NodesOK
      <4>2. HasAccess(nodes) => HasAccess(AllNodes)
        BY <1>2 DEF AttrInv, NodesOK
      <4>3. attr = "dim" /\ HasAccess(AllNodes) => HasAccess(Tail(nodes)) \/ access' # NoAccess
        BY <1>6, <2>3, <4>1
      <4>4. HasAccess(Tail(nodes)) => HasAccess(AllNodes)
        BY <1>6, <4>2
      <4>5. HasAccess(nodes)' = HasAccess(Tail(nodes)) /\ HasAccess(AllNodes)' = HasAccess(AllNodes)
        BY <1>5, <3>1 DEF HasAccess
      <4>6. QED
        BY <1>2, <1>6, <3>1, <4>3, <4>4, <4>5 DEF NodesOK
    <3>4. HandleOK'
      <4>1. backend = "LAUNCHER" /\ attr = "dim" /\ HasAccess(AllNodes) => access # NoAccess
        BY <1>2 DEF AttrInv, HandleOK
      <4>2. params.type = ParamType(attr)
        BY <1>2 DEF AttrInv, HandleOK
      <4>3. HasAccess(AllNodes)' = HasAccess(AllNodes)
        BY <1>5 DEF HasAccess
      <4>4. QED
        BY <1>2, <2>3, <2>6, <4>1, <4>2, <4>3 DEF HandleOK
    <3>5. QED
      BY <1>1, <1>4, <2>4, <3>2, <3>3, <3>4 DEF AttrInv
  <2>7. QED
    BY <2>5, <2>6
<1>10. QED
  BY <1>8, <1>9

LEMMA LauncherPassKeeps == AttrInv /\ LauncherPass => AttrInv'
<1> SUFFICES ASSUME AttrInv, LauncherPass PROVE AttrInv'
  OBVIOUS
<1>1. MapInv' /\ FramesOK'
  BY MapStays, FramesStay DEF LauncherPass
<1>2. /\ phase = "handle" /\ nodes = <<>> /\ backend' = "LAUNCHER" /\ nodes' = AllNodes
      /\ UNCHANGED <<mapVars, attr, subject, uses, phase, params, access, outcome>>
  BY DEF LauncherPass, AllNodes
<1>3. /\ attr \in OklAttrs /\ uses \in UsesOf(attr, subject) /\ outcome = "none"
      /\ "attached" \in AppertainsTo(attr, subject)
      /\ attr = "kernel" => subject.kind = "FunctionDecl"
  BY <1>2 DEF AttrInv, WrittenOK, PhaseOK
<1>4. AllNodes' = AllNodes /\ HasAccess(AllNodes)' = HasAccess(AllNodes)
  BY <1>2 DEF AllNodes, HasAccess
<1>5. attr = "dim" /\ HasAccess(AllNodes) => access # NoAccess
  <2>1. ~HasAccess(<<>>)
    BY DEF HasAccess
  <2>2. QED
    BY <1>2, <2>1 DEF AttrInv, NodesOK
<1>6. AllNodes \in Seq(AcceptedKinds(attr))
  BY <1>3, AllNodesAre
<1>7. WrittenOK'
  BY <1>2 DEF AttrInv, WrittenOK, mapVars, HandlersOf
<1>8. PhaseOK' /\ EndOK'
  BY <1>2, <1>3 DEF PhaseOK, EndOK
<1>9. NodesOK'
  <2>1. HasAccess(nodes)' = HasAccess(AllNodes)
    BY <1>2 DEF HasAccess
  <2>2. attr' = attr /\ nodes' = AllNodes
    BY <1>2
  <2>3. QED
    BY <1>4, <1>6, <2>1, <2>2 DEF NodesOK
<1>10. HandleOK'
  BY <1>2, <1>4, <1>5 DEF AttrInv, HandleOK
<1>11. AccessOK'
  BY <1>2, AccessStays
<1>12. QED
  BY <1>1, <1>7, <1>8, <1>9, <1>10, <1>11 DEF AttrInv

LEMMA AcceptKeeps == AttrInv /\ Accept => AttrInv'
<1> SUFFICES ASSUME AttrInv, Accept PROVE AttrInv'
  OBVIOUS
<1>1. MapInv' /\ FramesOK'
  BY MapStays, FramesStay DEF Accept
<1>2. /\ phase = "handle" /\ phase' = "done" /\ outcome' = "accepted"
      /\ UNCHANGED <<mapVars, attr, subject, uses, backend, params, access>>
  BY DEF Accept, End
<1>3. WrittenOK'
  BY <1>2 DEF AttrInv, WrittenOK, mapVars, HandlersOf
<1>4. PhaseOK' /\ NodesOK' /\ HandleOK' /\ EndOK'
  BY <1>2 DEF PhaseOK, NodesOK, HandleOK, EndOK, AttachedIsHandled
<1>5. AccessOK'
  BY <1>2, AccessStays
<1>6. QED
  BY <1>1, <1>3, <1>4, <1>5 DEF AttrInv

LEMMA StutterKeeps == AttrInv /\ UNCHANGED attrVars => AttrInv'
<1> SUFFICES ASSUME AttrInv, UNCHANGED attrVars PROVE AttrInv'
  OBVIOUS
<1>1. UNCHANGED <<mapVars, parserVars, lifeVars>>
  BY DEF attrVars
<1>2. MapInv' /\ FramesOK'
  BY <1>1, MapStays, FramesStay
<1>3. /\ WrittenOK' = WrittenOK /\ PhaseOK' = PhaseOK /\ HandleOK' = HandleOK
      /\ Sizes' = Sizes /\ AttachedIsHandled' = AttachedIsHandled
  BY <1>1 DEF WrittenOK, PhaseOK, HandleOK, mapVars, lifeVars, HandlersOf, AllNodes, HasAccess, Sizes,
              AttachedIsHandled, Node
<1>4. NodesOK' = NodesOK
  BY <1>1 DEF NodesOK, lifeVars, AllNodes, HasAccess
<1>5. EndOK' = EndOK
  BY <1>1, <1>3 DEF EndOK, lifeVars
<1>6. AccessOK' = AccessOK
  BY <1>1, <1>3 DEF AccessOK, lifeVars
<1>7. QED
  BY <1>2, <1>3, <1>4, <1>5, <1>6 DEF AttrInv

LEMMA AttrInvariance == AttrSpec => []AttrInv
<1>1. AttrInv /\ [AttrNext]_attrVars => AttrInv'
  <2> SUFFICES ASSUME AttrInv, [AttrNext]_attrVars PROVE AttrInv'
    OBVIOUS
  <2>1. CASE RegisterHandler
    BY <2>1, RegisterKeeps
  <2>2. CASE Write
    BY <2>2, WriteKeeps
  <2>3. CASE Attach
    BY <2>3, AttachKeeps
  <2>4. CASE CheckAttrs
    BY <2>4, CheckAttrsKeeps
  <2>5. CASE BeginParsing \/ Parse
    BY <2>5, ParseKeeps
  <2>6. CASE CheckParams
    BY <2>6, CheckParamsKeeps
  <2>7. CASE HandleNode
    BY <2>7, HandleNodeKeeps
  <2>8. CASE LauncherPass
    BY <2>8, LauncherPassKeeps
  <2>9. CASE Accept
    BY <2>9, AcceptKeeps
  <2>10. CASE UNCHANGED attrVars
    BY <2>10, StutterKeeps
  <2>11. QED
    BY <2>1, <2>2, <2>3, <2>4, <2>5, <2>6, <2>7, <2>8, <2>9, <2>10 DEF AttrNext
<1>2. QED
  BY <1>1, InitAttrInv, PTL DEF AttrSpec

-----------------------------------------------------------------------------
(* What the life of an attribute promises.                                 *)

\* Every handler of the program is found, however its registration, other
\* attributes and the passes are interleaved (HandlerMap::insert).
THEOREM HandlersAreFound == AttrSpec => []NoHandlerIsLost
<1>1. AttrInv => NoHandlerIsLost
  BY DEF AttrInv, MapInv
<1>2. QED
  BY <1>1, AttrInvariance, PTL

\* No handler, of any backend, is given parameters that it cannot take:
\* std::any_cast in HandlerManager::handleNode does not throw.
THEOREM CastsSucceed == AttrSpec => []ParametersFit
<1>1. AttrInv => ParametersFit
  BY DEF AttrInv, PhaseOK, EndOK, ParametersFit
<1>2. QED
  BY <1>1, AttrInvariance, PTL

\* What ParsedAttrInfo::diagAppertainsToDecl and ..Stmt let pass, the backend
\* has a handler for, but for the gaps.
THEOREM AcceptedAttributesAreHandled == AttrSpec => []AttachedIsHandled
<1>1. AttrInv => AttachedIsHandled
  BY DEF AttrInv, PhaseOK, EndOK, AttachedIsHandled
<1>2. QED
  BY <1>1, AttrInvariance, PTL

\* The launcher pass accepts what the pass of the device has accepted.
THEOREM LauncherNeverFails == AttrSpec => []LauncherFollowsDevice
<1>1. AttrInv => LauncherFollowsDevice
  BY DEF AttrInv, EndOK, LauncherFollowsDevice
<1>2. QED
  BY <1>1, AttrInvariance, PTL

LEMMA SizesAreOperands ==
    ASSUME NEW n \in Nat, DOMAIN params.dim = 1..n, \A i \in DOMAIN Sizes : Sizes[i].op = "value"
    PROVE  Sizes \in Seq(Operand) /\ Len(Sizes) = n
<1>1. Sizes = [i \in 1..n |-> SizeOf(params.dim[i])]
  BY DEF Sizes
<1>2. \A t : NumberOrName(t) \in Int
  <2>1. ASSUME NEW t \in Numbers PROVE NumberOf[t] \in Int
    <3>1. \E i \in 0..3 : t = <<"0", "1", "2", "3">>[i + 1]
      <4>1. t = <<"0", "1", "2", "3">>[0 + 1] \/ t = <<"0", "1", "2", "3">>[1 + 1]
            \/ t = <<"0", "1", "2", "3">>[2 + 1] \/ t = <<"0", "1", "2", "3">>[3 + 1]
        BY DEF Numbers
      <4>2. QED
        BY <4>1
    <3> DEFINE digit(i) == <<"0", "1", "2", "3">>[i + 1]
    <3>2. NumberOf[t] = CHOOSE i \in 0..3 : t = digit(i)
      BY DEF NumberOf
    <3>3. \E i \in 0..3 : t = digit(i)
      BY <3>1
    <3> HIDE DEF digit
    <3>4. (CHOOSE i \in 0..3 : t = digit(i)) \in 0..3
      BY <3>3, Zenon
    <3>5. NumberOf[t] \in 0..3
      BY <3>2, <3>4, Zenon
    <3>6. QED
      BY <3>5
  <2>2. QED
    BY <2>1 DEF NumberOrName
<1>3. \A raw : SizeOf(raw) \in Operand
  BY <1>2 DEF SizeOf, Value, SumOf, Operand
<1>4. QED
  BY <1>1, <1>3

LEMMA OrdersFit ==
    ASSUME NEW order \in Seq(Nat), NEW sizes \in Seq(Operand)
    PROVE  OrderOf(order, sizes) \in Seq(Nat)
<1>1. DefaultOrder(Len(sizes)) \in Seq(Nat)
  BY DEF DefaultOrder
<1>2. QED
  BY <1>1 DEF OrderOf

\* buildIndexCalculation computes the offset of the element, for any number
\* of dimensions, any arguments and any @dimOrder.
THEOREM AccessIsOffset == AttrSpec => []IndexIsOffset
<1>1. AttrInv => IndexIsOffset
  <2> SUFFICES ASSUME AttrInv,
                      \A i \in DOMAIN access.args : access.args[i].op # "choice",
                      access # NoAccess => \A i \in DOMAIN Sizes : Sizes[i].op = "value",
                      access.result[1] = "index"
               PROVE  access.result[2] = Offset(access.args, Sizes, OrderOf(access.order, Sizes))
    BY DEF IndexIsOffset, IsOffset
  <2>1. access # NoAccess
    BY DEF NoAccess
  <2> DEFINE args  == access.args
             order == OrderOf(access.order, Sizes)
             sizes == Sizes
  <2>2. /\ args \in Seq(Operand) /\ access.order \in Seq(Nat)
        /\ access.result = DimIndex(args, sizes, access.order)
    BY <2>1, AttributesAssumption DEF AttrInv, AccessOK, AttributesAssumption
  <2>3. PICK n \in Nat \ {0} : DOMAIN params.dim = 1..n
    BY <2>1 DEF AttrInv, AccessOK
  <2>4. sizes \in Seq(Operand) /\ sizes # <<>>
    <3>1. sizes \in Seq(Operand) /\ Len(sizes) = n
      BY <2>1, <2>3, SizesAreOperands
    <3> HIDE DEF sizes
    <3>2. QED
      BY <2>3, <3>1
  <2>5. order \in Seq(Nat)
    BY <2>2, <2>4, OrdersFit
  <2>6. FitsDims(args, sizes) /\ OrderFits(order, sizes) /\ access.result[2] = IndexText(args, sizes, order)
    BY <2>2 DEF DimIndex
  <2>7. (\A i \in DOMAIN args : args[i].op # "choice") /\ (\A i \in DOMAIN sizes : sizes[i].op = "value")
    BY <2>1
  <2> HIDE DEF args, order, sizes
  <2>8. IndexText(args, sizes, order) = Offset(args, sizes, order)
    BY <2>2, <2>4, <2>5, <2>6, <2>7, IndexTextIsOffset
  <2>9. QED
    BY <2>6, <2>8 DEF args, order, sizes
<1>2. QED
  BY <1>1, AttrInvariance, PTL

-----------------------------------------------------------------------------
(* The parser.  The text of a list of arguments is joined from texts of    *)
(* the arguments, and the parser goes through it token by token.  A layout *)
(* says where each argument begins; the invariant of the parser is that,   *)
(* of one list and at most one that is nested in it, the topmost call is   *)
(* at one of the places of the layout and has read what comes before.      *)

-----------------------------------------------------------------------------
(* Where the arguments of a list are in its text.                          *)

\* Tokens by name.
LeftParen  == "("
RightParen == ")"
CommaSign  == ","
AtSign     == "@"
EqualsSign == "="

Token == STRING \cup Punctuation

LEMMA OneToken ==
    ASSUME NEW x \in Token
    PROVE  <<x>> \in Seq(Token) /\ Len(<<x>>) = 1 /\ <<x>>[1] = x
OBVIOUS

LEMMA Separators == LeftParen \in Token /\ RightParen \in Token /\ CommaSign \in Token /\ AtSign \in Token /\ EqualsSign \in Token
BY DEF Token, Punctuation, LeftParen, RightParen, CommaSign, AtSign, EqualsSign

LEMMA JoinedAt ==
    ASSUME NEW V, NEW s, s \in Seq(V), NEW t, t \in Seq(V), NEW u, u = s \o t
    PROVE  /\ u \in Seq(V) /\ Len(u) = Len(s) + Len(t) /\ Len(s) \in Nat /\ Len(t) \in Nat
           /\ \A j \in 1..Len(s) : u[j] = s[j]
           /\ \A j \in 1..Len(t) : u[Len(s) + j] = t[j]
OBVIOUS

AreJoined(s, t, u) ==
    /\ Len(u) = Len(s) + Len(t) /\ Len(s) \in Nat /\ Len(t) \in Nat
    /\ \A j \in 1..Len(s) : u[j] = s[j]
    /\ \A j \in 1..Len(t) : u[Len(s) + j] = t[j]

LEMMA JoinedTokens ==
    ASSUME NEW s, s \in Seq(Token), NEW t, t \in Seq(Token), NEW u, u = s \o t
    PROVE  u \in Seq(Token) /\ AreJoined(s, t, u)
BY JoinedAt DEF AreJoined

IsPrefix0(s, t) == Len(s) <= Len(t) /\ \A j \in 1..Len(s) : t[j] = s[j]

LEMMA FunIsSeq ==
    ASSUME NEW V, NEW n, n \in Nat, NEW s, s \in [1..n -> V]
    PROVE  s \in Seq(V) /\ Len(s) = n
OBVIOUS

LEMMA JoinedBefore ==
    ASSUME NEW V, NEW n \in Nat, NEW s \in [1..n -> Seq(V)], NEW h \in [0..n -> Seq(V)], Joins(h, s, n)
    PROVE  \A i \in 1..n : IsPrefix0(h[i], h[n])
<1> DEFINE P == {i \in 1..n : IsPrefix0(h[i], h[n])}
<1>1. ASSUME NEW i \in 1..n, \A j \in i + 1..n : j \in P PROVE i \in P
  <2>1. CASE i = n
    BY <2>1 DEF IsPrefix0
  <2>2. CASE i # n
    <3>1. i + 1 \in i + 1..n /\ i + 1 \in 1..n /\ (i + 1) - 1 = i
      BY <2>2
    <3>2. IsPrefix0(h[i + 1], h[n])
      BY <1>1, <3>1
    <3>3. h[i + 1] = h[i] \o s[i + 1]
      BY <3>1 DEF Joins
    <3>4. h[i] \in Seq(V) /\ s[i + 1] \in Seq(V) /\ h[n] \in Seq(V)
      BY <3>1
    <3> DEFINE u == h[i]
               v == s[i + 1]
               w == h[i + 1]
               z == h[n]
    <3>5. /\ w = u \o v /\ u \in Seq(V) /\ v \in Seq(V)
          /\ Len(w) <= Len(z) /\ \A j \in 1..Len(w) : z[j] = w[j]
      BY <3>2, <3>3, <3>4 DEF IsPrefix0
    <3> HIDE DEF u, v, w, z
    <3>6. Len(w) = Len(u) + Len(v) /\ Len(u) \in Nat /\ Len(v) \in Nat /\ \A j \in 1..Len(u) : w[j] = u[j]
      BY <3>5, JoinedAt
    <3>8. Len(z) \in Nat
      BY <3>4 DEF z
    <3>9. Len(u) <= Len(z) /\ \A j \in 1..Len(u) : z[j] = u[j]
      BY <3>5, <3>6, <3>8
    <3>7. QED
      BY <3>9 DEF IsPrefix0, u, z
  <2>3. QED
    BY <2>1, <2>2
<1>2. \A i \in 1..n : i \in P
  <2> HIDE DEF P
  <2> QED
    BY <1>1, LaterInduction
<1>3. QED
  BY <1>2

\* In t, after the token at b, stands a list of the texts, the i-th from S[i].
LaidOut(t, b, texts, S) ==
    /\ S \in [1..Len(texts) + 1 -> Nat]
    /\ S[1] = IF texts = <<>> THEN b + 1 ELSE b + 2
    /\ texts # <<>> => t[b + 1] = LeftParen
    /\ \A i \in 1..Len(texts) :
          /\ S[i + 1] = S[i] + Len(texts[i]) + 1
          /\ S[i + 1] - 1 <= Len(t)
          /\ t[S[i + 1] - 1] = IF i = Len(texts) THEN RightParen ELSE CommaSign
          /\ \A j \in 1..Len(texts[i]) : t[S[i] + j - 1] = texts[i][j]

\* The beginnings of the texts from the sequences that have been joined.
TextsBegin(B, n, texts, z) ==
    /\ B \in [1..n -> Nat] /\ B[1] = 0
    /\ \A i \in 1..n :
          /\ B[i] + Len(texts[i]) <= Len(z)
          /\ \A j \in 1..Len(texts[i]) : z[B[i] + j] = texts[i][j]
    /\ \A i \in 1..n - 1 :
          B[i + 1] = B[i] + Len(texts[i]) + 1 /\ z[B[i + 1]] = CommaSign /\ B[i + 1] <= Len(z)
    /\ Len(z) = B[n] + Len(texts[n])

JoinedTexts(h, n, texts, m) ==
    /\ n >= 1 /\ m = 2 * n - 1
    /\ h \in [0..m -> Seq(Token)] /\ texts \in [1..n -> Seq(Token)]
    /\ h[0] = <<>>
    /\ \A i \in 1..n : h[2 * i - 1] = h[2 * i - 2] \o texts[i]
    /\ \A i \in 1..n - 1 : h[2 * i] = h[2 * i - 1] \o <<CommaSign>>
    /\ \A i \in 1..m : IsPrefix0(h[i], h[m])

LEMMA Beginnings ==
    ASSUME NEW n \in Nat, NEW m \in Nat, NEW texts, NEW h, JoinedTexts(h, n, texts, m)
    PROVE  \E B : TextsBegin(B, n, texts, h[m])
<1>0. /\ n >= 1 /\ m = 2 * n - 1
      /\ h \in [0..m -> Seq(Token)] /\ texts \in [1..n -> Seq(Token)]
      /\ h[0] = <<>>
      /\ \A i \in 1..n : h[2 * i - 1] = h[2 * i - 2] \o texts[i]
      /\ \A i \in 1..n - 1 : h[2 * i] = h[2 * i - 1] \o <<CommaSign>>
      /\ \A i \in 1..m : IsPrefix0(h[i], h[m])
  BY DEF JoinedTexts
<1>00. n >= 1 /\ m = 2 * n - 1
  BY <1>0
<1>1. PICK B : B = [i \in 1..n |-> Len(h[2 * i - 2])]
  OBVIOUS
<1>2. ASSUME NEW i \in 1..n
      PROVE  /\ 2 * i - 2 \in 0..m /\ 2 * i - 1 \in 1..m /\ 2 * i - 1 \in 0..m
             /\ i < n => 2 * i \in 1..m /\ i \in 1..n - 1 /\ 2 * (i + 1) - 2 = 2 * i /\ i + 1 \in 1..n
  BY <1>00
<1>3. ASSUME NEW i \in 1..n PROVE B[i] = Len(h[2 * i - 2]) /\ B[i] \in Nat
  <2>1. h[2 * i - 2] \in Seq(Token)
    BY <1>0, <1>2
  <2>2. QED
    BY <1>1, <2>1
<1>4. B \in [1..n -> Nat]
  <2>1. B = [i \in 1..n |-> B[i]]
    BY <1>1
  <2>2. QED
    BY <1>3, <2>1
<1>5. B[1] = 0
  <2>1. 1 \in 1..n /\ 2 * 1 - 2 = 0
    BY <1>00
  <2>2. h[0] = <<>> /\ B[1] = Len(h[0])
    BY <1>0, <1>3, <2>1
  <2>3. QED
    BY <2>2
<1>6. ASSUME NEW i \in 1..n
      PROVE  /\ h[2 * i - 1] \in Seq(Token) /\ Len(texts[i]) \in Nat
             /\ Len(h[2 * i - 1]) = B[i] + Len(texts[i])
             /\ \A j \in 1..Len(texts[i]) : h[2 * i - 1][B[i] + j] = texts[i][j]
  <2>1. h[2 * i - 1] = h[2 * i - 2] \o texts[i] /\ h[2 * i - 2] \in Seq(Token) /\ texts[i] \in Seq(Token)
    BY <1>0, <1>2
  <2>2. PICK u : u = h[2 * i - 2]
    OBVIOUS
  <2>3. PICK v : v = h[2 * i - 1]
    OBVIOUS
  <2>4. v = u \o texts[i] /\ u \in Seq(Token) /\ texts[i] \in Seq(Token) /\ B[i] = Len(u)
    BY <1>3, <2>1, <2>2, <2>3
  <2>5. /\ v \in Seq(Token) /\ Len(texts[i]) \in Nat /\ Len(v) = B[i] + Len(texts[i])
        /\ \A j \in 1..Len(texts[i]) : v[B[i] + j] = texts[i][j]
    <3>1. /\ v \in Seq(Token) /\ Len(v) = Len(u) + Len(texts[i]) /\ Len(texts[i]) \in Nat
          /\ \A j \in 1..Len(texts[i]) : v[Len(u) + j] = texts[i][j]
      BY <2>4, JoinedAt
    <3>2. QED
      BY <2>4, <3>1
  <2>6. QED
    BY <2>3, <2>5
<1>7. ASSUME NEW i \in 1..n
      PROVE  /\ B[i] + Len(texts[i]) <= Len(h[m])
             /\ \A j \in 1..Len(texts[i]) : h[m][B[i] + j] = texts[i][j]
  <2>1. IsPrefix0(h[2 * i - 1], h[m])
    BY <1>0, <1>2
  <2>2. PICK v : v = h[2 * i - 1]
    OBVIOUS
  <2>3. PICK z : z = h[m]
    OBVIOUS
  <2>4. Len(v) <= Len(z) /\ \A j \in 1..Len(v) : z[j] = v[j]
    BY <2>1, <2>2, <2>3 DEF IsPrefix0
  <2>5. /\ Len(v) = B[i] + Len(texts[i]) /\ \A j \in 1..Len(texts[i]) : v[B[i] + j] = texts[i][j]
        /\ Len(texts[i]) \in Nat
    BY <1>6, <2>2
  <2>6. \A j \in 1..Len(texts[i]) : B[i] + j \in 1..Len(v)
    BY <1>3, <2>5
  <2>7. B[i] + Len(texts[i]) <= Len(z) /\ \A j \in 1..Len(texts[i]) : z[B[i] + j] = texts[i][j]
    BY <2>4, <2>5, <2>6
  <2>8. QED
    BY <2>3, <2>7
<1>8. ASSUME NEW i \in 1..n - 1
      PROVE  B[i + 1] = B[i] + Len(texts[i]) + 1 /\ h[m][B[i + 1]] = CommaSign /\ B[i + 1] <= Len(h[m])
  <2>1. i \in 1..n /\ i < n /\ i + 1 \in 1..n
    OBVIOUS
  <2>2. 2 * i \in 1..m /\ 2 * (i + 1) - 2 = 2 * i
    BY <1>2, <2>1
  <2>3. PICK v : v = h[2 * i - 1]
    OBVIOUS
  <2>4. PICK w : w = h[2 * i]
    OBVIOUS
  <2>5. PICK z : z = h[m]
    OBVIOUS
  <2>6. B[i + 1] = Len(w)
    BY <1>3, <2>1, <2>2, <2>4
  <2>7. w = v \o <<CommaSign>> /\ v \in Seq(Token) /\ Len(v) = B[i] + Len(texts[i]) /\ Len(texts[i]) \in Nat
    BY <1>0, <1>6, <2>1, <2>3, <2>4
  <2>8. Len(w) = Len(v) + 1 /\ Len(v) \in Nat /\ w[Len(v) + 1] = CommaSign
    <3>1. PICK c : c = <<CommaSign>>
      OBVIOUS
    <3>2. c \in Seq(Token) /\ Len(c) = 1 /\ c[1] = CommaSign
      BY <3>1, OneToken, Separators
    <3>3. w = v \o c /\ v \in Seq(Token)
      BY <2>7, <3>1
    <3>4. /\ Len(w) = Len(v) + Len(c) /\ Len(v) \in Nat
          /\ \A j \in 1..Len(c) : w[Len(v) + j] = c[j]
      <4>1. AreJoined(v, c, w)
        BY <3>2, <3>3, JoinedTokens
      <4>2. QED
        BY <4>1 DEF AreJoined
    <3>5. QED
      BY <3>2, <3>4
  <2>9. IsPrefix0(w, z)
    BY <1>0, <2>2, <2>4, <2>5
  <2>10. Len(w) <= Len(z) /\ z[Len(w)] = CommaSign
    <3>1. Len(w) <= Len(z) /\ \A j \in 1..Len(w) : z[j] = w[j]
      BY <2>9 DEF IsPrefix0
    <3>2. Len(w) \in 1..Len(w) /\ Len(w) = Len(v) + 1
      BY <2>8
    <3>3. QED
      BY <2>8, <3>1, <3>2
  <2>11. QED
    BY <2>5, <2>6, <2>7, <2>8, <2>10
<1>9. Len(h[m]) = B[n] + Len(texts[n])
  <2>1. n \in 1..n
    BY <1>00
  <2>2. h[2 * n - 1] = h[m]
    BY <1>00
  <2>3. QED
    BY <1>6, <2>1, <2>2
<1>10. QED
  BY <1>4, <1>5, <1>7, <1>8, <1>9 DEF TextsBegin

LEMMA JoinedIs ==
    ASSUME NEW texts
    PROVE  Joined(texts) =
              FlattenSeq([i \in 1..2 * Len(texts) - 1 |->
                             IF i % 2 = 1 THEN texts[(i + 1) \div 2] ELSE <<CommaSign>>])
BY Zenon DEF Joined, CommaSign

LEMMA ListIs ==
    ASSUME NEW texts
    PROVE  List(texts) = IF texts = <<>> THEN <<>> ELSE <<LeftParen>> \o Joined(texts) \o <<RightParen>>
BY Zenon DEF List, LeftParen, RightParen

LEMMA ListIsLaidOut ==
    ASSUME NEW texts \in Seq(Seq(Token))
    PROVE  /\ List(texts) \in Seq(Token)
           /\ \E S : /\ LaidOut(List(texts), 0, texts, S)
                     /\ S[Len(texts) + 1] = Len(List(texts)) + 1
<1>1. PICK n \in Nat : n = Len(texts)
  OBVIOUS
<1>2. texts \in [1..n -> Seq(Token)]
  BY <1>1
<1>3. CASE texts = <<>>
  <2>1. PICK S : S = [i \in 1..1 |-> 1]
    OBVIOUS
  <2>2. List(texts) = <<>> /\ Len(List(texts)) = 0 /\ n = 0 /\ Len(texts) = 0
    BY <1>1, <1>3, ListIs
  <2>3. S \in [1..n + 1 -> Nat] /\ S[1] = 1 /\ S[n + 1] = 1
    BY <2>1, <2>2
  <2>4. LaidOut(List(texts), 0, texts, S)
    BY <1>3, <2>2, <2>3 DEF LaidOut
  <2>5. List(texts) \in Seq(Token)
    BY <2>2
  <2>6. QED
    BY <1>1, <2>2, <2>3, <2>4, <2>5
<1>4. CASE texts # <<>>
  <2>1. n >= 1
    BY <1>1, <1>4
  <2>2. PICK m \in Nat : m = 2 * n - 1
    BY <2>1
  <2>3. PICK pieces :
           pieces = [i \in 1..2 * Len(texts) - 1 |->
                        IF i % 2 = 1 THEN texts[(i + 1) \div 2] ELSE <<CommaSign>>]
    OBVIOUS
  <2>4. pieces = [i \in 1..m |-> IF i % 2 = 1 THEN texts[(i + 1) \div 2] ELSE <<CommaSign>>]
    BY <1>1, <2>2, <2>3
  <2>5. <<CommaSign>> \in Seq(Token)
    BY OneToken, Separators
  <2>6. pieces \in [1..m -> Seq(Token)]
    <3>1. \A i \in 1..m : i % 2 = 1 => (i + 1) \div 2 \in 1..n
      BY <2>2
    <3>2. \A i \in 1..m : i % 2 = 1 => texts[(i + 1) \div 2] \in Seq(Token)
      BY <1>2, <3>1
    <3>3. QED
      BY <2>4, <2>5, <3>2
  <2>7. \A i \in 1..n : 2 * i - 1 \in 1..m /\ pieces[2 * i - 1] = texts[i]
    <3>1. ASSUME NEW i \in 1..n PROVE 2 * i - 1 \in 1..m /\ pieces[2 * i - 1] = texts[i]
      <4>1. 2 * i - 1 \in 1..m /\ (2 * i - 1) % 2 = 1 /\ ((2 * i - 1) + 1) \div 2 = i
        BY <2>2
      <4>2. QED
        BY <2>4, <4>1
    <3>2. QED
      BY <3>1
  <2>8. \A i \in 1..n - 1 : 2 * i \in 1..m /\ pieces[2 * i] = <<CommaSign>>
    <3>1. ASSUME NEW i \in 1..n - 1 PROVE 2 * i \in 1..m /\ pieces[2 * i] = <<CommaSign>>
      <4>1. 2 * i \in 1..m /\ (2 * i) % 2 = 0
        BY <2>2
      <4>2. QED
        BY <2>4, <4>1
    <3>2. QED
      BY <3>1
  <2>9. PICK h \in [0..m -> Seq(Token)] : Joins(h, pieces, m)
    BY <2>6, JoinedExists
  <2>10. FlattenSeq(pieces) = h[m]
    <3>1. pieces \in Seq(Seq(Token)) /\ Len(pieces) = m
      BY <2>6, FunIsSeq
    <3>2. h \in [0..Len(pieces) -> Seq(Token)] /\ h[0] = <<>>
          /\ \A i \in 1..Len(pieces) : h[i] = h[i - 1] \o pieces[i]
      BY <2>9, <3>1 DEF Joins
    <3>3. FlattenSeq(pieces) = h[Len(pieces)]
      BY <3>1, <3>2, FlattenIsJoined
    <3>4. QED
      BY <3>1, <3>3
  <2>11. Joined(texts) = h[m]
    BY <2>3, <2>10, JoinedIs
  <2>12. h[0] = <<>> /\ \A i \in 1..m : h[i] = h[i - 1] \o pieces[i]
    BY <2>9 DEF Joins
  <2>13. \A i \in 1..n : h[2 * i - 1] = h[2 * i - 2] \o texts[i]
    <3>1. \A i \in 1..n : (2 * i - 1) - 1 = 2 * i - 2
      OBVIOUS
    <3>2. QED
      BY <2>7, <2>12, <3>1
  <2>14. \A i \in 1..n - 1 : h[2 * i] = h[2 * i - 1] \o <<CommaSign>>
    BY <2>8, <2>12
  <2>15. \A i \in 1..m : IsPrefix0(h[i], h[m])
    BY <2>6, <2>9, JoinedBefore
  <2>16. PICK B : TextsBegin(B, n, texts, h[m])
    <3>1. JoinedTexts(h, n, texts, m)
      BY <1>2, <2>1, <2>2, <2>9, <2>12, <2>13, <2>14, <2>15 DEF JoinedTexts
    <3>2. QED
      BY <3>1, Beginnings
  <2>17. PICK p : p = List(texts)
    OBVIOUS
  <2>18. PICK z : z = h[m]
    OBVIOUS
  <2>19. PICK l \in Nat : l = Len(z)
    BY <2>9, <2>18
  <2>20. /\ p \in Seq(Token) /\ Len(p) = l + 2 /\ p[1] = LeftParen /\ p[l + 2] = RightParen
         /\ \A q \in 1..l : p[q + 1] = z[q]
    <3>1. p = (<<LeftParen>> \o z) \o <<RightParen>>
      BY <1>4, <2>11, <2>17, <2>18, ListIs
    <3>2. z \in Seq(Token)
      BY <2>9, <2>18
    <3>3. PICK o : o = <<LeftParen>>
      OBVIOUS
    <3>4. PICK c : c = <<RightParen>>
      OBVIOUS
    <3>5. PICK y : y = o \o z
      OBVIOUS
    <3>6. o \in Seq(Token) /\ Len(o) = 1 /\ o[1] = LeftParen /\ c \in Seq(Token) /\ Len(c) = 1 /\ c[1] = RightParen
      BY <3>3, <3>4, OneToken, Separators
    <3>7. y \in Seq(Token) /\ Len(y) = l + 1 /\ y[1] = LeftParen /\ \A q \in 1..l : y[1 + q] = z[q]
      <4>1. /\ y \in Seq(Token) /\ Len(y) = Len(o) + Len(z)
            /\ \A j \in 1..Len(o) : y[j] = o[j]
            /\ \A j \in 1..Len(z) : y[Len(o) + j] = z[j]
        <5>1. y \in Seq(Token) /\ AreJoined(o, z, y)
          BY <3>2, <3>5, <3>6, JoinedTokens
        <5>2. QED
          BY <5>1 DEF AreJoined
      <4>2. QED
        BY <2>19, <3>6, <4>1
    <3>8. p = y \o c
      BY <3>1, <3>3, <3>4, <3>5
    <3>9. /\ p \in Seq(Token) /\ Len(p) = Len(y) + Len(c)
          /\ \A j \in 1..Len(y) : p[j] = y[j]
          /\ \A j \in 1..Len(c) : p[Len(y) + j] = c[j]
      <4>1. p \in Seq(Token) /\ AreJoined(y, c, p)
        BY <3>6, <3>7, <3>8, JoinedTokens
      <4>2. QED
        BY <4>1 DEF AreJoined
    <3>10. \A q \in 1..l : 1 + q \in 1..l + 1 /\ 1 + q = q + 1
      OBVIOUS
    <3>11. QED
      BY <3>6, <3>7, <3>9, <3>10
  <2>21. PICK S : S = [i \in 1..n + 1 |-> IF i = n + 1 THEN l + 3 ELSE B[i] + 2]
    OBVIOUS
  <2>22. \A i \in 1..n : S[i] = B[i] + 2 /\ B[i] \in Nat /\ Len(texts[i]) \in Nat
    BY <1>2, <2>16, <2>21 DEF TextsBegin
  <2>23. S \in [1..n + 1 -> Nat] /\ S[1] = 2 /\ S[n + 1] = l + 3
    <3>1. \A i \in 1..n + 1 : i # n + 1 => B[i] \in Nat
      BY <2>22
    <3>2. S \in [1..n + 1 -> Nat] /\ S[n + 1] = l + 3
      BY <2>21, <3>1
    <3>3. B[1] = 0 /\ 1 \in 1..n
      BY <2>1, <2>16 DEF TextsBegin
    <3>4. QED
      BY <2>22, <3>2, <3>3
  <2>24. /\ \A i \in 1..n : B[i] + Len(texts[i]) <= l /\ \A j \in 1..Len(texts[i]) : z[B[i] + j] = texts[i][j]
         /\ \A i \in 1..n - 1 : B[i + 1] = B[i] + Len(texts[i]) + 1 /\ z[B[i + 1]] = CommaSign /\ B[i + 1] <= l
         /\ l = B[n] + Len(texts[n])
    BY <2>16, <2>18, <2>19 DEF TextsBegin
  <2>25. ASSUME NEW i \in 1..n
         PROVE  /\ S[i + 1] = S[i] + Len(texts[i]) + 1
                /\ S[i + 1] - 1 <= Len(p)
                /\ p[S[i + 1] - 1] = IF i = n THEN RightParen ELSE CommaSign
                /\ \A j \in 1..Len(texts[i]) : p[S[i] + j - 1] = texts[i][j]
    <3>1. PICK x \in Nat : x = B[i]
      BY <2>22
    <3>2. PICK k \in Nat : k = Len(texts[i])
      BY <2>22
    <3>3. S[i] = x + 2 /\ x + k <= l /\ \A j \in 1..k : z[x + j] = texts[i][j]
      BY <2>22, <2>24, <3>1, <3>2
    <3>4. ASSUME NEW j \in 1..k PROVE p[S[i] + j - 1] = texts[i][j]
      <4>1. x + k <= l
        BY <3>3
      <4>2. x + j \in 1..l /\ (x + 2) + j - 1 = (x + j) + 1
        BY <4>1
      <4>3. QED
        BY <2>20, <3>3, <4>2
    <3>5. S[i + 1] = (x + 2) + k + 1 /\ S[i + 1] - 1 <= l + 2 /\ p[S[i + 1] - 1] = IF i = n THEN RightParen ELSE CommaSign
      <4>1. CASE i = n
        <5>1. S[i + 1] = l + 3 /\ l = x + k
          BY <2>23, <2>24, <3>1, <3>2, <4>1
        <5>4. l = x + k
          BY <5>1
        <5>2. (l + 3) - 1 = l + 2 /\ l + 3 = (x + 2) + k + 1 /\ l + 2 <= l + 2
          BY <5>4
        <5>3. QED
          BY <2>20, <4>1, <5>1, <5>2
      <4>2. CASE i # n
        <5>1. i \in 1..n - 1 /\ i + 1 \in 1..n
          BY <4>2
        <5>2. PICK y \in Nat : y = B[i + 1]
          BY <2>22, <5>1
        <5>3. S[i + 1] = y + 2 /\ y = x + k + 1 /\ z[y] = CommaSign /\ y <= l
          BY <2>22, <2>24, <3>1, <3>2, <5>1, <5>2
        <5>4. y = x + k + 1 /\ y <= l
          BY <5>3
        <5>5. (y + 2) - 1 = y + 1 /\ y + 2 = (x + 2) + k + 1 /\ y \in 1..l /\ y + 1 <= l + 2
          BY <5>4
        <5>6. p[y + 1] = CommaSign
          BY <2>20, <5>3, <5>5
        <5>7. QED
          BY <4>2, <5>3, <5>5, <5>6
      <4>3. QED
        BY <4>1, <4>2, Zenon
    <3>6. QED
      BY <2>20, <3>2, <3>3, <3>4, <3>5
  <2>26. LaidOut(p, 0, texts, S)
    BY <1>1, <1>4, <2>20, <2>23, <2>25 DEF LaidOut
  <2>27. S[n + 1] = Len(p) + 1
    BY <2>20, <2>23
  <2>28. QED
    BY <1>1, <2>17, <2>20, <2>26, <2>27
<1>5. QED
  BY <1>3, <1>4

\* A list within a text.
Within(t, b, p) == Len(t) \in Nat /\ b + Len(p) <= Len(t) /\ \A j \in 1..Len(p) : t[b + j] = p[j]

LEMMA ListWithin ==
    ASSUME NEW texts, texts \in Seq(Seq(Token)), NEW t, NEW b \in Nat, Within(t, b, List(texts))
    PROVE  \E S : LaidOut(t, b, texts, S) /\ S[Len(texts) + 1] = b + Len(List(texts)) + 1
<1>1. PICK p : p = List(texts)
  OBVIOUS
<1>2. PICK n \in Nat : n = Len(texts)
  OBVIOUS
<1>3. PICK R : LaidOut(p, 0, texts, R) /\ R[n + 1] = Len(p) + 1
  BY <1>1, <1>2, ListIsLaidOut
<1>4. PICK l \in Nat : l = Len(p)
  BY <1>1, ListIsLaidOut
<1>5. (\A j \in 1..l : t[b + j] = p[j]) /\ b + l <= Len(t) /\ Len(t) \in Nat
  BY <1>1, <1>4 DEF Within
<1>6. \A i \in 1..n : Len(texts[i]) \in Nat
  BY <1>2
<1>7. /\ R \in [1..n + 1 -> Nat] /\ R[1] = (IF texts = <<>> THEN 1 ELSE 2) /\ (texts # <<>> => p[1] = LeftParen)
      /\ \A i \in 1..n :
            /\ R[i + 1] = R[i] + Len(texts[i]) + 1
            /\ R[i + 1] - 1 <= l
            /\ p[R[i + 1] - 1] = IF i = n THEN RightParen ELSE CommaSign
            /\ \A j \in 1..Len(texts[i]) : p[R[i] + j - 1] = texts[i][j]
  BY <1>2, <1>3, <1>4 DEF LaidOut
<1>8. PICK S : S = [i \in 1..n + 1 |-> R[i] + b]
  OBVIOUS
<1>9. S \in [1..n + 1 -> Nat] /\ \A i \in 1..n + 1 : S[i] = R[i] + b /\ R[i] \in Nat
  BY <1>7, <1>8
<1>10. 1 \in 1..n + 1 /\ n + 1 \in 1..n + 1
  OBVIOUS
<1>11. S[1] = IF texts = <<>> THEN b + 1 ELSE b + 2
  BY <1>7, <1>9, <1>10
<1>12. \A i \in 1..n : R[i + 1] >= 2 /\ R[i] >= 1
  <2>1. ASSUME NEW i \in 1..n PROVE R[i] >= 1
    <3>1. CASE i = 1
      BY <1>7, <3>1
    <3>2. CASE i # 1
      <4>1. i - 1 \in 1..n /\ (i - 1) + 1 = i /\ i - 1 \in 1..n + 1
        BY <3>2
      <4>2. R[i] = R[i - 1] + Len(texts[i - 1]) + 1 /\ R[i - 1] \in Nat /\ Len(texts[i - 1]) \in Nat
        BY <1>6, <1>7, <1>9, <4>1
      <4>3. QED
        BY <4>2
    <3>3. QED
      BY <3>1, <3>2
  <2>2. ASSUME NEW i \in 1..n PROVE R[i + 1] >= 2
    <3>1. i \in 1..n + 1
      OBVIOUS
    <3>2. PICK x \in Nat : x = R[i]
      BY <1>9, <3>1
    <3>3. PICK k \in Nat : k = Len(texts[i])
      BY <1>6
    <3>4. x >= 1 /\ R[i + 1] = x + k + 1
      BY <1>7, <2>1, <3>2, <3>3
    <3>5. QED
      BY <3>4
  <2>3. QED
    BY <2>1, <2>2
<1>13. ASSUME texts # <<>> PROVE t[b + 1] = LeftParen
  <2>1. 1 \in 1..n
    BY <1>2, <1>13
  <2>2. R[2] >= 2 /\ R[2] - 1 <= l /\ R[2] \in Nat
    <3>1. 1 + 1 = 2 /\ 2 \in 1..n + 1
      BY <2>1
    <3>2. QED
      BY <1>7, <1>9, <1>12, <2>1, <3>1
  <2>3. 1 \in 1..l
    BY <2>2
  <2>4. QED
    BY <1>5, <1>7, <1>13, <2>3
<1>14. ASSUME NEW i \in 1..n
       PROVE  /\ S[i + 1] = S[i] + Len(texts[i]) + 1
              /\ S[i + 1] - 1 <= Len(t)
              /\ t[S[i + 1] - 1] = IF i = n THEN RightParen ELSE CommaSign
              /\ \A j \in 1..Len(texts[i]) : t[S[i] + j - 1] = texts[i][j]
  <2>1. i \in 1..n + 1 /\ i + 1 \in 1..n + 1
    OBVIOUS
  <2>8. PICK x \in Nat : x = R[i]
    BY <1>9, <2>1
  <2>9. PICK y \in Nat : y = R[i + 1]
    BY <1>9, <2>1
  <2>10. PICK k \in Nat : k = Len(texts[i])
    BY <1>6
  <2>11. PICK d \in Nat : d = Len(t)
    BY <1>5
  <2>2. /\ S[i] = x + b /\ S[i + 1] = y + b /\ x >= 1 /\ y >= 2 /\ y = x + k + 1 /\ y - 1 <= l
        /\ p[y - 1] = (IF i = n THEN RightParen ELSE CommaSign)
        /\ \A j \in 1..k : p[x + j - 1] = texts[i][j]
    BY <1>7, <1>9, <1>12, <2>1, <2>8, <2>9, <2>10
  <2>12. x >= 1 /\ y >= 2 /\ y = x + k + 1 /\ y - 1 <= l /\ b + l <= d
    BY <1>5, <2>2, <2>11
  <2>3. y - 1 \in 1..l /\ (y + b) - 1 = b + (y - 1) /\ y + b = (x + b) + k + 1 /\ (y + b) - 1 <= d
    BY <2>12
  <2>4. t[S[i + 1] - 1] = p[y - 1]
    BY <1>5, <2>2, <2>3
  <2>5. S[i + 1] = S[i] + Len(texts[i]) + 1 /\ S[i + 1] - 1 <= Len(t)
    BY <2>2, <2>3, <2>10, <2>11
  <2>6. ASSUME NEW j \in 1..Len(texts[i]) PROVE t[S[i] + j - 1] = texts[i][j]
    <3>1. j \in 1..k
      BY <2>10
    <3>2. x + j - 1 \in 1..l /\ (x + b) + j - 1 = b + (x + j - 1)
      BY <2>12, <3>1
    <3>3. QED
      BY <1>5, <2>2, <3>1, <3>2
  <2>7. QED
    BY <2>2, <2>4, <2>5, <2>6
<1>15. LaidOut(t, b, texts, S)
  BY <1>2, <1>9, <1>11, <1>13, <1>14 DEF LaidOut
<1>16. S[n + 1] = b + l + 1
  <2>1. S[n + 1] = (l + 1) + b
    BY <1>3, <1>4, <1>9, <1>10
  <2>2. QED
    BY <2>1
<1>17. QED
  BY <1>1, <1>2, <1>4, <1>15, <1>16

-----------------------------------------------------------------------------
(* The steps of the parser, as moves to a place.                           *)

LEMMA SignKinds ==
    /\ TokenKind(LeftParen) # "identifier" /\ TokenKind(RightParen) # "identifier"
    /\ TokenKind(CommaSign) # "identifier" /\ TokenKind(AtSign) # "identifier"
    /\ TokenKind(EqualsSign) # "identifier"
BY Zenon DEF TokenKind, Numbers, Strings, Punctuation, LeftParen, RightParen, CommaSign, AtSign, EqualsSign

LEMMA SignsDiffer ==
    /\ CommaSign # RightParen /\ CommaSign # EqualsSign /\ RightParen # EqualsSign
    /\ CommaSign # AtSign /\ RightParen # AtSign /\ CommaSign # LeftParen /\ RightParen # LeftParen /\ AtSign # RightParen
BY Zenon DEF LeftParen, RightParen, CommaSign, AtSign, EqualsSign

IsNamed(x) == TokenKind(x) = "identifier"

\* Where the parser is, and where a step takes it.
Here(m, p, fs, a) == mode = m /\ at = p /\ frames = fs /\ arg = a

Moves(m, p, fs, a) == mode' = m /\ at' = p /\ frames' = fs /\ arg' = a /\ toks' = toks

OpenListMoves ==
    IF Is(LeftParen) THEN Moves("list", at + 1, frames, arg) ELSE Moves("return", at, frames, arg)

CloseListMoves ==
    /\ AtEnd \/ Is(RightParen)
    /\ Moves("return", IF AtEnd THEN at ELSE at + 1, frames, arg)

KeywordHere == IsIdentifier(at) /\ NextIs(EqualsSign)

KeywordArgMoves ==
    /\ KeywordHere
    /\ Moves("value", at + 2, [frames EXCEPT ![Len(frames)].key = toks[at]], arg)

RegularArgMoves ==
    /\ ~AtEnd /\ ~Is(RightParen) /\ ~KeywordHere
    /\ Moves("value", at, frames, arg)

NestedHere == Is(AtSign) /\ IsIdentifier(at + 1)

NestedAttrMoves == NestedHere /\ Moves("call", at + 2, Append(frames, Frame(toks[at + 1])), arg)

TakeArgTokenMoves ==
    /\ ~AtEnd /\ ~NestedHere
    /\ Moves(IF at = Len(toks) THEN "undefined"
             ELSE IF (toks[at + 1] = CommaSign \/ toks[at + 1] = RightParen) /\ IsBalanced(Append(arg, toks[at]))
                  THEN "argument" ELSE "value",
             at + 1, frames, Append(arg, toks[at]))

FinishArgMoves ==
    Moves("stored", at, [frames EXCEPT ![Len(frames)] = Store(frames[Len(frames)], Param(arg))], <<>>)

Callers == Front0(frames)

ReturnNestedMoves ==
    /\ Len(frames) > 1
    /\ Moves(IF AtEnd THEN "undefined" ELSE "stored", at,
             [Callers EXCEPT ![Len(Callers)] =
                 Store(Callers[Len(Callers)], AttrParam(<<>>, Parsed(Top(frames))))],
             arg)

CommaMoves == Is(CommaSign) /\ Moves("list", at + 1, frames, arg)

NoCommaMoves ==
    /\ ~Is(CommaSign)
    /\ Moves(IF Is(RightParen) THEN "list" ELSE "return", at, frames, arg)

LEMMA OpenListIs == OpenList => mode = "call" /\ OpenListMoves
BY Zenon DEF OpenList, OpenListMoves, Return, Moves, LeftParen

LEMMA CloseListIs == CloseList => mode = "list" /\ CloseListMoves
BY Zenon DEF CloseList, CloseListMoves, Return, Moves, RightParen

LEMMA KeywordArgIs == KeywordArg => mode = "list" /\ KeywordArgMoves
BY Zenon DEF KeywordArg, KeywordArgMoves, KeywordHere, IsKeyword, Moves, EqualsSign

LEMMA RegularArgIs == RegularArg => mode = "list" /\ RegularArgMoves
BY Zenon DEF RegularArg, RegularArgMoves, KeywordHere, IsKeyword, Moves, EqualsSign, RightParen

LEMMA NoArgIs == NoArg => mode = "value" /\ AtEnd
BY Zenon DEF NoArg

LEMMA NestedAttrIs == NestedAttr => mode = "value" /\ NestedAttrMoves
BY Zenon DEF NestedAttr, NestedAttrMoves, NestedHere, IsNested, Moves, AtSign

LEMMA TakeArgTokenIs == TakeArgToken => mode = "value" /\ TakeArgTokenMoves
<1>1. \A x : x \in {",", ")"} <=> x = CommaSign \/ x = RightParen
  BY Zenon DEF CommaSign, RightParen
<1>2. QED
  BY <1>1, Zenon DEF TakeArgToken, TakeArgTokenMoves, NestedHere, IsNested, Moves, AtSign

LEMMA FinishArgIs == FinishArg => mode = "argument" /\ FinishArgMoves
BY Zenon DEF FinishArg, FinishArgMoves, Moves

LEMMA ReturnNestedIs == ReturnNested => mode = "return" /\ ReturnNestedMoves
BY Zenon DEF ReturnNested, ReturnNestedMoves, Callers, Moves

LEMMA CommaIs == Comma => mode = "stored" /\ CommaMoves
BY Zenon DEF Comma, CommaMoves, Moves, CommaSign

LEMMA NoCommaIs == NoComma => mode = "stored" /\ NoCommaMoves
BY Zenon DEF NoComma, NoCommaMoves, Return, Moves, CommaSign, RightParen

LEMMA StepsByMode ==
    ASSUME ParserStep
    PROVE  /\ mode = "call" => OpenListMoves
           /\ mode = "list" => CloseListMoves \/ KeywordArgMoves \/ RegularArgMoves
           /\ mode = "value" => AtEnd \/ NestedAttrMoves \/ TakeArgTokenMoves
           /\ mode = "argument" => FinishArgMoves
           /\ mode = "stored" => CommaMoves \/ NoCommaMoves
           /\ mode = "return" => ReturnNestedMoves
           /\ mode \in {"call", "list", "value", "argument", "stored", "return"}
<1>1. mode \in {"call", "list", "value", "argument", "stored", "return"}
  BY OpenListIs, CloseListIs, KeywordArgIs, RegularArgIs, NoArgIs, NestedAttrIs, TakeArgTokenIs, FinishArgIs,
     ReturnNestedIs, CommaIs, NoCommaIs DEF ParserStep
<1>2. /\ mode = "call" => OpenListMoves
      /\ mode = "list" => CloseListMoves \/ KeywordArgMoves \/ RegularArgMoves
      /\ mode = "value" => AtEnd \/ NestedAttrMoves \/ TakeArgTokenMoves
      /\ mode = "argument" => FinishArgMoves
      /\ mode = "stored" => CommaMoves \/ NoCommaMoves
      /\ mode = "return" => ReturnNestedMoves
  BY OpenListIs, CloseListIs, KeywordArgIs, RegularArgIs, NoArgIs, NestedAttrIs, TakeArgTokenIs, FinishArgIs,
     ReturnNestedIs, CommaIs, NoCommaIs DEF ParserStep
<1>3. QED
  BY <1>1, <1>2

-----------------------------------------------------------------------------
(* The arguments of a list and their texts.                                *)

LEMMA SequenceIs ==
    ASSUME NEW s, IsSequence(s)
    PROVE  Len(s) \in Nat /\ DOMAIN s = 1..Len(s) /\ s = [i \in 1..Len(s) |-> s[i]]
BY DEF IsSequence

\* What IsExpression says, by the names of the tokens.
ExpressionIs(s) ==
    /\ s \in Seq(Token) /\ Len(s) \in Nat /\ Len(s) >= 1 /\ s[1] # RightParen /\ IsBalanced(s)
    /\ \A i \in 1..Len(s) - 1 :
          /\ s[i + 1] = CommaSign \/ s[i + 1] = RightParen => ~IsBalanced(SubSeq(s, 1, i))
          /\ s[i] = AtSign => ~IsNamed(s[i + 1])
    /\ Len(s) > 1 /\ IsNamed(s[1]) => s[2] # EqualsSign

LEMMA Expressions == ASSUME NEW s, IsExpression(s) PROVE ExpressionIs(s)
<1>1. /\ s \in Seq(STRING) /\ s # <<>> /\ s[1] # RightParen /\ IsBalanced(s)
      /\ \A i \in 1..Len(s) - 1 :
            /\ s[i + 1] = CommaSign \/ s[i + 1] = RightParen => ~IsBalanced(SubSeq(s, 1, i))
            /\ s[i] = AtSign => ~IsNamed(s[i + 1])
      /\ Len(s) > 1 /\ IsNamed(s[1]) => s[2] # EqualsSign
  <2>1. \A x : x \in {",", ")"} <=> x = CommaSign \/ x = RightParen
    BY Zenon DEF CommaSign, RightParen
  <2>2. \A u : IsClosed(u) <=> IsBalanced(u)
    BY Zenon DEF IsClosed, IsBalanced
  <2>3. QED
    BY <2>1, <2>2, Zenon DEF IsExpression, RightParen, AtSign, EqualsSign, IsNamed
<1>2. s \in Seq(Token)
  <2>1. STRING \subseteq Token
    BY Zenon DEF Token
  <2>2. Len(s) \in Nat /\ s \in [1..Len(s) -> STRING]
    BY <1>1
  <2>3. \A i \in 1..Len(s) : s[i] \in STRING
    BY <2>2
  <2>4. \A i \in 1..Len(s) : s[i] \in Token
    BY <2>1, <2>3, Zenon
  <2>5. s \in [1..Len(s) -> Token]
    BY <2>2, <2>4
  <2>6. QED
    BY <2>2, <2>5, FunIsSeq
<1>3. Len(s) \in Nat /\ Len(s) >= 1
  BY <1>1
<1>4. QED
  BY <1>1, <1>2, <1>3, Zenon DEF ExpressionIs

LEMMA Names == ASSUME NEW s, IsName(s) PROVE s \in Token /\ IsNamed(s) /\ s # NoKey
BY Zenon DEF IsName, Token, IsNamed

Items(L)  == Len(L.args) + Len(L.kwargs)
ArgAt(L, i) == IF i <= Len(L.args) THEN L.args[i] ELSE L.kwargs[i - Len(L.args)].value
KeyAt(L, i) == IF i <= Len(L.args) THEN NoKey ELSE L.kwargs[i - Len(L.args)].key

KeywordText(key, text) == <<key, EqualsSign>> \o text

ItemText(L, i) ==
    IF i <= Len(L.args) THEN ArgText(ArgAt(L, i)) ELSE KeywordText(KeyAt(L, i), ArgText(ArgAt(L, i)))

TextsOf(L) == [i \in 1..Items(L) |-> ItemText(L, i)]

\* The list within a nested attribute.
Inner(a) == [args |-> [i \in 1..Len(a.args) |-> Expr(a.args[i])], kwargs |-> <<>>]

LEMMA ArgTextIs ==
    ASSUME NEW a
    PROVE  ArgText(a) = IF a.name = Nil THEN a.tokens ELSE <<AtSign, a.name>> \o List(a.args)
BY Zenon DEF ArgText, AtSign

LEMMA TwoTokens ==
    ASSUME NEW x, x \in Token, NEW y, y \in Token
    PROVE  <<x, y>> \in Seq(Token) /\ Len(<<x, y>>) = 2 /\ <<x, y>>[1] = x /\ <<x, y>>[2] = y
OBVIOUS

LEMMA NestedArgs ==
    ASSUME NEW a, IsArgument(a), a.name # Nil
    PROVE  /\ a.args \in Seq(Seq(Token)) /\ Len(a.args) \in Nat /\ DOMAIN a.args = 1..Len(a.args)
           /\ \A i \in 1..Len(a.args) : IsExpression(a.args[i])
           /\ IsName(a.name)
<1>1. IsName(a.name) /\ IsSequence(a.args) /\ \A i \in DOMAIN a.args : IsExpression(a.args[i])
  BY DEF IsArgument
<1>2. Len(a.args) \in Nat /\ DOMAIN a.args = 1..Len(a.args) /\ a.args = [i \in 1..Len(a.args) |-> a.args[i]]
  BY <1>1, SequenceIs
<1>3. ASSUME NEW i \in 1..Len(a.args) PROVE a.args[i] \in Seq(Token)
  <2>1. IsExpression(a.args[i])
    BY <1>1, <1>2
  <2>2. QED
    BY <2>1, Expressions DEF ExpressionIs
<1>4. a.args \in [1..Len(a.args) -> Seq(Token)]
  BY <1>2, <1>3
<1>5. a.args \in Seq(Seq(Token))
  BY <1>2, <1>4, FunIsSeq
<1>6. QED
  BY <1>1, <1>2, <1>5

\* The text of an argument, which is not empty.
LEMMA ArgTexts ==
    ASSUME NEW a, IsArgument(a)
    PROVE  /\ ArgText(a) \in Seq(Token) /\ Len(ArgText(a)) \in Nat /\ Len(ArgText(a)) >= 1
           /\ a.name = Nil => ArgText(a) = a.tokens /\ ExpressionIs(a.tokens)
           /\ a.name # Nil =>
                 /\ AreJoined(<<AtSign, a.name>>, List(a.args), ArgText(a))
                 /\ Len(ArgText(a)) = Len(List(a.args)) + 2 /\ Len(List(a.args)) \in Nat
                 /\ ArgText(a)[1] = AtSign /\ ArgText(a)[2] = a.name
<1>1. CASE a.name = Nil
  <2>1. IsExpression(a.tokens) /\ ArgText(a) = a.tokens
    BY <1>1, ArgTextIs DEF IsArgument
  <2>2. ExpressionIs(a.tokens)
    BY <2>1, Expressions
  <2>3. QED
    BY <1>1, <2>1, <2>2 DEF ExpressionIs
<1>2. CASE a.name # Nil
  <2>1. IsName(a.name) /\ a.args \in Seq(Seq(Token))
    BY <1>2, NestedArgs
  <2>2. List(a.args) \in Seq(Token)
    BY <2>1, ListIsLaidOut
  <2>3. PICK o : o = <<AtSign, a.name>>
    OBVIOUS
  <2>4. PICK l : l = List(a.args)
    OBVIOUS
  <2>5. PICK u : u = ArgText(a)
    OBVIOUS
  <2>6. u = o \o l
    BY <1>2, <2>3, <2>4, <2>5, ArgTextIs
  <2>7. o \in Seq(Token) /\ Len(o) = 2 /\ o[1] = AtSign /\ o[2] = a.name
    BY <2>1, <2>3, TwoTokens, Separators, Names
  <2>8. l \in Seq(Token)
    BY <2>2, <2>4
  <2>9. u \in Seq(Token) /\ AreJoined(o, l, u)
    BY <2>6, <2>7, <2>8, JoinedTokens
  <2>10. Len(u) = 2 + Len(l) /\ Len(l) \in Nat /\ u[1] = AtSign /\ u[2] = a.name
    <3>1. Len(u) = Len(o) + Len(l) /\ Len(l) \in Nat /\ \A j \in 1..Len(o) : u[j] = o[j]
      BY <2>9 DEF AreJoined
    <3>2. 1 \in 1..2 /\ 2 \in 1..2
      OBVIOUS
    <3>3. QED
      BY <2>7, <3>1, <3>2
  <2>11. Len(u) = Len(l) + 2 /\ Len(u) \in Nat /\ Len(u) >= 1
    BY <2>10
  <2>12. QED
    BY <1>2, <2>3, <2>4, <2>5, <2>9, <2>10, <2>11
<1>3. QED
  BY <1>1, <1>2

\* What IsList says of the arguments in the order of the text.
ItemsAre(L) ==
    /\ Len(L.args) \in Nat /\ Len(L.kwargs) \in Nat
    /\ \A i \in 1..Items(L) : IsArgument(ArgAt(L, i)) /\ (i > Len(L.args) => IsName(KeyAt(L, i)))

LEMMA ListItems == ASSUME NEW L, IsList(L) PROVE ItemsAre(L)
<1>1. IsSequence(L.args) /\ IsSequence(L.kwargs)
  BY DEF IsList
<1>2. PICK m \in Nat : m = Len(L.args) /\ DOMAIN L.args = 1..m
  BY <1>1, SequenceIs
<1>3. PICK k \in Nat : k = Len(L.kwargs) /\ DOMAIN L.kwargs = 1..k
  BY <1>1, SequenceIs
<1>4. /\ \A i \in 1..m : IsArgument(L.args[i])
      /\ \A i \in 1..k : IsName(L.kwargs[i].key) /\ IsArgument(L.kwargs[i].value)
  BY <1>2, <1>3 DEF IsList
<1>5. ASSUME NEW i \in 1..m + k PROVE IsArgument(ArgAt(L, i)) /\ (i > m => IsName(KeyAt(L, i)))
  <2>1. CASE i <= m
    BY <1>2, <1>4, <2>1 DEF ArgAt
  <2>2. CASE i > m
    <3>1. i - m \in 1..k /\ ~(i <= m)
      BY <2>2
    <3>2. QED
      BY <1>2, <1>4, <3>1 DEF ArgAt, KeyAt
  <2>3. QED
    BY <2>1, <2>2
<1>6. QED
  BY <1>2, <1>3, <1>5 DEF ItemsAre, Items

LEMMA InnerItems ==
    ASSUME NEW a, IsArgument(a), a.name # Nil
    PROVE  /\ ItemsAre(Inner(a)) /\ Items(Inner(a)) = Len(a.args) /\ Len(Inner(a).args) = Len(a.args)
           /\ \A i \in 1..Len(a.args) : ArgAt(Inner(a), i) = Expr(a.args[i])
           /\ TextsOf(Inner(a)) = a.args
<1>1. PICK n \in Nat : n = Len(a.args)
  BY NestedArgs
<1>2. /\ a.args \in Seq(Seq(Token)) /\ DOMAIN a.args = 1..n /\ \A i \in 1..n : IsExpression(a.args[i])
  BY <1>1, NestedArgs
<1>3. PICK q : q = [i \in 1..n |-> Expr(a.args[i])]
  OBVIOUS
<1>4. Len(q) = n
  <2>1. q \in [1..n -> {Expr(a.args[i]) : i \in 1..n}]
    BY <1>3
  <2>2. QED
    BY <2>1, FunIsSeq
<1>5. Inner(a).args = q /\ Inner(a).kwargs = <<>> /\ Len(<<>>) = 0
  BY <1>1, <1>3 DEF Inner
<1>6. Items(Inner(a)) = n /\ Len(Inner(a).args) = n
  BY <1>4, <1>5 DEF Items
<1>7. ASSUME NEW i \in 1..n
      PROVE  ArgAt(Inner(a), i) = Expr(a.args[i]) /\ IsArgument(ArgAt(Inner(a), i))
             /\ ItemText(Inner(a), i) = a.args[i]
  <2>1. i <= n
    OBVIOUS
  <2>2. ArgAt(Inner(a), i) = Expr(a.args[i])
    BY <1>3, <1>5, <1>6, <2>1 DEF ArgAt
  <2>3. IsArgument(Expr(a.args[i])) /\ ArgText(Expr(a.args[i])) = a.args[i]
    BY <1>2, ArgTextIs DEF IsArgument, Expr
  <2>4. QED
    BY <1>6, <2>1, <2>2, <2>3 DEF ItemText
<1>8. ItemsAre(Inner(a))
  <2>1. Len(Inner(a).kwargs) \in Nat /\ \A i \in 1..n : ~(i > n)
    BY <1>5
  <2>2. QED
    BY <1>6, <1>7, <2>1 DEF ItemsAre
<1>9. TextsOf(Inner(a)) = a.args
  <2>1. TextsOf(Inner(a)) = [i \in 1..n |-> a.args[i]]
    BY <1>6, <1>7 DEF TextsOf
  <2>2. a.args = [i \in 1..n |-> a.args[i]]
    <3>1. IsSequence(a.args)
      BY DEF IsArgument
    <3>2. QED
      BY <1>1, <3>1, SequenceIs
  <2>3. QED
    BY <2>1, <2>2
<1>10. QED
  BY <1>1, <1>6, <1>7, <1>8, <1>9

KeywordTextIs(key, text, u) ==
    /\ Len(u) = Len(text) + 2 /\ u[1] = key /\ u[2] = EqualsSign
    /\ \A j \in 1..Len(text) : u[j + 2] = text[j]

LEMMA KeywordTexts ==
    ASSUME NEW key, IsName(key), NEW text, text \in Seq(Token)
    PROVE  /\ KeywordText(key, text) \in Seq(Token)
           /\ KeywordTextIs(key, text, KeywordText(key, text))
<1>1. PICK o : o = <<key, EqualsSign>>
  OBVIOUS
<1>2. PICK u : u = KeywordText(key, text)
  OBVIOUS
<1>3. u = o \o text
  BY <1>1, <1>2 DEF KeywordText
<1>4. o \in Seq(Token) /\ Len(o) = 2 /\ o[1] = key /\ o[2] = EqualsSign
  BY <1>1, TwoTokens, Separators, Names
<1>5. u \in Seq(Token) /\ AreJoined(o, text, u)
  BY <1>3, <1>4, JoinedTokens
<1>6. /\ Len(u) = 2 + Len(text) /\ Len(text) \in Nat
      /\ \A j \in 1..2 : u[j] = o[j]
      /\ \A j \in 1..Len(text) : u[2 + j] = text[j]
  BY <1>4, <1>5 DEF AreJoined
<1>7. 1 \in 1..2 /\ 2 \in 1..2 /\ \A j \in 1..Len(text) : j + 2 = 2 + j
  OBVIOUS
<1>8. KeywordTextIs(key, text, u)
  BY <1>4, <1>6, <1>7 DEF KeywordTextIs
<1>9. QED
  BY <1>2, <1>5, <1>8

LEMMA TextsAre == ASSUME NEW L, ItemsAre(L) PROVE TextsOf(L) \in Seq(Seq(Token)) /\ Len(TextsOf(L)) = Items(L)
<1>2. PICK m \in Nat : m = Len(L.args)
  BY DEF ItemsAre
<1>0. PICK k \in Nat : k = Len(L.kwargs)
  BY DEF ItemsAre
<1>1. PICK n \in Nat : n = Items(L)
  <2>1. Items(L) = m + k
    BY <1>0, <1>2, Zenon DEF Items
  <2>2. m + k \in Nat
    OBVIOUS
  <2>3. QED
    BY <2>1, <2>2, Zenon
<1>3. ASSUME NEW i \in 1..n PROVE ItemText(L, i) \in Seq(Token)
  <2>1. IsArgument(ArgAt(L, i)) /\ (i > m => IsName(KeyAt(L, i)))
    BY <1>1, <1>2 DEF ItemsAre
  <2>2. ArgText(ArgAt(L, i)) \in Seq(Token)
    BY <2>1, ArgTexts
  <2>3. CASE i <= m
    BY <1>2, <2>2, <2>3 DEF ItemText
  <2>4. CASE i > m
    <3>1. ~(i <= m)
      BY <2>4
    <3>2. ItemText(L, i) = KeywordText(KeyAt(L, i), ArgText(ArgAt(L, i)))
      BY <1>2, <3>1 DEF ItemText
    <3>3. QED
      BY <2>1, <2>2, <2>4, <3>2, KeywordTexts
  <2>5. QED
    BY <2>3, <2>4
<1>4. TextsOf(L) \in [1..n -> Seq(Token)]
  BY <1>1, <1>3 DEF TextsOf
<1>5. QED
  BY <1>1, <1>4, FunIsSeq

\* The text of the parameters, if it does not break off.
LEMMA TextIsList ==
    ASSUME NEW w, IsList(w), w.cut = 0
    PROVE  TextOf(w) = List(TextsOf(w))
<1>1. IsSequence(w.args) /\ IsSequence(w.kwargs) /\ ItemsAre(w)
  BY ListItems DEF IsList
<1>2. PICK m \in Nat : m = Len(w.args) /\ DOMAIN w.args = 1..m
  BY <1>1, SequenceIs
<1>3. PICK k \in Nat : k = Len(w.kwargs) /\ DOMAIN w.kwargs = 1..k
  BY <1>1, SequenceIs
<1>4. PICK a : a = [i \in 1..m |-> ArgText(w.args[i])]
  OBVIOUS
<1>5. PICK b : b = [i \in 1..k |-> KeywordText(w.kwargs[i].key, ArgText(w.kwargs[i].value))]
  OBVIOUS
<1>6. TextOf(w) = SubSeq(List(a \o b), 1, Len(List(a \o b)) - w.cut)
  <2>1. [i \in DOMAIN w.args |-> ArgText(w.args[i])] = a
    BY <1>2, <1>4
  <2>2. [i \in DOMAIN w.kwargs |-> <<w.kwargs[i].key, EqualsSign>> \o ArgText(w.kwargs[i].value)] = b
    BY <1>3, <1>5 DEF KeywordText
  <2>3. TextOf(w) =
           LET text == List([i \in DOMAIN w.args |-> ArgText(w.args[i])]
                               \o [i \in DOMAIN w.kwargs |->
                                      <<w.kwargs[i].key, EqualsSign>> \o ArgText(w.kwargs[i].value)])
           IN  SubSeq(text, 1, Len(text) - w.cut)
    BY Zenon DEF TextOf, EqualsSign
  <2>4. QED
    BY <2>1, <2>2, <2>3, Zenon
<1>7. PICK c : c = TextsOf(w)
  OBVIOUS
<1>8. c \in Seq(Seq(Token)) /\ c \in [1..m + k -> Seq(Token)] /\ \A i \in 1..m + k : c[i] = ItemText(w, i)
  <2>1. Items(w) = m + k
    BY <1>2, <1>3 DEF Items
  <2>2. c \in Seq(Seq(Token)) /\ Len(c) = m + k
    BY <1>1, <1>7, <2>1, TextsAre
  <2>3. \A i \in 1..m + k : c[i] = ItemText(w, i)
    BY <1>7, <2>1 DEF TextsOf
  <2>4. QED
    BY <2>2, <2>3
<1>9. \A i \in 1..m : c[i] = a[i]
  <2>1. ASSUME NEW i \in 1..m PROVE c[i] = a[i]
    <3>1. i \in 1..m + k /\ i <= m
      OBVIOUS
    <3>2. QED
      BY <1>2, <1>4, <1>8, <3>1 DEF ItemText, ArgAt
  <2>2. QED
    BY <2>1
<1>10. \A i \in 1..k : c[m + i] = b[i]
  <2>1. ASSUME NEW i \in 1..k PROVE c[m + i] = b[i]
    <3>1. m + i \in 1..m + k /\ ~(m + i <= m) /\ (m + i) - m = i
      OBVIOUS
    <3>2. QED
      BY <1>2, <1>5, <1>8, <3>1 DEF ItemText, ArgAt, KeyAt
  <2>2. QED
    BY <2>1
<1>11. a \in Seq(Seq(Token)) /\ Len(a) = m
  <2>1. \A i \in 1..m : i \in 1..m + k
    OBVIOUS
  <2>2. a \in [1..m -> Seq(Token)]
    BY <1>4, <1>8, <1>9, <2>1
  <2>3. QED
    BY <2>2, FunIsSeq
<1>12. b \in Seq(Seq(Token)) /\ Len(b) = k
  <2>1. \A i \in 1..k : m + i \in 1..m + k
    OBVIOUS
  <2>2. b \in [1..k -> Seq(Token)]
    BY <1>5, <1>8, <1>10, <2>1
  <2>3. QED
    BY <2>2, FunIsSeq
<1>13. c = a \o b
  <2>1. PICK d : d = a \o b
    OBVIOUS
  <2>2. /\ d \in Seq(Seq(Token)) /\ Len(d) = Len(a) + Len(b)
        /\ \A j \in 1..Len(a) : d[j] = a[j]
        /\ \A j \in 1..Len(b) : d[Len(a) + j] = b[j]
    <3>1. PICK V : V = Seq(Token)
      OBVIOUS
    <3>2. a \in Seq(V) /\ b \in Seq(V)
      BY <1>11, <1>12, <3>1
    <3>3. /\ d \in Seq(V) /\ Len(d) = Len(a) + Len(b)
          /\ \A j \in 1..Len(a) : d[j] = a[j]
          /\ \A j \in 1..Len(b) : d[Len(a) + j] = b[j]
      BY <2>1, <3>2
    <3>4. QED
      BY <3>1, <3>3
  <2>3. ASSUME NEW i \in 1..m + k PROVE c[i] = d[i]
    <3>1. CASE i \in 1..m
      BY <1>9, <1>11, <2>2, <3>1
    <3>2. CASE i \notin 1..m
      <4>1. i - m \in 1..k /\ m + (i - m) = i
        BY <3>2
      <4>2. QED
        BY <1>10, <1>11, <1>12, <2>2, <4>1
    <3>3. QED
      BY <3>1, <3>2
  <2>4. Len(d) = m + k
    BY <1>11, <1>12, <2>2
  <2>5. d = [i \in 1..m + k |-> d[i]] /\ c = [i \in 1..m + k |-> c[i]]
    BY <1>8, <2>2, <2>4
  <2>6. c = d
    BY <2>3, <2>5
  <2>7. QED
    BY <2>1, <2>6
<1>14. List(c) \in Seq(Token)
  BY <1>8, ListIsLaidOut
<1>15. SubSeq(List(c), 1, Len(List(c)) - 0) = List(c)
  BY <1>14
<1>16. QED
  BY <1>6, <1>7, <1>13, <1>15

-----------------------------------------------------------------------------
(* Where an argument is, and what the calls of the parser have read.       *)

Layout(t, b, L, S) == ItemsAre(L) /\ Len(t) \in Nat /\ LaidOut(t, b, TextsOf(L), S)

ValueAt(L, S, i) == IF i <= Len(L.args) THEN S[i] ELSE S[i] + 2

ItemIs(t, L, S, i) ==
    /\ IsArgument(ArgAt(L, i)) /\ S[i] \in Nat /\ S[i + 1] \in Nat
    /\ ValueAt(L, S, i) \in Nat
    /\ ValueAt(L, S, i) + Len(ArgText(ArgAt(L, i))) = S[i + 1] - 1
    /\ \A j \in 1..Len(ArgText(ArgAt(L, i))) : t[ValueAt(L, S, i) + j - 1] = ArgText(ArgAt(L, i))[j]
    /\ S[i + 1] - 1 <= Len(t)
    /\ t[S[i + 1] - 1] = IF i = Items(L) THEN RightParen ELSE CommaSign
    /\ i <= Len(L.args) => ValueAt(L, S, i) = S[i] /\ KeyAt(L, i) = NoKey
    /\ i > Len(L.args) =>
          /\ ValueAt(L, S, i) = S[i] + 2 /\ IsName(KeyAt(L, i))
          /\ t[S[i]] = KeyAt(L, i) /\ t[S[i] + 1] = EqualsSign

LEMMA ItemFacts ==
    ASSUME NEW t, NEW b, NEW L, NEW S, Layout(t, b, L, S), NEW i, i \in 1..Items(L)
    PROVE  ItemIs(t, L, S, i)
<1>1. PICK m \in Nat : m = Len(L.args)
  BY DEF Layout, ItemsAre
<1>2. IsArgument(ArgAt(L, i)) /\ (i > m => IsName(KeyAt(L, i)))
  BY <1>1 DEF Layout, ItemsAre
<1>3. PICK n \in Nat : n = Items(L)
  <2>1. PICK k \in Nat : k = Len(L.kwargs)
    BY DEF Layout, ItemsAre
  <2>2. Items(L) = m + k
    BY <1>1, <2>1, Zenon DEF Items
  <2>3. m + k \in Nat
    OBVIOUS
  <2>4. QED
    BY <2>2, <2>3, Zenon
<1>4. PICK c : c = TextsOf(L)
  OBVIOUS
<1>5. c \in Seq(Seq(Token)) /\ Len(c) = n
  BY <1>3, <1>4, TextsAre DEF Layout
<1>6. PICK d \in Nat : d = Len(t)
  BY DEF Layout
<1>7. i \in 1..n
  BY <1>3
<1>8. /\ S \in [1..n + 1 -> Nat]
      /\ S[i + 1] = S[i] + Len(c[i]) + 1
      /\ S[i + 1] - 1 <= d
      /\ t[S[i + 1] - 1] = IF i = n THEN RightParen ELSE CommaSign
      /\ \A j \in 1..Len(c[i]) : t[S[i] + j - 1] = c[i][j]
  <2>1. LaidOut(t, b, c, S)
    BY <1>4 DEF Layout
  <2>2. QED
    BY <1>5, <1>6, <1>7, <2>1 DEF LaidOut
<1>9. PICK x \in Nat : x = S[i]
  <2>1. i \in 1..n + 1
    BY <1>7
  <2>2. QED
    BY <1>8, <2>1
<1>10. PICK y \in Nat : y = S[i + 1]
  <2>1. i + 1 \in 1..n + 1
    BY <1>7
  <2>2. QED
    BY <1>8, <2>1
<1>11. PICK a : a = ArgText(ArgAt(L, i))
  OBVIOUS
<1>12. a \in Seq(Token)
  BY <1>2, <1>11, ArgTexts
<1>13. PICK k \in Nat : k = Len(a)
  BY <1>12
<1>14. c[i] = ItemText(L, i)
  BY <1>3, <1>4, <1>7 DEF TextsOf
<1>15. y - 1 <= d /\ t[y - 1] = (IF i = n THEN RightParen ELSE CommaSign)
  BY <1>8, <1>10
<1>16. CASE i <= m
  <2>1. c[i] = a /\ ValueAt(L, S, i) = x /\ KeyAt(L, i) = NoKey
    BY <1>1, <1>9, <1>11, <1>14, <1>16 DEF ItemText, ValueAt, KeyAt
  <2>2. y = x + k + 1
    BY <1>8, <1>9, <1>10, <1>13, <2>1
  <2>3. x + k = y - 1
    BY <2>2
  <2>4. \A j \in 1..k : t[x + j - 1] = a[j]
    BY <1>8, <1>9, <1>13, <2>1
  <2>5. ~(i > m)
    BY <1>7, <1>16
  <2>6. QED
    BY <1>1, <1>2, <1>3, <1>6, <1>9, <1>10, <1>11, <1>13, <1>15, <1>16, <2>1, <2>3, <2>4, <2>5, Zenon DEF ItemIs
<1>17. CASE i > m
  <2>0. ~(i <= m)
    BY <1>7, <1>17
  <2>1. c[i] = KeywordText(KeyAt(L, i), a) /\ ValueAt(L, S, i) = x + 2 /\ IsName(KeyAt(L, i))
    BY <1>1, <1>2, <1>9, <1>11, <1>14, <1>17, <2>0 DEF ItemText, ValueAt
  <2>2. PICK u : u = c[i]
    OBVIOUS
  <2>3. /\ Len(u) = k + 2 /\ u[1] = KeyAt(L, i) /\ u[2] = EqualsSign
        /\ \A j \in 1..k : u[j + 2] = a[j]
    <3>1. PICK key : key = KeyAt(L, i)
      OBVIOUS
    <3>2. IsName(key) /\ a \in Seq(Token) /\ u = KeywordText(key, a)
      BY <1>12, <2>1, <2>2, <3>1
    <3>3. KeywordTextIs(key, a, u)
      BY <3>2, KeywordTexts
    <3>4. QED
      BY <1>13, <3>1, <3>3 DEF KeywordTextIs
  <2>4. y = x + (k + 2) + 1 /\ \A j \in 1..k + 2 : t[x + j - 1] = u[j]
    BY <1>8, <1>9, <1>10, <2>2, <2>3
  <2>5. (x + 2) + k = y - 1
    BY <2>4
  <2>6. t[x] = KeyAt(L, i) /\ t[x + 1] = EqualsSign
    <3>1. 1 \in 1..k + 2 /\ 2 \in 1..k + 2 /\ x + 1 - 1 = x /\ x + 2 - 1 = x + 1
      OBVIOUS
    <3>2. QED
      BY <2>3, <2>4, <3>1
  <2>7. ASSUME NEW j \in 1..k PROVE t[(x + 2) + j - 1] = a[j]
    <3>1. j + 2 \in 1..k + 2 /\ x + (j + 2) - 1 = (x + 2) + j - 1
      OBVIOUS
    <3>2. QED
      BY <2>3, <2>4, <3>1
  <2>8. x + 2 \in Nat
    OBVIOUS
  <2>9. QED
    BY <1>1, <1>2, <1>3, <1>6, <1>9, <1>10, <1>11, <1>13, <1>15, <1>17, <2>0, <2>1, <2>5, <2>6, <2>7, <2>8, Zenon
    DEF ItemIs
<1>18. QED
  BY <1>7, <1>16, <1>17

-----------------------------------------------------------------------------

ArgsTo(L, i) == [k \in 1..(IF i <= Len(L.args) THEN i ELSE Len(L.args)) |-> ArgOf(L.args[k])]

Latest(L, c, key) == Max({j \in 1..c : L.kwargs[j].key = key})

KwargsTo(L, c) ==
    [key \in {L.kwargs[j].key : j \in 1..c} |-> ArgOf(L.kwargs[Latest(L, c, key)].value)]

\* A call that has read i arguments, and before it stores the i-th.
After(name, L, i) ==
    [name |-> name, args |-> ArgsTo(L, i), kwargs |-> KwargsTo(L, i - Len(L.args)), key |-> NoKey]

Keyed(name, L, i) == [After(name, L, i - 1) EXCEPT !.key = KeyAt(L, i)]

LEMMA NoneRead == ASSUME NEW name, NEW L, ItemsAre(L) PROVE After(name, L, 0) = Frame(name)
<1>1. PICK m \in Nat : m = Len(L.args)
  BY DEF ItemsAre
<1>2. ArgsTo(L, 0) = <<>>
  <2>1. 0 <= m /\ 1..0 = {}
    BY <1>1
  <2>2. ArgsTo(L, 0) = [k \in 1..0 |-> ArgOf(L.args[k])]
    BY <1>1, <2>1 DEF ArgsTo
  <2>3. QED
    BY <2>2
<1>3. KwargsTo(L, 0 - m) = <<>>
  <2>1. 1..(0 - m) = {}
    OBVIOUS
  <2>2. {L.kwargs[j].key : j \in 1..(0 - m)} = {}
    BY <2>1
  <2>3. DOMAIN KwargsTo(L, 0 - m) = {}
    BY <2>2 DEF KwargsTo
  <2>4. \E f : KwargsTo(L, 0 - m) = [key \in {} |-> f[key]]
    BY <2>2 DEF KwargsTo
  <2>5. QED
    BY <2>4
<1>4. QED
  BY <1>1, <1>2, <1>3 DEF After, Frame

LEMMA OneMore ==
    ASSUME NEW V, NEW n \in Nat, NEW s, s \in [1..n + 1 -> V]
    PROVE  Append([k \in 1..n |-> s[k]], s[n + 1]) = s
<1>1. PICK f : f = [k \in 1..n |-> s[k]]
  OBVIOUS
<1>2. f \in Seq(V) /\ Len(f) = n
  <2>1. f \in [1..n -> V]
    BY <1>1
  <2>2. QED
    BY <2>1, FunIsSeq
<1>3. s \in Seq(V) /\ Len(s) = n + 1
  <2>1. n + 1 \in Nat
    OBVIOUS
  <2>2. QED
    BY <2>1, FunIsSeq
<1>4. PICK g : g = Append(f, s[n + 1])
  OBVIOUS
<1>5. s[n + 1] \in V
  OBVIOUS
<1>6. g \in Seq(V) /\ Len(g) = n + 1 /\ g[n + 1] = s[n + 1] /\ \A k \in 1..n : g[k] = f[k]
  BY <1>2, <1>4, <1>5
<1>7. \A k \in 1..n + 1 : g[k] = s[k]
  <2>1. ASSUME NEW k \in 1..n + 1 PROVE g[k] = s[k]
    <3>1. k \in 1..n \/ k = n + 1
      OBVIOUS
    <3>2. QED
      BY <1>1, <1>6, <3>1
  <2>2. QED
    BY <2>1
<1>8. g = s
  BY <1>3, <1>6, <1>7
<1>9. QED
  BY <1>1, <1>4, <1>8

LEMMA ArgsGrow ==
    ASSUME NEW L, ItemsAre(L), NEW i, i \in 1..Len(L.args)
    PROVE  Append(ArgsTo(L, i - 1), ArgOf(L.args[i])) = ArgsTo(L, i)
<1>1. PICK m \in Nat : m = Len(L.args)
  BY DEF ItemsAre
<1>2. PICK s : s = [k \in 1..i |-> ArgOf(L.args[k])]
  OBVIOUS
<1>3. PICK n \in Nat : n = i - 1
  BY <1>1
<1>4. i \in 1..m /\ i = n + 1 /\ n <= m /\ i <= m
  BY <1>1, <1>3
<1>5. ArgsTo(L, i) = s
  BY <1>1, <1>2, <1>4 DEF ArgsTo
<1>6. ArgsTo(L, n) = [k \in 1..n |-> s[k]]
  <2>1. ArgsTo(L, n) = [k \in 1..n |-> ArgOf(L.args[k])]
    BY <1>1, <1>4 DEF ArgsTo
  <2>2. \A k \in 1..n : k \in 1..i
    BY <1>4
  <2>3. \A k \in 1..n : s[k] = ArgOf(L.args[k])
    BY <1>2, <2>2
  <2>4. QED
    BY <2>1, <2>3
<1>7. s[n + 1] = ArgOf(L.args[i])
  BY <1>2, <1>4
<1>8. Append([k \in 1..n |-> s[k]], s[n + 1]) = s
  <2>1. PICK V : V = {s[k] : k \in 1..i}
    OBVIOUS
  <2>2. s \in [1..n + 1 -> V]
    BY <1>2, <1>4, <2>1
  <2>3. QED
    BY <2>2, OneMore
<1>9. QED
  BY <1>3, <1>5, <1>6, <1>7, <1>8

LEMMA MaxIs == ASSUME NEW T, T \subseteq Int, NEW x, x \in T, \A y \in T : x >= y PROVE Max(T) = x
<1>1. \A z \in T : (\A y \in T : z >= y) => z = x
  OBVIOUS
<1>2. QED
  BY <1>1 DEF Max

LEMMA KwargsGrow ==
    ASSUME NEW L, NEW c, c \in Nat, c >= 1, NEW f, f = KwargsTo(L, c - 1)
    PROVE  [k \in DOMAIN f \cup {L.kwargs[c].key} |->
               IF k = L.kwargs[c].key THEN ArgOf(L.kwargs[c].value) ELSE f[k]] = KwargsTo(L, c)
<1>1. PICK key : key = L.kwargs[c].key
  OBVIOUS
<1>2. PICK n \in Nat : c = n + 1
  <2>1. c - 1 \in Nat /\ c = (c - 1) + 1
    OBVIOUS
  <2>2. QED
    BY <2>1
<1>3. 1..c = (1..n) \cup {c} /\ c - 1 = n /\ c \notin 1..n
  BY <1>2
<1>4. f = KwargsTo(L, n)
  BY <1>3
<1>5. DOMAIN f = {L.kwargs[j].key : j \in 1..n}
  BY <1>4 DEF KwargsTo
<1>6. {L.kwargs[j].key : j \in 1..c} = DOMAIN f \cup {key}
  BY <1>1, <1>3, <1>5
<1>7. Latest(L, c, key) = c
  <2>1. PICK T : T = {j \in 1..c : L.kwargs[j].key = key}
    OBVIOUS
  <2>2. T \subseteq Int /\ c \in T /\ \A y \in T : c >= y
    BY <1>1, <1>2, <2>1
  <2>3. Max(T) = c
    BY <2>2, MaxIs
  <2>4. QED
    BY <2>1, <2>3 DEF Latest
<1>8. ASSUME NEW k \in DOMAIN f \cup {key}, k # key PROVE f[k] = ArgOf(L.kwargs[Latest(L, c, k)].value)
  <2>1. {j \in 1..c : L.kwargs[j].key = k} = {j \in 1..n : L.kwargs[j].key = k}
    BY <1>1, <1>3, <1>8
  <2>2. Latest(L, c, k) = Latest(L, n, k)
    BY <2>1 DEF Latest
  <2>3. k \in DOMAIN f
    BY <1>8
  <2>4. f[k] = ArgOf(L.kwargs[Latest(L, n, k)].value)
    BY <1>4, <1>5, <2>3 DEF KwargsTo
  <2>5. QED
    BY <2>2, <2>4
<1>9. KwargsTo(L, c) = [k \in DOMAIN f \cup {key} |-> ArgOf(L.kwargs[Latest(L, c, k)].value)]
  BY <1>6 DEF KwargsTo
<1>10. [k \in DOMAIN f \cup {key} |-> IF k = key THEN ArgOf(L.kwargs[c].value) ELSE f[k]]
         = [k \in DOMAIN f \cup {key} |-> ArgOf(L.kwargs[Latest(L, c, k)].value)]
  BY <1>7, <1>8
<1>11. QED
  BY <1>1, <1>9, <1>10

FrameOf(name, args, kwargs, key) == [name |-> name, args |-> args, kwargs |-> kwargs, key |-> key]

\* What an argument is stored as.
LEMMA Stores ==
    ASSUME NEW name, NEW L, ItemsAre(L), NEW i, i \in 1..Items(L)
    PROVE  Store(Keyed(name, L, i), ArgOf(ArgAt(L, i))) = After(name, L, i)
<1>1. PICK m \in Nat : m = Len(L.args)
  BY DEF ItemsAre
<1>2. PICK k \in Nat : k = Len(L.kwargs)
  BY DEF ItemsAre
<1>3. i \in 1..m + k
  <2>1. Items(L) = m + k
    BY <1>1, <1>2, Zenon DEF Items
  <2>2. QED
    BY <2>1
<1>4. PICK g : g = After(name, L, i - 1)
  OBVIOUS
<1>5. g = [name |-> name, args |-> ArgsTo(L, i - 1), kwargs |-> KwargsTo(L, (i - 1) - m), key |-> NoKey]
  BY <1>1, <1>4 DEF After
<1>6. PICK f : f = Keyed(name, L, i)
  OBVIOUS
<1>7. f = [name |-> name, args |-> ArgsTo(L, i - 1), kwargs |-> KwargsTo(L, (i - 1) - m), key |-> KeyAt(L, i)]
  BY <1>4, <1>5, <1>6 DEF Keyed
<1>8. After(name, L, i) = [name |-> name, args |-> ArgsTo(L, i), kwargs |-> KwargsTo(L, i - m), key |-> NoKey]
  BY <1>1 DEF After
<1>9. PICK v : v = ArgOf(ArgAt(L, i))
  OBVIOUS
<1>10. CASE i <= m
  <2>1. KeyAt(L, i) = NoKey /\ v = ArgOf(L.args[i])
    BY <1>1, <1>9, <1>10 DEF KeyAt, ArgAt
  <2>2. i \in 1..m
    BY <1>3, <1>10
  <2>3. Append(ArgsTo(L, i - 1), v) = ArgsTo(L, i)
    BY <1>1, <2>1, <2>2, ArgsGrow
  <2>4. KwargsTo(L, (i - 1) - m) = KwargsTo(L, i - m)
    <3>1. 1..(i - 1) - m = {} /\ 1..i - m = {}
      BY <1>3, <1>10
    <3>2. \A d : 1..d = {} => KwargsTo(L, d) = [key \in {} |-> NoKey]
      <4>1. ASSUME NEW d, 1..d = {} PROVE KwargsTo(L, d) = [key \in {} |-> NoKey]
        <5>1. {L.kwargs[j].key : j \in 1..d} = {}
          BY <4>1
        <5>2. QED
          BY <5>1 DEF KwargsTo
      <4>2. QED
        BY <4>1
    <3>3. QED
      BY <3>1, <3>2
  <2>5. Store(f, v) = [f EXCEPT !.args = Append(@, v)]
    BY <1>7, <2>1 DEF Store
  <2>6. [f EXCEPT !.args = Append(@, v)] =
           [name |-> name, args |-> Append(ArgsTo(L, i - 1), v), kwargs |-> KwargsTo(L, (i - 1) - m), key |-> NoKey]
    <3>1. PICK a : a = ArgsTo(L, i - 1)
      OBVIOUS
    <3>2. PICK q : q = KwargsTo(L, (i - 1) - m)
      OBVIOUS
    <3>3. f = FrameOf(name, a, q, NoKey) /\ f.args = a
      BY <1>7, <2>1, <3>1, <3>2 DEF FrameOf
    <3>6. PICK x : x = Append(a, v)
      OBVIOUS
    <3>7. [f EXCEPT !.args = x] = FrameOf(name, x, q, NoKey)
      BY <3>3 DEF FrameOf
    <3>4. [f EXCEPT !.args = Append(a, v)] = FrameOf(name, Append(a, v), q, NoKey)
      BY <3>6, <3>7, Zenon
    <3>5. QED
      BY <3>1, <3>2, <3>3, <3>4 DEF FrameOf
  <2>7. QED
    BY <1>6, <1>8, <1>9, <2>3, <2>4, <2>5, <2>6
<1>11. CASE i > m
  <2>0. ~(i <= m)
    BY <1>3, <1>11
  <2>1. PICK c \in Nat : c = i - m /\ c >= 1
    BY <1>3, <1>11
  <2>2. (i - 1) - m = c - 1 /\ i - m = c
    BY <1>3, <2>1
  <2>3. KeyAt(L, i) = L.kwargs[c].key /\ v = ArgOf(L.kwargs[c].value)
    BY <1>1, <1>9, <2>0, <2>1 DEF KeyAt, ArgAt
  <2>4. KeyAt(L, i) # NoKey
    BY <1>1, <1>11, <2>0, Names DEF ItemsAre
  <2>5. ArgsTo(L, i - 1) = ArgsTo(L, i)
    <3>1. (i - 1 <= m) => i - 1 = m
      BY <1>3, <1>11
    <3>2. QED
      BY <1>1, <2>0, <3>1 DEF ArgsTo
  <2>6. PICK q : q = KwargsTo(L, c - 1)
    OBVIOUS
  <2>7. PICK key : key = KeyAt(L, i)
    OBVIOUS
  <2>8. PICK r : r = [k0 \in DOMAIN q \cup {key} |-> IF k0 = key THEN v ELSE q[k0]]
    OBVIOUS
  <2>9. r = KwargsTo(L, c)
    BY <2>1, <2>3, <2>6, <2>7, <2>8, KwargsGrow
  <2>10. f = [name |-> name, args |-> ArgsTo(L, i - 1), kwargs |-> q, key |-> key]
    BY <1>7, <2>2, <2>6, <2>7
  <2>11. Store(f, v) = [f EXCEPT !.kwargs = r, !.key = NoKey]
    <3>1. f.key = key /\ f.kwargs = q /\ key # NoKey
      BY <2>4, <2>7, <2>10
    <3>2. Store(f, v) =
            [f EXCEPT !.kwargs = [k0 \in DOMAIN @ \cup {f.key} |-> IF k0 = f.key THEN v ELSE @[k0]], !.key = NoKey]
      BY <3>1 DEF Store
    <3>3. QED
      BY <2>8, <2>10, <3>1, <3>2
  <2>12. [f EXCEPT !.kwargs = r, !.key = NoKey] =
            [name |-> name, args |-> ArgsTo(L, i - 1), kwargs |-> r, key |-> NoKey]
    <3>1. f = FrameOf(name, ArgsTo(L, i - 1), q, key)
      BY <2>10 DEF FrameOf
    <3>4. PICK a : a = ArgsTo(L, i - 1)
      OBVIOUS
    <3>5. PICK nokey : nokey = NoKey
      OBVIOUS
    <3>6. [f EXCEPT !.kwargs = r, !.key = nokey] = [[f EXCEPT !.kwargs = r] EXCEPT !.key = nokey]
      OBVIOUS
    <3>7. PICK h : h = [f EXCEPT !.kwargs = r]
      OBVIOUS
    <3>8. h = FrameOf(name, a, r, key)
      BY <3>1, <3>4, <3>7 DEF FrameOf
    <3>9. [h EXCEPT !.key = nokey] = FrameOf(name, a, r, nokey)
      BY <3>8 DEF FrameOf
    <3>2. [f EXCEPT !.kwargs = r, !.key = NoKey] = FrameOf(name, ArgsTo(L, i - 1), r, NoKey)
      BY <3>4, <3>5, <3>6, <3>7, <3>9, Zenon
    <3>3. QED
      BY <3>2 DEF FrameOf
  <2>13. QED
    BY <1>6, <1>8, <1>9, <2>2, <2>5, <2>9, <2>11, <2>12
<1>12. QED
  BY <1>3, <1>10, <1>11

\* The result when all is read.
LEMMA AllRead == ASSUME NEW name, NEW w, IsList(w) PROVE Parsed(After(name, w, Items(w))) = MeaningOf(name, w)
<1>1. IsSequence(w.args) /\ IsSequence(w.kwargs)
  BY DEF IsList
<1>2. PICK m \in Nat : m = Len(w.args) /\ DOMAIN w.args = 1..m
  BY <1>1, SequenceIs
<1>3. PICK k \in Nat : k = Len(w.kwargs) /\ DOMAIN w.kwargs = 1..k
  BY <1>1, SequenceIs
<1>4. Items(w) = m + k
  BY <1>2, <1>3, Zenon DEF Items
<1>5. (m + k) - m = k /\ (m + k <= m => m + k = m)
  OBVIOUS
<1>6. ArgsTo(w, m + k) = [i \in DOMAIN w.args |-> ArgOf(w.args[i])]
  BY <1>2, <1>5 DEF ArgsTo
<1>7. KwargsTo(w, k) = [key \in {w.kwargs[i].key : i \in DOMAIN w.kwargs} |->
                           ArgOf(w.kwargs[Max({i \in DOMAIN w.kwargs : w.kwargs[i].key = key})].value)]
  BY <1>3 DEF KwargsTo, Latest
<1>8. QED
  BY <1>2, <1>4, <1>5, <1>6, <1>7 DEF After, Parsed, MeaningOf

LEMMA NestedRead ==
    ASSUME NEW a, IsArgument(a), a.name # Nil
    PROVE  AttrParam(<<>>, Parsed(After(a.name, Inner(a), Items(Inner(a))))) = ArgOf(a)
<1>1. PICK n \in Nat : n = Len(a.args) /\ DOMAIN a.args = 1..n
  BY NestedArgs
<1>2. PICK L : L = Inner(a)
  OBVIOUS
<1>3. Items(L) = n /\ Len(L.args) = n
  BY <1>1, <1>2, InnerItems
<1>4. ArgsTo(L, n) = [i \in DOMAIN a.args |-> Param(a.args[i])]
  <2>1. ArgsTo(L, n) = [i \in 1..n |-> ArgOf(L.args[i])]
    BY <1>3 DEF ArgsTo
  <2>2. ASSUME NEW i \in 1..n PROVE ArgOf(L.args[i]) = Param(a.args[i])
    <3>1. L.args[i] = Expr(a.args[i])
      BY <1>1, <1>2 DEF Inner
    <3>2. QED
      BY <3>1 DEF ArgOf, Expr
  <2>3. QED
    BY <1>1, <2>1, <2>2
<1>5. KwargsTo(L, n - n) = <<>>
  <2>1. 1..(n - n) = {}
    OBVIOUS
  <2>2. {L.kwargs[j].key : j \in 1..(n - n)} = {}
    BY <2>1
  <2>3. \E f : KwargsTo(L, n - n) = [key \in {} |-> f[key]]
    BY <2>2 DEF KwargsTo
  <2>4. QED
    BY <2>3
<1>6. Parsed(After(a.name, L, n)) =
         [name |-> a.name, args |-> [i \in DOMAIN a.args |-> Param(a.args[i])], kwargs |-> <<>>]
  BY <1>3, <1>4, <1>5 DEF After, Parsed
<1>7. QED
  BY <1>2, <1>3, <1>6 DEF ArgOf

-----------------------------------------------------------------------------
(* The calls that wait below the topmost one.                              *)

IsStack(below) == \E V : below \in Seq(V)

LEMMA Stacked ==
    ASSUME NEW below, IsStack(below), NEW f, NEW s, s = Append(below, f)
    PROVE  /\ Len(s) = Len(below) + 1 /\ Len(below) \in Nat /\ s[Len(s)] = f /\ Top(s) = f
           /\ Front0(s) = below /\ IsStack(s)
<1>1. PICK V : below \in Seq(V)
  BY DEF IsStack
<1>2. PICK W : W = V \cup {f}
  OBVIOUS
<1>3. PICK n \in Nat : n = Len(below)
  BY <1>1
<1>4. below \in Seq(W) /\ f \in W
  <2>1. below \in [1..n -> V]
    BY <1>1, <1>3
  <2>2. below \in [1..n -> W]
    BY <1>2, <2>1
  <2>3. QED
    BY <1>2, <2>2, FunIsSeq
<1>5. s \in Seq(W) /\ Len(s) = n + 1 /\ s[n + 1] = f
  BY <1>3, <1>4
<1>6. SubSeq(s, 1, Len(s) - 1) = below
  <2>1. \A i \in 1..n : s[i] = below[i]
    BY <1>3, <1>4
  <2>2. PICK u : u = SubSeq(s, 1, n)
    OBVIOUS
  <2>3. u \in Seq(W) /\ Len(u) = n /\ \A i \in 1..n : u[i] = s[i]
    BY <1>5, <2>2
  <2>4. u = below
    BY <1>3, <1>4, <2>1, <2>3
  <2>5. Len(s) - 1 = n
    BY <1>5
  <2>6. QED
    BY <2>2, <2>4, <2>5
<1>7. IsStack(s)
  BY <1>5 DEF IsStack
<1>8. Len(s) = Len(below) + 1 /\ Len(below) \in Nat /\ s[Len(s)] = f
  BY <1>3, <1>5
<1>9. QED
  BY <1>6, <1>7, <1>8 DEF Top, Front0

LEMMA SeqIsFun ==
    ASSUME NEW V, NEW n, n \in Nat, NEW s, s \in Seq(V), Len(s) = n
    PROVE  s \in [1..n -> V]
OBVIOUS

LEMMA Appended ==
    ASSUME NEW V, NEW n, n \in Nat, NEW s, s \in Seq(V), Len(s) = n, NEW x, x \in V
    PROVE  /\ Append(s, x) \in Seq(V) /\ Len(Append(s, x)) = n + 1 /\ Append(s, x)[n + 1] = x
           /\ \A i \in 1..n : Append(s, x)[i] = s[i]
OBVIOUS

LEMMA TopReplaced ==
    ASSUME NEW below, IsStack(below), NEW f, NEW g, NEW s, s = Append(below, f)
    PROVE  [s EXCEPT ![Len(s)] = g] = Append(below, g)
<1>1. PICK V : below \in Seq(V)
  BY DEF IsStack
<1>2. PICK W : W = V \cup {f, g}
  OBVIOUS
<1>3. PICK n \in Nat : n = Len(below)
  BY <1>1
<1>4. below \in Seq(W) /\ f \in W /\ g \in W
  <2>1. below \in [1..n -> V]
    BY <1>1, <1>3
  <2>2. below \in [1..n -> W]
    BY <1>2, <2>1
  <2>3. QED
    BY <1>2, <2>2, FunIsSeq
<1>5. s \in Seq(W) /\ Len(s) = n + 1 /\ \A i \in 1..n : s[i] = below[i]
  BY <1>3, <1>4
<1>6. PICK u : u = [s EXCEPT ![n + 1] = g]
  OBVIOUS
<1>7. u \in [1..n + 1 -> W] /\ u[n + 1] = g /\ \A i \in 1..n : u[i] = below[i]
  <2>1. s \in [1..n + 1 -> W]
    <3>1. n + 1 \in Nat /\ s \in Seq(W) /\ Len(s) = n + 1
      BY <1>5
    <3>2. QED
      BY <3>1, SeqIsFun
  <2>4. n + 1 \in 1..n + 1 /\ \A i \in 1..n : i \in 1..n + 1 /\ i # n + 1
    OBVIOUS
  <2>2. u \in [1..n + 1 -> W] /\ u[n + 1] = g /\ \A i \in 1..n : u[i] = s[i]
    BY <1>4, <1>6, <2>1, <2>4
  <2>3. QED
    BY <1>5, <2>2
<1>8. PICK v : v = Append(below, g)
  OBVIOUS
<1>9. v \in [1..n + 1 -> W] /\ v[n + 1] = g /\ \A i \in 1..n : v[i] = below[i]
  <2>1. Len(below) = n
    BY <1>3
  <2>2. v \in Seq(W) /\ Len(v) = n + 1 /\ v[n + 1] = g /\ \A i \in 1..n : v[i] = below[i]
    BY <1>4, <1>8, <2>1, Appended
  <2>3. n + 1 \in Nat
    OBVIOUS
  <2>4. v \in [1..n + 1 -> W]
    BY <2>2, <2>3, SeqIsFun
  <2>5. QED
    BY <2>2, <2>4
<1>10. u = v
  <2>1. ASSUME NEW i \in 1..n + 1 PROVE u[i] = v[i]
    <3>1. i \in 1..n \/ i = n + 1
      OBVIOUS
    <3>2. QED
      BY <1>7, <1>9, <3>1
  <2>2. QED
    BY <1>7, <1>9, <2>1
<1>11. QED
  BY <1>5, <1>6, <1>8, <1>10

WithTopKey(s, k) == [s EXCEPT ![Len(s)].key = k]
WithKey(f, k)    == [f EXCEPT !.key = k]

LEMMA TopKeyed ==
    ASSUME NEW below, IsStack(below), NEW f, NEW k, NEW s, s = Append(below, f)
    PROVE  WithTopKey(s, k) = Append(below, WithKey(f, k))
<1>1. s[Len(s)] = f
  BY Stacked
<1>2. PICK g : g = [f EXCEPT !.key = k]
  OBVIOUS
<1>3. [s EXCEPT ![Len(s)].key = k] = [s EXCEPT ![Len(s)] = [s[Len(s)] EXCEPT !.key = k]]
  OBVIOUS
<1>4. [s EXCEPT ![Len(s)].key = k] = [s EXCEPT ![Len(s)] = g]
  BY <1>1, <1>2, <1>3
<1>5. [s EXCEPT ![Len(s)] = g] = Append(below, g)
  BY TopReplaced
<1>6. QED
  BY <1>2, <1>4, <1>5 DEF WithTopKey, WithKey

-----------------------------------------------------------------------------
(* Where a call of the parser is in its list, and its steps.               *)

AtCall(below, name, L, b) == Here("call", b + 1, Append(below, After(name, L, 0)), <<>>)

AtItem(below, name, L, S, i) ==
    i \in 1..Items(L) /\ Here("list", S[i], Append(below, After(name, L, i - 1)), <<>>)

AtClose(below, name, L, S) ==
    Items(L) >= 1 /\ Here("list", S[Items(L) + 1] - 1, Append(below, After(name, L, Items(L))), <<>>)

InValue(below, name, L, S, i, j) ==
    /\ i \in 1..Items(L) /\ ArgAt(L, i).name = Nil /\ j \in 0..Len(ArgAt(L, i).tokens) - 1
    /\ Here("value", ValueAt(L, S, i) + j, Append(below, Keyed(name, L, i)), SubSeq(ArgAt(L, i).tokens, 1, j))

AtNested(below, name, L, S, i) ==
    /\ i \in 1..Items(L) /\ ArgAt(L, i).name # Nil
    /\ Here("value", ValueAt(L, S, i), Append(below, Keyed(name, L, i)), <<>>)

AtArgument(below, name, L, S, i) ==
    /\ i \in 1..Items(L) /\ ArgAt(L, i).name = Nil
    /\ Here("argument", S[i + 1] - 1, Append(below, Keyed(name, L, i)), ArgAt(L, i).tokens)

AtStored(below, name, L, S, i) ==
    i \in 1..Items(L) /\ Here("stored", S[i + 1] - 1, Append(below, After(name, L, i)), <<>>)

AtReturn(below, name, L, S) ==
    Here("return", S[Items(L) + 1], Append(below, After(name, L, Items(L))), <<>>)

Reading(t, b, L, S, below) ==
    /\ toks = t /\ Layout(t, b, L, S) /\ b \in Nat /\ IsStack(below)
    /\ Items(L) = 0 => b + 1 > Len(t) \/ t[b + 1] # LeftParen

LEMMA ItemsInNat == ASSUME NEW L, ItemsAre(L) PROVE Items(L) \in Nat /\ Len(L.args) \in Nat
<1>1. PICK m \in Nat : m = Len(L.args)
  BY DEF ItemsAre
<1>2. PICK k \in Nat : k = Len(L.kwargs)
  BY DEF ItemsAre
<1>3. Items(L) = m + k
  BY <1>1, <1>2, Zenon DEF Items
<1>4. m + k \in Nat
  OBVIOUS
<1>5. QED
  BY <1>1, <1>3, <1>4, Zenon

LEMMA MovesTo ==
    ASSUME NEW m, NEW p, NEW fs, NEW a, Moves(m, p, fs, a)
    PROVE  Here(m, p, fs, a)'
BY DEF Moves, Here

LEMMA CallStep ==
    ASSUME NEW t, NEW b, NEW L, NEW S, NEW below, NEW name,
           Reading(t, b, L, S, below), AtCall(below, name, L, b), ParserStep
    PROVE  IF Items(L) = 0 THEN AtReturn(below, name, L, S)' ELSE AtItem(below, name, L, S, 1)'
<1>1. mode = "call" /\ at = b + 1 /\ frames = Append(below, After(name, L, 0)) /\ arg = <<>>
  BY DEF AtCall, Here
<1>2. OpenListMoves
  BY <1>1, StepsByMode
<1>3. PICK n \in Nat : n = Items(L)
  BY ItemsInNat DEF Reading, Layout
<1>4. toks = t /\ b \in Nat /\ Len(t) \in Nat /\ (Items(L) = 0 => b + 1 > Len(t) \/ t[b + 1] # LeftParen)
  BY DEF Reading, Layout
<1>5. Len(TextsOf(L)) = n /\ TextsOf(L) \in Seq(Seq(Token))
  BY <1>3, TextsAre DEF Reading, Layout
<1>6. S[1] = (IF n = 0 THEN b + 1 ELSE b + 2) /\ (n # 0 => t[b + 1] = LeftParen)
  <2>1. LaidOut(t, b, TextsOf(L), S)
    BY DEF Reading, Layout
  <2>2. TextsOf(L) = <<>> <=> n = 0
    BY <1>5
  <2>3. QED
    BY <2>1, <2>2 DEF LaidOut
<1>7. CASE n = 0
  <2>1. ~Is(LeftParen)
    BY <1>1, <1>3, <1>4, <1>7 DEF Is, AtEnd
  <2>2. Moves("return", at, frames, arg)
    BY <1>2, <2>1 DEF OpenListMoves
  <2>3. n + 1 = 1 /\ S[1] = b + 1
    BY <1>6, <1>7
  <2>4. Moves("return", S[n + 1], Append(below, After(name, L, n)), <<>>)
    BY <1>1, <1>7, <2>2, <2>3
  <2>5. Here("return", S[n + 1], Append(below, After(name, L, n)), <<>>)'
    BY <2>4, MovesTo
  <2>6. AtReturn(below, name, L, S)'
    BY <1>3, <2>5 DEF AtReturn
  <2>7. QED
    BY <1>3, <1>7, <2>6
<1>8. CASE n # 0
  <2>1. 1 \in 1..n
    BY <1>8
  <2>2. ItemIs(t, L, S, 1)
    BY <1>3, <2>1, ItemFacts DEF Reading
  <2>3. b + 1 <= Len(t)
    <3>1. PICK v \in Nat : v = ValueAt(L, S, 1)
      BY <2>2 DEF ItemIs
    <3>2. PICK k \in Nat : k = Len(ArgText(ArgAt(L, 1)))
      BY <2>2, ArgTexts DEF ItemIs
    <3>3. PICK y \in Nat : y = S[1 + 1]
      BY <2>2 DEF ItemIs
    <3>4. v + k = y - 1 /\ y - 1 <= Len(t)
      BY <2>2, <3>1, <3>2, <3>3 DEF ItemIs
    <3>5. S[1] = b + 2 /\ (v = S[1] \/ v = S[1] + 2)
      BY <1>6, <1>8, <3>1 DEF ValueAt
    <3>6. v = b + 2 \/ v = b + 4
      BY <1>4, <3>5
    <3>7. QED
      BY <1>4, <3>4, <3>6
  <2>4. Is(LeftParen)
    BY <1>1, <1>4, <1>6, <1>8, <2>3 DEF Is, AtEnd
  <2>5. Moves("list", at + 1, frames, arg)
    BY <1>2, <2>4 DEF OpenListMoves
  <2>6. at + 1 = S[1] /\ 1 - 1 = 0
    BY <1>1, <1>4, <1>6, <1>8
  <2>7. Moves("list", S[1], Append(below, After(name, L, 1 - 1)), <<>>)
    BY <1>1, <2>5, <2>6
  <2>8. Here("list", S[1], Append(below, After(name, L, 1 - 1)), <<>>)'
    BY <2>7, MovesTo
  <2>9. AtItem(below, name, L, S, 1)'
    BY <1>3, <2>1, <2>8 DEF AtItem
  <2>10. QED
    BY <1>3, <1>8, <2>9
<1>9. QED
  BY <1>7, <1>8

\* The first token of an argument.
LEMMA FirstTokens ==
    ASSUME NEW t, NEW L, NEW S, NEW i, ItemIs(t, L, S, i), ItemsAre(L), i \in 1..Items(L), Len(t) \in Nat
    PROVE  /\ S[i] \in Nat /\ S[i] + 1 <= Len(t) /\ t[S[i]] # RightParen
           /\ i > Len(L.args) => IsNamed(t[S[i]]) /\ t[S[i] + 1] = EqualsSign
           /\ i <= Len(L.args) /\ IsNamed(t[S[i]]) => t[S[i] + 1] # EqualsSign
<1>1. PICK x \in Nat : x = S[i]
  BY DEF ItemIs
<1>2. PICK y \in Nat : y = S[i + 1]
  BY DEF ItemIs
<1>3. PICK v \in Nat : v = ValueAt(L, S, i)
  BY DEF ItemIs
<1>4. PICK a : a = ArgAt(L, i)
  OBVIOUS
<1>5. IsArgument(a)
  BY <1>4 DEF ItemIs
<1>6. PICK u : u = ArgText(a)
  OBVIOUS
<1>7. PICK k \in Nat : k = Len(u) /\ k >= 1
  BY <1>5, <1>6, ArgTexts
<1>8. PICK d \in Nat : d = Len(t)
  OBVIOUS
<1>9. v + k = y - 1 /\ y - 1 <= d
  BY <1>2, <1>3, <1>4, <1>6, <1>7, <1>8 DEF ItemIs
<1>10. \A j \in 1..k : t[v + j - 1] = u[j]
  BY <1>3, <1>4, <1>6, <1>7 DEF ItemIs
<1>11. t[y - 1] # EqualsSign
  <2>1. t[y - 1] = RightParen \/ t[y - 1] = CommaSign
    BY <1>2 DEF ItemIs
  <2>2. QED
    BY <2>1, SignsDiffer
<1>12. PICK m \in Nat : m = Len(L.args)
  BY DEF ItemsAre
<1>13. i \in Nat
  BY ItemsInNat
<1>14. CASE i <= m
  <2>1. v = x /\ ~(i > m)
    BY <1>1, <1>3, <1>12, <1>13, <1>14 DEF ItemIs
  <2>2. x + 1 <= d
    BY <1>7, <1>9, <2>1
  <2>3. t[x] = u[1] /\ (k > 1 => t[x + 1] = u[2]) /\ (~(k > 1) => x + 1 = y - 1)
    <3>1. 1 \in 1..k /\ v + 1 - 1 = x /\ (k > 1 => 2 \in 1..k /\ v + 2 - 1 = x + 1) /\ (~(k > 1) => x + 1 = y - 1)
      BY <1>7, <1>9, <2>1
    <3>2. QED
      BY <1>10, <3>1
  <2>4. CASE a.name = Nil
    <3>1. ExpressionIs(u)
      BY <1>5, <1>6, <2>4, ArgTexts
    <3>2. u[1] # RightParen /\ (k > 1 /\ IsNamed(u[1]) => u[2] # EqualsSign)
      BY <1>7, <3>1 DEF ExpressionIs
    <3>3. t[x] # RightParen /\ (IsNamed(t[x]) => t[x + 1] # EqualsSign)
      BY <1>11, <2>3, <3>2
    <3>4. QED
      BY <1>1, <1>8, <1>12, <2>1, <2>2, <3>3
  <2>5. CASE a.name # Nil
    <3>1. t[x] = AtSign
      BY <1>5, <1>6, <2>3, <2>5, ArgTexts
    <3>2. t[x] # RightParen /\ ~IsNamed(t[x])
      BY <3>1, SignsDiffer, SignKinds DEF IsNamed
    <3>3. QED
      BY <1>1, <1>8, <1>12, <2>1, <2>2, <3>2
  <2>6. QED
    BY <2>4, <2>5
<1>15. CASE i > m
  <2>1. v = x + 2 /\ IsName(KeyAt(L, i)) /\ t[x] = KeyAt(L, i) /\ t[x + 1] = EqualsSign
    BY <1>1, <1>3, <1>12, <1>15 DEF ItemIs
  <2>2. x + 1 <= d
    BY <1>9, <2>1
  <2>3. IsNamed(t[x]) /\ t[x] # RightParen
    BY <2>1, Names, SignKinds DEF IsNamed
  <2>4. ~(i <= m)
    BY <1>13, <1>15
  <2>5. QED
    BY <1>1, <1>8, <1>12, <2>1, <2>2, <2>3, <2>4
<1>16. QED
  BY <1>13, <1>14, <1>15

LEMMA NotKeyed == ASSUME NEW name, NEW L, NEW i, KeyAt(L, i) = NoKey PROVE Keyed(name, L, i) = After(name, L, i - 1)
<1>1. PICK k : k = NoKey
  OBVIOUS
<1>2. PICK f : f = After(name, L, i - 1)
  OBVIOUS
<1>3. PICK a : a = ArgsTo(L, i - 1)
  OBVIOUS
<1>4. PICK q : q = KwargsTo(L, (i - 1) - Len(L.args))
  OBVIOUS
<1>5. f = [name |-> name, args |-> a, kwargs |-> q, key |-> k]
  BY <1>1, <1>2, <1>3, <1>4 DEF After
<1>6. [f EXCEPT !.key = k] = f
  BY <1>5
<1>7. QED
  BY <1>1, <1>2, <1>6 DEF Keyed

LEMMA ItemStep ==
    ASSUME NEW t, NEW b, NEW L, NEW S, NEW below, NEW name, NEW i,
           Reading(t, b, L, S, below), AtItem(below, name, L, S, i), ParserStep
    PROVE  IF ArgAt(L, i).name = Nil THEN InValue(below, name, L, S, i, 0)' ELSE AtNested(below, name, L, S, i)'
<1>1. /\ mode = "list" /\ at = S[i] /\ frames = Append(below, After(name, L, i - 1)) /\ arg = <<>>
      /\ i \in 1..Items(L)
  BY DEF AtItem, Here
<1>2. CloseListMoves \/ KeywordArgMoves \/ RegularArgMoves
  BY <1>1, StepsByMode
<1>3. toks = t /\ Len(t) \in Nat /\ ItemsAre(L) /\ IsStack(below)
  BY DEF Reading, Layout
<1>4. ItemIs(t, L, S, i)
  BY <1>1, ItemFacts DEF Reading
<1>5. /\ S[i] \in Nat /\ S[i] + 1 <= Len(t) /\ t[S[i]] # RightParen
      /\ i > Len(L.args) => IsNamed(t[S[i]]) /\ t[S[i] + 1] = EqualsSign
      /\ i <= Len(L.args) /\ IsNamed(t[S[i]]) => t[S[i] + 1] # EqualsSign
  BY <1>1, <1>3, <1>4, FirstTokens
<1>6. ~AtEnd /\ ~Is(RightParen) /\ at < Len(toks) /\ at <= Len(toks)
  BY <1>1, <1>3, <1>5 DEF AtEnd, Is
<1>7. i \in Nat /\ Len(L.args) \in Nat
  BY <1>1, <1>3, ItemsInNat
<1>8. KeywordHere <=> i > Len(L.args)
  BY <1>1, <1>3, <1>5, <1>6, <1>7 DEF KeywordHere, IsIdentifier, NextIs, IsNamed
<1>9. Moves("value", ValueAt(L, S, i), Append(below, Keyed(name, L, i)), <<>>)
  <2>1. CASE i > Len(L.args)
    <3>1. KeywordArgMoves
      BY <1>2, <1>6, <1>8, <2>1 DEF CloseListMoves, RegularArgMoves
    <3>2. Moves("value", at + 2, [frames EXCEPT ![Len(frames)].key = toks[at]], arg)
      BY <3>1 DEF KeywordArgMoves
    <3>3. toks[at] = KeyAt(L, i) /\ at + 2 = ValueAt(L, S, i)
      BY <1>1, <1>3, <1>4, <2>1 DEF ItemIs
    <3>4. PICK fs : fs = Append(below, After(name, L, i - 1))
      OBVIOUS
    <3>5. PICK key : key = KeyAt(L, i)
      OBVIOUS
    <3>6. [fs EXCEPT ![Len(fs)].key = key] = Append(below, [After(name, L, i - 1) EXCEPT !.key = key])
      <4>1. PICK f : f = After(name, L, i - 1)
        OBVIOUS
      <4>2. fs = Append(below, f)
        BY <3>4, <4>1
      <4>3. WithTopKey(fs, key) = Append(below, WithKey(f, key))
        BY <1>3, <4>2, TopKeyed
      <4>4. QED
        BY <4>1, <4>3 DEF WithTopKey, WithKey
    <3>7. [fs EXCEPT ![Len(fs)].key = key] = Append(below, Keyed(name, L, i))
      BY <3>5, <3>6 DEF Keyed
    <3>8. Moves("value", ValueAt(L, S, i), [fs EXCEPT ![Len(fs)].key = key], <<>>)
      BY <1>1, <3>2, <3>3, <3>4, <3>5
    <3>9. QED
      BY <3>7, <3>8
  <2>2. CASE ~(i > Len(L.args))
    <3>1. i <= Len(L.args)
      BY <1>7, <2>2
    <3>2. RegularArgMoves
      BY <1>2, <1>6, <1>8, <2>2 DEF CloseListMoves, KeywordArgMoves
    <3>3. Moves("value", at, frames, arg)
      BY <3>2 DEF RegularArgMoves
    <3>4. ValueAt(L, S, i) = S[i] /\ KeyAt(L, i) = NoKey
      BY <1>4, <3>1 DEF ItemIs
    <3>5. Keyed(name, L, i) = After(name, L, i - 1)
      BY <3>4, NotKeyed
    <3>6. QED
      BY <1>1, <3>3, <3>4, <3>5
  <2>3. QED
    BY <2>1, <2>2
<1>10. CASE ArgAt(L, i).name = Nil
  <2>1. PICK u : u = ArgAt(L, i).tokens
    OBVIOUS
  <2>2. IsArgument(ArgAt(L, i))
    BY <1>4 DEF ItemIs
  <2>3. ExpressionIs(u)
    BY <1>10, <2>1, <2>2, ArgTexts
  <2>4. u \in Seq(Token) /\ 0 \in 0..Len(u) - 1 /\ SubSeq(u, 1, 0) = <<>>
    BY <2>3 DEF ExpressionIs
  <2>5. PICK v \in Nat : v = ValueAt(L, S, i)
    BY <1>4 DEF ItemIs
  <2>6. v + 0 = v
    OBVIOUS
  <2>7. Moves("value", v + 0, Append(below, Keyed(name, L, i)), SubSeq(u, 1, 0))
    BY <1>9, <2>4, <2>5, <2>6
  <2>8. Here("value", v + 0, Append(below, Keyed(name, L, i)), SubSeq(u, 1, 0))'
    BY <2>7, MovesTo
  <2>9. InValue(below, name, L, S, i, 0)'
    BY <1>1, <1>10, <2>1, <2>4, <2>5, <2>8 DEF InValue
  <2>10. QED
    BY <1>10, <2>9
<1>11. CASE ArgAt(L, i).name # Nil
  <2>1. Here("value", ValueAt(L, S, i), Append(below, Keyed(name, L, i)), <<>>)'
    BY <1>9, MovesTo
  <2>2. AtNested(below, name, L, S, i)'
    BY <1>1, <1>11, <2>1 DEF AtNested
  <2>3. QED
    BY <1>11, <2>2
<1>12. QED
  BY <1>10, <1>11

LEMMA CloseStep ==
    ASSUME NEW t, NEW b, NEW L, NEW S, NEW below, NEW name,
           Reading(t, b, L, S, below), AtClose(below, name, L, S), ParserStep
    PROVE  AtReturn(below, name, L, S)'
<1>1. toks = t /\ Len(t) \in Nat /\ ItemsAre(L)
  BY DEF Reading, Layout
<1>2. PICK n \in Nat : n = Items(L)
  BY <1>1, ItemsInNat
<1>3. n >= 1 /\ mode = "list" /\ at = S[n + 1] - 1 /\ frames = Append(below, After(name, L, n)) /\ arg = <<>>
  BY <1>2 DEF AtClose, Here
<1>4. n \in 1..n
  BY <1>3
<1>5. ItemIs(t, L, S, n)
  BY <1>2, <1>4, ItemFacts DEF Reading
<1>6. PICK y \in Nat : y = S[n + 1]
  BY <1>5 DEF ItemIs
<1>7. y - 1 <= Len(t) /\ t[y - 1] = RightParen
  BY <1>2, <1>5, <1>6 DEF ItemIs
<1>8. ~AtEnd /\ Is(RightParen) /\ ~IsIdentifier(at)
  <2>1. at = y - 1 /\ y - 1 \in Int
    BY <1>3, <1>6
  <2>2. ~AtEnd
    BY <1>1, <1>7, <2>1 DEF AtEnd
  <2>3. ~IsNamed(RightParen)
    BY SignKinds DEF IsNamed
  <2>4. QED
    BY <1>1, <1>7, <2>1, <2>2, <2>3 DEF Is, IsIdentifier, IsNamed
<1>9. CloseListMoves
  BY <1>3, <1>8, StepsByMode DEF KeywordArgMoves, RegularArgMoves, KeywordHere
<1>10. Moves("return", at + 1, frames, arg)
  BY <1>8, <1>9 DEF CloseListMoves
<1>11. at + 1 = S[n + 1]
  <2>1. (y - 1) + 1 = y
    OBVIOUS
  <2>2. QED
    BY <1>3, <1>6, <2>1
<1>12. Moves("return", S[n + 1], Append(below, After(name, L, n)), <<>>)
  BY <1>3, <1>10, <1>11
<1>13. Here("return", S[n + 1], Append(below, After(name, L, n)), <<>>)'
  BY <1>12, MovesTo
<1>14. QED
  BY <1>2, <1>13 DEF AtReturn

LEMMA OneMoreToken ==
    ASSUME NEW s, s \in Seq(Token), NEW j, j \in 0..Len(s) - 1
    PROVE  Append(SubSeq(s, 1, j), s[j + 1]) = SubSeq(s, 1, j + 1)
OBVIOUS

LEMMA ValueStep ==
    ASSUME NEW t, NEW b, NEW L, NEW S, NEW below, NEW name, NEW i, NEW j,
           Reading(t, b, L, S, below), InValue(below, name, L, S, i, j), ParserStep
    PROVE  InValue(below, name, L, S, i, j + 1)' \/ AtArgument(below, name, L, S, i)'
<1>1. toks = t /\ Len(t) \in Nat /\ ItemsAre(L)
  BY DEF Reading, Layout
<1>2. PICK u : u = ArgAt(L, i).tokens
  OBVIOUS
<1>3. PICK fs : fs = Append(below, Keyed(name, L, i))
  OBVIOUS
<1>4. i \in 1..Items(L) /\ ArgAt(L, i).name = Nil /\ j \in 0..Len(u) - 1
  BY <1>2 DEF InValue
<1>5. ItemIs(t, L, S, i)
  BY <1>4, ItemFacts DEF Reading
<1>6. IsArgument(ArgAt(L, i))
  BY <1>5 DEF ItemIs
<1>7. ExpressionIs(u) /\ ArgText(ArgAt(L, i)) = u
  BY <1>2, <1>4, <1>6, ArgTexts
<1>8. PICK k \in Nat : k = Len(u)
  BY <1>7 DEF ExpressionIs
<1>9. PICK v \in Nat : v = ValueAt(L, S, i)
  BY <1>5 DEF ItemIs
<1>10. PICK y \in Nat : y = S[i + 1]
  BY <1>5 DEF ItemIs
<1>11. mode = "value" /\ at = v + j /\ frames = fs /\ arg = SubSeq(u, 1, j)
  BY <1>2, <1>3, <1>9 DEF InValue, Here
<1>12. j \in Nat /\ j + 1 <= k
  BY <1>4, <1>8
<1>13. v + k = y - 1 /\ y - 1 <= Len(t) /\ \A q \in 1..k : t[v + q - 1] = u[q]
  BY <1>5, <1>7, <1>8, <1>9, <1>10 DEF ItemIs
<1>14. t[y - 1] = RightParen \/ t[y - 1] = CommaSign
  BY <1>5, <1>10 DEF ItemIs
<1>15. t[v + j] = u[j + 1]
  <2>1. j + 1 \in 1..k /\ v + (j + 1) - 1 = v + j
    BY <1>12
  <2>2. QED
    BY <1>13, <2>1
<1>16. v + j < Len(t)
  BY <1>1, <1>12, <1>13
<1>17. ~AtEnd /\ toks[at] = u[j + 1] /\ toks[at + 1] = t[v + j + 1] /\ at # Len(toks)
  BY <1>1, <1>11, <1>15, <1>16 DEF AtEnd
<1>18. u \in Seq(Token) /\ IsBalanced(u)
       /\ \A q \in 1..k - 1 :
             /\ u[q + 1] = CommaSign \/ u[q + 1] = RightParen => ~IsBalanced(SubSeq(u, 1, q))
             /\ u[q] = AtSign => ~IsNamed(u[q + 1])
  BY <1>7, <1>8 DEF ExpressionIs
<1>19. Append(arg, toks[at]) = SubSeq(u, 1, j + 1)
  <2>1. Append(SubSeq(u, 1, j), u[j + 1]) = SubSeq(u, 1, j + 1)
    BY <1>4, <1>18, OneMoreToken
  <2>2. QED
    BY <1>11, <1>17, <2>1
<1>20. CASE j + 1 < k
  <2>1. j + 1 \in 1..k - 1
    BY <1>12, <1>20
  <2>2. t[v + j + 1] = u[(j + 1) + 1]
    <3>1. (j + 1) + 1 \in 1..k /\ v + ((j + 1) + 1) - 1 = v + j + 1
      BY <1>12, <1>20
    <3>2. QED
      BY <1>13, <3>1
  <2>3. ~NestedHere
    <3>1. u[j + 1] = AtSign => ~IsNamed(t[v + j + 1])
      BY <1>18, <2>1, <2>2
    <3>2. QED
      BY <1>17, <3>1 DEF NestedHere, Is, IsIdentifier, IsNamed
  <2>4. TakeArgTokenMoves
    BY <1>11, <1>17, <2>3, StepsByMode DEF NestedAttrMoves
  <2>5. ~((toks[at + 1] = CommaSign \/ toks[at + 1] = RightParen) /\ IsBalanced(Append(arg, toks[at])))
    BY <1>17, <1>18, <1>19, <2>1, <2>2
  <2>6. Moves("value", at + 1, frames, Append(arg, toks[at]))
    BY <1>17, <2>4, <2>5 DEF TakeArgTokenMoves
  <2>7. at + 1 = v + (j + 1)
    BY <1>11, <1>12
  <2>8. Moves("value", v + (j + 1), fs, SubSeq(u, 1, j + 1))
    BY <1>11, <1>19, <2>6, <2>7
  <2>9. Here("value", v + (j + 1), fs, SubSeq(u, 1, j + 1))'
    BY <2>8, MovesTo
  <2>10. j + 1 \in 0..Len(u) - 1
    BY <1>8, <1>12, <1>20
  <2>11. InValue(below, name, L, S, i, j + 1)'
    BY <1>2, <1>3, <1>4, <1>9, <2>9, <2>10 DEF InValue
  <2>12. QED
    BY <2>11
<1>21. CASE ~(j + 1 < k)
  <2>1. j + 1 = k /\ v + j + 1 = y - 1 /\ k >= 1
    BY <1>12, <1>13, <1>21
  <2>2. t[v + j + 1] = RightParen \/ t[v + j + 1] = CommaSign
    BY <1>14, <2>1
  <2>3. ~IsNamed(t[v + j + 1])
    BY <2>2, SignKinds DEF IsNamed
  <2>4. ~NestedHere
    BY <1>17, <2>3 DEF NestedHere, Is, IsIdentifier, IsNamed
  <2>5. TakeArgTokenMoves
    BY <1>11, <1>17, <2>4, StepsByMode DEF NestedAttrMoves
  <2>6. SubSeq(u, 1, j + 1) = u
    <3>1. SubSeq(u, 1, Len(u)) = u
      BY <1>18
    <3>2. QED
      BY <1>8, <2>1, <3>1
  <2>7. (toks[at + 1] = CommaSign \/ toks[at + 1] = RightParen) /\ IsBalanced(Append(arg, toks[at]))
    BY <1>17, <1>18, <1>19, <2>2, <2>6
  <2>8. Moves("argument", at + 1, frames, Append(arg, toks[at]))
    BY <1>17, <2>5, <2>7 DEF TakeArgTokenMoves
  <2>9. at + 1 = y - 1
    BY <1>11, <2>1
  <2>10. Moves("argument", y - 1, fs, u)
    BY <1>11, <1>19, <2>6, <2>8, <2>9
  <2>11. Here("argument", y - 1, fs, u)'
    BY <2>10, MovesTo
  <2>12. AtArgument(below, name, L, S, i)'
    BY <1>2, <1>3, <1>4, <1>10, <2>11 DEF AtArgument
  <2>13. QED
    BY <2>12
<1>22. QED
  BY <1>20, <1>21

LEMMA ArgumentStep ==
    ASSUME NEW t, NEW b, NEW L, NEW S, NEW below, NEW name, NEW i,
           Reading(t, b, L, S, below), AtArgument(below, name, L, S, i), ParserStep
    PROVE  AtStored(below, name, L, S, i)'
<1>1. PICK f : f = Keyed(name, L, i)
  OBVIOUS
<1>2. PICK fs : fs = Append(below, f)
  OBVIOUS
<1>3. PICK u : u = ArgAt(L, i).tokens
  OBVIOUS
<1>4. /\ i \in 1..Items(L) /\ ArgAt(L, i).name = Nil
      /\ mode = "argument" /\ at = S[i + 1] - 1 /\ frames = fs /\ arg = u
  BY <1>1, <1>2, <1>3 DEF AtArgument, Here
<1>5. IsStack(below) /\ ItemsAre(L)
  BY DEF Reading, Layout
<1>6. FinishArgMoves
  BY <1>4, StepsByMode
<1>7. Param(u) = ArgOf(ArgAt(L, i))
  BY <1>3, <1>4 DEF ArgOf
<1>8. PICK g : g = Store(f, Param(u))
  OBVIOUS
<1>9. g = After(name, L, i)
  BY <1>1, <1>4, <1>5, <1>7, <1>8, Stores
<1>10. fs[Len(fs)] = f
  BY <1>2, <1>5, Stacked
<1>11. [fs EXCEPT ![Len(fs)] = g] = Append(below, g)
  BY <1>2, <1>5, TopReplaced
<1>12. Moves("stored", S[i + 1] - 1, [fs EXCEPT ![Len(fs)] = g], <<>>)
  BY <1>4, <1>6, <1>8, <1>10 DEF FinishArgMoves
<1>13. Moves("stored", S[i + 1] - 1, Append(below, After(name, L, i)), <<>>)
  BY <1>9, <1>11, <1>12
<1>14. Here("stored", S[i + 1] - 1, Append(below, After(name, L, i)), <<>>)'
  BY <1>13, MovesTo
<1>15. QED
  BY <1>4, <1>14 DEF AtStored

LEMMA StoredStep ==
    ASSUME NEW t, NEW b, NEW L, NEW S, NEW below, NEW name, NEW i,
           Reading(t, b, L, S, below), AtStored(below, name, L, S, i), ParserStep
    PROVE  IF i = Items(L) THEN AtClose(below, name, L, S)' ELSE AtItem(below, name, L, S, i + 1)'
<1>1. toks = t /\ Len(t) \in Nat /\ ItemsAre(L)
  BY DEF Reading, Layout
<1>2. PICK n \in Nat : n = Items(L)
  BY <1>1, ItemsInNat
<1>3. PICK fs : fs = Append(below, After(name, L, i))
  OBVIOUS
<1>4. i \in 1..n /\ mode = "stored" /\ at = S[i + 1] - 1 /\ frames = fs /\ arg = <<>>
  BY <1>2, <1>3 DEF AtStored, Here
<1>5. ItemIs(t, L, S, i)
  BY <1>2, <1>4, ItemFacts DEF Reading
<1>6. PICK y \in Nat : y = S[i + 1]
  BY <1>5 DEF ItemIs
<1>7. y - 1 <= Len(t) /\ t[y - 1] = IF i = n THEN RightParen ELSE CommaSign
  BY <1>2, <1>5, <1>6 DEF ItemIs
<1>8. at = y - 1 /\ y - 1 \in Int
  BY <1>4, <1>6
<1>9. ~AtEnd
  BY <1>1, <1>7, <1>8 DEF AtEnd
<1>10. CASE i = n
  <2>1. Is(RightParen) /\ ~Is(CommaSign)
    BY <1>1, <1>7, <1>8, <1>9, <1>10, SignsDiffer DEF Is
  <2>2. NoCommaMoves
    BY <1>4, <2>1, StepsByMode DEF CommaMoves
  <2>3. Moves("list", S[n + 1] - 1, fs, <<>>)
    BY <1>4, <1>10, <2>1, <2>2 DEF NoCommaMoves
  <2>4. Here("list", S[n + 1] - 1, fs, <<>>)'
    BY <2>3, MovesTo
  <2>5. n >= 1
    BY <1>4
  <2>6. AtClose(below, name, L, S)'
    BY <1>2, <1>3, <1>10, <2>4, <2>5 DEF AtClose
  <2>7. QED
    BY <1>2, <1>10, <2>6
<1>11. CASE i # n
  <2>1. Is(CommaSign)
    BY <1>1, <1>7, <1>8, <1>9, <1>11 DEF Is
  <2>2. CommaMoves
    BY <1>4, <2>1, StepsByMode DEF NoCommaMoves
  <2>3. Moves("list", at + 1, fs, <<>>)
    BY <1>4, <2>2 DEF CommaMoves
  <2>4. at + 1 = y /\ i + 1 \in 1..n /\ (i + 1) - 1 = i
    BY <1>4, <1>8, <1>11
  <2>5. Moves("list", S[i + 1], fs, <<>>)
    BY <1>6, <2>3, <2>4
  <2>6. Here("list", S[i + 1], fs, <<>>)'
    BY <2>5, MovesTo
  <2>7. AtItem(below, name, L, S, i + 1)'
    BY <1>2, <1>3, <2>4, <2>6 DEF AtItem
  <2>8. QED
    BY <1>2, <1>11, <2>7
<1>12. QED
  BY <1>10, <1>11

\* A nested attribute begins, in the text at its name.
LEMMA NestedStep ==
    ASSUME NEW t, NEW b, NEW L, NEW S, NEW below, NEW name, NEW i, NEW a, a = ArgAt(L, i),
           Reading(t, b, L, S, below), AtNested(below, name, L, S, i), ParserStep
    PROVE  AtCall(Append(below, Keyed(name, L, i)), a.name, Inner(a), ValueAt(L, S, i) + 1)'
<1>1. toks = t /\ Len(t) \in Nat /\ ItemsAre(L)
  BY DEF Reading, Layout
<1>2. PICK fs : fs = Append(below, Keyed(name, L, i))
  OBVIOUS
<1>3. i \in 1..Items(L) /\ a.name # Nil
  BY DEF AtNested
<1>4. ItemIs(t, L, S, i)
  BY <1>3, ItemFacts DEF Reading
<1>5. IsArgument(a)
  BY <1>4 DEF ItemIs
<1>6. PICK u : u = ArgText(a)
  OBVIOUS
<1>7. u[1] = AtSign /\ u[2] = a.name /\ Len(u) = Len(List(a.args)) + 2 /\ Len(List(a.args)) \in Nat
  BY <1>3, <1>5, <1>6, ArgTexts
<1>8. PICK k \in Nat : k = Len(u) /\ k >= 2
  BY <1>7
<1>9. PICK v \in Nat : v = ValueAt(L, S, i)
  BY <1>4 DEF ItemIs
<1>10. PICK y \in Nat : y = S[i + 1]
  BY <1>4 DEF ItemIs
<1>11. v + k = y - 1 /\ y - 1 <= Len(t) /\ \A q \in 1..k : t[v + q - 1] = u[q]
  BY <1>4, <1>6, <1>8, <1>9, <1>10 DEF ItemIs
<1>12. mode = "value" /\ at = v /\ frames = fs /\ arg = <<>>
  BY <1>2, <1>9 DEF AtNested, Here
<1>13. v + 1 <= Len(t) /\ v <= Len(t)
  BY <1>1, <1>8, <1>11
<1>14. t[v] = AtSign /\ t[v + 1] = a.name
  <2>1. 1 \in 1..k /\ 2 \in 1..k /\ v + 1 - 1 = v /\ v + 2 - 1 = v + 1
    BY <1>8
  <2>2. QED
    BY <1>7, <1>11, <2>1
<1>15. IsNamed(a.name)
  BY <1>3, <1>5, NestedArgs, Names
<1>16. ~AtEnd
  BY <1>1, <1>12, <1>13 DEF AtEnd
<1>17. NestedHere
  BY <1>1, <1>12, <1>13, <1>14, <1>15, <1>16 DEF NestedHere, Is, IsIdentifier, IsNamed
<1>18. NestedAttrMoves
  BY <1>12, <1>16, <1>17, StepsByMode DEF TakeArgTokenMoves
<1>19. Moves("call", v + 2, Append(fs, Frame(a.name)), <<>>)
  BY <1>1, <1>12, <1>14, <1>18 DEF NestedAttrMoves
<1>20. Frame(a.name) = After(a.name, Inner(a), 0)
  BY <1>3, <1>5, InnerItems, NoneRead
<1>21. v + 2 = (v + 1) + 1
  OBVIOUS
<1>22. Moves("call", (v + 1) + 1, Append(fs, After(a.name, Inner(a), 0)), <<>>)
  BY <1>19, <1>20, <1>21
<1>23. Here("call", (v + 1) + 1, Append(fs, After(a.name, Inner(a), 0)), <<>>)'
  BY <1>22, MovesTo
<1>24. QED
  BY <1>2, <1>9, <1>23 DEF AtCall

LEMMA EmptyIs == ASSUME NEW V, NEW s, s \in Seq(V), Len(s) = 0 PROVE s = <<>>
OBVIOUS

\* A list that is nested in item i, and its beginning.
NestedIn(t, w, S, i, R) ==
    LET a == ArgAt(w, i)
        b == ValueAt(w, S, i) + 1
    IN  /\ i \in 1..Items(w) /\ a.name # Nil
        /\ Layout(t, b, Inner(a), R) /\ b \in Nat
        /\ R[Items(Inner(a)) + 1] = S[i + 1] - 1
        /\ Items(Inner(a)) = 0 => t[b + 1] # LeftParen

LEMMA NestedLayout ==
    ASSUME NEW t, NEW b, NEW L, NEW S, NEW i, Layout(t, b, L, S), i \in 1..Items(L), ArgAt(L, i).name # Nil
    PROVE  \E R : NestedIn(t, L, S, i, R)
<1>0. PICK a : a = ArgAt(L, i)
  OBVIOUS
<1>1. Len(t) \in Nat /\ ItemIs(t, L, S, i)
  BY ItemFacts DEF Layout
<1>2. IsArgument(a) /\ a.name # Nil
  BY <1>0, <1>1 DEF ItemIs
<1>3. PICK u : u = ArgText(a)
  OBVIOUS
<1>4. PICK p : p = List(a.args)
  OBVIOUS
<1>5. AreJoined(<<AtSign, a.name>>, p, u) /\ Len(u) = Len(p) + 2 /\ Len(p) \in Nat
  BY <1>2, <1>3, <1>4, ArgTexts
<1>6. PICK l \in Nat : l = Len(p)
  BY <1>5
<1>7. PICK v \in Nat : v = ValueAt(L, S, i)
  BY <1>1 DEF ItemIs
<1>8. PICK y \in Nat : y = S[i + 1]
  BY <1>1 DEF ItemIs
<1>9. v + (l + 2) = y - 1 /\ y - 1 <= Len(t) /\ \A q \in 1..l + 2 : t[v + q - 1] = u[q]
  BY <1>0, <1>1, <1>3, <1>5, <1>6, <1>7, <1>8 DEF ItemIs
<1>10. \A j \in 1..l : u[2 + j] = p[j]
  <2>1. Len(<<AtSign, a.name>>) = 2
    OBVIOUS
  <2>2. QED
    BY <1>5, <1>6, <2>1 DEF AreJoined
<1>11. Within(t, v + 1, p)
  <2>1. ASSUME NEW j \in 1..l PROVE t[(v + 1) + j] = p[j]
    <3>1. 2 + j \in 1..l + 2 /\ v + (2 + j) - 1 = (v + 1) + j
      OBVIOUS
    <3>2. QED
      BY <1>9, <1>10, <3>1
  <2>2. (v + 1) + l <= Len(t)
    BY <1>1, <1>9
  <2>3. QED
    BY <1>1, <1>6, <2>1, <2>2 DEF Within
<1>12. a.args \in Seq(Seq(Token)) /\ TextsOf(Inner(a)) = a.args /\ Items(Inner(a)) = Len(a.args) /\ ItemsAre(Inner(a))
  BY <1>2, NestedArgs, InnerItems
<1>13. v + 1 \in Nat
  OBVIOUS
<1>14. PICK R : LaidOut(t, v + 1, a.args, R) /\ R[Len(a.args) + 1] = (v + 1) + Len(List(a.args)) + 1
  BY <1>4, <1>11, <1>12, <1>13, ListWithin
<1>15. R[Items(Inner(a)) + 1] = S[i + 1] - 1
  <2>1. (v + 1) + l + 1 = y - 1
    BY <1>9
  <2>2. QED
    BY <1>4, <1>6, <1>8, <1>12, <1>14, <2>1
<1>16. Layout(t, v + 1, Inner(a), R)
  BY <1>1, <1>12, <1>14 DEF Layout
<1>17. ASSUME Items(Inner(a)) = 0 PROVE t[(v + 1) + 1] # LeftParen
  <2>1. a.args = <<>>
    <3>1. a.args \in Seq(Seq(Token)) /\ Len(a.args) = 0
      BY <1>12, <1>17
    <3>2. QED
      BY <3>1, EmptyIs
  <2>2. p = <<>>
    BY <1>4, <2>1, ListIs
  <2>3. (v + 1) + 1 = y - 1
    BY <1>6, <1>9, <2>2
  <2>4. t[y - 1] = RightParen \/ t[y - 1] = CommaSign
    BY <1>1, <1>8 DEF ItemIs
  <2>5. QED
    BY <2>3, <2>4, SignsDiffer
<1>18. QED
  BY <1>0, <1>2, <1>7, <1>13, <1>15, <1>16, <1>17 DEF NestedIn

\* Nothing happens to the outermost call when it has returned.
LEMMA ReturnStep ==
    ASSUME NEW L, NEW S, NEW name, AtReturn(<<>>, name, L, S), ParserStep
    PROVE  FALSE
<1>1. PICK f : f = After(name, L, Items(L))
  OBVIOUS
<1>2. mode = "return" /\ frames = Append(<<>>, f)
  BY <1>1 DEF AtReturn, Here
<1>3. IsStack(<<>>)
  <2>1. <<>> \in Seq({})
    OBVIOUS
  <2>2. QED
    BY <2>1 DEF IsStack
<1>4. Len(Append(<<>>, f)) = Len(<<>>) + 1 /\ Len(<<>>) = 0
  BY <1>3, Stacked
<1>5. ReturnNestedMoves
  BY <1>2, StepsByMode
<1>6. Len(frames) > 1
  BY <1>5 DEF ReturnNestedMoves
<1>7. QED
  BY <1>2, <1>4, <1>6

\* A nested attribute returns to the list that it is in.
LEMMA NestedReturnStep ==
    ASSUME NEW t, NEW b, NEW L, NEW S, NEW below, NEW name, NEW i, NEW R, NEW a, a = ArgAt(L, i),
           Reading(t, b, L, S, below), i \in 1..Items(L), a.name # Nil,
           R[Items(Inner(a)) + 1] = S[i + 1] - 1,
           AtReturn(Append(below, Keyed(name, L, i)), a.name, Inner(a), R), ParserStep
    PROVE  AtStored(below, name, L, S, i)'
<1>1. toks = t /\ Len(t) \in Nat /\ ItemsAre(L) /\ IsStack(below)
  BY DEF Reading, Layout
<1>2. ItemIs(t, L, S, i)
  BY ItemFacts DEF Reading
<1>3. IsArgument(a)
  BY <1>2 DEF ItemIs
<1>4. PICK y \in Nat : y = S[i + 1]
  BY <1>2 DEF ItemIs
<1>5. PICK f : f = Keyed(name, L, i)
  OBVIOUS
<1>6. PICK fs : fs = Append(below, f)
  OBVIOUS
<1>7. PICK g : g = After(a.name, Inner(a), Items(Inner(a)))
  OBVIOUS
<1>8. mode = "return" /\ at = y - 1 /\ frames = Append(fs, g) /\ arg = <<>>
  BY <1>4, <1>5, <1>6, <1>7 DEF AtReturn, Here
<1>9. ReturnNestedMoves
  BY <1>8, StepsByMode
<1>10. fs[Len(fs)] = f /\ IsStack(fs)
  BY <1>1, <1>6, Stacked
<1>11. Front0(frames) = fs /\ Top(frames) = g
  BY <1>8, <1>10, Stacked
<1>12. ~AtEnd
  <2>1. y - 1 <= Len(t)
    BY <1>2, <1>4 DEF ItemIs
  <2>2. y - 1 \in Int
    OBVIOUS
  <2>3. QED
    BY <1>1, <1>8, <2>1, <2>2 DEF AtEnd
<1>13. PICK r : r = Store(f, AttrParam(<<>>, Parsed(g)))
  OBVIOUS
<1>14. r = After(name, L, i)
  <2>1. AttrParam(<<>>, Parsed(g)) = ArgOf(ArgAt(L, i))
    BY <1>3, <1>7, NestedRead
  <2>2. QED
    BY <1>1, <1>5, <1>13, <2>1, Stores
<1>15. [fs EXCEPT ![Len(fs)] = r] = Append(below, r)
  BY <1>1, <1>6, TopReplaced
<1>16. Moves("stored", y - 1, [fs EXCEPT ![Len(fs)] = r], <<>>)
  BY <1>8, <1>9, <1>10, <1>11, <1>12, <1>13 DEF ReturnNestedMoves, Callers
<1>17. Moves("stored", S[i + 1] - 1, Append(below, After(name, L, i)), <<>>)
  BY <1>4, <1>14, <1>15, <1>16
<1>18. Here("stored", S[i + 1] - 1, Append(below, After(name, L, i)), <<>>)'
  BY <1>17, MovesTo
<1>19. QED
  BY <1>18 DEF AtStored

-----------------------------------------------------------------------------
(* Where the parser is in a list and in the lists that are nested in it.   *)

OnLevel(below, name, L, b, S) ==
    \/ AtCall(below, name, L, b)
    \/ \E i : AtItem(below, name, L, S, i)
    \/ AtClose(below, name, L, S)
    \/ \E i, j : InValue(below, name, L, S, i, j)
    \/ \E i : AtNested(below, name, L, S, i)
    \/ \E i : AtArgument(below, name, L, S, i)
    \/ \E i : AtStored(below, name, L, S, i)
    \/ AtReturn(below, name, L, S)

LEMMA LevelStep ==
    ASSUME NEW t, NEW b, NEW L, NEW S, NEW below, NEW name,
           Reading(t, b, L, S, below), OnLevel(below, name, L, b, S), ParserStep
    PROVE  \/ OnLevel(below, name, L, b, S)'
           \/ \E i : AtNested(below, name, L, S, i)
           \/ AtReturn(below, name, L, S)
<1>1. CASE AtCall(below, name, L, b)
  BY <1>1, CallStep DEF OnLevel
<1>2. ASSUME NEW i, AtItem(below, name, L, S, i) PROVE OnLevel(below, name, L, b, S)'
  BY <1>2, ItemStep DEF OnLevel
<1>3. CASE AtClose(below, name, L, S)
  BY <1>3, CloseStep DEF OnLevel
<1>4. ASSUME NEW i, NEW j, InValue(below, name, L, S, i, j) PROVE OnLevel(below, name, L, b, S)'
  BY <1>4, ValueStep DEF OnLevel
<1>5. ASSUME NEW i, AtArgument(below, name, L, S, i) PROVE OnLevel(below, name, L, b, S)'
  BY <1>5, ArgumentStep DEF OnLevel
<1>6. ASSUME NEW i, AtStored(below, name, L, S, i) PROVE OnLevel(below, name, L, b, S)'
  BY <1>6, StoredStep DEF OnLevel
<1>7. QED
  BY <1>1, <1>2, <1>3, <1>4, <1>5, <1>6 DEF OnLevel

LEMMA LevelModes ==
    ASSUME NEW b, NEW L, NEW S, NEW below, NEW name, OnLevel(below, name, L, b, S)
    PROVE  mode # "undefined" /\ (mode = "return" => AtReturn(below, name, L, S))
BY DEF OnLevel, AtCall, AtItem, AtClose, InValue, AtNested, AtArgument, AtStored, AtReturn, Here

OnNested(name, w, S, i, R) ==
    OnLevel(Append(<<>>, Keyed(name, w, i)), ArgAt(w, i).name, Inner(ArgAt(w, i)), ValueAt(w, S, i) + 1, R)

Whole(t, w, S) == Layout(t, 0, w, S) /\ S[Items(w) + 1] = Len(t) + 1 /\ (Items(w) = 0 => 0 + 1 > Len(t))

ParserAt(t, name, w) ==
    \E S : /\ Whole(t, w, S)
           /\ \/ OnLevel(<<>>, name, w, 0, S)
              \/ \E i, R : NestedIn(t, w, S, i, R) /\ OnNested(name, w, S, i, R)

LEMMA EmptyStack == IsStack(<<>>) /\ Len(<<>>) = 0
<1>1. <<>> \in Seq({}) /\ Len(<<>>) = 0
  OBVIOUS
<1>2. QED
  BY <1>1 DEF IsStack

\* A stack of one or two calls.
LEMMA OneCall ==
    ASSUME NEW f
    PROVE  /\ IsStack(Append(<<>>, f)) /\ Len(Append(<<>>, f)) = 1 /\ Append(<<>>, f)[1] = f
           /\ \A g : Len(Append(Append(<<>>, f), g)) = 2
<1>1. PICK s : s = Append(<<>>, f)
  OBVIOUS
<1>2. IsStack(s) /\ Len(s) = 0 + 1 /\ s[Len(s)] = f
  BY <1>1, EmptyStack, Stacked
<1>3. ASSUME NEW g PROVE Len(Append(s, g)) = 2
  <2>1. Len(Append(s, g)) = Len(s) + 1
    BY <1>2, Stacked
  <2>2. QED
    BY <1>2, <2>1
<1>4. QED
  BY <1>1, <1>2, <1>3

LEMMA WholeReading == ASSUME NEW t, NEW w, NEW S, Whole(t, w, S), toks = t PROVE Reading(t, 0, w, S, <<>>)
BY EmptyStack DEF Whole, Reading

LEMMA NestedReading ==
    ASSUME NEW t, NEW name, NEW w, NEW S, NEW i, NEW R, NestedIn(t, w, S, i, R), toks = t
    PROVE  Reading(t, ValueAt(w, S, i) + 1, Inner(ArgAt(w, i)), R, Append(<<>>, Keyed(name, w, i)))
BY OneCall DEF NestedIn, Reading

\* What is nested has nothing nested in it.
LEMMA NotNestedTwice ==
    ASSUME NEW t, NEW name, NEW w, NEW S, NEW i, NEW R, Whole(t, w, S), NestedIn(t, w, S, i, R), NEW below, NEW k
    PROVE  ~AtNested(below, ArgAt(w, i).name, Inner(ArgAt(w, i)), R, k)
<1>1. i \in 1..Items(w) /\ ArgAt(w, i).name # Nil
  BY DEF NestedIn
<1>2. ItemIs(t, w, S, i)
  BY <1>1, ItemFacts DEF Whole
<1>3. IsArgument(ArgAt(w, i))
  BY <1>2 DEF ItemIs
<1>4. PICK L : L = Inner(ArgAt(w, i))
  OBVIOUS
<1>5. ASSUME k \in 1..Items(L) PROVE ArgAt(L, k).name = Nil
  BY <1>1, <1>3, <1>4, <1>5, InnerItems DEF Expr
<1>6. QED
  BY <1>4, <1>5 DEF AtNested

LEMMA ParserMoves ==
    ASSUME NEW t, NEW name, NEW w, toks = t, ParserAt(t, name, w), ParserStep
    PROVE  ParserAt(t, name, w)'
<1>1. PICK S : Whole(t, w, S) /\ (OnLevel(<<>>, name, w, 0, S)
                                  \/ \E i, R : NestedIn(t, w, S, i, R) /\ OnNested(name, w, S, i, R))
  BY DEF ParserAt
<1>2. Reading(t, 0, w, S, <<>>)
  BY <1>1, WholeReading
<1>3. CASE OnLevel(<<>>, name, w, 0, S)
  <2>1. CASE OnLevel(<<>>, name, w, 0, S)'
    BY <1>1, <2>1 DEF ParserAt
  <2>2. ASSUME NEW i, AtNested(<<>>, name, w, S, i) PROVE ParserAt(t, name, w)'
    <3>1. AtCall(Append(<<>>, Keyed(name, w, i)), ArgAt(w, i).name, Inner(ArgAt(w, i)), ValueAt(w, S, i) + 1)'
      BY <1>2, <2>2, NestedStep
    <3>3. i \in 1..Items(w) /\ ArgAt(w, i).name # Nil
      BY <2>2 DEF AtNested
    <3>4. PICK R : NestedIn(t, w, S, i, R)
      BY <1>1, <3>3, NestedLayout DEF Whole
    <3>5. OnNested(name, w, S, i, R)'
      BY <3>1 DEF OnNested, OnLevel
    <3>6. QED
      BY <1>1, <3>4, <3>5 DEF ParserAt
  <2>3. ~AtReturn(<<>>, name, w, S)
    BY ReturnStep
  <2>4. QED
    BY <1>2, <1>3, <2>1, <2>2, <2>3, LevelStep
<1>4. ASSUME NEW i, NEW R, NestedIn(t, w, S, i, R), OnNested(name, w, S, i, R) PROVE ParserAt(t, name, w)'
  <2>1. PICK a : a = ArgAt(w, i)
    OBVIOUS
  <2>2. PICK below : below = Append(<<>>, Keyed(name, w, i))
    OBVIOUS
  <2>3. PICK b : b = ValueAt(w, S, i) + 1
    OBVIOUS
  <2>4. Reading(t, b, Inner(a), R, below)
    BY <1>4, <2>1, <2>2, <2>3, NestedReading
  <2>5. OnLevel(below, a.name, Inner(a), b, R)
    BY <1>4, <2>1, <2>2, <2>3 DEF OnNested
  <2>6. CASE OnLevel(below, a.name, Inner(a), b, R)'
    <3>1. OnNested(name, w, S, i, R)'
      BY <2>1, <2>2, <2>3, <2>6 DEF OnNested
    <3>2. QED
      BY <1>1, <1>4, <3>1 DEF ParserAt
  <2>7. ~\E k : AtNested(below, a.name, Inner(a), R, k)
    BY <1>1, <1>4, <2>1, NotNestedTwice
  <2>8. CASE AtReturn(below, a.name, Inner(a), R)
    <3>1. i \in 1..Items(w) /\ a.name # Nil /\ R[Items(Inner(a)) + 1] = S[i + 1] - 1
      BY <1>4, <2>1 DEF NestedIn
    <3>2. AtReturn(Append(<<>>, Keyed(name, w, i)), a.name, Inner(a), R)
      BY <2>2, <2>8
    <3>3. AtStored(<<>>, name, w, S, i)'
      BY <1>2, <2>1, <3>1, <3>2, NestedReturnStep
    <3>4. OnLevel(<<>>, name, w, 0, S)'
      BY <3>3 DEF OnLevel
    <3>5. QED
      BY <1>1, <3>4 DEF ParserAt
  <2>9. QED
    BY <2>4, <2>5, <2>6, <2>7, <2>8, LevelStep
<1>5. QED
  BY <1>1, <1>3, <1>4

\* The parser does not read past the end and is done at the end.
LEMMA ParserAnswers ==
    ASSUME NEW t, NEW name, NEW w, toks = t, IsList(w), ParserAt(t, name, w)
    PROVE  mode # "undefined" /\ (ParserDone => at = Len(toks) + 1 /\ Result = MeaningOf(name, w))
<1>1. PICK S : Whole(t, w, S) /\ (OnLevel(<<>>, name, w, 0, S)
                                  \/ \E i, R : NestedIn(t, w, S, i, R) /\ OnNested(name, w, S, i, R))
  BY DEF ParserAt
<1>2. CASE OnLevel(<<>>, name, w, 0, S)
  <2>1. mode # "undefined" /\ (mode = "return" => AtReturn(<<>>, name, w, S))
    BY <1>2, LevelModes
  <2>2. ASSUME AtReturn(<<>>, name, w, S) PROVE at = Len(toks) + 1 /\ Result = MeaningOf(name, w)
    <3>1. PICK f : f = After(name, w, Items(w))
      OBVIOUS
    <3>2. at = Len(toks) + 1 /\ frames = Append(<<>>, f)
      BY <1>1, <2>2, <3>1 DEF AtReturn, Here, Whole
    <3>3. frames[1] = f
      BY <3>2, OneCall
    <3>4. QED
      BY <3>1, <3>2, <3>3, AllRead DEF Result
  <2>3. QED
    BY <2>1, <2>2 DEF ParserDone
<1>3. ASSUME NEW i, NEW R, OnNested(name, w, S, i, R) PROVE mode # "undefined" /\ ~ParserDone
  <2>1. PICK below : below = Append(<<>>, Keyed(name, w, i))
    OBVIOUS
  <2>2. PICK b : b = ValueAt(w, S, i) + 1
    OBVIOUS
  <2>3. PICK L : L = Inner(ArgAt(w, i))
    OBVIOUS
  <2>4. PICK n : n = ArgAt(w, i).name
    OBVIOUS
  <2>5. mode # "undefined" /\ (mode = "return" => AtReturn(below, n, L, R))
    BY <1>3, <2>1, <2>2, <2>3, <2>4, LevelModes DEF OnNested
  <2>6. ASSUME AtReturn(below, n, L, R) PROVE Len(frames) = 2
    <3>1. \E g : frames = Append(below, g)
      BY <2>6 DEF AtReturn, Here
    <3>2. QED
      BY <2>1, <3>1, OneCall
  <2>7. QED
    BY <2>5, <2>6 DEF ParserDone
<1>4. QED
  BY <1>1, <1>2, <1>3

LEMMA ParserStarts ==
    ASSUME NEW name, NEW w, IsList(w), w.cut = 0, StartParsing(TextOf(w), name)
    PROVE  ParserAt(TextOf(w), name, w)' /\ toks' = TextOf(w)
<1>1. PICK t : t = TextOf(w)
  OBVIOUS
<1>2. ItemsAre(w)
  BY ListItems
<1>3. PICK c : c = TextsOf(w)
  OBVIOUS
<1>4. c \in Seq(Seq(Token)) /\ Len(c) = Items(w) /\ t = List(c)
  BY <1>1, <1>2, <1>3, TextsAre, TextIsList
<1>5. PICK S : LaidOut(t, 0, c, S) /\ S[Items(w) + 1] = Len(t) + 1
  BY <1>4, ListIsLaidOut
<1>6. Len(t) \in Nat
  BY <1>4, ListIsLaidOut
<1>7. ASSUME Items(w) = 0 PROVE 0 + 1 > Len(t)
  <2>1. c = <<>>
    <3>1. Len(c) = 0
      BY <1>4, <1>7
    <3>2. QED
      BY <1>4, <3>1, EmptyIs
  <2>2. t = <<>>
    BY <1>4, <2>1, ListIs
  <2>3. Len(t) = 0
    BY <2>2
  <2>4. QED
    BY <2>3
<1>8. Whole(t, w, S)
  BY <1>2, <1>3, <1>5, <1>6, <1>7 DEF Whole, Layout
<1>9. AtCall(<<>>, name, w, 0)'
  <2>1. mode' = "call" /\ at' = 1 /\ frames' = <<Frame(name)>> /\ arg' = <<>>
    BY DEF StartParsing
  <2>2. PICK f : f = Frame(name)
    OBVIOUS
  <2>3. <<f>> = Append(<<>>, f)
    OBVIOUS
  <2>4. After(name, w, 0) = f
    BY <1>2, <2>2, NoneRead
  <2>5. frames' = Append(<<>>, After(name, w, 0)) /\ 0 + 1 = 1
    BY <2>1, <2>2, <2>3, <2>4
  <2>6. QED
    BY <2>1, <2>5 DEF AtCall, Here
<1>10. ParserAt(t, name, w)'
  BY <1>8, <1>9 DEF ParserAt, OnLevel
<1>11. toks' = t
  BY <1>1 DEF StartParsing
<1>12. QED
  BY <1>1, <1>10, <1>11

LEMMA StepIsParsing == ParserStep => mode # "idle" /\ mode' # "idle" /\ toks' = toks
BY DEF ParserStep, OpenList, CloseList, KeywordArg, RegularArg, NoArg, NestedAttr, TakeArgToken, FinishArg,
       ReturnNested, Comma, NoComma, Return

-----------------------------------------------------------------------------
(* What is parsed of an attribute.                                         *)

ParseInv ==
    /\ phase \in {"start", "clang", "walk"} => mode = "idle"
    /\ phase # "start" => attr \in DOMAIN Written /\ written \in Written[attr]
    /\ mode # "idle" => phase # "start"
    /\ mode # "idle" /\ written.cut = 0 => toks = TextOf(written) /\ ParserAt(TextOf(written), attr, written)

LEMMA ParseInit == AttrInit => ParseInv
BY DEF AttrInit, ParserIdle, ParseInv

LEMMA SamePlace ==
    ASSUME UNCHANGED parserVars, NEW b, NEW L, NEW S, NEW below, NEW name, OnLevel(below, name, L, b, S)
    PROVE  OnLevel(below, name, L, b, S)'
<1>1. ASSUME NEW m, NEW p, NEW fs, NEW a, Here(m, p, fs, a) PROVE Here(m, p, fs, a)'
  BY <1>1 DEF Here, parserVars
<1>2. QED
  BY <1>1 DEF OnLevel, AtCall, AtItem, AtClose, InValue, AtNested, AtArgument, AtStored, AtReturn

\* What does not parse.
LEMMA OthersKeepParsing ==
    ASSUME ParseInv, UNCHANGED <<parserVars, attr, written>>,
           phase' = phase \/ (phase # "start" /\ phase' # "start" /\ (phase' = "walk" => phase = "clang") /\ phase' # "clang")
    PROVE  ParseInv'
<1>1. mode' = mode /\ toks' = toks /\ at' = at /\ frames' = frames /\ arg' = arg /\ attr' = attr /\ written' = written
  BY DEF parserVars
<1>2. ASSUME mode # "idle", written.cut = 0 PROVE (toks = TextOf(written) /\ ParserAt(TextOf(written), attr, written))'
  <2>1. PICK t : t = TextOf(written)
    OBVIOUS
  <2>2. PICK w : w = written
    OBVIOUS
  <2>3. PICK name : name = attr
    OBVIOUS
  <2>4. toks = t /\ ParserAt(t, name, w)
    BY <1>2, <2>1, <2>2, <2>3 DEF ParseInv
  <2>5. ParserAt(t, name, w)'
    <3>1. PICK S : Whole(t, w, S) /\ (OnLevel(<<>>, name, w, 0, S)
                                      \/ \E i, R : NestedIn(t, w, S, i, R) /\ OnNested(name, w, S, i, R))
      BY <2>4 DEF ParserAt
    <3>2. CASE OnLevel(<<>>, name, w, 0, S)
      BY <3>1, <3>2, SamePlace DEF ParserAt
    <3>3. ASSUME NEW i, NEW R, NestedIn(t, w, S, i, R), OnNested(name, w, S, i, R) PROVE ParserAt(t, name, w)'
      <4>1. OnNested(name, w, S, i, R)'
        BY <3>3, SamePlace DEF OnNested
      <4>2. QED
        BY <3>1, <3>3, <4>1 DEF ParserAt
    <3>4. QED
      BY <3>1, <3>2, <3>3
  <2>6. QED
    BY <1>1, <2>1, <2>2, <2>3, <2>4, <2>5
<1>3. QED
  BY <1>1, <1>2 DEF ParseInv
LEMMA ParseNext == ASSUME ParseInv, [AttrNext]_attrVars PROVE ParseInv'
<1>1. CASE RegisterHandler
  BY <1>1, OthersKeepParsing DEF RegisterHandler, lifeVars
<1>2. CASE Write
  BY <1>2 DEF Write, ParseInv, parserVars
<1>3. CASE Attach
  BY <1>3, OthersKeepParsing DEF Attach, End
<1>4. CASE CheckAttrs
  BY <1>4, OthersKeepParsing DEF CheckAttrs, End
<1>5. CASE BeginParsing
  <2>1. phase = "parse" /\ StartParsing(TextOf(written), attr) /\ phase' = phase /\ attr' = attr /\ written' = written
    BY <1>5 DEF BeginParsing, lifeVars
  <2>2. attr \in DOMAIN Written /\ written \in Written[attr]
    BY <2>1 DEF ParseInv
  <2>3. IsList(written)
    BY <2>2, WrittenAssumption DEF WrittenAssumption
  <2>4. ASSUME written.cut = 0 PROVE (toks = TextOf(written) /\ ParserAt(TextOf(written), attr, written))'
    <3>1. PICK w : w = written
      OBVIOUS
    <3>2. PICK name : name = attr
      OBVIOUS
    <3>3. PICK t : t = TextOf(w)
      OBVIOUS
    <3>4. ParserAt(t, name, w)' /\ toks' = t
      BY <2>1, <2>3, <2>4, <3>1, <3>2, <3>3, ParserStarts
    <3>5. QED
      BY <2>1, <3>1, <3>2, <3>3, <3>4
  <2>5. QED
    BY <2>1, <2>2, <2>4 DEF ParseInv
<1>6. CASE Parse
  <2>1. phase = "parse" /\ ParserStep /\ phase' = phase /\ attr' = attr /\ written' = written
    BY <1>6 DEF Parse, lifeVars
  <2>2. attr \in DOMAIN Written /\ written \in Written[attr]
    BY <2>1 DEF ParseInv
  <2>3. mode # "idle" /\ toks' = toks
    BY <2>1, StepIsParsing
  <2>4. ASSUME written.cut = 0 PROVE (toks = TextOf(written) /\ ParserAt(TextOf(written), attr, written))'
    <3>1. PICK w : w = written
      OBVIOUS
    <3>2. PICK name : name = attr
      OBVIOUS
    <3>3. PICK t : t = TextOf(w)
      OBVIOUS
    <3>4. toks = t /\ ParserAt(t, name, w)
      BY <2>3, <2>4, <3>1, <3>2, <3>3 DEF ParseInv
    <3>5. ParserAt(t, name, w)'
      BY <2>1, <3>4, ParserMoves
    <3>6. QED
      BY <2>1, <2>3, <3>1, <3>2, <3>3, <3>4, <3>5
  <2>5. QED
    BY <2>1, <2>2, <2>4 DEF ParseInv
<1>7. CASE CheckParams
  BY <1>7, OthersKeepParsing DEF CheckParams, End
<1>8. CASE HandleNode
  BY <1>8, OthersKeepParsing DEF HandleNode, End
<1>9. CASE LauncherPass
  BY <1>9, OthersKeepParsing DEF LauncherPass
<1>10. CASE Accept
  BY <1>10, OthersKeepParsing DEF Accept, End
<1>11. CASE UNCHANGED attrVars
  BY <1>11, OthersKeepParsing DEF attrVars, lifeVars
<1>12. QED
  BY <1>1, <1>2, <1>3, <1>4, <1>5, <1>6, <1>7, <1>8, <1>9, <1>10, <1>11 DEF AttrNext

\* The parser takes the text apart as it was written, whatever is written, how
\* long or deep, and never looks past its tokens (ParseOKLAttr).
THEOREM TextIsParsed == AttrSpec => []ParsedAsWritten
<1>1. ASSUME ParseInv PROVE ParsedAsWritten
  <2> SUFFICES ASSUME written.cut = 0
               PROVE  mode # "undefined" /\ (ParserDone => at = Len(toks) + 1 /\ Result = MeaningOf(attr, written))
    BY DEF ParsedAsWritten
  <2>1. CASE mode = "idle"
    BY <2>1 DEF ParserDone
  <2>2. CASE mode # "idle"
    <3>1. toks = TextOf(written) /\ ParserAt(TextOf(written), attr, written) /\ attr \in DOMAIN Written /\ written \in Written[attr]
      BY <1>1, <2>2 DEF ParseInv
    <3>2. IsList(written)
      BY <3>1, WrittenAssumption DEF WrittenAssumption
    <3>3. QED
      BY <3>1, <3>2, ParserAnswers
  <2>3. QED
    BY <2>1, <2>2
<1>2. ParseInv /\ [AttrNext]_attrVars => ParseInv'
  BY ParseNext
<1>3. QED
  BY <1>1, <1>2, ParseInit, PTL DEF AttrSpec
=============================================================================
