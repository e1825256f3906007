--------------------------- MODULE LoopCodeProofs ---------------------------
(***************************************************************************)
(* What the threads of a launch run is what the source loop runs, for      *)
(* every header and tile size: the dimensions that the launcher computes   *)
(* and the values that the kernel computes fit together.                   *)
(***************************************************************************)
EXTENDS LoopCode, FiniteSetTheorems, TLAPS

LEMMA ProductsOrder ==
    ASSUME NEW a \in Int, NEW b \in Int, NEW s \in Nat \ {0}, a * s < b * s
    PROVE  a < b
<1>1. SUFFICES ASSUME a >= b PROVE FALSE
  OBVIOUS
<1>2. PICK d \in Nat : a = b + d
  <2>1. a - b \in Nat /\ a = b + (a - b)
    BY <1>1
  <2> QED
    BY <2>1
<1>3. a * s = b * s + d * s
  BY <1>2
<1>4. d * s >= 0
  OBVIOUS
<1> QED
  BY <1>3, <1>4

LEMMA Division ==
    ASSUME NEW a \in Nat, NEW s \in Nat \ {0}
    PROVE  a \div s \in Int /\ a < (a \div s + 1) * s
OBVIOUS

LEMMA DivisionBelow ==
    ASSUME NEW a \in Nat, NEW s \in Nat \ {0}
    PROVE  a \div s \in Nat /\ (a \div s) * s <= a
OBVIOUS

LEMMA ProductsAtMost ==
    ASSUME NEW a \in Int, NEW b \in Int, NEW s \in Nat, a <= b
    PROVE  a * s <= b * s
<1>1. PICK d \in Nat : b = a + d
  <2>1. b - a \in Nat /\ b = a + (b - a)
    OBVIOUS
  <2> QED
    BY <2>1
<1>2. b * s = a * s + d * s /\ d * s >= 0
  BY <1>1
<1> QED
  BY <1>2

\* The values of the loop, counted from the start, number fewer than RunDim.
LEMMA IndexBelowDim ==
    ASSUME NEW h, h.start \in Int, h.end \in Int, h.inc \in Nat,
           h.op \in {"<", "<=", ">", ">="}, NEW k \in Nat,
           Compare(h.op, h.start + Direction(h) * Step(h) * k, h.end)
    PROVE  k \in Indices(h)
<1> DEFINE range == RangeSize(h) + IF h.op \in {"<=", ">="} THEN 1 ELSE 0
<1>1. range \in Int
  BY DEF RangeSize
<1>2. CASE h.inc = 0
  <2>1. k < range
    BY <1>2 DEF Compare, Direction, IsInc, Step, RangeSize
  <2> QED
    BY <1>1, <1>2, <2>1 DEF Indices, RunDim
<1>3. CASE h.inc # 0
  <2> DEFINE s == h.inc
             q == (range + s - 1) \div s
  <2>1. s \in Nat \ {0} /\ Step(h) = s
    BY <1>3 DEF Step
  <2>2. PICK p \in Int : p = s * k
    BY <2>1
  <2>3. Direction(h) * Step(h) * k = IF IsInc(h) THEN p ELSE -p
    BY <2>1, <2>2 DEF Direction
  <2>4. p < range
    BY <2>2, <2>3 DEF Compare, IsInc, RangeSize
  <2>5. p >= 0
    BY <2>1, <2>2
  <2>6. range + s - 1 \in Nat /\ range + s - 1 >= p + s
    BY <1>1, <2>1, <2>2, <2>4, <2>5
  <2>7. q \in Int /\ range + s - 1 < (q + 1) * s
    BY <2>1, <2>6, Division
  <2>8. p + s = (k + 1) * s
    BY <2>1, <2>2
  <2>9. (k + 1) * s < (q + 1) * s
    BY <1>1, <2>1, <2>2, <2>6, <2>7, <2>8
  <2>10. k + 1 < q + 1
    <3> HIDE DEF s, q
    <3> QED
      BY <2>1, <2>7, <2>9, ProductsOrder
  <2>11. RunDim(h) = q
    BY <1>3, <2>6 DEF RunDim, Quotient
  <2> QED
    BY <2>7, <2>10, <2>11 DEF Indices
<1> QED
  BY <1>2, <1>3

\* An index of the launch is that of a value of the loop.
LEMMA IndexIsValue ==
    ASSUME NEW h, h.start \in Int, h.end \in Int, h.inc \in Nat,
           h.op \in {"<", "<=", ">", ">="}, NEW k \in Indices(h)
    PROVE  k \in Nat /\ Compare(h.op, h.start + Direction(h) * Step(h) * k, h.end)
<1> DEFINE range == RangeSize(h) + IF h.op \in {"<=", ">="} THEN 1 ELSE 0
<1>1. range \in Int
  BY DEF RangeSize
<1>2. CASE h.inc = 0
  <2>1. k \in Nat /\ k < range
    BY <1>1, <1>2 DEF Indices, RunDim
  <2> QED
    BY <1>2, <2>1 DEF Compare, Direction, IsInc, Step, RangeSize
<1>3. CASE h.inc # 0
  <2> DEFINE s == h.inc
             m == range + s - 1
             q == m \div s
  <2>1. s \in Nat \ {0} /\ Step(h) = s /\ m \in Int
    BY <1>1, <1>3 DEF Step
  <2>2. CASE m >= 0
    <3>1. RunDim(h) = q
      BY <1>3, <2>2 DEF RunDim, Quotient
    <3>2. q \in Nat /\ q * s <= m
      BY <2>1, <2>2, DivisionBelow
    <3>3. k \in Nat /\ k + 1 <= q
      BY <3>1, <3>2 DEF Indices
    <3>4. PICK p \in Nat : p = s * k
      BY <2>1, <3>3
    <3>5. p + s <= m
      <4>1. (k + 1) * s = p + s
        BY <2>1, <3>3, <3>4
      <4> HIDE DEF q, s, m
      <4>2. (k + 1) * s <= q * s
        BY <2>1, <3>2, <3>3, ProductsAtMost
      <4>3. p + s \in Int /\ q * s \in Int
        BY <2>1, <3>2, <3>4
      <4>4. QED
        BY <2>1, <3>2, <4>1, <4>2, <4>3
    <3>6. p < range
      BY <1>1, <2>1, <3>4, <3>5
    <3>7. Direction(h) * Step(h) * k = IF IsInc(h) THEN p ELSE -p
      BY <2>1, <3>3, <3>4 DEF Direction
    <3>8. QED
      BY <3>3, <3>4, <3>6, <3>7 DEF Compare, IsInc, RangeSize
  <2>3. CASE m < 0
    <3>1. RunDim(h) = -((-m) \div s)
      BY <1>3, <2>1, <2>3 DEF RunDim, Quotient
    <3>2. (-m) \div s \in Nat
      BY <2>1, <2>3, DivisionBelow
    <3>3. QED
      BY <3>1, <3>2 DEF Indices
  <2>4. QED
    BY <2>1, <2>2, <2>3
<1> QED
  BY <1>2, <1>3

\* What is a value of a loop, without a bound on its index.
Counted(start, end, op, step, dir) ==
    \A v : v \in Values(start, end, op, step) <=>
              \E k \in Nat : v = start + dir * step * k /\ Compare(op, v, end)

LEMMA ValuesAre ==
    ASSUME NEW start \in Int, NEW end \in Int, NEW op \in {"<", "<=", ">", ">="}, NEW step \in Nat \ {0},
           NEW dir \in {1, -1}, dir = 1 <=> op \in {"<", "<="}
    PROVE  Counted(start, end, op, step, dir)
<1> DEFINE far == IF start < end THEN end - start ELSE start - end
<1>1. far \in Nat
  OBVIOUS
<1>2. ASSUME NEW k \in Nat, Compare(op, start + dir * step * k, end) PROVE k \in 0..far
  <2>1. PICK p \in Nat : p = step * k
    OBVIOUS
  <2>2. k <= p
    <3>1. 1 * k <= step * k
      BY ProductsAtMost
    <3>2. QED
      BY <2>1, <3>1
  <2>3. dir * step * k = IF op \in {"<", "<="} THEN p ELSE -p
    BY <2>1
  <2>4. p <= far
    BY <1>2, <2>1, <2>3 DEF Compare
  <2> HIDE DEF far
  <2>5. QED
    BY <1>1, <2>1, <2>2, <2>4
<1>3. Values(start, end, op, step) = {v \in {start + dir * step * k : k \in 0..far} : Compare(op, v, end)}
  BY DEF Values
<1> DEFINE at(k) == start + dir * step * k
<1> HIDE DEF far, at
<1>4. Values(start, end, op, step) = {v \in {at(k) : k \in 0..far} : Compare(op, v, end)}
  BY <1>3 DEF at
<1>5. \A k \in Nat : Compare(op, at(k), end) => k \in 0..far
  BY <1>2 DEF at
<1>6. \A k \in 0..far : k \in Nat
  BY <1>1
<1>7. \A v : v \in Values(start, end, op, step) <=> \E k \in Nat : v = at(k) /\ Compare(op, v, end)
  BY <1>4, <1>5, <1>6
<1>8. QED
  BY <1>7 DEF at, Counted

-----------------------------------------------------------------------------
(* Where the values of the loop end, as a number of steps of one.          *)

CaseOK == \E c \in Cases : loop = c.loop /\ backend = c.backend

LoopAgreed == Agreed([loop |-> loop, backend |-> backend])

Length == RangeSize(loop) + IF loop.op \in {"<=", ">="} THEN 1 ELSE 0

Dir == Direction(loop)

LEMMA CaseFields ==
    ASSUME CaseOK
    PROVE  /\ loop \in Loop /\ backend \in {"device", "host"}
           /\ loop.start \in Int /\ loop.end \in Int /\ loop.inc \in Nat
           /\ loop.op \in {"<", "<=", ">", ">="}
           /\ loop.tileSize \in Nat \ {0} /\ loop.check \in BOOLEAN /\ loop.type \in Types
           /\ Step(loop) \in Nat \ {0} /\ Dir \in {1, -1} /\ Length \in Int
           /\ Dir = IF loop.op \in {"<", "<="} THEN 1 ELSE -1
<1>1. loop \in Loop /\ backend \in {"device", "host"}
  BY CasesAssumption DEF CaseOK
<1>2. /\ loop.start \in Int /\ loop.end \in Int /\ loop.inc \in Nat
      /\ loop.op \in {"<", "<=", ">", ">="}
      /\ loop.tileSize \in Nat \ {0} /\ loop.check \in BOOLEAN /\ loop.type \in Types
  BY <1>1 DEF Loop, Comparisons
<1>3. Step(loop) \in Nat \ {0} /\ Dir \in {1, -1} /\ Length \in Int
  BY <1>2 DEF Step, Dir, Direction, Length, RangeSize
<1>4. Dir = IF loop.op \in {"<", "<="} THEN 1 ELSE -1
  BY DEF Dir, Direction, IsInc
<1>5. QED
  BY <1>1, <1>2, <1>3, <1>4

LEMMA CompareIsBelow ==
    ASSUME CaseOK, NEW k \in Nat
    PROVE  Compare(loop.op, loop.start + Dir * k, loop.end) <=> k < Length
BY CaseFields DEF Compare, Dir, Direction, IsInc, Length, RangeSize

\* The iterations in steps, and in steps of one.
LEMMA IterationsAre ==
    ASSUME CaseOK
    PROVE  \A v : v \in Iterations <=>
                      \E k \in Nat : v = loop.start + Dir * Step(loop) * k /\ Compare(loop.op, v, loop.end)
<1>1. /\ loop.start \in Int /\ loop.end \in Int /\ loop.op \in {"<", "<=", ">", ">="}
      /\ Step(loop) \in Nat \ {0} /\ Dir = IF loop.op \in {"<", "<="} THEN 1 ELSE -1
  BY CaseFields
<1>2. Dir \in {1, -1} /\ (Dir = 1 <=> loop.op \in {"<", "<="})
  BY CaseFields
<1>3. Counted(loop.start, loop.end, loop.op, Step(loop), Dir)
  BY <1>1, <1>2, ValuesAre
<1>4. QED
  BY <1>3 DEF Counted, Iterations

LEMMA UnitIterations ==
    ASSUME CaseOK, Step(loop) = 1
    PROVE  \A v : v \in Iterations <=> \E k \in Nat : v = loop.start + Dir * k /\ k < Length
<1>1. \A k \in Nat : Dir * Step(loop) * k = Dir * k
  BY CaseFields
<1>2. \A k \in Nat : Compare(loop.op, loop.start + Dir * k, loop.end) <=> k < Length
  BY CompareIsBelow
<1> DEFINE at(k) == loop.start + Dir * k
<1>3. \A v : v \in Iterations <=> \E k \in Nat : v = at(k) /\ Compare(loop.op, v, loop.end)
  BY <1>1, IterationsAre
<1>4. \A k \in Nat : Compare(loop.op, at(k), loop.end) <=> k < Length
  BY <1>2
<1> HIDE DEF at
<1>5. \A v : v \in Iterations <=> \E k \in Nat : v = at(k) /\ k < Length
  BY <1>3, <1>4
<1>6. QED
  BY <1>5 DEF at

-----------------------------------------------------------------------------
(* The dimensions of the launch for the two loops of a tile.               *)

LEMMA FirstDim ==
    ASSUME CaseOK, Step(loop) = 1
    PROVE  \A a : a \in Indices(FirstOfTile(loop, loop.tileSize)) <=>
                      a \in Nat /\ loop.tileSize * a < Length
<1> DEFINE h == FirstOfTile(loop, loop.tileSize)
           T == loop.tileSize
<1>1. /\ h.start = loop.start /\ h.end = loop.end /\ h.op = loop.op
      /\ h.inc = IF loop.inc = 0 THEN T ELSE T * loop.inc
  BY CaseFields DEF FirstOfTile, Loop
<1>2. T \in Nat \ {0} /\ (loop.inc # 0 => loop.inc = 1)
  BY CaseFields DEF Step
<1>3. h.inc = T /\ Step(h) = T /\ Direction(h) = Dir
  BY <1>1, <1>2 DEF Step, Dir, Direction, IsInc
<1>4. /\ h.start \in Int /\ h.end \in Int /\ h.inc \in Nat /\ h.op \in {"<", "<=", ">", ">="}
  BY <1>1, <1>2, <1>3, CaseFields
<1> HIDE DEF h, T
<1>5. ASSUME NEW a \in Nat
      PROVE  Compare(h.op, h.start + Direction(h) * Step(h) * a, h.end) <=> T * a < Length
  <2>1. T * a \in Nat
    BY <1>2
  <2>2. Dir * T * a = Dir * (T * a)
    BY <1>2, CaseFields
  <2>3. Compare(loop.op, loop.start + Dir * (T * a), loop.end) <=> T * a < Length
    BY <2>1, CompareIsBelow
  <2>4. QED
    BY <1>1, <1>3, <2>2, <2>3
<1>6. ASSUME NEW a \in Indices(h) PROVE a \in Nat /\ T * a < Length
  <2>1. a \in Nat /\ Compare(h.op, h.start + Direction(h) * Step(h) * a, h.end)
    BY <1>4, IndexIsValue
  <2>2. QED
    BY <1>5, <2>1
<1>7. ASSUME NEW a \in Nat, T * a < Length PROVE a \in Indices(h)
  <2>1. Compare(h.op, h.start + Direction(h) * Step(h) * a, h.end)
    BY <1>5, <1>7
  <2>2. QED
    BY <1>4, <2>1, IndexBelowDim
<1>8. QED
  BY <1>6, <1>7 DEF h, T

LEMMA SecondDim ==
    ASSUME CaseOK, Step(loop) = 1, IsInc(loop)
    PROVE  Indices(SecondOfTile(loop, loop.tileSize)) = 0..(loop.tileSize - 1)
<1> DEFINE h == SecondOfTile(loop, loop.tileSize)
           T == loop.tileSize
<1>1. /\ h.start = loop.start /\ h.end = loop.start + T /\ h.inc = loop.inc
      /\ h.op = CASE loop.op = "<=" -> "<" [] loop.op = ">=" -> ">" [] OTHER -> loop.op
  BY CaseFields DEF SecondOfTile, Loop
<1>2. T \in Nat \ {0} /\ (loop.inc # 0 => loop.inc = 1) /\ loop.start \in Int
  BY CaseFields DEF Step
<1>3. h.op = "<"
  BY <1>1 DEF IsInc
<1>4. RangeSize(h) = T
  BY <1>1, <1>2, <1>3 DEF RangeSize, IsInc
<1>5. RunDim(h) = T
  <2>1. CASE h.inc = 0
    BY <1>2, <1>3, <1>4, <2>1 DEF RunDim
  <2>2. CASE h.inc # 0
    <3>1. h.inc = 1
      BY <1>1, <1>2, <2>2
    <3>2. RunDim(h) = Quotient(T + 0 + 1 - 1, 1)
      BY <1>3, <1>4, <3>1 DEF RunDim
    <3>3. T + 0 + 1 - 1 = T /\ T \div 1 = T
      BY <1>2
    <3>4. QED
      BY <1>2, <3>2, <3>3 DEF Quotient
  <2>3. QED
    BY <2>1, <2>2
<1>6. QED
  BY <1>5 DEF Indices

\* What LoopAgreed says of a tile.
LEMMA AgreedTile ==
    ASSUME LoopAgreed, IsTile(loop)
    PROVE  /\ Step(loop) = 1
           /\ \/ loop.check
              \/ Cardinality(Values(loop.start, loop.end, loop.op, 1)) % loop.tileSize = 0
           /\ IsInc(loop) \/ loop.type[2] = "Regular" \/ backend = "host"
BY DEF LoopAgreed, Agreed

Columns == IF OnDevice(1) THEN {a \in Nat : loop.tileSize * a < Length} ELSE {0}

Rows == IF OnDevice(2) THEN 0..(loop.tileSize - 1) ELSE {0}

LEMMA TileGrid ==
    ASSUME CaseOK, LoopAgreed, IsTile(loop)
    PROVE  Grid = Columns \X Rows
<1>1. CASE backend = "host"
  <2>1. Columns = {0} /\ Rows = {0}
    BY <1>1 DEF Columns, Rows, OnDevice
  <2>2. Grid = {<<0, 0>>}
    BY <1>1 DEF Grid
  <2>3. QED
    BY <2>1, <2>2
<1>2. CASE backend = "device"
  <2>1. Grid = ForDevice(loop.type[1], FirstOfTile(loop, loop.tileSize))
                  \X ForDevice(loop.type[2], SecondOfTile(loop, loop.tileSize))
    BY <1>2 DEF Grid
  <2>2. ForDevice(loop.type[1], FirstOfTile(loop, loop.tileSize)) = Columns
    <3>1. CASE loop.type[1] = "Regular"
      BY <3>1 DEF ForDevice, Columns, OnDevice
    <3>2. CASE loop.type[1] # "Regular"
      <4>1. Columns = {a \in Nat : loop.tileSize * a < Length}
        BY <1>2, <3>2 DEF Columns, OnDevice
      <4>2. Indices(FirstOfTile(loop, loop.tileSize)) = {a \in Nat : loop.tileSize * a < Length}
        BY FirstDim, AgreedTile
      <4>3. QED
        BY <3>2, <4>1, <4>2 DEF ForDevice
    <3>3. QED
      BY <3>1, <3>2
  <2>3. ForDevice(loop.type[2], SecondOfTile(loop, loop.tileSize)) = Rows
    <3>1. CASE loop.type[2] = "Regular"
      BY <3>1 DEF ForDevice, Rows, OnDevice
    <3>2. CASE loop.type[2] # "Regular"
      <4>1. IsInc(loop) /\ Step(loop) = 1
        BY <1>2, <3>2, AgreedTile
      <4>2. Rows = 0..(loop.tileSize - 1)
        BY <1>2, <3>2 DEF Rows, OnDevice
      <4>3. QED
        BY <3>2, <4>1, <4>2, SecondDim DEF ForDevice
    <3>3. QED
      BY <3>1, <3>2
  <2>4. QED
    BY <2>1, <2>2, <2>3
<1>3. QED
  BY <1>1, <1>2, CaseFields

-----------------------------------------------------------------------------
(* The two loops of a tile, in the thread t.                               *)

LEMMA FirstLoop ==
    ASSUME CaseOK, LoopAgreed, IsTile(loop), NEW t \in Grid
    PROVE  \A tiled : tiled \in FirstValues(t) <=>
               \E a \in Nat : /\ tiled = loop.start + Dir * (loop.tileSize * a)
                              /\ loop.tileSize * a < Length
                              /\ OnDevice(1) => t[1] = a
<1> DEFINE T == loop.tileSize
           at(a) == loop.start + Dir * (T * a)
<1>1. /\ T \in Nat \ {0} /\ Step(loop) = 1 /\ Dir \in {1, -1}
      /\ loop.start \in Int /\ loop.end \in Int /\ loop.op \in {"<", "<=", ">", ">="}
  BY CaseFields, AgreedTile
<1>2. \A a \in Nat : Dir * T * a = Dir * (T * a) /\ Dir * T * Step(loop) * a = Dir * (T * a)
  BY <1>1
<1>3. CASE OnDevice(1)
  <2>1. t[1] \in Nat /\ T * t[1] < Length
    BY <1>3, TileGrid DEF Columns
  <2>2. FirstValues(t) = {at(t[1])}
    <3>1. FirstValues(t) = {loop.start + Dir * T * Step(loop) * t[1]}
      BY <1>3 DEF FirstValues, Dir
    <3>2. QED
      BY <1>2, <2>1, <3>1
  <2> HIDE DEF at, T
  <2>3. \A tiled : tiled \in FirstValues(t) <=>
               \E a \in Nat : tiled = at(a) /\ T * a < Length /\ (OnDevice(1) => t[1] = a)
    BY <1>3, <2>1, <2>2
  <2>4. QED
    BY <2>3 DEF at, T
<1>4. CASE ~OnDevice(1)
  <2>1. TileStep = T
    BY <1>1 DEF TileStep
  <2>2. FirstValues(t) = Values(loop.start, loop.end, loop.op, T)
    BY <1>4, <2>1 DEF FirstValues
  <2>3. Counted(loop.start, loop.end, loop.op, T, Dir)
    <3>1. Dir = 1 <=> loop.op \in {"<", "<="}
      BY CaseFields
    <3> HIDE DEF T
    <3>2. QED
      BY <1>1, <3>1, ValuesAre
  <2>4. \A a \in Nat : Compare(loop.op, at(a), loop.end) <=> T * a < Length
    <3>1. \A a \in Nat : T * a \in Nat
      BY <1>1
    <3>2. QED
      BY <3>1, CompareIsBelow
  <2>5. \A tiled : tiled \in FirstValues(t) <=>
               \E a \in Nat : tiled = at(a) /\ Compare(loop.op, tiled, loop.end)
    BY <1>2, <2>2, <2>3 DEF Counted
  <2> HIDE DEF at, T
  <2>6. \A tiled : tiled \in FirstValues(t) <=>
               \E a \in Nat : tiled = at(a) /\ T * a < Length
    BY <2>4, <2>5
  <2>7. QED
    BY <1>4, <2>6 DEF at, T
<1>5. QED
  BY <1>3, <1>4

LEMMA SecondLoop ==
    ASSUME CaseOK, LoopAgreed, IsTile(loop), NEW t \in Grid, NEW tiled \in Int
    PROVE  \A i : i \in SecondValues(t, tiled) <=>
               \E c \in 0..(loop.tileSize - 1) : /\ i = tiled + Dir * c
                                                 /\ OnDevice(2) => t[2] = c
<1> DEFINE T == loop.tileSize
           at(c) == tiled + Dir * c
           op == IF IsInc(loop) THEN "<" ELSE ">"
<1>1. T \in Nat \ {0} /\ Step(loop) = 1 /\ Dir \in {1, -1}
  BY CaseFields, AgreedTile
<1>2. \A c \in Nat : Dir * Step(loop) * c = Dir * c /\ Dir * 1 * c = Dir * c
  BY <1>1
<1>3. CASE OnDevice(2)
  <2>1. t[2] \in 0..(T - 1)
    BY <1>3, TileGrid DEF Rows
  <2>2. SecondValues(t, tiled) = {at(t[2])}
    <3>1. SecondValues(t, tiled) = {tiled + Dir * Step(loop) * t[2]}
      BY <1>3 DEF SecondValues, Dir
    <3>2. QED
      BY <1>1, <1>2, <2>1, <3>1
  <2> HIDE DEF at, T
  <2>3. \A i : i \in SecondValues(t, tiled) <=>
               \E c \in 0..(T - 1) : i = at(c) /\ (OnDevice(2) => t[2] = c)
    BY <1>3, <2>1, <2>2
  <2>4. QED
    BY <2>3 DEF at, T
<1>4. CASE ~OnDevice(2)
  <2>1. SecondValues(t, tiled) = Values(tiled, tiled + Dir * T, op, 1)
    BY <1>1, <1>4 DEF SecondValues, Dir
  <2>2. Counted(tiled, tiled + Dir * T, op, 1, Dir)
    <3>1. Dir = 1 <=> op \in {"<", "<="}
      BY DEF Dir, Direction
    <3>2. tiled + Dir * T \in Int /\ op \in {"<", "<=", ">", ">="} /\ 1 \in Nat \ {0}
      BY <1>1
    <3> HIDE DEF T, op
    <3>3. QED
      BY <1>1, <3>1, <3>2, ValuesAre
  <2>3. \A c \in Nat : Compare(op, at(c), tiled + Dir * T) <=> c \in 0..(T - 1)
    BY <1>1 DEF Compare, Dir, Direction
  <2>4. \A i : i \in SecondValues(t, tiled) <=>
               \E c \in Nat : i = at(c) /\ Compare(op, i, tiled + Dir * T)
    BY <1>2, <2>1, <2>2 DEF Counted
  <2>5. \A c \in 0..(T - 1) : c \in Nat
    BY <1>1
  <2> HIDE DEF at, T, op
  <2>6. \A i : i \in SecondValues(t, tiled) <=> \E c \in 0..(T - 1) : i = at(c)
    BY <2>3, <2>4, <2>5
  <2>7. QED
    BY <1>4, <2>6 DEF at, T
<1>5. QED
  BY <1>3, <1>4

-----------------------------------------------------------------------------
(* The bodies of a tile's thread.                                          *)

LEMMA RangeIsLength ==
    ASSUME CaseOK, Step(loop) = 1, Length > 0
    PROVE  Cardinality(Iterations) = Length
<1>1. Length \in Int /\ loop.start \in Int /\ Dir \in {1, -1}
  BY CaseFields
<1>2. \A v : v \in Iterations <=> \E k \in Nat : v = loop.start + Dir * k /\ k < Length
  BY UnitIterations
<1>3. CASE Dir = 1
  <2>1. Iterations = loop.start..(loop.start + Length - 1)
    <3>1. ASSUME NEW v \in Iterations PROVE v \in loop.start..(loop.start + Length - 1)
      BY <1>1, <1>2, <1>3
    <3>2. ASSUME NEW v \in loop.start..(loop.start + Length - 1) PROVE v \in Iterations
      <4>1. v - loop.start \in Nat /\ v = loop.start + Dir * (v - loop.start) /\ v - loop.start < Length
        BY <1>1, <1>3
      <4>2. QED
        BY <1>2, <4>1
    <3>3. QED
      BY <3>1, <3>2
  <2>2. QED
    BY <1>1, <2>1, FS_Interval
<1>4. CASE Dir = -1
  <2>1. Iterations = (loop.start - Length + 1)..loop.start
    <3>1. ASSUME NEW v \in Iterations PROVE v \in (loop.start - Length + 1)..loop.start
      BY <1>1, <1>2, <1>4
    <3>2. ASSUME NEW v \in (loop.start - Length + 1)..loop.start PROVE v \in Iterations
      <4>1. loop.start - v \in Nat /\ v = loop.start + Dir * (loop.start - v) /\ loop.start - v < Length
        BY <1>1, <1>4
      <4>2. QED
        BY <1>2, <4>1
    <3>3. QED
      BY <3>1, <3>2
  <2>2. QED
    BY <1>1, <2>1, FS_Interval
<1>5. QED
  BY <1>1, <1>3, <1>4

\* A tile that need not be checked does not reach beyond the loop.
LEMMA WholeTiles ==
    ASSUME CaseOK, Step(loop) = 1,
           Cardinality(Values(loop.start, loop.end, loop.op, 1)) % loop.tileSize = 0,
           NEW a \in Nat, loop.tileSize * a < Length, NEW c \in 0..(loop.tileSize - 1)
    PROVE  loop.tileSize * a + c < Length
<1> DEFINE T == loop.tileSize
           n == Length
           q == n \div T
<1>1. T \in Nat \ {0} /\ n \in Int
  BY CaseFields
<1>2. PICK p \in Nat : p = T * a
  BY <1>1
<1>3. n \in Nat /\ n > 0
  BY <1>1, <1>2
<1>4. n % T = 0
  BY <1>3, RangeIsLength DEF Iterations
<1> HIDE DEF T, n
<1>5. q \in Nat /\ n = T * q
  BY <1>1, <1>3, <1>4
<1>6. T * a < n /\ c \in 0..(T - 1)
  BY DEF T, n
<1> HIDE DEF q
<1>7. a < q
  <2>1. a * T < q * T
    BY <1>1, <1>5, <1>6
  <2>2. QED
    BY <1>1, <1>5, <2>1, ProductsOrder
<1>8. p + T <= n
  <2>1. (a + 1) * T <= q * T
    BY <1>1, <1>5, <1>7, ProductsAtMost
  <2>2. (a + 1) * T = p + T /\ q * T = n
    BY <1>1, <1>2, <1>5
  <2>3. QED
    BY <2>1, <2>2
<1>9. T * a + c < n
  BY <1>1, <1>2, <1>3, <1>6, <1>8
<1>10. QED
  BY <1>9 DEF T, n

\* The body that thread t runs in column a of the tiles, at row c.
TileBody(t, a, c) ==
    [by |-> t, tiled |-> loop.start + Dir * (loop.tileSize * a),
     i |-> loop.start + Dir * (loop.tileSize * a + c)]

RunsAt(t, a, c) ==
    /\ loop.tileSize * a + c < Length
    /\ OnDevice(1) => t[1] = a
    /\ OnDevice(2) => t[2] = c

LEMMA TileBodies ==
    ASSUME CaseOK, LoopAgreed, IsTile(loop), NEW t \in Grid
    PROVE  \A b : b \in Bodies(t) <=>
               \E a \in Nat : \E c \in 0..(loop.tileSize - 1) : RunsAt(t, a, c) /\ b = TileBody(t, a, c)
<1> DEFINE T == loop.tileSize
           first(a) == loop.start + Dir * (T * a)
           at(a, c) == loop.start + Dir * (T * a + c)
<1>1. /\ T \in Nat \ {0} /\ Step(loop) = 1 /\ Dir \in {1, -1} /\ Length \in Int
      /\ loop.start \in Int
  BY CaseFields, AgreedTile
<1>2. \A a \in Nat, c \in 0..(T - 1) :
          /\ first(a) \in Int /\ at(a, c) = first(a) + Dir * c
          /\ T * a + c < Length => T * a < Length
  <2>1. ASSUME NEW a \in Nat, NEW c \in 0..(T - 1)
        PROVE  /\ first(a) \in Int /\ at(a, c) = first(a) + Dir * c
               /\ T * a + c < Length => T * a < Length
    <3>1. PICK p \in Nat : p = T * a
      BY <1>1
    <3>2. first(a) = loop.start + Dir * p /\ at(a, c) = loop.start + Dir * (p + c)
      BY <3>1
    <3> HIDE DEF first, at
    <3>3. c \in Nat /\ (T * a + c < Length => T * a < Length)
      BY <1>1, <3>1
    <3>4. first(a) \in Int /\ at(a, c) = first(a) + Dir * c
      BY <1>1, <3>2, <3>3
    <3>5. QED
      BY <3>3, <3>4
  <2>2. QED
    BY <2>1
<1>3. \A a \in Nat, c \in 0..(T - 1) :
          T * a < Length => (Checked(at(a, c)) <=> T * a + c < Length)
  <2>1. ASSUME NEW a \in Nat, NEW c \in 0..(T - 1), T * a < Length
        PROVE  Checked(at(a, c)) <=> T * a + c < Length
    <3>1. T * a + c \in Nat
      BY <1>1
    <3>2. Compare(loop.op, at(a, c), loop.end) <=> T * a + c < Length
      BY <3>1, CompareIsBelow
    <3>3. ~loop.check => T * a + c < Length
      BY <1>1, <2>1, WholeTiles, AgreedTile
    <3>4. QED
      BY <3>2, <3>3 DEF Checked
  <2>2. QED
    BY <2>1
<1> DEFINE inFirst(a) == T * a < Length /\ (OnDevice(1) => t[1] = a)
           inSecond(c) == OnDevice(2) => t[2] = c
           body(tiled, i) == [by |-> t, tiled |-> tiled, i |-> i]
<1>4. \A tiled : tiled \in FirstValues(t) <=> \E a \in Nat : tiled = first(a) /\ inFirst(a)
  BY FirstLoop
<1>5. \A a \in Nat : \A i : i \in SecondValues(t, first(a)) <=>
          \E c \in 0..(T - 1) : i = first(a) + Dir * c /\ inSecond(c)
  <2>1. ASSUME NEW a \in Nat
        PROVE  \A i : i \in SecondValues(t, first(a)) <=>
                   \E c \in 0..(T - 1) : i = first(a) + Dir * c /\ inSecond(c)
    <3>1. first(a) \in Int
      BY <1>1, <1>2
    <3> HIDE DEF first
    <3>2. QED
      BY <3>1, SecondLoop
  <2>2. QED
    BY <2>1
<1>6. \A b : b \in Bodies(t) <=>
          \E tiled \in FirstValues(t) : \E i \in SecondValues(t, tiled) : Checked(i) /\ b = body(tiled, i)
  BY DEF Bodies
<1>7. \A a \in Nat, c \in 0..(T - 1) :
          /\ RunsAt(t, a, c) <=> inFirst(a) /\ inSecond(c) /\ Checked(at(a, c))
          /\ TileBody(t, a, c) = body(first(a), at(a, c))
  <2>1. \A a \in Nat, c \in 0..(T - 1) :
            RunsAt(t, a, c) <=> T * a + c < Length /\ (OnDevice(1) => t[1] = a) /\ inSecond(c)
    BY DEF RunsAt
  <2>2. \A a \in Nat, c \in 0..(T - 1) : TileBody(t, a, c) = body(first(a), at(a, c))
    BY DEF TileBody
  <2> HIDE DEF T, first, at
  <2>3. QED
    BY <1>2, <1>3, <2>1, <2>2
<1>8. \A a \in Nat : \A i : i \in SecondValues(t, first(a)) <=>
          \E c \in 0..(T - 1) : i = at(a, c) /\ inSecond(c)
  <2> HIDE DEF T, first, at, inSecond
  <2>1. QED
    BY <1>2, <1>5
<1> HIDE DEF T, first, at, inFirst, inSecond, body
<1>9. \A b : b \in Bodies(t) <=>
          \E a \in Nat : \E c \in 0..(T - 1) : RunsAt(t, a, c) /\ b = TileBody(t, a, c)
  <2>1. ASSUME NEW b \in Bodies(t)
        PROVE  \E a \in Nat : \E c \in 0..(T - 1) : RunsAt(t, a, c) /\ b = TileBody(t, a, c)
    <3>1. PICK tiled \in FirstValues(t) : \E i \in SecondValues(t, tiled) : Checked(i) /\ b = body(tiled, i)
      BY <1>6
    <3>2. PICK i \in SecondValues(t, tiled) : Checked(i) /\ b = body(tiled, i)
      BY <3>1
    <3>3. PICK a \in Nat : tiled = first(a) /\ inFirst(a)
      BY <1>4
    <3>4. PICK c \in 0..(T - 1) : i = at(a, c) /\ inSecond(c)
      BY <1>8, <3>3
    <3>5. QED
      BY <1>7, <3>2, <3>3, <3>4
  <2>2. ASSUME NEW a \in Nat, NEW c \in 0..(T - 1), RunsAt(t, a, c)
        PROVE  TileBody(t, a, c) \in Bodies(t)
    <3>1. /\ inFirst(a) /\ inSecond(c) /\ Checked(at(a, c))
          /\ TileBody(t, a, c) = body(first(a), at(a, c))
      BY <1>7, <2>2
    <3>2. first(a) \in FirstValues(t) /\ at(a, c) \in SecondValues(t, first(a))
      BY <1>4, <1>8, <3>1
    <3>3. QED
      BY <1>6, <3>1, <3>2
  <2>3. QED
    BY <2>1, <2>2
<1>10. QED
  BY <1>9 DEF T

-----------------------------------------------------------------------------
(* What the threads of a launch run: all iterations, nothing else, and     *)
(* none of them twice.                                                     *)

\* Every iteration is in the body of some thread.
Covered(i) == \E t \in Grid : \E b \in Bodies(t) : b.i = i

LEMMA TileCovers ==
    ASSUME CaseOK, LoopAgreed, IsTile(loop), NEW i \in Iterations
    PROVE  Covered(i)
<1> DEFINE T == loop.tileSize
<1>1. T \in Nat \ {0} /\ Step(loop) = 1 /\ Dir \in {1, -1} /\ Length \in Int
  BY CaseFields, AgreedTile
<1>2. PICK k \in Nat : i = loop.start + Dir * k /\ k < Length
  BY <1>1, UnitIterations
<1> DEFINE a == k \div T
           c == k - T * a
<1>3. a \in Nat /\ c \in 0..(T - 1) /\ T * a + c = k /\ T * a \in Nat
  <2>1. a \in Nat /\ a * T <= k /\ k < (a + 1) * T
    BY <1>1, DivisionBelow, Division
  <2> HIDE DEF a, T
  <2>2. PICK p \in Nat : p = a * T
    BY <1>1, <2>1
  <2>3. T * a = p /\ (a + 1) * T = p + T
    BY <1>1, <2>1, <2>2
  <2>4. QED
    BY <1>1, <2>1, <2>2, <2>3
<1> DEFINE t == <<IF OnDevice(1) THEN a ELSE 0, IF OnDevice(2) THEN c ELSE 0>>
<1> HIDE DEF a, c, T
<1>4. t \in Grid
  <2>1. T * a < Length
    BY <1>1, <1>2, <1>3
  <2>2. (IF OnDevice(1) THEN a ELSE 0) \in Columns
    BY <1>3, <2>1 DEF Columns, T
  <2>3. (IF OnDevice(2) THEN c ELSE 0) \in Rows
    BY <1>3 DEF Rows, T
  <2>4. QED
    BY <2>2, <2>3, TileGrid
<1>5. RunsAt(t, a, c)
  BY <1>2, <1>3 DEF RunsAt, T
<1>6. TileBody(t, a, c) \in Bodies(t)
  <2> HIDE DEF t
  <2>1. QED
    BY <1>3, <1>4, <1>5, TileBodies DEF T
<1>7. TileBody(t, a, c).i = i
  BY <1>2, <1>3 DEF TileBody, T
<1>8. QED
  BY <1>4, <1>6, <1>7 DEF Covered

LEMMA TileInRange ==
    ASSUME CaseOK, LoopAgreed, IsTile(loop), NEW t \in Grid, NEW b \in Bodies(t)
    PROVE  b.i \in Iterations
<1>1. PICK a \in Nat, c \in 0..(loop.tileSize - 1) : RunsAt(t, a, c) /\ b = TileBody(t, a, c)
  BY TileBodies
<1>2. loop.tileSize * a + c \in Nat
  BY CaseFields
<1>3. b.i = loop.start + Dir * (loop.tileSize * a + c) /\ loop.tileSize * a + c < Length
  BY <1>1 DEF RunsAt, TileBody
<1>4. QED
  BY <1>2, <1>3, UnitIterations, AgreedTile

LEMMA TileDistinct ==
    ASSUME CaseOK, LoopAgreed, IsTile(loop), NEW t \in Grid, NEW u \in Grid,
           NEW b \in Bodies(t), NEW d \in Bodies(u), b.i = d.i
    PROVE  b = d
<1> DEFINE T == loop.tileSize
<1>1. T \in Nat \ {0} /\ Dir \in {1, -1} /\ loop.start \in Int
  BY CaseFields
<1>2. PICK a \in Nat, c \in 0..(T - 1) : RunsAt(t, a, c) /\ b = TileBody(t, a, c)
  BY TileBodies
<1>3. PICK e \in Nat, f \in 0..(T - 1) : RunsAt(u, e, f) /\ d = TileBody(u, e, f)
  BY TileBodies
<1>4. PICK p \in Nat : p = T * a
  BY <1>1
<1>5. PICK q \in Nat : q = T * e
  BY <1>1
<1>6. b.i = loop.start + Dir * (p + c) /\ d.i = loop.start + Dir * (q + f)
  BY <1>2, <1>3, <1>4, <1>5 DEF TileBody
<1> HIDE DEF T
<1>7. p + c = q + f
  <2>1. loop.start + Dir * (p + c) = loop.start + Dir * (q + f)
    BY <1>6
  <2>2. p + c \in Int /\ q + f \in Int
    BY <1>1
  <2>3. CASE Dir = 1
    BY <1>1, <2>1, <2>2, <2>3
  <2>4. CASE Dir = -1
    BY <1>1, <2>1, <2>2, <2>4
  <2>5. QED
    BY <1>1, <2>3, <2>4
<1>8. a = e
  <2>1. a * T = p /\ e * T = q /\ (a + 1) * T = p + T /\ (e + 1) * T = q + T
    BY <1>1, <1>4, <1>5
  <2>2. a * T < (e + 1) * T /\ e * T < (a + 1) * T
    BY <1>1, <1>7, <2>1
  <2>3. a < e + 1 /\ e < a + 1
    BY <1>1, <2>2, ProductsOrder
  <2>4. QED
    BY <2>3
<1>9. c = f
  BY <1>1, <1>4, <1>5, <1>7, <1>8
<1>10. t = u
  <2>1. Grid = Columns \X Rows
    BY TileGrid
  <2>2. t[1] = IF OnDevice(1) THEN a ELSE 0
    BY <1>2, <2>1 DEF Columns, RunsAt
  <2>3. t[2] = IF OnDevice(2) THEN c ELSE 0
    BY <1>2, <2>1 DEF Rows, RunsAt
  <2>4. u[1] = IF OnDevice(1) THEN e ELSE 0
    BY <1>3, <2>1 DEF Columns, RunsAt
  <2>5. u[2] = IF OnDevice(2) THEN f ELSE 0
    BY <1>3, <2>1 DEF Rows, RunsAt
  <2>6. t = <<t[1], t[2]>> /\ u = <<u[1], u[2]>>
    BY <2>1
  <2>7. QED
    BY <1>8, <1>9, <2>2, <2>3, <2>4, <2>5, <2>6
<1>11. QED
  BY <1>2, <1>3, <1>8, <1>9, <1>10

\* The same for a loop that is not tiled.
LEMMA PlainBodies ==
    ASSUME CaseOK, ~IsTile(loop), NEW t \in Grid
    PROVE  /\ t = <<t[1], t[2]>> /\ t[2] = 0
           /\ backend = "device" =>
                  /\ t[1] \in Indices(loop)
                  /\ \A b : b \in Bodies(t) <=>
                         \E i : /\ i = loop.start + Dir * Step(loop) * t[1]
                                /\ b = [by |-> t, tiled |-> i, i |-> i]
           /\ backend = "host" =>
                  /\ t[1] = 0
                  /\ \A b : b \in Bodies(t) <=>
                         \E i \in Iterations : b = [by |-> t, tiled |-> i, i |-> i]
<1>1. CASE backend = "host"
  <2>1. t = <<0, 0>>
    BY <1>1 DEF Grid
  <2>2. \A b : b \in Bodies(t) <=> \E i \in Iterations : b = [by |-> t, tiled |-> i, i |-> i]
    BY <1>1 DEF Bodies
  <2>3. QED
    BY <1>1, <2>1, <2>2
<1>2. CASE backend = "device"
  <2>1. t \in Indices(loop) \X {0}
    BY <1>2 DEF Grid
  <2>2. Bodies(t) = {[by |-> t, tiled |-> i, i |-> i] : i \in {loop.start + Dir * Step(loop) * t[1]}}
    BY <1>2 DEF Bodies, Dir
  <2>3. \A b : b \in Bodies(t) <=> \E i : /\ i = loop.start + Dir * Step(loop) * t[1]
                                          /\ b = [by |-> t, tiled |-> i, i |-> i]
    BY <2>2
  <2>4. QED
    BY <1>2, <2>1, <2>3
<1>3. QED
  BY <1>1, <1>2, CaseFields

LEMMA PlainCovers ==
    ASSUME CaseOK, ~IsTile(loop), NEW i \in Iterations
    PROVE  Covered(i)
<1>1. CASE backend = "host"
  <2>1. [by |-> <<0, 0>>, tiled |-> i, i |-> i] \in Bodies(<<0, 0>>)
    BY <1>1 DEF Bodies
  <2>2. <<0, 0>> \in Grid
    BY <1>1 DEF Grid
  <2>3. QED
    BY <2>1, <2>2 DEF Covered
<1>2. CASE backend = "device"
  <2>1. PICK k \in Nat : i = loop.start + Dir * Step(loop) * k /\ Compare(loop.op, i, loop.end)
    BY IterationsAre
  <2>2. k \in Indices(loop)
    BY <2>1, CaseFields, IndexBelowDim DEF Dir
  <2>3. <<k, 0>> \in Grid
    BY <1>2, <2>2 DEF Grid
  <2>4. [by |-> <<k, 0>>, tiled |-> i, i |-> i] \in Bodies(<<k, 0>>)
    BY <1>2, <2>1 DEF Bodies, Dir
  <2>5. QED
    BY <2>3, <2>4 DEF Covered
<1>3. QED
  BY <1>1, <1>2, CaseFields

LEMMA PlainInRange ==
    ASSUME CaseOK, ~IsTile(loop), NEW t \in Grid, NEW b \in Bodies(t)
    PROVE  b.i \in Iterations
<1>1. CASE backend = "host"
  BY <1>1, PlainBodies
<1>2. CASE backend = "device"
  <2>1. t[1] \in Indices(loop) /\ b.i = loop.start + Dir * Step(loop) * t[1]
    BY <1>2, PlainBodies
  <2>2. t[1] \in Nat /\ Compare(loop.op, loop.start + Dir * Step(loop) * t[1], loop.end)
    BY <2>1, CaseFields, IndexIsValue DEF Dir
  <2>3. QED
    BY <2>1, <2>2, IterationsAre
<1>3. QED
  BY <1>1, <1>2, CaseFields

LEMMA PlainDistinct ==
    ASSUME CaseOK, ~IsTile(loop), NEW t \in Grid, NEW u \in Grid,
           NEW b \in Bodies(t), NEW d \in Bodies(u), b.i = d.i
    PROVE  b = d
<1>1. CASE backend = "host"
  <2>1. t = u
    BY <1>1, PlainBodies
  <2>2. QED
    BY <1>1, <2>1, PlainBodies
<1>2. CASE backend = "device"
  <2>1. /\ t[1] \in Indices(loop) /\ b.i = loop.start + Dir * Step(loop) * t[1]
        /\ b = [by |-> t, tiled |-> b.i, i |-> b.i]
    BY <1>2, PlainBodies
  <2>2. /\ u[1] \in Indices(loop) /\ d.i = loop.start + Dir * Step(loop) * u[1]
        /\ d = [by |-> u, tiled |-> d.i, i |-> d.i]
    BY <1>2, PlainBodies
  <2>3. t[1] \in Nat /\ u[1] \in Nat
    BY <2>1, <2>2, CaseFields, IndexIsValue
  <2>4. t[1] = u[1]
    <3>1. loop.start \in Int /\ Dir \in {1, -1} /\ Step(loop) \in Nat \ {0}
      BY CaseFields
    <3> DEFINE s == Step(loop)
               k == t[1]
               l == u[1]
    <3>2. loop.start + Dir * s * k = loop.start + Dir * s * l
      BY <2>1, <2>2
    <3>3. k \in Nat /\ l \in Nat /\ s \in Nat \ {0}
      BY <2>3, <3>1
    <3> HIDE DEF s, k, l
    <3>4. PICK p \in Nat : p = k * s
      BY <3>3
    <3>5. PICK q \in Nat : q = l * s
      BY <3>3
    <3>6. Dir * s * k = Dir * p /\ Dir * s * l = Dir * q
      BY <3>1, <3>3, <3>4, <3>5
    <3>7. p = q
      BY <3>1, <3>2, <3>6
    <3>8. (k + 1) * s = p + s /\ (l + 1) * s = q + s
      BY <3>3, <3>4, <3>5
    <3>9. k * s < (l + 1) * s /\ l * s < (k + 1) * s
      BY <3>3, <3>4, <3>5, <3>7, <3>8
    <3>10. k < l + 1 /\ l < k + 1
      BY <3>3, <3>9, ProductsOrder
    <3>11. k = l
      BY <3>3, <3>10
    <3>12. QED
      BY <3>11 DEF k, l
  <2>5. t = u
    BY <2>4, PlainBodies
  <2>6. QED
    BY <2>1, <2>2, <2>5
<1>3. QED
  BY <1>1, <1>2, CaseFields

LEMMA GridCovers ==
    ASSUME CaseOK, LoopAgreed, NEW i \in Iterations
    PROVE  Covered(i)
BY PlainCovers, TileCovers

LEMMA BodiesInRange ==
    ASSUME CaseOK, LoopAgreed, NEW t \in Grid, NEW b \in Bodies(t)
    PROVE  b.i \in Iterations
BY PlainInRange, TileInRange

LEMMA BodiesDistinct ==
    ASSUME CaseOK, LoopAgreed, NEW t \in Grid, NEW u \in Grid,
           NEW b \in Bodies(t), NEW d \in Bodies(u), b.i = d.i
    PROVE  b = d
BY PlainDistinct, TileDistinct

LEMMA BodiesByThread ==
    ASSUME NEW t, NEW b \in Bodies(t)
    PROVE  b.by = t
BY DEF Bodies

-----------------------------------------------------------------------------
(* The invariant: every body that ran is one of a thread that has run, and *)
(* an iteration that has not run has a thread that will run it.            *)

RunsOrWaits(i) == i \in Ran \/ \E t \in threads : \E b \in Bodies(t) : b.i = i

RanByGrid == \A r \in ran : r.by \in Grid \ threads /\ r \in Bodies(r.by)

LoopInv ==
    /\ CaseOK
    /\ threads \subseteq Grid
    /\ ~launched => threads = {} /\ ran = {}
    /\ RanByGrid
    /\ LoopAgreed /\ launched => \A i \in Iterations : RunsOrWaits(i)

LEMMA LoopInit == Init => LoopInv
BY DEF Init, LoopInv, CaseOK, RanByGrid

LEMMA LoopKept ==
    ASSUME CaseOK, [Next]_vars
    PROVE  /\ CaseOK' /\ UNCHANGED <<loop, backend>>
           /\ LoopAgreed' = LoopAgreed
           /\ Iterations' = Iterations
           /\ Grid' = Grid
           /\ \A t : Bodies(t)' = Bodies(t)
<1>1. CaseOK' /\ UNCHANGED <<loop, backend>>
  BY DEF CaseOK, Next, Launch, RunThread, vars
<1>2. LoopAgreed' = LoopAgreed
  BY <1>1 DEF LoopAgreed
<1>3. Iterations' = Iterations /\ Grid' = Grid
  BY <1>1 DEF Iterations, Grid, IsTile
<1>4. \A t : Bodies(t)' = Bodies(t)
  BY <1>1 DEF IsTile, Iterations, Bodies, FirstValues, SecondValues, Checked, OnDevice, TileStep
<1>5. QED
  BY <1>1, <1>2, <1>3, <1>4

LEMMA LoopStep == LoopInv /\ [Next]_vars => LoopInv'
<1> SUFFICES ASSUME LoopInv, [Next]_vars PROVE LoopInv'
  OBVIOUS
<1>1. /\ CaseOK' /\ LoopAgreed' = LoopAgreed /\ Iterations' = Iterations /\ Grid' = Grid
      /\ \A t : Bodies(t)' = Bodies(t)
  BY LoopKept DEF LoopInv
<1>2. CASE Launch
  <2>1. threads' = Grid /\ ran' = {} /\ launched'
    BY <1>2 DEF Launch, LoopInv
  <2>2. RanByGrid'
    BY <2>1 DEF RanByGrid
  <2>3. ASSUME LoopAgreed', NEW i \in Iterations' PROVE RunsOrWaits(i)'
    <3>1. Covered(i)
      BY <1>1, <2>3, GridCovers DEF LoopInv
    <3>2. QED
      BY <1>1, <2>1, <3>1 DEF Covered, RunsOrWaits
  <2>4. QED
    BY <1>1, <2>1, <2>2, <2>3 DEF LoopInv
<1>3. ASSUME NEW u \in threads, RunThread(u) PROVE LoopInv'
  <2>1. threads' = threads \ {u} /\ ran' = ran \cup Bodies(u) /\ launched' = launched
    BY <1>3 DEF RunThread
  <2>2. RanByGrid'
    <3>1. ASSUME NEW r \in ran' PROVE r.by \in Grid' \ threads' /\ r \in Bodies(r.by)'
      <4>1. CASE r \in ran
        BY <1>1, <2>1, <4>1 DEF LoopInv, RanByGrid
      <4>2. CASE r \in Bodies(u)
        <5>1. r.by = u
          BY <4>2, BodiesByThread
        <5>2. QED
          BY <1>1, <1>3, <2>1, <4>2, <5>1 DEF LoopInv
      <4>3. QED
        BY <2>1, <4>1, <4>2
    <3>2. QED
      BY <3>1 DEF RanByGrid
  <2>3. ASSUME LoopAgreed', launched', NEW i \in Iterations' PROVE RunsOrWaits(i)'
    <3>1. RunsOrWaits(i)
      BY <1>1, <2>1, <2>3 DEF LoopInv
    <3>2. CASE i \in Ran
      BY <2>1, <3>2 DEF RunsOrWaits, Ran
    <3>3. ASSUME NEW t \in threads, NEW b \in Bodies(t), b.i = i
          PROVE  RunsOrWaits(i)'
      <4>1. CASE t = u
        <5>1. b \in ran'
          BY <2>1, <3>3, <4>1
        <5>2. QED
          BY <3>3, <5>1 DEF RunsOrWaits, Ran
      <4>2. CASE t # u
        BY <1>1, <2>1, <3>3, <4>2 DEF RunsOrWaits
      <4>3. QED
        BY <4>1, <4>2
    <3>4. QED
      BY <3>1, <3>2, <3>3 DEF RunsOrWaits
  <2>4. launched
    BY <1>3 DEF LoopInv
  <2>5. QED
    BY <1>1, <2>1, <2>2, <2>3, <2>4 DEF LoopInv
<1>4. CASE UNCHANGED vars
  BY <1>1, <1>4 DEF LoopInv, RanByGrid, RunsOrWaits, Ran, vars
<1>5. QED
  BY <1>2, <1>3, <1>4 DEF Next

\* For every header, with any bounds, any increment and both directions, and
\* every tile that kernel and launcher agree on: all iterations have run when
\* the threads of the launch have.
THEOREM LoopsRunCompletely == Spec => []EveryIterationRuns
<1>1. LoopInv => EveryIterationRuns
  BY DEF LoopInv, EveryIterationRuns, RunsOrWaits, LoopAgreed
<1>2. QED
  BY <1>1, LoopInit, LoopStep, PTL DEF Spec

-----------------------------------------------------------------------------
(* Steps of the threads are steps of ParallelFor.                          *)

CountOf(i) == Cardinality({r \in ran : r.i = i})

LEMMA RanInRange ==
    ASSUME LoopInv, LoopAgreed
    PROVE  Ran \subseteq Iterations /\ Runs = [i \in Iterations |-> CountOf(i)]
<1>1. \A r \in ran : r.i \in Iterations
  BY BodiesInRange DEF LoopInv, RanByGrid
<1>2. Ran \subseteq Iterations
  BY <1>1 DEF Ran
<1>3. Iterations \cup Ran = Iterations
  BY <1>2
<1>4. QED
  BY <1>2, <1>3 DEF Runs, CountOf

LEMMA PromiseInit == Init /\ LoopAgreed => Promise!Init
<1> SUFFICES ASSUME Init, LoopAgreed PROVE Promise!Init
  OBVIOUS
<1>1. Runs = [i \in Iterations |-> CountOf(i)]
  BY LoopInit, RanInRange
<1>2. \A i : CountOf(i) = 0
  <2>1. \A i : {r \in ran : r.i = i} = {}
    BY DEF Init
  <2>2. QED
    BY <2>1, FS_EmptySet DEF CountOf
<1>3. QED
  BY <1>1, <1>2 DEF Promise!Init

\* A thread runs bodies whose values have not run, and no value twice.
LEMMA ThreadStep ==
    ASSUME LoopInv, LoopAgreed, NEW u \in threads, RunThread(u),
           NEW S, S = {b.i : b \in Bodies(u)}
    PROVE  /\ S \subseteq Iterations
           /\ \A i \in S : CountOf(i) = 0
           /\ \A i : CountOf(i)' = IF i \in S THEN 1 ELSE CountOf(i)
<1>1. /\ CaseOK /\ u \in Grid /\ ran' = ran \cup Bodies(u)
      /\ \A r \in ran : r.by \in Grid \ threads /\ r \in Bodies(r.by)
  BY DEF LoopInv, RanByGrid, RunThread
<1>2. S \subseteq Iterations
  BY <1>1, BodiesInRange
<1>3. ASSUME NEW b \in Bodies(u), NEW r \in ran PROVE r.i # b.i
  <2>1. SUFFICES ASSUME r.i = b.i PROVE FALSE
    OBVIOUS
  <2>2. r = b
    BY <1>1, <2>1, BodiesDistinct
  <2>3. QED
    BY <1>1, <2>2, BodiesByThread
<1>4. ASSUME NEW i \in S PROVE CountOf(i) = 0 /\ CountOf(i)' = 1
  <2>1. PICK b \in Bodies(u) : b.i = i
    OBVIOUS
  <2>2. {r \in ran : r.i = i} = {}
    BY <1>3, <2>1
  <2>3. {r \in ran' : r.i = i} = {b}
    <3>1. \A d \in Bodies(u) : d.i = i => d = b
      BY <1>1, <2>1, BodiesDistinct
    <3>2. QED
      BY <1>1, <2>1, <2>2, <3>1
  <2>4. QED
    BY <2>2, <2>3, FS_EmptySet, FS_Singleton DEF CountOf
<1>5. ASSUME NEW i, i \notin S PROVE CountOf(i)' = CountOf(i)
  <2>1. {r \in ran' : r.i = i} = {r \in ran : r.i = i}
    BY <1>1, <1>5
  <2>2. QED
    BY <2>1 DEF CountOf
<1>6. QED
  BY <1>2, <1>4, <1>5

LEMMA PromiseStep ==
    LoopInv /\ LoopAgreed /\ [Next]_vars => [Promise!Next]_<<Iterations, Runs>>
<1> SUFFICES ASSUME LoopInv, LoopAgreed, [Next]_vars
             PROVE  [Promise!Next]_<<Iterations, Runs>>
  OBVIOUS
<1>1. CaseOK' /\ LoopAgreed' /\ Iterations' = Iterations
  BY LoopKept DEF LoopInv
<1>2. ASSUME ran' = ran PROVE UNCHANGED <<Iterations, Runs>>
  BY <1>1, <1>2 DEF Runs, Ran
<1>3. CASE Launch \/ UNCHANGED vars
  BY <1>2, <1>3 DEF Launch, vars
<1>4. ASSUME NEW u \in threads, RunThread(u)
      PROVE  [Promise!Next]_<<Iterations, Runs>>
  <2> DEFINE S == {b.i : b \in Bodies(u)}
  <2>1. CASE S = {}
    <3>1. Bodies(u) = {}
      BY <2>1
    <3>2. QED
      BY <1>2, <1>4, <3>1 DEF RunThread
  <2>2. CASE S # {}
    <3>1. Runs = [i \in Iterations |-> CountOf(i)]
      BY RanInRange
    <3>2. Runs' = [i \in Iterations |-> CountOf(i)']
      <4>1. LoopInv'
        BY LoopStep
      <4>2. (LoopInv /\ LoopAgreed => Runs = [i \in Iterations |-> CountOf(i)])'
        BY RanInRange, PTL
      <4>3. QED
        BY <1>1, <4>1, <4>2
    <3>3. /\ S \subseteq Iterations
          /\ \A i \in S : CountOf(i) = 0
          /\ \A i : CountOf(i)' = IF i \in S THEN 1 ELSE CountOf(i)
      BY <1>4, ThreadStep
    <3> HIDE DEF S
    <3>4. \A i \in S : Runs[i] = 0
      BY <3>1, <3>3
    <3>5. Runs' = [i \in Iterations |-> IF i \in S THEN 1 ELSE Runs[i]]
      BY <3>1, <3>2, <3>3
    <3>6. Promise!Run(S)
      BY <1>1, <2>2, <3>4, <3>5 DEF Promise!Run
    <3>7. QED
      BY <3>3, <3>6 DEF Promise!Next
  <2>3. QED
    BY <2>1, <2>2
<1>5. QED
  BY <1>3, <1>4 DEF Next

\* The threads of the launch of any loop that kernel and launcher agree on
\* keep the promise of the for-statement, in whatever order they run.
THEOREM KeepsThePromise == Spec /\ LoopAgreed => PromiseKept
<1>1. LoopInv /\ LoopAgreed /\ [Next]_vars => LoopAgreed'
  BY LoopKept DEF LoopInv
<1>2. QED
  BY <1>1, LoopInit, LoopStep, PromiseInit, PromiseStep, PTL
     DEF Spec, PromiseKept, Promise!Spec
=============================================================================
