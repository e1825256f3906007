--------------------------- MODULE LoopTreeProofs ---------------------------
(***************************************************************************)
(* What is around what in a tree of loops of any size: Ancestors is        *)
(* defined by recursion along the parents, which are earlier loops.  What  *)
(* is computed of such a tree (ways, levels, heights, sizes of blocks) by  *)
(* recursion along the children is related here, for any tree.             *)
(***************************************************************************)
EXTENDS InnerSizes, InductionLemmas, FiniteSetTheorems, SequenceTheorems

IsTree(T) ==
    /\ Len(T) \in Nat
    /\ DOMAIN T = 1..Len(T)
    /\ \A l \in DOMAIN T : T[l].parent \in 0..l - 1

-----------------------------------------------------------------------------
(* The types of one loop.                                                  *)

\* If there is an Outer among the types of a loop, it begins with one.
LEMMA OuterComesFirst ==
    ASSUME NEW types \in Seq(LoopType), OrderedTypes(types), Has(types, "Outer")
    PROVE  ~IsRegular(types) /\ FirstType(types) = "Outer"
<1> DEFINE A == AttributedIdxs(types)
<1>1. A \subseteq Nat /\ A \subseteq DOMAIN types /\ ~IsRegular(types)
  BY DEF Has, IsRegular, AttributedIdxs
<1>2. PICK o \in A : types[o] = "Outer"
  BY DEF Has, AttributedIdxs
<1> HIDE DEF A
<1>3. Min(A) \in A /\ Min(A) <= o
  BY <1>1, <1>2, MinIsLeast
<1>4. types[Min(A)] # "Inner"
  <2>1. Min(A) \in DOMAIN types /\ o \in DOMAIN types
    BY <1>1, <1>2, <1>3
  <2>2. Min(A) \in Nat /\ o \in Nat /\ Min(A) <= o
    BY <1>1, <1>2, <1>3
  <2>3. QED
    BY <1>2, <2>1, <2>2 DEF OrderedTypes
<1>5. types[Min(A)] \in LoopType /\ types[Min(A)] # "Regular"
  BY <1>1, <1>3 DEF A, AttributedIdxs
<1>6. QED
  BY <1>1, <1>4, <1>5 DEF LoopType, FirstType, A

\* A loop whose last type is an Outer has no Inner.
LEMMA OuterComesLast ==
    ASSUME NEW types \in Seq(LoopType), OrderedTypes(types), LastType(types) = "Outer"
    PROVE  Has(types, "Outer") /\ ~Has(types, "Inner")
<1> DEFINE A == AttributedIdxs(types)
<1>1. ~IsRegular(types) /\ types[Max(A)] = "Outer"
  BY DEF LastType
<1>2. A \subseteq 0..Len(types) /\ Len(types) \in Nat /\ A # {}
  BY <1>1 DEF IsRegular, AttributedIdxs
<1>3. \A n \in DOMAIN types : types[n] = "Inner" => n \in A
  BY DEF AttributedIdxs
<1>4. A \subseteq DOMAIN types
  BY DEF AttributedIdxs
<1> HIDE DEF A
<1>5. Max(A) \in A /\ \A n \in A : n <= Max(A)
  BY <1>2, MaxIsGreatest
<1>6. ASSUME NEW n \in DOMAIN types, types[n] = "Inner" PROVE FALSE
  <2>1. n \in A /\ Max(A) \in DOMAIN types
    BY <1>3, <1>4, <1>5, <1>6
  <2>2. Max(A) < n
    BY <1>1, <1>6, <2>1 DEF OrderedTypes
  <2>3. QED
    BY <1>2, <1>5, <2>1, <2>2
<1>7. QED
  BY <1>1, <1>4, <1>5, <1>6 DEF Has

\* A loop around a legal one that has an Outer is plain or ends with an Outer.
LEMMA OuterInOuter ==
    ASSUME NEW child \in Seq(LoopType), NEW parent \in Seq(LoopType),
           IsLegalLoopLevel(child, parent), Has(child, "Outer")
    PROVE  IsRegular(parent) \/ (Has(parent, "Outer") /\ ~Has(parent, "Inner"))
<1>1. OrderedTypes(parent) /\ FirstType(child) = "Outer"
  BY OuterComesFirst DEF IsLegalLoopLevel
<1>2. LastType(parent) \in {"Outer", "Regular"}
  BY <1>1 DEF IsLegalLoopLevel
<1>3. CASE LastType(parent) = "Outer"
  BY <1>1, <1>3, OuterComesLast
<1>4. CASE LastType(parent) = "Regular" /\ ~IsRegular(parent)
  <2> DEFINE A == AttributedIdxs(parent)
  <2>1. A \subseteq 0..Len(parent) /\ Len(parent) \in Nat /\ A # {}
    BY <1>4 DEF IsRegular, AttributedIdxs
  <2>2. Max(A) \in A
    <3> HIDE DEF A
    <3>1. QED
      BY <2>1, MaxIsGreatest
  <2>3. parent[Max(A)] # "Regular"
    BY <2>2 DEF AttributedIdxs
  <2>4. QED
    BY <1>4, <2>3 DEF LastType
<1>5. QED
  BY <1>2, <1>3, <1>4

-----------------------------------------------------------------------------
(* Ancestors.                                                              *)

\* The definition by recursion is one: the loop around a loop, and what is
\* around that.
LEMMA AncestorsAreDefined ==
    ASSUME NEW T, IsTree(T)
    PROVE  \A l \in DOMAIN T :
              Ancestors(T, l) = IF T[l].parent = 0 THEN {}
                                ELSE {T[l].parent} \cup Ancestors(T, T[l].parent)
<1> DEFINE n        == Len(T)
           step     == [i \in 1..n |-> [A \in SUBSET Nat |->
                            IF T[i].parent = 0 THEN {} ELSE {T[i].parent} \cup A]]
           from     == [i \in 1..n |-> T[i].parent]
           Above(g) == [i \in 0..n |->
                            IF i = 0 \/ T[i].parent = 0 THEN {}
                            ELSE {T[i].parent} \cup g[T[i].parent]]
           above    == CHOOSE g : g = Above(g)
<1>1. n \in Nat /\ DOMAIN T = 1..n /\ \A i \in 1..n : T[i].parent \in Nat /\ T[i].parent < i
  BY DEF IsTree
<1>2. step \in StepsOn(SUBSET Nat, n) /\ from \in EarlierThan(n) /\ {} \in SUBSET Nat
  <2>1. \A i \in 1..n, A \in SUBSET Nat : {T[i].parent} \cup A \in SUBSET Nat
    BY <1>1
  <2>2. QED
    BY <1>1, <2>1 DEF StepsOn, EarlierThan
<1>3. PICK g \in [0..n -> SUBSET Nat] : Computes(g, {}, step, from, n)
  <2> HIDE DEF step, from, n
  <2> QED
    BY <1>1, <1>2, RecursionExists
<1>4. g = Above(g)
  <2>1. ASSUME NEW i \in 0..n PROVE g[i] = Above(g)[i]
    <3>1. Above(g)[i] = IF i = 0 \/ T[i].parent = 0 THEN {} ELSE {T[i].parent} \cup g[T[i].parent]
      OBVIOUS
    <3> HIDE DEF Above
    <3>2. CASE i = 0
      BY <1>3, <3>1, <3>2 DEF Computes
    <3>3. CASE i # 0
      <4>1. i \in 1..n /\ T[i].parent \in 0..n /\ g[T[i].parent] \in SUBSET Nat
        BY <1>1, <3>3
      <4>2. g[i] = step[i][g[from[i]]] /\ from[i] = T[i].parent
        BY <1>3, <4>1 DEF Computes
      <4>3. g[i] = IF T[i].parent = 0 THEN {} ELSE {T[i].parent} \cup g[T[i].parent]
        BY <4>1, <4>2
      <4>4. QED
        BY <3>1, <3>3, <4>3
    <3>4. QED
      BY <3>2, <3>3
  <2>2. QED
    BY <2>1
<1>5. above = Above(above)
  <2> HIDE DEF Above
  <2> QED
    BY <1>4
<1>6. \A l : Ancestors(T, l) = above[l]
  BY DEF Ancestors
<1> HIDE DEF above
<1>7. \A l \in 0..n : above[l] = IF l = 0 \/ T[l].parent = 0 THEN {}
                                 ELSE {T[l].parent} \cup above[T[l].parent]
  BY <1>5
<1>8. ASSUME NEW l \in DOMAIN T
      PROVE  Ancestors(T, l) = IF T[l].parent = 0 THEN {}
                               ELSE {T[l].parent} \cup Ancestors(T, T[l].parent)
  <2>1. l \in 0..n /\ l # 0
    BY <1>1
  <2>2. above[l] = IF T[l].parent = 0 THEN {} ELSE {T[l].parent} \cup above[T[l].parent]
    BY <1>7, <2>1
  <2>3. QED
    BY <1>6, <2>2
<1>9. QED
  BY <1>8

\* Induction over a tree: what holds of a loop if it holds of the one around
\* it.
LEMMA TreeInduction ==
    ASSUME NEW T, IsTree(T), NEW S,
           \A l \in DOMAIN T : (T[l].parent # 0 => T[l].parent \in S) => l \in S
    PROVE  \A l \in DOMAIN T : l \in S
<1> DEFINE Good == {n \in Nat : n \in DOMAIN T => n \in S}
<1>1. ASSUME NEW n \in Nat, \A m \in 0..n - 1 : m \in Good PROVE n \in Good
  <2> SUFFICES ASSUME n \in DOMAIN T PROVE n \in S
    OBVIOUS
  <2>1. T[n].parent \in 0..n - 1 /\ (T[n].parent # 0 => T[n].parent \in DOMAIN T)
    BY DEF IsTree
  <2>2. T[n].parent # 0 => T[n].parent \in S
    BY <1>1, <2>1
  <2>3. QED
    BY <2>2
<1>2. Nat \subseteq Good
  <2> HIDE DEF Good
  <2> QED
    BY <1>1, StrongSetInduction
<1>3. \A l \in DOMAIN T : l \in Nat
  BY DEF IsTree
<1>4. QED
  BY <1>2, <1>3

\* Ancestors are earlier loops.
LEMMA AncestorsAreEarlier ==
    ASSUME NEW T, IsTree(T)
    PROVE  \A l \in DOMAIN T : Ancestors(T, l) \subseteq 1..l - 1
<1> DEFINE S == {l \in DOMAIN T : Ancestors(T, l) \subseteq 1..l - 1}
<1>1. ASSUME NEW l \in DOMAIN T, T[l].parent # 0 => T[l].parent \in S PROVE l \in S
  <2>1. T[l].parent \in 0..l - 1 /\ l \in Nat
    BY DEF IsTree
  <2>2. CASE T[l].parent = 0
    <3>1. Ancestors(T, l) = {}
      BY <2>2, AncestorsAreDefined
    <3>2. QED
      BY <3>1
  <2>3. CASE T[l].parent # 0
    <3>1. Ancestors(T, l) = {T[l].parent} \cup Ancestors(T, T[l].parent)
      BY <2>3, AncestorsAreDefined
    <3>2. Ancestors(T, T[l].parent) \subseteq 1..T[l].parent - 1
      BY <1>1, <2>3
    <3>3. QED
      BY <2>1, <2>3, <3>1, <3>2
  <2>4. QED
    BY <2>2, <2>3
<1>2. \A l \in DOMAIN T : l \in S
  <2> HIDE DEF S
  <2> QED
    BY <1>1, TreeInduction
<1>3. QED
  BY <1>2

\* What is around an ancestor is around the loop.
LEMMA AncestorsAreTransitive ==
    ASSUME NEW T, IsTree(T)
    PROVE  \A l \in DOMAIN T : \A a \in Ancestors(T, l) :
              a \in DOMAIN T /\ Ancestors(T, a) \subseteq Ancestors(T, l)
<1> DEFINE S == {l \in DOMAIN T : \A a \in Ancestors(T, l) :
                    a \in DOMAIN T /\ Ancestors(T, a) \subseteq Ancestors(T, l)}
<1>1. ASSUME NEW l \in DOMAIN T, T[l].parent # 0 => T[l].parent \in S PROVE l \in S
  <2>1. T[l].parent # 0 => T[l].parent \in DOMAIN T
    BY <1>1
  <2>2. Ancestors(T, l) = IF T[l].parent = 0 THEN {}
                          ELSE {T[l].parent} \cup Ancestors(T, T[l].parent)
    BY AncestorsAreDefined
  <2>3. QED
    BY <1>1, <2>1, <2>2
<1>2. \A l \in DOMAIN T : l \in S
  <2> HIDE DEF S
  <2> QED
    BY <1>1, TreeInduction
<1>3. QED
  BY <1>2

\* Of two ancestors of a loop the earlier is an ancestor of the later.
LEMMA AncestorsAreAChain ==
    ASSUME NEW T, IsTree(T)
    PROVE  \A l \in DOMAIN T : \A a, b \in Ancestors(T, l) : a < b => a \in Ancestors(T, b)
<1> DEFINE S == {l \in DOMAIN T : \A a, b \in Ancestors(T, l) : a < b => a \in Ancestors(T, b)}
<1>1. ASSUME NEW l \in DOMAIN T, T[l].parent # 0 => T[l].parent \in S PROVE l \in S
  <2> DEFINE p == T[l].parent
  <2>1. Ancestors(T, l) = IF p = 0 THEN {} ELSE {p} \cup Ancestors(T, p)
    BY AncestorsAreDefined
  <2>2. p # 0 => p \in DOMAIN T /\ p \in S
    BY <1>1
  <2>3. p \in Nat /\ (p # 0 => Ancestors(T, p) \subseteq 1..p - 1)
    <3>1. p \in Nat
      BY DEF IsTree
    <3> HIDE DEF p
    <3>2. QED
      BY <2>2, <3>1, AncestorsAreEarlier
  <2> HIDE DEF p
  <2>4. ASSUME NEW a \in Ancestors(T, l), NEW b \in Ancestors(T, l), a < b PROVE a \in Ancestors(T, b)
    <3>1. p # 0 /\ a \in {p} \cup Ancestors(T, p) /\ b \in {p} \cup Ancestors(T, p)
      BY <2>1
    <3>2. a # p
      BY <2>3, <2>4, <3>1
    <3>3. CASE b = p
      BY <3>1, <3>2, <3>3
    <3>4. CASE b # p
      BY <2>2, <2>4, <3>1, <3>2, <3>4
    <3>5. QED
      BY <3>3, <3>4
  <2>5. QED
    BY <2>4
<1>2. \A l \in DOMAIN T : l \in S
  <2> HIDE DEF S
  <2> QED
    BY <1>1, TreeInduction
<1>3. QED
  BY <1>2

\* Ancestors depend on the parents only, and not on later loops.
LEMMA SameParentsSameAncestors ==
    ASSUME NEW T, NEW U, IsTree(T), IsTree(U), DOMAIN T \subseteq DOMAIN U,
           \A l \in DOMAIN T : U[l].parent = T[l].parent
    PROVE  \A l \in DOMAIN T : Ancestors(U, l) = Ancestors(T, l)
<1> DEFINE S == {l \in DOMAIN T : Ancestors(U, l) = Ancestors(T, l)}
<1>1. ASSUME NEW l \in DOMAIN T, T[l].parent # 0 => T[l].parent \in S PROVE l \in S
  <2>1. Ancestors(T, l) = IF T[l].parent = 0 THEN {}
                          ELSE {T[l].parent} \cup Ancestors(T, T[l].parent)
    BY AncestorsAreDefined
  <2>2. Ancestors(U, l) = IF T[l].parent = 0 THEN {}
                          ELSE {T[l].parent} \cup Ancestors(U, T[l].parent)
    BY AncestorsAreDefined
  <2>3. QED
    BY <1>1, <2>1, <2>2
<1>2. \A l \in DOMAIN T : l \in S
  <2> HIDE DEF S
  <2> QED
    BY <1>1, TreeInduction
<1>3. QED
  BY <1>2

\* A loop inside another is, or is inside, a child of it.
LEMMA ChildToward ==
    ASSUME NEW T, IsTree(T), NEW p
    PROVE  \A m \in DOMAIN T : p \in Ancestors(T, m) =>
              \E c \in Children(T, p) : c = m \/ c \in Ancestors(T, m)
<1> DEFINE S == {m \in DOMAIN T : p \in Ancestors(T, m) =>
                    \E c \in Children(T, p) : c = m \/ c \in Ancestors(T, m)}
<1>1. ASSUME NEW l \in DOMAIN T, T[l].parent # 0 => T[l].parent \in S PROVE l \in S
  <2>1. Ancestors(T, l) = IF T[l].parent = 0 THEN {}
                          ELSE {T[l].parent} \cup Ancestors(T, T[l].parent)
    BY AncestorsAreDefined
  <2>2. T[l].parent = p => l \in Children(T, p)
    BY DEF Children
  <2>3. QED
    BY <1>1, <2>1, <2>2
<1>2. \A l \in DOMAIN T : l \in S
  <2> HIDE DEF S
  <2> QED
    BY <1>1, TreeInduction
<1>3. QED
  BY <1>2

\* The nearest attributed loop around l is the greatest of them.
LEMMA AttributedParentIsAround ==
    ASSUME NEW T, IsTree(T), NEW l \in DOMAIN T, AttributedParent(T, l) # 0
    PROVE  /\ AttributedParent(T, l) \in Ancestors(T, l)
           /\ Attributed(T, AttributedParent(T, l))
           /\ \A a \in Ancestors(T, l) : Attributed(T, a) => a <= AttributedParent(T, l)
<1> DEFINE A == {a \in Ancestors(T, l) : Attributed(T, a)}
<1>1. A # {} /\ AttributedParent(T, l) = Max(A)
  BY DEF AttributedParent
<1>2. A \subseteq 0..l /\ l \in Nat
  BY AncestorsAreEarlier DEF IsTree
<1>3. Max(A) \in A /\ \A a \in A : a <= Max(A)
  <2> HIDE DEF A
  <2>1. QED
    BY <1>1, <1>2, MaxIsGreatest
<1>4. QED
  BY <1>1, <1>3

\* The first attributed child is one of those met first on the ways down, and
\* 0 if there is none.
LEMMA FirstChildIsMetFirst ==
    ASSUME NEW T, IsTree(T), NEW l, AttributedFrontier(T, l) # {}
    PROVE  FirstAttributedChild(T, l) \in AttributedFrontier(T, l) /\ FirstAttributedChild(T, l) # 0
<1> DEFINE F        == AttributedFrontier(T, l)
           depth(d) == Cardinality(Ancestors(T, d))
           depths   == {depth(d) : d \in F}
           top      == Min(depths)
           highest  == {d \in F : depth(d) = top}
<1>1. F # {} /\ FirstAttributedChild(T, l) = Min(highest)
  BY DEF FirstAttributedChild
<1>2. F \subseteq DOMAIN T /\ DOMAIN T \subseteq Nat \ {0}
  BY DEF AttributedFrontier, Descendants, IsTree
<1>3. \A d \in DOMAIN T : depth(d) \in Nat
  <2>1. ASSUME NEW d \in DOMAIN T PROVE IsFiniteSet(Ancestors(T, d))
    <3>1. Ancestors(T, d) \in SUBSET (1..d - 1) /\ d - 1 \in Int
      BY <1>2, AncestorsAreEarlier
    <3>2. IsFiniteSet(1..d - 1)
      BY <3>1, FS_Interval
    <3>3. QED
      BY <3>1, <3>2, FS_Subset
  <2>2. QED
    BY <2>1, FS_CardinalityType
<1> HIDE DEF F, depth
<1>4. depths \subseteq Nat /\ depths # {}
  BY <1>1, <1>2, <1>3
<1>5. top \in depths
  <2> HIDE DEF depths
  <2>1. QED
    BY <1>4, MinIsLeast
<1>6. highest # {} /\ highest \subseteq Nat /\ highest \subseteq F
  BY <1>2, <1>5
<1>7. Min(highest) \in highest
  <2> HIDE DEF highest
  <2>1. QED
    BY <1>6, MinIsLeast
<1>8. QED
  BY <1>1, <1>2, <1>6, <1>7 DEF F

LEMMA FirstChildIsInside ==
    ASSUME NEW T, IsTree(T), NEW l, FirstAttributedChild(T, l) # 0
    PROVE  FirstAttributedChild(T, l) \in Descendants(T, l)
<1>1. AttributedFrontier(T, l) # {}
  BY DEF FirstAttributedChild
<1>2. QED
  BY <1>1, FirstChildIsMetFirst DEF AttributedFrontier

-----------------------------------------------------------------------------
(* The types of loops and the nodes of a tree.                             *)

TypesOK(T) ==
    \A l \in DOMAIN T :
        /\ T[l].type \in Seq(LoopType) /\ Len(T[l].type) \in 1..2
        /\ T[l].type[1] = "Regular" => IsRegular(T[l].type)

Nodes(T) == {<<l, n>> : l \in DOMAIN T, n \in 1..2} \cap {x \in Nat \X Nat : x[2] \in AttributedIdxs(T[x[1]].type)}

\* The nodes of a loop are one after the other, and then come the loops that
\* are met first below it.
LEMMA OwnNodesAre ==
    ASSUME NEW T, IsTree(T), TypesOK(T), NEW l \in DOMAIN T
    PROVE  /\ ~Attributed(T, l) => OwnNodes(T, l) = <<>>
           /\ Attributed(T, l) => 1 \in AttributedIdxs(T[l].type)
           /\ OwnNodes(T, l) \in Seq(Nodes(T))
           /\ AttributedIdxs(T[l].type) = 1..Len(OwnNodes(T, l))
           /\ Len(OwnNodes(T, l)) \in 0..2
           /\ \A n \in 1..Len(OwnNodes(T, l)) : OwnNodes(T, l)[n] = <<l, n>>
<1> DEFINE types == T[l].type
           A     == AttributedIdxs(types)
<1>1. /\ types \in Seq(LoopType) /\ Len(types) \in 1..2 /\ DOMAIN types = 1..Len(types)
      /\ types[1] = "Regular" => IsRegular(types)
      /\ l \in Nat
  BY DEF TypesOK, IsTree
<1>2. PICK k \in 0..2 : A = 1..k /\ (k = 0 <=> IsRegular(types))
  <2>1. CASE IsRegular(types)
    <3>1. A = 1..0
      BY <2>1 DEF AttributedIdxs, IsRegular
    <3>2. QED
      BY <2>1, <3>1
  <2>2. CASE ~IsRegular(types)
    <3>1. 1 \in A
      BY <1>1, <2>2 DEF AttributedIdxs
    <3>2. A = 1..1 \/ A = 1..2
      BY <1>1, <3>1 DEF AttributedIdxs
    <3>3. QED
      BY <2>2, <3>2
  <2>3. QED
    BY <2>1, <2>2
<1>3. OwnNodes(T, l) = [n \in 1..k |-> <<l, n>>]
  BY <1>2 DEF OwnNodes
<1>4. \A n \in 1..k : <<l, n>> \in Nodes(T)
  BY <1>1, <1>2 DEF Nodes
<1>5. OwnNodes(T, l) \in Seq(Nodes(T)) /\ Len(OwnNodes(T, l)) = k
  BY <1>3, <1>4
<1>6. ~Attributed(T, l) => OwnNodes(T, l) = <<>>
  BY <1>2, <1>3, <1>5 DEF Attributed
<1>7. Attributed(T, l) => 1 \in A
  BY <1>2 DEF Attributed
<1>8. QED
  BY <1>2, <1>3, <1>5, <1>6, <1>7

LEMMA NodesAre ==
    ASSUME NEW T, IsTree(T), TypesOK(T)
    PROVE  \A x : x \in Nodes(T) <=>
              \E l \in DOMAIN T : \E n \in 1..Len(OwnNodes(T, l)) : x = <<l, n>>
<1>1. ASSUME NEW x \in Nodes(T)
      PROVE  \E l \in DOMAIN T : \E n \in 1..Len(OwnNodes(T, l)) : x = <<l, n>>
  <2>1. PICK l \in DOMAIN T, n \in 1..2 : x = <<l, n>> /\ n \in AttributedIdxs(T[l].type)
    BY DEF Nodes
  <2>2. QED
    BY <2>1, OwnNodesAre
<1>2. ASSUME NEW l \in DOMAIN T, NEW n \in 1..Len(OwnNodes(T, l)) PROVE <<l, n>> \in Nodes(T)
  <2>1. n \in AttributedIdxs(T[l].type) /\ n \in 1..2
    BY OwnNodesAre
  <2>2. l \in Nat
    BY DEF IsTree
  <2>3. QED
    BY <2>1, <2>2 DEF Nodes
<1>3. QED
  BY <1>1, <1>2

LEMMA BelowIs ==
    ASSUME NEW T, IsTree(T), TypesOK(T), NEW l \in DOMAIN T, NEW n \in 1..Len(OwnNodes(T, l))
    PROVE  /\ n < Len(OwnNodes(T, l)) =>
                  Below(T, <<l, n>>) = {<<l, n + 1>>} /\ ~IsLeaf(T, <<l, n>>)
           /\ n = Len(OwnNodes(T, l)) =>
                  /\ Below(T, <<l, n>>) = {<<c, 1>> : c \in AttributedFrontier(T, l)}
                  /\ IsLeaf(T, <<l, n>>) <=> AttributedFrontier(T, l) = {}
<1> DEFINE k == Len(OwnNodes(T, l))
           A == {m \in AttributedIdxs(T[l].type) : m > n}
           next == NextAttributedIdx(T[l].type, n)
<1>1. k \in 0..2 /\ AttributedIdxs(T[l].type) = 1..k
  BY OwnNodesAre
<1>2. CASE n < k
  <2>1. A = {n + 1}
    <3>1. k = 2 /\ n = 1
      BY <1>1, <1>2
    <3>2. A = {m \in 1..2 : m > 1}
      BY <1>1, <3>1
    <3>3. QED
      BY <3>1, <3>2
  <2>2. Min(A) \in A
    <3>1. A \subseteq Nat /\ A # {}
      BY <1>1, <2>1
    <3> HIDE DEF A
    <3>2. QED
      BY <3>1, MinIsLeast
  <2>3. next = n + 1 /\ n + 1 # 0
    BY <2>1, <2>2 DEF NextAttributedIdx
  <2>4. QED
    BY <1>2, <2>3 DEF Below, IsLeaf
<1>3. CASE n = k
  <2>1. A = {}
    BY <1>1, <1>3
  <2>2. next = 0
    BY <2>1 DEF NextAttributedIdx
  <2>3. FirstAttributedChild(T, l) = 0 <=> AttributedFrontier(T, l) = {}
    BY FirstChildIsMetFirst DEF FirstAttributedChild
  <2>4. QED
    BY <1>3, <2>2, <2>3 DEF Below, IsLeaf
<1>4. QED
  BY <1>1, <1>2, <1>3

\* Plain loops are looked through.
LEMMA FrontierIs ==
    ASSUME NEW T, IsTree(T), NEW l \in DOMAIN T
    PROVE  AttributedFrontier(T, l) =
              UNION {IF Attributed(T, c) THEN {c} ELSE AttributedFrontier(T, c) : c \in Children(T, l)}
<1> DEFINE first(c) == IF Attributed(T, c) THEN {c} ELSE AttributedFrontier(T, c)
<1>0. l \in Nat
  BY DEF IsTree
<1>1. ASSUME NEW c \in Children(T, l)
      PROVE  /\ c \in DOMAIN T /\ c \in Nat /\ Ancestors(T, c) = {l} \cup Ancestors(T, l)
             /\ c \in Descendants(T, l)
             /\ Ancestors(T, c) \cap Descendants(T, l) = {}
  <2>1. c \in DOMAIN T /\ T[c].parent = l /\ l # 0 /\ c \in Nat
    BY DEF Children, IsTree
  <2>2. Ancestors(T, c) = {l} \cup Ancestors(T, l)
    BY <2>1, AncestorsAreDefined
  <2>3. Ancestors(T, l) \subseteq 1..l - 1
    BY AncestorsAreEarlier
  <2>4. ASSUME NEW a \in Ancestors(T, c), a \in Descendants(T, l) PROVE FALSE
    <3>1. l \in Ancestors(T, a) /\ a \in DOMAIN T /\ a \in Nat
      BY <2>4 DEF Descendants, IsTree
    <3>2. l < a
      BY <1>0, <3>1, AncestorsAreEarlier
    <3>3. a <= l
      BY <1>0, <2>2, <2>3
    <3>4. QED
      BY <1>0, <3>1, <3>2, <3>3
  <2>5. QED
    BY <2>1, <2>2, <2>4 DEF Descendants
<1>2. ASSUME NEW d \in AttributedFrontier(T, l)
      PROVE  \E c \in Children(T, l) : d \in first(c)
  <2>1. /\ d \in DOMAIN T /\ l \in Ancestors(T, d) /\ Attributed(T, d)
        /\ \A a \in Ancestors(T, d) \cap Descendants(T, l) : ~Attributed(T, a)
    BY DEF AttributedFrontier, Descendants
  <2>2. PICK c \in Children(T, l) : c = d \/ c \in Ancestors(T, d)
    BY <2>1, ChildToward
  <2>3. CASE c = d
    BY <2>1, <2>3
  <2>4. CASE c \in Ancestors(T, d)
    <3>1. ~Attributed(T, c)
      BY <1>1, <2>1, <2>4
    <3>2. Descendants(T, c) \subseteq Descendants(T, l)
      <4>1. ASSUME NEW a \in Descendants(T, c) PROVE a \in Descendants(T, l)
        <5>1. a \in DOMAIN T /\ c \in Ancestors(T, a)
          BY DEF Descendants
        <5>2. l \in Ancestors(T, a)
          BY <1>1, <5>1, AncestorsAreTransitive
        <5>3. QED
          BY <5>1, <5>2 DEF Descendants
      <4>2. QED
        BY <4>1
    <3>3. d \in AttributedFrontier(T, c)
      BY <2>1, <2>4, <3>2 DEF AttributedFrontier, Descendants
    <3>4. QED
      BY <3>1, <3>3
  <2>5. QED
    BY <2>2, <2>3, <2>4
<1>3. ASSUME NEW c \in Children(T, l), NEW d \in first(c)
      PROVE  d \in AttributedFrontier(T, l)
  <2>1. CASE Attributed(T, c)
    BY <1>1, <1>3, <2>1 DEF AttributedFrontier
  <2>2. CASE ~Attributed(T, c)
    <3>1. /\ d \in DOMAIN T /\ c \in Ancestors(T, d) /\ Attributed(T, d)
          /\ \A a \in Ancestors(T, d) \cap Descendants(T, c) : ~Attributed(T, a)
      BY <1>3, <2>2 DEF AttributedFrontier, Descendants
    <3>2. l \in Ancestors(T, d)
      BY <1>1, <3>1, AncestorsAreTransitive
    <3>3. ASSUME NEW a \in Ancestors(T, d), a \in Descendants(T, l) PROVE ~Attributed(T, a)
      <4>1. a \in DOMAIN T /\ a \in Nat
        BY <3>3 DEF Descendants, IsTree
      <4>2. CASE a = c
        BY <2>2, <4>2
      <4>3. CASE a < c
        <5>1. a \in Ancestors(T, c)
          BY <3>1, <4>3, AncestorsAreAChain
        <5>2. QED
          BY <1>1, <3>3, <5>1
      <4>4. CASE c < a
        <5>1. c \in Ancestors(T, a)
          BY <3>1, <4>4, AncestorsAreAChain
        <5>2. QED
          BY <3>1, <4>1, <5>1 DEF Descendants
      <4>5. QED
        BY <1>1, <4>1, <4>2, <4>3, <4>4
    <3>4. QED
      BY <3>1, <3>2, <3>3 DEF AttributedFrontier, Descendants
  <2>3. QED
    BY <2>1, <2>2
<1>4. QED
  BY <1>2, <1>3

-----------------------------------------------------------------------------
(* The ways down.                                                          *)

LEMMA OrEmptyAre ==
    ASSUME NEW S, NEW X, X \subseteq Seq(S)
    PROVE  OrEmpty(X) \subseteq Seq(S)
<1> DEFINE e == <<>>
           Q == Seq(S)
<1>1. e \in Q /\ X \subseteq Q
  OBVIOUS
<1>2. OrEmpty(X) = IF X = {} THEN {e} ELSE X
  BY DEF OrEmpty
<1>3. ASSUME NEW x \in OrEmpty(X) PROVE x \in Q
  <2> HIDE DEF e, Q
  <2>1. QED
    BY <1>1, <1>2
<1>4. QED
  BY <1>3

LEMMA EmptyBefore ==
    ASSUME NEW S, NEW X, X \subseteq Seq(S)
    PROVE  {<<>> \o p : p \in X} = X
<1>1. \A p \in X : <<>> \o p = p
  <2>1. ASSUME NEW p \in Seq(S) PROVE <<>> \o p = p
    OBVIOUS
  <2> DEFINE Q == Seq(S)
  <2> HIDE DEF Q
  <2>2. QED
    BY <2>1 DEF Q
<1>2. QED
  BY <1>1

WaysBelow(T, l) == (UNION {PathsFrom(T, c) : c \in Children(T, l)}) \ {<<>>}

\* The definition by recursion is one.
LEMMA WaysAreDefined ==
    ASSUME NEW T, IsTree(T), TypesOK(T)
    PROVE  \A l \in DOMAIN T :
              /\ PathsFrom(T, l) = {OwnNodes(T, l) \o p :
                                      p \in OrEmpty(WaysBelow(T, l))}
              /\ PathsFrom(T, l) \subseteq Seq(Nodes(T))
<1> DEFINE n        == Len(T)
           S        == Seq(Nodes(T))
           V        == SUBSET S
           under(h, i) == (UNION {h[c] : c \in Children(T, i)}) \ {<<>>}
           ways(h, i)  == {OwnNodes(T, i) \o p : p \in OrEmpty(under(h, i))}
           step     == [i \in 1..n |-> [h \in [1..n -> V] |-> ways(h, i)]]
           Ways(h)  == [i \in DOMAIN T |->
                          LET below == (UNION {h[c] : c \in Children(T, i)}) \ {<<>>}
                          IN  {OwnNodes(T, i) \o p : p \in OrEmpty(below)}]
           paths    == CHOOSE h : h = Ways(h)
<1>1. n \in Nat /\ DOMAIN T = 1..n /\ \A i \in 1..n : Children(T, i) \subseteq i + 1..n
  BY DEF IsTree, Children
<1>2. \A i \in 1..n : OwnNodes(T, i) \in S
  BY <1>1, OwnNodesAre
<1> HIDE DEF n
<1>3. step \in LaterSteps(V, n)
  <2>1. ASSUME NEW i \in 1..n, NEW h \in [1..n -> V] PROVE ways(h, i) \in V
    <3>1. under(h, i) \subseteq S
      <4>1. \A c \in Children(T, i) : c \in 1..n
        BY <1>1
      <4>2. \A c \in Children(T, i) : h[c] \subseteq S
        BY <4>1
      <4>3. QED
        BY <4>2
    <3> HIDE DEF under
    <3>2. OrEmpty(under(h, i)) \subseteq S
      BY <3>1, OrEmptyAre
    <3>3. \A p \in S : OwnNodes(T, i) \o p \in S
      BY <1>2
    <3> HIDE DEF S
    <3>4. QED
      BY <3>1, <3>2, <3>3
  <2>2. ASSUME NEW i \in 1..n, NEW h \in [1..n -> V], NEW k \in [1..n -> V], \A j \in i + 1..n : h[j] = k[j]
        PROVE  ways(h, i) = ways(k, i)
    <3>1. \A c \in Children(T, i) : h[c] = k[c]
      BY <1>1, <2>2
    <3>2. under(h, i) = under(k, i)
      BY <3>1
    <3>3. QED
      BY <3>2
  <2> HIDE DEF V, ways
  <2>3. QED
    BY <2>1, <2>2 DEF LaterSteps
<1>4. PICK g \in [1..n -> V] : \A i \in 1..n : g[i] = step[i][g]
  <2>1. {} \in V
    OBVIOUS
  <2> HIDE DEF step, V
  <2> QED
    BY <1>1, <1>3, <2>1, RecursionFromLater
<1>5. g = Ways(g)
  <2>1. \A i \in 1..n : g[i] = ways(g, i)
    <3> HIDE DEF ways, V
    <3> QED
      BY <1>4
  <2>2. \A i \in 1..n : g[i] = Ways(g)[i]
    BY <1>1, <2>1
  <2>3. DOMAIN g = 1..n /\ DOMAIN Ways(g) = 1..n /\ g = [i \in 1..n |-> g[i]] /\ Ways(g) = [i \in 1..n |-> Ways(g)[i]]
    BY <1>1
  <2> HIDE DEF Ways
  <2>4. QED
    BY <2>2, <2>3
<1>6. paths = Ways(paths)
  <2> HIDE DEF Ways
  <2> QED
    BY <1>5
<1>7. \A l : PathsFrom(T, l) = paths[l]
  BY DEF PathsFrom
<1> HIDE DEF paths
<1>8. \A i \in DOMAIN T : paths[i] = ways(paths, i)
  BY <1>6
<1>9. \A i \in DOMAIN T : under(paths, i) = WaysBelow(T, i)
  BY <1>7 DEF WaysBelow
<1>10. ASSUME NEW l \in DOMAIN T
       PROVE  PathsFrom(T, l) = {OwnNodes(T, l) \o p :
                                      p \in OrEmpty(WaysBelow(T, l))}
  BY <1>7, <1>8, <1>9
<1> DEFINE Good == {l \in DOMAIN T : PathsFrom(T, l) \subseteq S}
<1>11. ASSUME NEW i \in 1..n, \A j \in i + 1..n : j \in Good PROVE i \in Good
  <2>1. \A c \in Children(T, i) : PathsFrom(T, c) \subseteq S
    BY <1>1, <1>11
  <2>2. WaysBelow(T, i) \subseteq S
    BY <2>1 DEF WaysBelow
  <2>3. OrEmpty(WaysBelow(T, i)) \subseteq S /\ i \in DOMAIN T
    BY <1>1, <2>2, OrEmptyAre
  <2>4. \A p \in S : OwnNodes(T, i) \o p \in S
    BY <1>2
  <2>a. PathsFrom(T, i) = {OwnNodes(T, i) \o p : p \in OrEmpty(WaysBelow(T, i))}
    BY <1>10, <2>3
  <2>5. PathsFrom(T, i) \subseteq S
    <3> HIDE DEF S
    <3> QED
      BY <2>3, <2>4, <2>a
  <2>6. QED
    BY <2>3, <2>5
<1>12. \A i \in 1..n : i \in Good
  <2> HIDE DEF Good
  <2> QED
    BY <1>1, <1>11, LaterInduction
<1>13. QED
  BY <1>1, <1>10, <1>12

\* Every loop has a way down, and one below an attributed loop is not empty.
LEMMA PathsExist ==
    ASSUME NEW T, IsTree(T), TypesOK(T), NEW l \in DOMAIN T
    PROVE  /\ PathsFrom(T, l) # {}
           /\ Attributed(T, l) => <<>> \notin PathsFrom(T, l)
<1> DEFINE below == OrEmpty(WaysBelow(T, l))
           own   == OwnNodes(T, l)
<1>1. below # {} /\ PathsFrom(T, l) = {own \o p : p \in below}
  BY WaysAreDefined DEF OrEmpty
<1>2. \A c \in Children(T, l) : PathsFrom(T, c) \subseteq Seq(Nodes(T))
  BY WaysAreDefined DEF Children
<1>3. below \subseteq Seq(Nodes(T))
  <2>1. WaysBelow(T, l) \subseteq Seq(Nodes(T))
    BY <1>2 DEF WaysBelow
  <2>2. QED
    BY <2>1, OrEmptyAre
<1>4. own \in Seq(Nodes(T)) /\ (Attributed(T, l) => Len(own) # 0)
  <2>1. /\ own \in Seq(Nodes(T)) /\ AttributedIdxs(T[l].type) = 1..Len(own)
        /\ Attributed(T, l) => 1 \in AttributedIdxs(T[l].type)
    BY OwnNodesAre
  <2>2. QED
    BY <2>1
<1> HIDE DEF below, own
<1>5. ASSUME Attributed(T, l), NEW p \in below PROVE own \o p # <<>>
  <2>1. Len(own \o p) = Len(own) + Len(p) /\ Len(own) \in Nat /\ Len(p) \in Nat
    BY <1>3, <1>4
  <2>2. QED
    BY <1>4, <1>5, <2>1
<1>6. QED
  BY <1>1, <1>5

\* Below a loop the ways are those of the attributed loops met first.
LEMMA WaysBelowAre ==
    ASSUME NEW T, IsTree(T), TypesOK(T)
    PROVE  \A l \in DOMAIN T :
              WaysBelow(T, l) = UNION {PathsFrom(T, f) : f \in AttributedFrontier(T, l)}
<1> DEFINE n == Len(T)
           Good == {l \in DOMAIN T : WaysBelow(T, l) = UNION {PathsFrom(T, f) : f \in AttributedFrontier(T, l)}}
<1>1. n \in Nat /\ DOMAIN T = 1..n /\ \A i \in 1..n : Children(T, i) \subseteq i + 1..n
  BY DEF IsTree, Children
<1> HIDE DEF n
<1>2. ASSUME NEW i \in 1..n, \A j \in i + 1..n : j \in Good PROVE i \in Good
  <2>1. ASSUME NEW c \in Children(T, i)
        PROVE  PathsFrom(T, c) \ {<<>>} =
                  UNION {PathsFrom(T, f) : f \in IF Attributed(T, c) THEN {c} ELSE AttributedFrontier(T, c)}
    <3>0. c \in i + 1..n
      BY <1>1
    <3>1. c \in DOMAIN T /\ c \in Good
      BY <1>1, <1>2, <3>0
    <3>2. CASE Attributed(T, c)
      BY <3>1, <3>2, PathsExist
    <3>3. CASE ~Attributed(T, c)
      <4>1. OwnNodes(T, c) = <<>>
        BY <3>1, <3>3, OwnNodesAre
      <4>2. WaysBelow(T, c) \subseteq Seq(Nodes(T))
        <5>1. \A e \in Children(T, c) : PathsFrom(T, e) \subseteq Seq(Nodes(T))
          BY WaysAreDefined DEF Children
        <5>2. QED
          BY <5>1 DEF WaysBelow
      <4>4. PathsFrom(T, c) = OrEmpty(WaysBelow(T, c))
        <5>a. PathsFrom(T, c) = {OwnNodes(T, c) \o p : p \in OrEmpty(WaysBelow(T, c))}
          BY <3>1, WaysAreDefined
        <5>1. PathsFrom(T, c) = {<<>> \o p : p \in OrEmpty(WaysBelow(T, c))}
          BY <4>1, <5>a
        <5>2. OrEmpty(WaysBelow(T, c)) \subseteq Seq(Nodes(T))
          BY <4>2, OrEmptyAre
        <5>3. QED
          BY <5>1, <5>2, EmptyBefore
      <4>5. <<>> \notin WaysBelow(T, c)
        BY DEF WaysBelow
      <4>6. PathsFrom(T, c) \ {<<>>} = WaysBelow(T, c)
        BY <4>4, <4>5 DEF OrEmpty
      <4>7. QED
        BY <3>1, <3>3, <4>6
    <3>4. QED
      BY <3>2, <3>3
  <2>2. AttributedFrontier(T, i) =
          UNION {IF Attributed(T, c) THEN {c} ELSE AttributedFrontier(T, c) : c \in Children(T, i)}
    BY <1>1, FrontierIs
  <2>3. WaysBelow(T, i) = UNION {PathsFrom(T, c) \ {<<>>} : c \in Children(T, i)}
    BY DEF WaysBelow
  <2>4. WaysBelow(T, i) = UNION {PathsFrom(T, f) : f \in AttributedFrontier(T, i)}
    <3> DEFINE first(c) == IF Attributed(T, c) THEN {c} ELSE AttributedFrontier(T, c)
    <3>1. \A c \in Children(T, i) : PathsFrom(T, c) \ {<<>>} = UNION {PathsFrom(T, f) : f \in first(c)}
      BY <2>1
    <3>2. AttributedFrontier(T, i) = UNION {first(c) : c \in Children(T, i)}
      BY <2>2
    <3> HIDE DEF first
    <3>3. WaysBelow(T, i) = UNION {UNION {PathsFrom(T, f) : f \in first(c)} : c \in Children(T, i)}
      BY <2>3, <3>1
    <3>4. QED
      BY <3>2, <3>3
  <2>5. QED
    BY <1>1, <2>4
<1>3. \A i \in 1..n : i \in Good
  <2> HIDE DEF Good
  <2> QED
    BY <1>1, <1>2, LaterInduction
<1>4. QED
  BY <1>1, <1>3

-----------------------------------------------------------------------------
(* The ways down, seen as walks from node to node.                         *)

\* A walk from node x: it goes on below the node it is at, until nothing is
\* below.
IsWalk(T, x, p) ==
    /\ p \in Seq(Nodes(T)) /\ Len(p) # 0
    /\ p[1] = x
    /\ \A j \in 1..Len(p) - 1 : p[j + 1] \in Below(T, p[j])
    /\ Below(T, p[Len(p)]) = {}

Walks(T, x) == {p \in Seq(Nodes(T)) : IsWalk(T, x, p)}

\* What may follow a node that has the nodes B below it.
WalksOn(T, B) == IF B = {} THEN {<<>>} ELSE UNION {Walks(T, y) : y \in B}

LEMMA WalksOnAre ==
    ASSUME NEW T, NEW B
    PROVE  WalksOn(T, B) \subseteq Seq(Nodes(T))
<1> DEFINE e == <<>>
           Q == Seq(Nodes(T))
<1>1. e \in Q
  OBVIOUS
<1>2. \A y \in B : Walks(T, y) \subseteq Q
  BY DEF Walks
<1>3. WalksOn(T, B) = IF B = {} THEN {e} ELSE UNION {Walks(T, y) : y \in B}
  BY DEF WalksOn
<1>4. ASSUME NEW x \in WalksOn(T, B) PROVE x \in Q
  <2> HIDE DEF e, Q
  <2>1. QED
    BY <1>1, <1>2, <1>3
<1>5. QED
  BY <1>4

LEMMA BelowIsInside ==
    ASSUME NEW T, IsTree(T), TypesOK(T), NEW x \in Nodes(T)
    PROVE  /\ Below(T, x) \subseteq Nodes(T)
           /\ IsLeaf(T, x) <=> Below(T, x) = {}
<1>a. PICK l \in DOMAIN T : \E n \in 1..Len(OwnNodes(T, l)) : x = <<l, n>>
  BY NodesAre
<1> DEFINE k == Len(OwnNodes(T, l))
<1>1. PICK n \in 1..k : x = <<l, n>>
  BY <1>a
<1>2. k \in 0..2
  BY OwnNodesAre
<1>3. CASE n < k
  <2>1. Below(T, x) = {<<l, n + 1>>} /\ ~IsLeaf(T, x)
    BY <1>1, <1>3, BelowIs
  <2>2. n + 1 \in 1..k
    BY <1>2, <1>3
  <2>3. <<l, n + 1>> \in Nodes(T)
    BY <2>2, NodesAre
  <2>4. QED
    BY <2>1, <2>3
<1>4. CASE n = k
  <2>1. Below(T, x) = {<<c, 1>> : c \in AttributedFrontier(T, l)} /\ (IsLeaf(T, x) <=> AttributedFrontier(T, l) = {})
    BY <1>1, <1>4, BelowIs
  <2>2. ASSUME NEW c \in AttributedFrontier(T, l) PROVE <<c, 1>> \in Nodes(T)
    <3>1. c \in DOMAIN T /\ Attributed(T, c)
      BY DEF AttributedFrontier, Descendants
    <3>2. 1 \in 1..Len(OwnNodes(T, c))
      BY <3>1, OwnNodesAre
    <3>3. QED
      BY <3>1, <3>2, NodesAre
  <2>3. QED
    BY <2>1, <2>2
<1>5. QED
  BY <1>2, <1>3, <1>4

\* A walk is a node and a walk from a node below it.
LEMMA WalksGoOn ==
    ASSUME NEW T, IsTree(T), TypesOK(T), NEW x \in Nodes(T)
    PROVE  Walks(T, x) = {<<x>> \o p : p \in WalksOn(T, Below(T, x))}
<1> DEFINE N == Nodes(T)
           S == Seq(N)
           rest == WalksOn(T, Below(T, x))
<1>0. Below(T, x) \subseteq N
  BY BelowIsInside
<1>1. ASSUME NEW p \in Walks(T, x) PROVE \E s \in rest : p = <<x>> \o s
  <2> DEFINE m == Len(p)
             s == [j \in 1..m - 1 |-> p[j + 1]]
  <2>1. /\ p \in S /\ m \in Nat \ {0} /\ p[1] = x
        /\ \A j \in 1..m - 1 : p[j + 1] \in Below(T, p[j])
        /\ Below(T, p[m]) = {}
        /\ \A j \in 1..m : p[j] \in N
    BY DEF Walks, IsWalk
  <2>2. s \in S /\ Len(s) = m - 1 /\ \A j \in 1..m - 1 : s[j] = p[j + 1]
    BY <2>1
  <2> HIDE DEF s, m
  <2>3. p = <<x>> \o s
    <3>1. p \in S /\ s \in S /\ Len(p) = m /\ Len(s) = m - 1 /\ m \in Nat \ {0}
      BY <2>1, <2>2 DEF m
    <3>2. \A j \in 1..m : p[j] = IF j = 1 THEN x ELSE s[j - 1]
      BY <2>1, <2>2, <3>1
    <3>3. Len(<<x>> \o s) = m /\ <<x>> \o s \in S /\ \A j \in 1..m : (<<x>> \o s)[j] = IF j = 1 THEN x ELSE s[j - 1]
      BY <3>1
    <3>4. QED
      BY <3>1, <3>2, <3>3
  <2>4. CASE m = 1
    <3>1. Below(T, x) = {} /\ s = <<>>
      BY <2>1, <2>2, <2>4
    <3>2. QED
      BY <2>3, <3>1 DEF WalksOn
  <2>5. CASE m # 1
    <3>1. p[2] \in Below(T, x) /\ m - 1 \in Nat \ {0} /\ s[1] = p[2] /\ s[m - 1] = p[m]
      BY <2>1, <2>2, <2>5
    <3>2. \A j \in 1..(m - 1) - 1 : s[j + 1] \in Below(T, s[j])
      <4>1. ASSUME NEW j \in 1..(m - 1) - 1 PROVE s[j + 1] \in Below(T, s[j])
        <5>1. j \in 1..m - 1 /\ j + 1 \in 1..m - 1
          BY <2>1
        <5>2. s[j + 1] = p[(j + 1) + 1] /\ s[j] = p[j + 1]
          BY <2>2, <5>1
        <5>3. QED
          BY <2>1, <5>1, <5>2
      <4>2. QED
        BY <4>1
    <3>3. IsWalk(T, p[2], s)
      BY <2>1, <2>2, <3>1, <3>2 DEF IsWalk
    <3>4. s \in Walks(T, p[2])
      BY <2>2, <3>3 DEF Walks
    <3>a. s \in rest
      BY <3>1, <3>4 DEF WalksOn
    <3> HIDE DEF rest
    <3>5. QED
      BY <2>3, <3>a
  <2>6. QED
    BY <2>4, <2>5
<1>2. ASSUME NEW s \in rest PROVE <<x>> \o s \in Walks(T, x)
  <2>1. CASE Below(T, x) = {}
    <3>0. s = <<>>
      BY <1>2, <2>1 DEF WalksOn
    <3>1. <<x>> \o s = <<x>>
      BY <3>0
    <3>2. <<x>> \in S /\ Len(<<x>>) = 1 /\ <<x>>[1] = x
      OBVIOUS
    <3>3. IsWalk(T, x, <<x>>)
      BY <2>1, <3>2 DEF IsWalk
    <3>4. QED
      BY <3>1, <3>2, <3>3 DEF Walks
  <2>2. CASE Below(T, x) # {}
    <3> DEFINE p == <<x>> \o s
               m == Len(s)
    <3>1. PICK y \in Below(T, x) : s \in Walks(T, y)
      BY <1>2, <2>2 DEF WalksOn
    <3>2. /\ s \in S /\ m \in Nat \ {0} /\ s[1] = y
          /\ \A j \in 1..m - 1 : s[j + 1] \in Below(T, s[j])
          /\ Below(T, s[m]) = {}
      BY <3>1 DEF Walks, IsWalk
    <3>3. p \in S /\ Len(p) = m + 1 /\ p[1] = x /\ \A j \in 1..m : p[j + 1] = s[j]
      BY <3>2
    <3> HIDE DEF p, m
    <3>4. \A j \in 1..(m + 1) - 1 : p[j + 1] \in Below(T, p[j])
      <4>1. ASSUME NEW j \in 1..(m + 1) - 1 PROVE p[j + 1] \in Below(T, p[j])
        <5>1. CASE j = 1
          BY <3>1, <3>2, <3>3, <5>1
        <5>2. CASE j # 1
          <6>1. j - 1 \in 1..m - 1 /\ (j - 1) + 1 = j /\ j \in 1..m /\ j - 1 \in 1..m
            BY <3>2, <5>2
          <6>2. p[j + 1] = s[j] /\ p[j] = s[j - 1]
            BY <3>3, <6>1
          <6>3. s[j] \in Below(T, s[j - 1])
            BY <3>2, <6>1
          <6>4. QED
            BY <6>2, <6>3
        <5>3. QED
          BY <5>1, <5>2
      <4>2. QED
        BY <4>1
    <3>5. p[m + 1] = s[m]
      BY <3>2, <3>3
    <3>6. IsWalk(T, x, p)
      BY <3>2, <3>3, <3>4, <3>5 DEF IsWalk
    <3>7. p \in Walks(T, x)
      BY <3>3, <3>6 DEF Walks
    <3>8. QED
      BY <3>7 DEF p
  <2>3. QED
    BY <2>1, <2>2
<1>3. QED
  BY <1>1, <1>2

\* The ways down from an attributed loop are the walks from its first node.
LEMMA WaysAreWalks ==
    ASSUME NEW T, IsTree(T), TypesOK(T)
    PROVE  \A l \in DOMAIN T : Attributed(T, l) => PathsFrom(T, l) = Walks(T, <<l, 1>>)
<1> DEFINE n == Len(T)
           Good == {l \in DOMAIN T : Attributed(T, l) => PathsFrom(T, l) = Walks(T, <<l, 1>>)}
<1>1. n \in Nat /\ DOMAIN T = 1..n
  BY DEF IsTree
<1> HIDE DEF n
<1>2. ASSUME NEW i \in 1..n, \A j \in i + 1..n : j \in Good PROVE i \in Good
  <2> SUFFICES ASSUME Attributed(T, i) PROVE PathsFrom(T, i) = Walks(T, <<i, 1>>)
    BY <1>1
  <2> DEFINE F    == AttributedFrontier(T, i)
             k    == Len(OwnNodes(T, i))
             B    == {<<f, 1>> : f \in F}
             rest == WalksOn(T, B)
             last == <<i, k>>
  <2>0. i \in DOMAIN T
    BY <1>1
  <2>1. /\ k \in 1..2 /\ OwnNodes(T, i) \in Seq(Nodes(T))
        /\ \A m \in 1..k : OwnNodes(T, i)[m] = <<i, m>>
    BY <2>0, OwnNodesAre
  <2>2. \A m \in 1..k : <<i, m>> \in Nodes(T)
    BY <2>0, NodesAre
  <2>a. Below(T, last) = B /\ (k = 2 => Below(T, <<i, 1>>) = {last})
    <3>1. k \in 1..k /\ 1 \in 1..k
      BY <2>1
    <3>2. Below(T, last) = B
      BY <2>0, <3>1, BelowIs
    <3>3. k = 2 => Below(T, <<i, 1>>) = {<<i, 1 + 1>>} /\ 1 + 1 = 2
      BY <2>0, <3>1, BelowIs
    <3>4. QED
      BY <3>2, <3>3
  <2>b. k = Len(OwnNodes(T, i))
    OBVIOUS
  <2> HIDE DEF k
  <2>c. last \in Nodes(T)
    BY <2>1, <2>2
  <2>3. \A f \in F : f \in DOMAIN T /\ Attributed(T, f) /\ f \in i + 1..n /\ PathsFrom(T, f) = Walks(T, <<f, 1>>)
    <3>1. ASSUME NEW f \in F PROVE f \in DOMAIN T /\ Attributed(T, f) /\ f \in i + 1..n
      <4>1. f \in DOMAIN T /\ i \in Ancestors(T, f) /\ Attributed(T, f)
        BY DEF AttributedFrontier, Descendants
      <4>2. i \in 1..f - 1
        BY <4>1, AncestorsAreEarlier
      <4>3. QED
        BY <1>1, <4>1, <4>2
    <3>2. QED
      BY <1>2, <3>1
  <2>4. WaysBelow(T, i) = UNION {Walks(T, <<f, 1>>) : f \in F}
    <3>1. WaysBelow(T, i) = UNION {PathsFrom(T, f) : f \in F}
      BY <2>0, WaysBelowAre
    <3> HIDE DEF F
    <3>2. QED
      BY <2>3, <3>1
  <2>5. OrEmpty(WaysBelow(T, i)) = rest
    <3>1. ASSUME NEW f \in F PROVE Walks(T, <<f, 1>>) # {}
      BY <2>3, PathsExist
    <3>2. WaysBelow(T, i) = {} <=> F = {}
      <4> HIDE DEF F
      <4> QED
        BY <2>4, <3>1
    <3>3. B = {} <=> F = {}
      OBVIOUS
    <3>4. UNION {Walks(T, y) : y \in B} = UNION {Walks(T, <<f, 1>>) : f \in F}
      OBVIOUS
    <3> HIDE DEF F, B
    <3>5. QED
      BY <2>4, <3>2, <3>3, <3>4 DEF WalksOn, OrEmpty
  <2>6. PathsFrom(T, i) = {OwnNodes(T, i) \o p : p \in rest}
    <3> HIDE DEF rest
    <3> QED
      BY <2>0, <2>5, WaysAreDefined
  <2>7. Walks(T, last) = {<<last>> \o p : p \in rest}
    <3> HIDE DEF last, B
    <3> QED
      BY <2>a, <2>c, WalksGoOn
  <2>8. CASE k = 1
    <3>1. OwnNodes(T, i) = <<last>>
      <4>1. OwnNodes(T, i)[1] = last /\ Len(OwnNodes(T, i)) = 1
        BY <2>1, <2>8, <2>b
      <4> HIDE DEF last
      <4>2. QED
        BY <2>1, <4>1
    <3> HIDE DEF rest
    <3>2. QED
      BY <2>6, <2>7, <2>8, <3>1
  <2>9. CASE k = 2
    <3> DEFINE first == <<i, 1>>
    <3>1. first \in Nodes(T) /\ last \in Nodes(T)
      BY <2>1, <2>2, <2>9
    <3>2. Below(T, first) = {last}
      BY <2>9, <2>a
    <3>3. OwnNodes(T, i) = <<first>> \o <<last>>
      <4>1. /\ OwnNodes(T, i)[1] = first /\ OwnNodes(T, i)[2] = last
            /\ OwnNodes(T, i) \in Seq(Nodes(T)) /\ Len(OwnNodes(T, i)) = 2
        BY <2>1, <2>9, <2>b
      <4> HIDE DEF first, last
      <4>2. OwnNodes(T, i) = <<first, last>>
        BY <4>1
      <4>3. QED
        BY <4>2
    <3>4. rest \subseteq Seq(Nodes(T))
      BY WalksOnAre
    <3> HIDE DEF rest, first, last
    <3>5. Walks(T, first) = {<<first>> \o p : p \in Walks(T, last)}
      <4>1. WalksOn(T, Below(T, first)) = Walks(T, last)
        BY <3>2 DEF WalksOn
      <4>2. QED
        BY <3>1, <4>1, WalksGoOn
    <3>6. \A p \in rest : OwnNodes(T, i) \o p = <<first>> \o (<<last>> \o p)
      BY <3>1, <3>3, <3>4
    <3>7. PathsFrom(T, i) = Walks(T, first)
      <4>1. Walks(T, first) = {<<first>> \o (<<last>> \o p) : p \in rest}
        BY <2>7, <3>5
      <4> DEFINE long(p) == OwnNodes(T, i) \o p
                 one(p)  == <<first>> \o (<<last>> \o p)
      <4>2. PathsFrom(T, i) = {long(p) : p \in rest}
        BY <2>6
      <4>3. Walks(T, first) = {one(p) : p \in rest}
        BY <4>1
      <4>4. \A p \in rest : long(p) = one(p)
        BY <3>6
      <4> HIDE DEF long, one
      <4>5. QED
        BY <4>2, <4>3, <4>4
    <3>8. QED
      BY <3>7 DEF first
  <2>10. QED
    BY <2>1, <2>8, <2>9
<1>3. \A i \in 1..n : i \in Good
  <2> HIDE DEF Good
  <2> QED
    BY <1>1, <1>2, LaterInduction
<1>4. QED
  BY <1>1, <1>3

\* Every node has a walk: nothing on the ways down is without an end.
LEMMA WalksExist ==
    ASSUME NEW T, IsTree(T), TypesOK(T), NEW x \in Nodes(T)
    PROVE  Walks(T, x) # {}
<1>a. PICK l \in DOMAIN T : \E n \in 1..Len(OwnNodes(T, l)) : x = <<l, n>>
  BY NodesAre
<1>b. PICK n \in 1..Len(OwnNodes(T, l)) : x = <<l, n>>
  BY <1>a
<1> DEFINE first == <<l, 1>>
<1>1. Len(OwnNodes(T, l)) \in 1..2 /\ Attributed(T, l)
  <2>1. Len(OwnNodes(T, l)) \in 0..2 /\ (~Attributed(T, l) => OwnNodes(T, l) = <<>>)
    BY OwnNodesAre
  <2>2. QED
    BY <1>b, <2>1
<1>2. Walks(T, first) # {}
  BY <1>1, WaysAreWalks, PathsExist
<1>3. CASE n = 1
  BY <1>b, <1>2, <1>3
<1>4. CASE n # 1
  <2>1. n = 2 /\ Len(OwnNodes(T, l)) = 2
    <3>1. PICK k \in 1..2 : k = Len(OwnNodes(T, l)) /\ n \in 1..k
      BY <1>1
    <3>2. QED
      BY <1>4, <3>1
  <2>2. Below(T, first) = {x}
    <3>1. 1 \in 1..Len(OwnNodes(T, l)) /\ 1 < Len(OwnNodes(T, l)) /\ 1 + 1 = 2
      BY <2>1
    <3>2. Below(T, first) = {<<l, 1 + 1>>}
      BY <3>1, BelowIs
    <3>3. QED
      BY <1>b, <2>1, <3>1, <3>2
  <2>3. first \in Nodes(T)
    BY <1>1, NodesAre
  <2>4. Walks(T, first) = {<<first>> \o p : p \in WalksOn(T, {x})}
    <3> HIDE DEF first
    <3> QED
      BY <2>2, <2>3, WalksGoOn
  <2>5. WalksOn(T, {x}) = Walks(T, x)
    BY DEF WalksOn
  <2>6. QED
    BY <1>2, <2>4, <2>5
<1>5. QED
  BY <1>3, <1>4

\* Places of nodes in the source: a walk only goes forward.
Place(x) == 2 * x[1] + x[2]

LEMMA WalksGoForward ==
    ASSUME NEW T, IsTree(T), TypesOK(T)
    PROVE  /\ \A x \in Nodes(T) : Place(x) \in 3..2 * Len(T) + 2
           /\ \A x \in Nodes(T) : \A y \in Below(T, x) : Place(x) < Place(y)
<1>1. Len(T) \in Nat /\ DOMAIN T = 1..Len(T)
  BY DEF IsTree
<1>2. ASSUME NEW x \in Nodes(T)
      PROVE  /\ x[1] \in 1..Len(T) /\ x[2] \in 1..2 /\ x = <<x[1], x[2]>>
             /\ x[2] \in 1..Len(OwnNodes(T, x[1]))
  <2>a. PICK l \in DOMAIN T : \E n \in 1..Len(OwnNodes(T, l)) : x = <<l, n>>
    BY NodesAre
  <2>b. PICK n \in 1..Len(OwnNodes(T, l)) : x = <<l, n>>
    BY <2>a
  <2>1. PICK k \in 0..2 : k = Len(OwnNodes(T, l))
    BY OwnNodesAre
  <2>2. n \in 1..k /\ n \in 1..2 /\ x[1] = l /\ x[2] = n
    BY <2>b, <2>1
  <2>3. QED
    BY <1>1, <2>b, <2>1, <2>2
<1>3. ASSUME NEW x \in Nodes(T) PROVE Place(x) \in 3..2 * Len(T) + 2
  BY <1>1, <1>2 DEF Place
<1>4. ASSUME NEW x \in Nodes(T), NEW y \in Below(T, x) PROVE Place(x) < Place(y)
  <2> DEFINE l == x[1]
             n == x[2]
             k == Len(OwnNodes(T, l))
  <2>1. l \in DOMAIN T /\ l \in 1..Len(T) /\ n \in 1..k /\ x = <<l, n>> /\ n \in 1..2
    BY <1>1, <1>2
  <2>2. k \in 0..2
    BY <2>1, OwnNodesAre
  <2> HIDE DEF l, n
  <2>3. CASE n < k
    <3>1. y = <<l, n + 1>>
      BY <2>1, <2>3, BelowIs
    <3>2. x[1] = l /\ x[2] = n /\ y[1] = l /\ y[2] = n + 1
      BY <2>1, <3>1
    <3>3. QED
      BY <1>1, <2>1, <3>2 DEF Place
  <2>4. CASE n = k
    <3>1. Below(T, x) = {<<c, 1>> : c \in AttributedFrontier(T, l)}
      BY <2>1, <2>4, BelowIs
    <3>2. PICK c \in AttributedFrontier(T, l) : y = <<c, 1>>
      BY <3>1
    <3>3. c \in 1..Len(T) /\ l < c
      <4>1. c \in DOMAIN T /\ l \in Ancestors(T, c)
        BY DEF AttributedFrontier, Descendants
      <4>2. l \in 1..c - 1
        BY <4>1, AncestorsAreEarlier
      <4>3. QED
        BY <1>1, <4>1, <4>2
    <3>4. x[1] = l /\ x[2] = n /\ y[1] = c /\ y[2] = 1
      BY <2>1, <3>2
    <3>5. QED
      BY <1>1, <2>1, <3>3, <3>4 DEF Place
  <2>5. QED
    BY <2>1, <2>2, <2>3, <2>4
<1>5. QED
  BY <1>3, <1>4

LEMMA WalksAreBounded ==
    ASSUME NEW T, IsTree(T), TypesOK(T), NEW x \in Nodes(T), NEW p \in Walks(T, x)
    PROVE  Len(p) \in 1..2 * Len(T)
<1> DEFINE m == Len(p)
           n == Len(T)
           at(j) == Place(p[j])
           S == {j \in Nat : j + 1 <= m => at(j + 1) >= j + 3}
<1>1. /\ m \in Nat \ {0} /\ \A j \in 1..m : p[j] \in Nodes(T)
      /\ \A j \in 1..m - 1 : p[j + 1] \in Below(T, p[j])
      /\ n \in Nat
  BY DEF Walks, IsWalk, IsTree
<1>2. \A j \in 1..m : at(j) \in 3..2 * n + 2
  BY <1>1, WalksGoForward
<1>3. \A j \in 1..m - 1 : at(j) < at(j + 1)
  <2>1. ASSUME NEW j \in 1..m - 1 PROVE at(j) < at(j + 1)
    <3>1. j \in 1..m /\ p[j] \in Nodes(T) /\ p[j + 1] \in Below(T, p[j])
      BY <1>1
    <3>2. QED
      BY <3>1, WalksGoForward
  <2>2. QED
    BY <2>1
<1> HIDE DEF m, n, at
<1>4. 0 \in S
  BY <1>1, <1>2
<1>5. ASSUME NEW j \in Nat, j \in S PROVE j + 1 \in S
  <2>1. CASE j + 2 <= m
    <3>1. j + 1 \in 1..m - 1 /\ j + 1 \in 1..m /\ (j + 1) + 1 \in 1..m
      BY <1>1, <2>1
    <3>2. at(j + 1) < at((j + 1) + 1) /\ at(j + 1) \in Int /\ at((j + 1) + 1) \in Int
      BY <1>2, <1>3, <3>1
    <3>3. at(j + 1) >= j + 3
      BY <1>1, <1>5, <3>1
    <3>4. QED
      BY <3>2, <3>3
  <2>2. CASE ~(j + 2 <= m)
    BY <1>1, <2>2
  <2>3. QED
    BY <2>1, <2>2
<1>6. Nat \subseteq S
  <2> HIDE DEF S
  <2> QED
    BY <1>4, <1>5, SetInduction
<1>7. at(m) >= m + 2
  <2>1. m - 1 \in Nat /\ m - 1 \in S
    BY <1>1, <1>6
  <2>2. QED
    BY <1>1, <2>1
<1>8. m <= 2 * n
  BY <1>1, <1>2, <1>7
<1>9. QED
  BY <1>1, <1>8 DEF m, n

-----------------------------------------------------------------------------
(* The levels that verifyLoops searches.                                   *)

Levels(T, top) ==
    LET level[d \in 1..(2 * Len(T) + 1)] ==
          IF d = 1 THEN {<<l, 1>> : l \in top}
          ELSE UNION {Below(T, node) : node \in level[d - 1]}
    IN  level

WalksDown(T, top) == UNION {Walks(T, <<l, 1>>) : l \in top}

\* The nodes that walks have in place d.
Reached(T, top, d) == {p[d] : p \in {q \in WalksDown(T, top) : d <= Len(q)}}

\* The first nodes of loops.
TopOK(T, top) == top \subseteq {l \in DOMAIN T : Attributed(T, l)}

LEMMA TopNodes ==
    ASSUME NEW T, IsTree(T), TypesOK(T), NEW top, TopOK(T, top), NEW l \in top
    PROVE  <<l, 1>> \in Nodes(T) /\ Walks(T, <<l, 1>>) \subseteq WalksDown(T, top)
<1>1. l \in DOMAIN T /\ Attributed(T, l)
  BY DEF TopOK
<1>2. 1 \in 1..Len(OwnNodes(T, l))
  BY <1>1, OwnNodesAre
<1>3. QED
  BY <1>1, <1>2, NodesAre DEF WalksDown

LEMMA WalksDownAre ==
    ASSUME NEW T, IsTree(T), TypesOK(T), NEW top, TopOK(T, top), NEW p \in WalksDown(T, top)
    PROVE  /\ p \in Seq(Nodes(T)) /\ Len(p) \in 1..2 * Len(T)
           /\ \E l \in top : p[1] = <<l, 1>>
           /\ \A j \in 1..Len(p) : p[j] \in Nodes(T)
           /\ \A j \in 1..Len(p) - 1 : p[j + 1] \in Below(T, p[j])
           /\ \A j \in 1..Len(p) : IsLeaf(T, p[j]) <=> j = Len(p)
<1>1. PICK l \in top : p \in Walks(T, <<l, 1>>)
  BY DEF WalksDown
<1>2. Len(p) \in 1..2 * Len(T)
  BY <1>1, TopNodes, WalksAreBounded
<1>3. /\ p \in Seq(Nodes(T)) /\ p[1] = <<l, 1>>
      /\ \A j \in 1..Len(p) - 1 : p[j + 1] \in Below(T, p[j])
      /\ Below(T, p[Len(p)]) = {}
      /\ \A j \in 1..Len(p) : p[j] \in Nodes(T)
  BY <1>1 DEF Walks, IsWalk
<1>4. ASSUME NEW j \in 1..Len(p) PROVE IsLeaf(T, p[j]) <=> j = Len(p)
  <2>1. IsLeaf(T, p[j]) <=> Below(T, p[j]) = {}
    BY <1>3, BelowIsInside
  <2>2. CASE j = Len(p)
    BY <1>3, <2>1, <2>2
  <2>3. CASE j # Len(p)
    <3>1. j \in 1..Len(p) - 1
      BY <1>2, <2>3
    <3>2. p[j + 1] \in Below(T, p[j])
      BY <1>3, <3>1
    <3>3. QED
      BY <2>1, <2>3, <3>2
  <2>4. QED
    BY <2>2, <2>3
<1>5. QED
  BY <1>1, <1>2, <1>3, <1>4

\* A walk may be changed from any place on.
LEMMA WalksBranch ==
    ASSUME NEW T, IsTree(T), TypesOK(T), NEW top, TopOK(T, top),
           NEW p \in WalksDown(T, top), NEW d \in 1..Len(p), NEW y \in Below(T, p[d])
    PROVE  \E q \in WalksDown(T, top) : d + 1 <= Len(q) /\ q[d + 1] = y
<1> DEFINE N == Nodes(T)
<1>1. /\ p \in Seq(N) /\ Len(p) \in Nat
      /\ \A j \in 1..Len(p) : p[j] \in N
      /\ \A j \in 1..Len(p) - 1 : p[j + 1] \in Below(T, p[j])
  BY WalksDownAre
<1>2. PICK l \in top : p[1] = <<l, 1>>
  BY WalksDownAre
<1>3. y \in N
  BY <1>1, BelowIsInside
<1>4. PICK s : s \in Walks(T, y)
  BY <1>3, WalksExist
<1>5. /\ s \in Seq(N) /\ Len(s) \in Nat \ {0} /\ s[1] = y
      /\ \A j \in 1..Len(s) - 1 : s[j + 1] \in Below(T, s[j])
      /\ Below(T, s[Len(s)]) = {}
      /\ \A j \in 1..Len(s) : s[j] \in N
  BY <1>4 DEF Walks, IsWalk
<1> DEFINE m == Len(s)
           q == [j \in 1..d + m |-> IF j <= d THEN p[j] ELSE s[j - d]]
<1>6. q \in Seq(N) /\ Len(q) = d + m
  <2>1. ASSUME NEW j \in 1..d + m PROVE q[j] \in N
    <3>1. j <= d => j \in 1..Len(p)
      BY <1>1, <1>5
    <3>2. ~(j <= d) => j - d \in 1..m
      BY <1>1, <1>5
    <3>3. QED
      BY <1>1, <1>5, <3>1, <3>2
  <2>2. QED
    BY <1>1, <1>5, <2>1
<1>7. /\ \A j \in 1..d : q[j] = p[j]
      /\ \A j \in 1..m : q[d + j] = s[j]
  BY <1>1, <1>5
<1>a. d \in Nat \ {0} /\ m \in Nat \ {0}
  BY <1>1, <1>5
<1>b. d <= Len(p)
  BY <1>1
<1>c. /\ s[1] = y /\ \A j \in 1..m - 1 : s[j + 1] \in Below(T, s[j])
      /\ Below(T, s[m]) = {}
  BY <1>5
<1> HIDE DEF q, m
<1>8. ASSUME NEW j \in 1..(d + m) - 1 PROVE q[j + 1] \in Below(T, q[j])
  <2>1. CASE j < d
    <3>1. j \in 1..d /\ j + 1 \in 1..d /\ j \in 1..Len(p) - 1
      BY <1>1, <1>a, <1>b, <2>1
    <3>2. QED
      BY <1>1, <1>7, <3>1
  <2>2. CASE j = d
    <3>1. d \in 1..d /\ 1 \in 1..m
      BY <1>a
    <3>2. q[d] = p[d] /\ q[d + 1] = s[1]
      BY <1>7, <3>1
    <3>3. QED
      BY <1>c, <2>2, <3>2
  <2>3. CASE j > d
    <3>1. PICK i \in 1..m - 1 : i = j - d
      BY <1>a, <2>3
    <3>2. i \in 1..m /\ i + 1 \in 1..m /\ j = d + i /\ j + 1 = d + (i + 1)
      BY <1>a, <3>1
    <3>3. q[j] = s[i] /\ q[j + 1] = s[i + 1]
      BY <1>7, <3>2
    <3>4. QED
      BY <1>c, <3>3
  <2>4. QED
    BY <1>a, <2>1, <2>2, <2>3
<1>9. q[1] = <<l, 1>> /\ q[d + m] = s[m] /\ q[d + 1] = y
  <2>1. 1 \in 1..d /\ m \in 1..m /\ 1 \in 1..m
    BY <1>a
  <2>2. QED
    BY <1>2, <1>7, <1>c, <2>1
<1>10. IsWalk(T, <<l, 1>>, q)
  BY <1>6, <1>8, <1>9, <1>a, <1>c DEF IsWalk
<1>11. q \in WalksDown(T, top) /\ d + 1 <= Len(q)
  BY <1>6, <1>10, <1>a DEF WalksDown, Walks
<1>12. QED
  BY <1>9, <1>11

LEMMA ReachedNext ==
    ASSUME NEW T, IsTree(T), TypesOK(T), NEW top, TopOK(T, top), NEW d \in Nat \ {0}
    PROVE  Reached(T, top, d + 1) = UNION {Below(T, x) : x \in Reached(T, top, d)}
<1>1. ASSUME NEW y \in Reached(T, top, d + 1)
      PROVE  \E x \in Reached(T, top, d) : y \in Below(T, x)
  <2>1. PICK p \in WalksDown(T, top) : d + 1 <= Len(p) /\ y = p[d + 1]
    BY DEF Reached
  <2>2. Len(p) \in Nat /\ \A j \in 1..Len(p) - 1 : p[j + 1] \in Below(T, p[j])
    BY WalksDownAre
  <2>3. d \in 1..Len(p) - 1 /\ d <= Len(p)
    BY <2>1, <2>2
  <2>4. p[d] \in Reached(T, top, d)
    BY <2>3 DEF Reached
  <2>5. QED
    BY <2>1, <2>2, <2>3, <2>4
<1>2. ASSUME NEW x \in Reached(T, top, d), NEW y \in Below(T, x)
      PROVE  y \in Reached(T, top, d + 1)
  <2>1. PICK p \in WalksDown(T, top) : d <= Len(p) /\ x = p[d]
    BY DEF Reached
  <2>2. d \in 1..Len(p)
    BY <2>1, WalksDownAre
  <2>a. y \in Below(T, p[d])
    BY <2>1
  <2>3. PICK q \in WalksDown(T, top) : d + 1 <= Len(q) /\ q[d + 1] = y
    BY <2>2, <2>a, WalksBranch
  <2>4. QED
    BY <2>3 DEF Reached
<1>3. QED
  BY <1>1, <1>2

LEMMA ReachedFirst ==
    ASSUME NEW T, IsTree(T), TypesOK(T), NEW top, TopOK(T, top)
    PROVE  Reached(T, top, 1) = {<<l, 1>> : l \in top}
<1>1. ASSUME NEW y \in Reached(T, top, 1) PROVE \E l \in top : y = <<l, 1>>
  <2>1. PICK p \in WalksDown(T, top) : y = p[1]
    BY DEF Reached
  <2>2. QED
    BY <2>1, WalksDownAre
<1>2. ASSUME NEW l \in top PROVE <<l, 1>> \in Reached(T, top, 1)
  <2>1. <<l, 1>> \in Nodes(T) /\ Walks(T, <<l, 1>>) \subseteq WalksDown(T, top)
    BY TopNodes
  <2>2. PICK p : p \in Walks(T, <<l, 1>>)
    BY <2>1, WalksExist
  <2>3. p \in WalksDown(T, top) /\ p[1] = <<l, 1>>
    BY <2>1, <2>2 DEF Walks, IsWalk
  <2>4. 1 <= Len(p)
    BY <2>3, WalksDownAre
  <2>5. QED
    BY <2>3, <2>4 DEF Reached
<1>3. QED
  BY <1>1, <1>2

\* The search finds, level by level, what walks reach.
LEMMA LevelsAreReached ==
    ASSUME NEW T, IsTree(T), TypesOK(T), NEW top, TopOK(T, top)
    PROVE  /\ DOMAIN Levels(T, top) = 1..2 * Len(T) + 1
           /\ \A d \in 1..2 * Len(T) + 1 : Levels(T, top)[d] = Reached(T, top, d)
<1> DEFINE n == 2 * Len(T) + 1
           base == {<<l, 1>> : l \in top}
           Deeper(h) == [d \in 1..n |-> IF d = 1 THEN base ELSE UNION {Below(T, node) : node \in h[d - 1]}]
           level == CHOOSE h : h = Deeper(h)
           R == [d \in 1..n |-> Reached(T, top, d)]
           S == {j \in Nat : j + 1 <= n => level[j + 1] = Reached(T, top, j + 1)}
<1>0. n \in Nat \ {0}
  BY DEF IsTree
<1>a. Levels(T, top) = level
  BY DEF Levels
<1>b. base = Reached(T, top, 1)
  BY ReachedFirst
<1> HIDE DEF base, n
<1>1. R = Deeper(R)
  <2>1. ASSUME NEW d \in 1..n PROVE R[d] = Deeper(R)[d]
    <3>1. CASE d = 1
      BY <1>b, <3>1
    <3>2. CASE d # 1
      <4>1. PICK e \in Nat \ {0} : d = e + 1 /\ e = d - 1
        BY <1>0, <3>2
      <4>2. e \in 1..n
        BY <1>0, <4>1
      <4>3. R[d] = UNION {Below(T, node) : node \in R[e]}
        BY <4>1, <4>2, ReachedNext
      <4> HIDE DEF R
      <4>4. QED
        BY <3>2, <4>1, <4>3
    <3>3. QED
      BY <3>1, <3>2
  <2>2. R = [d \in 1..n |-> R[d]] /\ Deeper(R) = [d \in 1..n |-> Deeper(R)[d]]
    OBVIOUS
  <2> HIDE DEF R, Deeper
  <2>3. QED
    BY <2>1, <2>2
<1>2. level = Deeper(level)
  <2> HIDE DEF Deeper
  <2> QED
    BY <1>1
<1> HIDE DEF level
<1>3. level[1] = Reached(T, top, 1)
  <2>1. 1 \in 1..n
    BY <1>0
  <2>2. Deeper(level)[1] = base
    BY <2>1
  <2>3. QED
    BY <1>2, <1>b, <2>2
<1>4. ASSUME NEW j \in Nat, j \in S PROVE j + 1 \in S
  <2> SUFFICES ASSUME (j + 1) + 1 <= n PROVE level[(j + 1) + 1] = Reached(T, top, (j + 1) + 1)
    BY <1>4
  <2>1. j + 1 <= n /\ level[j + 1] = Reached(T, top, j + 1) /\ j + 1 \in Nat \ {0}
    BY <1>0, <1>4
  <2>2. (j + 1) + 1 \in 1..n /\ (j + 1) + 1 # 1 /\ ((j + 1) + 1) - 1 = j + 1
    BY <1>0
  <2>3. Deeper(level)[(j + 1) + 1] = UNION {Below(T, node) : node \in level[j + 1]}
    BY <2>2
  <2>4. Deeper(level)[(j + 1) + 1] = UNION {Below(T, node) : node \in Reached(T, top, j + 1)}
    BY <2>1, <2>3
  <2>5. Deeper(level)[(j + 1) + 1] = Reached(T, top, (j + 1) + 1)
    BY <2>1, <2>4, ReachedNext
  <2>6. QED
    BY <1>2, <2>5
<1>5. Nat \subseteq S
  <2>1. 0 \in S
    BY <1>3
  <2> HIDE DEF S
  <2>2. QED
    BY <1>4, <2>1, SetInduction
<1>6. ASSUME NEW d \in 1..n PROVE level[d] = Reached(T, top, d)
  <2>1. PICK j \in Nat : d = j + 1
    BY <1>0
  <2>2. j \in S
    BY <1>5, <2>1
  <2>3. QED
    BY <1>0, <2>1, <2>2
<1>7. DOMAIN level = 1..n
  BY <1>2
<1>8. QED
  BY <1>6, <1>7, <1>a DEF n

\* Walks of which the nodes in the same place agree in type and in being the
\* end meet the same types.
LEMMA LevelsCompareWalks ==
    ASSUME NEW T, IsTree(T), TypesOK(T), NEW top, TopOK(T, top)
    PROVE  VerifyLoopStructure(T, top)
              <=> \A p, q \in WalksDown(T, top) : TypesOf(T, p) = TypesOf(T, q)
<1> DEFINE n == 2 * Len(T) + 1
           W == WalksDown(T, top)
           Alike(a, b) == NodeType(T, a) = NodeType(T, b) /\ IsLeaf(T, a) = IsLeaf(T, b)
<1>0. Len(T) \in Nat
  BY DEF IsTree
<1>1. VerifyLoopStructure(T, top)
          <=> \A d \in 1..n : \A a, b \in Reached(T, top, d) : Alike(a, b)
  <2> DEFINE L == Levels(T, top)
  <2>1. VerifyLoopStructure(T, top) <=> \A d \in DOMAIN L : \A a, b \in L[d] : Alike(a, b)
    BY DEF VerifyLoopStructure, Levels
  <2>2. DOMAIN L = 1..n /\ \A d \in 1..n : L[d] = Reached(T, top, d)
    BY LevelsAreReached
  <2> HIDE DEF L, n, Alike
  <2>3. QED
    BY <2>1, <2>2
<1>2. ASSUME \A d \in 1..n : \A a, b \in Reached(T, top, d) : Alike(a, b), NEW p \in W, NEW q \in W
      PROVE  TypesOf(T, p) = TypesOf(T, q)
  <2>1. ASSUME NEW d \in 1..Len(p), d <= Len(q) PROVE Alike(p[d], q[d])
    <3>1. p[d] \in Reached(T, top, d) /\ q[d] \in Reached(T, top, d) /\ d \in 1..n
      <4>1. Len(p) \in 1..2 * Len(T)
        BY WalksDownAre
      <4>2. d <= Len(p) /\ d \in 1..n
        BY <1>0, <4>1
      <4>3. QED
        BY <2>1, <4>2 DEF Reached
    <3> HIDE DEF Alike
    <3>2. QED
      BY <1>2, <3>1
  <2>2. Len(p) = Len(q)
    <3>1. /\ Len(p) \in Nat \ {0} /\ Len(q) \in Nat \ {0}
          /\ \A j \in 1..Len(p) : IsLeaf(T, p[j]) <=> j = Len(p)
          /\ \A j \in 1..Len(q) : IsLeaf(T, q[j]) <=> j = Len(q)
      BY WalksDownAre
    <3>2. CASE Len(p) <= Len(q)
      <4>1. Len(p) \in 1..Len(p) /\ Len(p) \in 1..Len(q)
        BY <3>1, <3>2
      <4>2. IsLeaf(T, p[Len(p)]) = IsLeaf(T, q[Len(p)])
        BY <2>1, <3>2, <4>1
      <4>3. QED
        BY <3>1, <4>1, <4>2
    <3>3. CASE Len(q) <= Len(p)
      <4>1. Len(q) \in 1..Len(p) /\ Len(q) \in 1..Len(q) /\ Len(q) <= Len(q)
        BY <3>1, <3>3
      <4>2. IsLeaf(T, p[Len(q)]) = IsLeaf(T, q[Len(q)])
        BY <2>1, <4>1
      <4>3. QED
        BY <3>1, <4>1, <4>2
    <3>4. QED
      BY <3>1, <3>2, <3>3
  <2>3. DOMAIN p = 1..Len(p) /\ DOMAIN q = 1..Len(p) /\ \A d \in 1..Len(p) : d <= Len(q)
    <3>1. p \in Seq(Nodes(T)) /\ q \in Seq(Nodes(T))
      BY WalksDownAre
    <3>2. QED
      BY <2>2, <3>1
  <2>4. QED
    BY <2>1, <2>3 DEF TypesOf
<1>3. ASSUME \A p, q \in W : TypesOf(T, p) = TypesOf(T, q),
             NEW d \in 1..n, NEW a \in Reached(T, top, d), NEW b \in Reached(T, top, d)
      PROVE  Alike(a, b)
  <2>1. PICK p \in W : d <= Len(p) /\ a = p[d]
    BY DEF Reached
  <2>2. PICK q \in W : d <= Len(q) /\ b = q[d]
    BY DEF Reached
  <2>3. /\ p \in Seq(Nodes(T)) /\ q \in Seq(Nodes(T))
        /\ \A j \in 1..Len(p) : IsLeaf(T, p[j]) <=> j = Len(p)
        /\ \A j \in 1..Len(q) : IsLeaf(T, q[j]) <=> j = Len(q)
    BY WalksDownAre
  <2>4. TypesOf(T, p) = TypesOf(T, q)
    BY <1>3
  <2>5. DOMAIN p = 1..Len(p) /\ DOMAIN q = 1..Len(q) /\ Len(p) \in Nat /\ Len(q) \in Nat
    BY <2>3
  <2>6. DOMAIN p = DOMAIN q /\ \A j \in DOMAIN p : NodeType(T, p[j]) = NodeType(T, q[j])
    BY <2>4 DEF TypesOf
  <2>7. Len(p) = Len(q) /\ d \in 1..Len(p) /\ d \in DOMAIN p
    <3>1. d \in 1..Len(p)
      BY <1>0, <2>1, <2>5
    <3>2. Len(p) \in 1..Len(p) /\ Len(q) \in 1..Len(q)
      BY <1>0, <2>1, <2>2, <2>5
    <3>3. Len(p) \in 1..Len(q) /\ Len(q) \in 1..Len(p)
      BY <2>5, <2>6, <3>2
    <3>4. Len(p) = Len(q)
      <4> DEFINE m == Len(p)
                 k == Len(q)
      <4>1. m \in Nat /\ k \in Nat /\ m \in 1..k /\ k \in 1..m
        BY <2>5, <3>3
      <4> HIDE DEF m, k
      <4>2. m = k
        BY <4>1
      <4>3. QED
        BY <4>2 DEF m, k
    <3>5. QED
      BY <2>5, <3>1, <3>4
  <2>8. IsLeaf(T, a) <=> IsLeaf(T, b)
    BY <2>1, <2>2, <2>3, <2>7
  <2>9. NodeType(T, a) = NodeType(T, b)
    BY <2>1, <2>2, <2>6, <2>7
  <2>10. QED
    BY <2>8, <2>9 DEF IsLeaf
<1>4. QED
  BY <1>1, <1>2, <1>3

-----------------------------------------------------------------------------
(* Heights: how often a type is met after a node of a walk.                *)

One(b) == IF b THEN 1 ELSE 0

\* The places after place a of path p that have type t.
After(T, p, a, t) == {i \in DOMAIN p : i > a /\ NodeType(T, p[i]) = t}

Met(T, p, a, t) == Cardinality(After(T, p, a, t))

LEMMA MetNext ==
    ASSUME NEW T, NEW S, NEW p \in Seq(S), NEW a \in 0..Len(p) - 1, NEW t
    PROVE  /\ Met(T, p, a + 1, t) \in Nat
           /\ Met(T, p, a, t) = One(NodeType(T, p[a + 1]) = t) + Met(T, p, a + 1, t)
<1> DEFINE m == Len(p)
           A == After(T, p, a, t)
           B == After(T, p, a + 1, t)
<1>1. m \in Nat /\ DOMAIN p = 1..m /\ a \in Nat /\ a + 1 \in 1..m
  OBVIOUS
<1>2. IsFiniteSet(B) /\ Cardinality(B) \in Nat
  <2>1. IsFiniteSet(1..m)
    BY <1>1, FS_Interval
  <2>2. B \in SUBSET (1..m)
    BY <1>1 DEF After
  <2>3. IsFiniteSet(B)
    BY <2>1, <2>2, FS_Subset
  <2>4. QED
    BY <2>3, FS_CardinalityType
<1>3. a + 1 \notin B
  BY <1>1 DEF After
<1>4. CASE NodeType(T, p[a + 1]) = t
  <2>1. A = B \cup {a + 1}
    <3>1. \A i \in 1..m : i > a <=> i > a + 1 \/ i = a + 1
      BY <1>1
    <3>2. QED
      BY <1>1, <1>4, <3>1 DEF After
  <2>2. Cardinality(A) = Cardinality(B) + 1
    BY <1>2, <1>3, <2>1, FS_AddElement
  <2>3. QED
    BY <1>2, <1>4, <2>2 DEF Met, One
<1>5. CASE NodeType(T, p[a + 1]) # t
  <2>1. A = B
    <3>1. \A i \in 1..m : i > a <=> i > a + 1 \/ i = a + 1
      BY <1>1
    <3>2. QED
      BY <1>1, <1>5, <3>1 DEF After
  <2>2. QED
    BY <1>2, <1>5, <2>1 DEF Met, One
<1>6. QED
  BY <1>4, <1>5

\* The types of a loop are those of its nodes.
LEMMA CountTypeIs ==
    ASSUME NEW T, IsTree(T), TypesOK(T), NEW l \in DOMAIN T, NEW t \in {"Outer", "Inner"}
    PROVE  /\ CountType(T[l].type, t) \in Nat
           /\ Len(OwnNodes(T, l)) = 1 => CountType(T[l].type, t) = One(T[l].type[1] = t)
           /\ Len(OwnNodes(T, l)) = 2 =>
                CountType(T[l].type, t) = One(T[l].type[1] = t) + One(T[l].type[2] = t)
<1> DEFINE types == T[l].type
           A == {n \in DOMAIN types : types[n] = t}
           B == {n \in AttributedIdxs(types) : types[n] = t}
<1>1. types \in Seq(LoopType) /\ Len(types) \in 1..2 /\ DOMAIN types = 1..Len(types)
  BY DEF TypesOK
<1>2. A = B
  BY DEF AttributedIdxs
<1>3. AttributedIdxs(types) = 1..Len(OwnNodes(T, l))
  BY OwnNodesAre
<1>a. CountType(types, t) = Cardinality(A)
  BY DEF CountType
<1>b. IsFiniteSet(A)
  <2>1. IsFiniteSet(1..Len(types))
    BY <1>1, FS_Interval
  <2>2. A \in SUBSET (1..Len(types))
    BY <1>1
  <2> HIDE DEF A
  <2>3. QED
    BY <2>1, <2>2, FS_Subset
<1>4. CountType(types, t) \in Nat
  <2> HIDE DEF A
  <2> QED
    BY <1>a, <1>b, FS_CardinalityType
<1>5. ASSUME Len(OwnNodes(T, l)) = 1 PROVE CountType(types, t) = One(types[1] = t)
  <2>1. A = {n \in 1..1 : types[n] = t}
    BY <1>2, <1>3, <1>5
  <2>2. CASE types[1] = t
    <3>1. A = {1}
      BY <2>1, <2>2
    <3> HIDE DEF A
    <3>2. QED
      BY <1>a, <2>2, <3>1, FS_Singleton DEF One
  <2>3. CASE types[1] # t
    <3>1. A = {}
      BY <2>1, <2>3
    <3> HIDE DEF A
    <3>2. QED
      BY <1>a, <2>3, <3>1, FS_EmptySet DEF One
  <2>4. QED
    BY <2>2, <2>3
<1>6. ASSUME Len(OwnNodes(T, l)) = 2
      PROVE  CountType(types, t) = One(types[1] = t) + One(types[2] = t)
  <2>1. A = {n \in 1..2 : types[n] = t}
    BY <1>2, <1>3, <1>6
  <2> DEFINE C == {n \in {2} : types[n] = t}
  <2>2. IsFiniteSet(C) /\ Cardinality(C) = One(types[2] = t) /\ 1 \notin C
    <3>1. C = IF types[2] = t THEN {2} ELSE {}
      OBVIOUS
    <3>2. 1 \notin C
      OBVIOUS
    <3> HIDE DEF C
    <3>3. QED
      BY <3>1, <3>2, FS_Singleton, FS_EmptySet DEF One
  <2>3. A = IF types[1] = t THEN C \cup {1} ELSE C
    BY <2>1
  <2> HIDE DEF A, C
  <2>4. Cardinality(C \cup {1}) = Cardinality(C) + 1
    BY <2>2, FS_AddElement
  <2>5. QED
    BY <1>a, <2>2, <2>3, <2>4 DEF One
<1>7. QED
  BY <1>4, <1>5, <1>6

\* The definition of a height by recursion is one.
LEMMA HeightIsDefined ==
    ASSUME NEW T, IsTree(T), TypesOK(T), NEW t \in {"Outer", "Inner"}
    PROVE  \A l \in DOMAIN T :
              /\ HeightSameType(T, l, t) \in Nat
              /\ HeightSameType(T, l, t) =
                    IF FirstAttributedChild(T, l) = 0 THEN 0
                    ELSE CountType(T[FirstAttributedChild(T, l)].type, t)
                            + HeightSameType(T, FirstAttributedChild(T, l), t)
<1> DEFINE n        == Len(T)
           first(i) == FirstAttributedChild(T, i)
           of(h, i) == IF first(i) = 0 THEN 0 ELSE CountType(T[first(i)].type, t) + h[first(i)]
           step     == [i \in 1..n |-> [h \in [1..n -> Nat] |-> of(h, i)]]
           High(h)  == [i \in DOMAIN T |->
                          LET c == FirstAttributedChild(T, i)
                          IN  IF c = 0 THEN 0 ELSE CountType(T[c].type, t) + h[c]]
           height   == CHOOSE h : h = High(h)
<1>1. n \in Nat /\ DOMAIN T = 1..n
  BY DEF IsTree
<1>2. ASSUME NEW i \in 1..n, first(i) # 0 PROVE first(i) \in i + 1..n
  <2>1. first(i) \in DOMAIN T /\ i \in Ancestors(T, first(i))
    BY <1>2, FirstChildIsInside DEF Descendants
  <2>2. i \in 1..first(i) - 1
    BY <2>1, AncestorsAreEarlier
  <2> HIDE DEF first
  <2>3. QED
    BY <1>1, <2>1, <2>2
<1>3. \A c \in DOMAIN T : CountType(T[c].type, t) \in Nat
  BY CountTypeIs
<1> HIDE DEF n, first
<1>4. step \in LaterSteps(Nat, n)
  <2>1. ASSUME NEW i \in 1..n, NEW h \in [1..n -> Nat] PROVE of(h, i) \in Nat
    <3>1. CASE first(i) = 0
      BY <3>1
    <3>2. CASE first(i) # 0
      <4>1. first(i) \in 1..n /\ CountType(T[first(i)].type, t) \in Nat
        BY <1>1, <1>2, <1>3, <3>2
      <4>2. QED
        BY <3>2, <4>1
    <3>3. QED
      BY <3>1, <3>2
  <2>2. ASSUME NEW i \in 1..n, NEW h \in [1..n -> Nat], NEW k \in [1..n -> Nat], \A j \in i + 1..n : h[j] = k[j]
        PROVE  of(h, i) = of(k, i)
    BY <1>2, <2>2
  <2> HIDE DEF of
  <2>3. QED
    BY <2>1, <2>2 DEF LaterSteps
<1>5. PICK g \in [1..n -> Nat] : \A i \in 1..n : g[i] = step[i][g]
  <2> DEFINE V == Nat
  <2>1. 0 \in V /\ n \in Nat
    BY <1>1
  <2> HIDE DEF step, V
  <2>2. step \in LaterSteps(V, n)
    BY <1>4 DEF V
  <2>3. \E g \in [1..n -> V] : \A i \in 1..n : g[i] = step[i][g]
    BY <2>1, <2>2, RecursionFromLater
  <2> QED
    BY <2>3 DEF V
<1>6. g = High(g)
  <2>1. \A i \in 1..n : g[i] = of(g, i)
    <3> HIDE DEF of
    <3> QED
      BY <1>5
  <2>2. \A i \in 1..n : g[i] = High(g)[i]
    BY <1>1, <2>1 DEF first
  <2>3. g = [i \in 1..n |-> g[i]] /\ High(g) = [i \in 1..n |-> High(g)[i]]
    BY <1>1
  <2> HIDE DEF High
  <2>4. QED
    BY <2>2, <2>3
<1>7. height = High(height)
  <2> HIDE DEF High
  <2> QED
    BY <1>6
<1>8. \A l : HeightSameType(T, l, t) = height[l]
  BY DEF HeightSameType
<1> HIDE DEF height
<1>9. \A l \in DOMAIN T : height[l] = of(height, l)
  BY <1>7 DEF first
<1> DEFINE S == {l \in DOMAIN T : height[l] \in Nat}
<1>10. ASSUME NEW i \in 1..n, \A j \in i + 1..n : j \in S PROVE i \in S
  <2>1. CASE first(i) = 0
    BY <1>1, <1>9, <2>1
  <2>2. CASE first(i) # 0
    <3>1. first(i) \in DOMAIN T /\ height[first(i)] \in Nat
      BY <1>2, <1>10, <2>2
    <3>2. CountType(T[first(i)].type, t) \in Nat
      BY <1>3, <3>1
    <3>3. QED
      BY <1>1, <1>9, <2>2, <3>1, <3>2
  <2>3. QED
    BY <2>1, <2>2
<1>11. \A i \in 1..n : i \in S
  <2> HIDE DEF S
  <2> QED
    BY <1>1, <1>10, LaterInduction
<1>12. ASSUME NEW l \in DOMAIN T
       PROVE  /\ HeightSameType(T, l, t) \in Nat
              /\ HeightSameType(T, l, t) =
                    IF first(l) = 0 THEN 0
                    ELSE CountType(T[first(l)].type, t) + HeightSameType(T, first(l), t)
  <2>1. height[l] \in Nat
    BY <1>1, <1>11
  <2>2. HeightSameType(T, l, t) = height[l] /\ HeightSameType(T, first(l), t) = height[first(l)]
    BY <1>8
  <2>3. QED
    BY <1>9, <2>1, <2>2
<1>13. QED
  BY <1>12 DEF first

\* Walks that meet the same types meet them as often after the same place.
LEMMA SameTypesSameMet ==
    ASSUME NEW T, NEW p, NEW q, TypesOf(T, p) = TypesOf(T, q), NEW a, NEW t
    PROVE  Met(T, p, a, t) = Met(T, q, a, t)
<1>1. DOMAIN p = DOMAIN q /\ \A i \in DOMAIN p : NodeType(T, p[i]) = NodeType(T, q[i])
  BY DEF TypesOf
<1>2. After(T, p, a, t) = After(T, q, a, t)
  BY <1>1 DEF After
<1>3. QED
  BY <1>2 DEF Met

\* The height of a loop, which is counted along first children, is what is met
\* after it on any walk, when all walks meet the same types.
HeightIsMet(T, W, l, t) ==
    \A p \in W : \A a \in 1..Len(p) :
        p[a] = <<l, Len(OwnNodes(T, l))>> => Met(T, p, a, t) = HeightSameType(T, l, t)

LEMMA HeightsAreMet ==
    ASSUME NEW T, IsTree(T), TypesOK(T), NEW top, TopOK(T, top),
           \A p, q \in WalksDown(T, top) : TypesOf(T, p) = TypesOf(T, q),
           NEW t \in {"Outer", "Inner"}
    PROVE  \A l \in DOMAIN T : HeightIsMet(T, WalksDown(T, top), l, t)
<1> DEFINE n == Len(T)
           W == WalksDown(T, top)
           Good == {l \in DOMAIN T : HeightIsMet(T, W, l, t)}
<1>1. n \in Nat /\ DOMAIN T = 1..n
  BY DEF IsTree
<1> HIDE DEF n
<1>2. ASSUME NEW i \in 1..n, \A j \in i + 1..n : j \in Good PROVE i \in Good
  <2> SUFFICES ASSUME NEW p \in W, NEW a \in 1..Len(p), p[a] = <<i, Len(OwnNodes(T, i))>>
               PROVE  Met(T, p, a, t) = HeightSameType(T, i, t)
    BY <1>1 DEF HeightIsMet
  <2> DEFINE k == Len(OwnNodes(T, i))
             F == AttributedFrontier(T, i)
             c == FirstAttributedChild(T, i)
  <2>0. /\ p \in Seq(Nodes(T)) /\ Len(p) \in Nat /\ DOMAIN p = 1..Len(p)
        /\ p[a] \in Nodes(T)
        /\ IsLeaf(T, p[a]) <=> a = Len(p)
    <3>1. p \in Seq(Nodes(T)) /\ p[a] \in Nodes(T) /\ (IsLeaf(T, p[a]) <=> a = Len(p))
      BY WalksDownAre
    <3>2. Len(p) \in Nat /\ DOMAIN p = 1..Len(p)
      BY <3>1
    <3>3. QED
      BY <3>1, <3>2
  <2>1. k \in 1..k
    <3>1. k \in 0..2
      BY <1>1, OwnNodesAre
    <3>2. PICK l \in DOMAIN T : \E m \in 1..Len(OwnNodes(T, l)) : p[a] = <<l, m>>
      BY <2>0, NodesAre
    <3>3. l = i
      BY <3>2
    <3>4. k # 0
      BY <3>1, <3>2, <3>3
    <3>5. QED
      BY <3>1, <3>4
  <2>2. /\ Below(T, p[a]) = {<<f, 1>> : f \in F}
        /\ IsLeaf(T, p[a]) <=> F = {}
    BY <1>1, <2>1, BelowIs
  <2>3. F # {} => c \in F /\ c # 0
    BY FirstChildIsMetFirst
  <2>4. F = {} => c = 0
    BY DEF FirstAttributedChild
  <2>5. HeightSameType(T, i, t) = IF c = 0 THEN 0
                                  ELSE CountType(T[c].type, t) + HeightSameType(T, c, t)
    BY <1>1, HeightIsDefined
  <2> HIDE DEF k, c
  <2>6. CASE F = {}
    <3>1. a = Len(p)
      BY <2>0, <2>2, <2>6
    <3>2. After(T, p, a, t) = {}
      BY <2>0, <3>1 DEF After
    <3>3. Met(T, p, a, t) = 0
      BY <3>2, FS_EmptySet DEF Met
    <3>4. QED
      BY <2>4, <2>5, <2>6, <3>3
  <2>7. CASE F # {}
    <3>1. c \in F /\ c # 0
      BY <2>3, <2>7
    <3>2. c \in DOMAIN T /\ Attributed(T, c) /\ c \in i + 1..n
      <4>1. c \in DOMAIN T /\ i \in Ancestors(T, c) /\ Attributed(T, c)
        BY <3>1 DEF AttributedFrontier, Descendants
      <4>2. i \in 1..c - 1
        BY <4>1, AncestorsAreEarlier
      <4>3. QED
        BY <1>1, <4>1, <4>2
    <3>3. HeightIsMet(T, W, c, t)
      BY <1>2, <3>2
    <3>4. <<c, 1>> \in Below(T, p[a])
      BY <2>2, <3>1
    <3>5. PICK q \in W : a + 1 <= Len(q) /\ q[a + 1] = <<c, 1>>
      BY <3>4, WalksBranch
    <3>6. Met(T, p, a, t) = Met(T, q, a, t)
      BY SameTypesSameMet
    <3>7. /\ q \in Seq(Nodes(T)) /\ Len(q) \in Nat
          /\ \A j \in 1..Len(q) - 1 : q[j + 1] \in Below(T, q[j])
          /\ \A j \in 1..Len(q) : IsLeaf(T, q[j]) <=> j = Len(q)
      BY WalksDownAre
    <3>8. a \in 0..Len(q) - 1 /\ a + 1 \in 1..Len(q) /\ a \in Nat
      BY <2>0, <3>5, <3>7
    <3>9. /\ Met(T, q, a, t) = One(T[c].type[1] = t) + Met(T, q, a + 1, t)
          /\ Met(T, q, a + 1, t) \in Nat
      <4>1. NodeType(T, q[a + 1]) = T[c].type[1]
        BY <3>5 DEF NodeType
      <4>2. QED
        BY <3>7, <3>8, <4>1, MetNext
    <3>10. Len(OwnNodes(T, c)) \in 1..2
      BY <3>2, OwnNodesAre
    <3>11. CASE Len(OwnNodes(T, c)) = 1
      <4>1. Met(T, q, a + 1, t) = HeightSameType(T, c, t)
        BY <3>3, <3>5, <3>8, <3>11 DEF HeightIsMet
      <4>2. CountType(T[c].type, t) = One(T[c].type[1] = t)
        BY <3>2, <3>11, CountTypeIs
      <4>3. QED
        BY <2>5, <3>1, <3>6, <3>9, <4>1, <4>2
    <3>12. CASE Len(OwnNodes(T, c)) = 2
      <4>1. Below(T, <<c, 1>>) = {<<c, 2>>} /\ ~IsLeaf(T, <<c, 1>>)
        <5>1. 1 \in 1..Len(OwnNodes(T, c)) /\ 1 < Len(OwnNodes(T, c)) /\ 1 + 1 = 2
          BY <3>12
        <5>2. Below(T, <<c, 1>>) = {<<c, 1 + 1>>} /\ ~IsLeaf(T, <<c, 1>>)
          BY <3>2, <5>1, BelowIs
        <5>3. QED
          BY <5>1, <5>2
      <4>2. a + 1 # Len(q)
        BY <3>5, <3>7, <3>8, <4>1
      <4>3. a + 1 \in 1..Len(q) - 1 /\ a + 1 \in 0..Len(q) - 1 /\ (a + 1) + 1 \in 1..Len(q)
        BY <3>7, <3>8, <4>2
      <4>4. q[(a + 1) + 1] = <<c, 2>>
        BY <3>5, <3>7, <4>1, <4>3
      <4>5. Met(T, q, (a + 1) + 1, t) = HeightSameType(T, c, t)
        BY <3>3, <3>12, <4>3, <4>4 DEF HeightIsMet
      <4>6. Met(T, q, a + 1, t) = One(T[c].type[2] = t) + Met(T, q, (a + 1) + 1, t)
        <5>1. NodeType(T, q[(a + 1) + 1]) = T[c].type[2]
          BY <4>4 DEF NodeType
        <5>2. QED
          BY <3>7, <4>3, <5>1, MetNext
      <4>7. CountType(T[c].type, t) = One(T[c].type[1] = t) + One(T[c].type[2] = t)
        BY <3>2, <3>12, CountTypeIs
      <4>8. HeightSameType(T, c, t) \in Nat
        BY <3>2, HeightIsDefined
      <4>9. One(T[c].type[1] = t) \in Nat /\ One(T[c].type[2] = t) \in Nat
        BY DEF One
      <4>10. QED
        BY <2>5, <3>1, <3>6, <3>9, <4>5, <4>6, <4>7, <4>8, <4>9
    <3>13. QED
      BY <3>10, <3>11, <3>12
  <2>8. QED
    BY <2>6, <2>7
<1>3. \A i \in 1..n : i \in Good
  <2> HIDE DEF Good
  <2> QED
    BY <1>1, <1>2, LaterInduction
<1>4. QED
  BY <1>1, <1>3

\* The height that is assigned to a node as its axis is what is met after it.
LEMMA AxisHeightsAreMet ==
    ASSUME NEW T, IsTree(T), TypesOK(T), NEW top, TopOK(T, top),
           \A p, q \in WalksDown(T, top) : TypesOf(T, p) = TypesOf(T, q),
           NEW p \in WalksDown(T, top), NEW j \in 1..Len(p)
    PROVE  AxisHeight(T, p[j][1], p[j][2]) = Met(T, p, j, NodeType(T, p[j]))
<1>0. /\ p \in Seq(Nodes(T)) /\ Len(p) \in Nat /\ p[j] \in Nodes(T)
      /\ \A i \in 1..Len(p) - 1 : p[i + 1] \in Below(T, p[i])
      /\ \A i \in 1..Len(p) : IsLeaf(T, p[i]) <=> i = Len(p)
  BY WalksDownAre
<1>z. p[j] \in Nodes(T)
  BY <1>0
<1>a. PICK l \in DOMAIN T : \E n \in 1..Len(OwnNodes(T, l)) : p[j] = <<l, n>>
  <2> QED
    BY <1>z, NodesAre
<1>b. PICK n \in 1..Len(OwnNodes(T, l)) : p[j] = <<l, n>>
  BY <1>a
<1> DEFINE types == T[l].type
           t == types[n]
           k == Len(OwnNodes(T, l))
<1>1. /\ k \in 1..2 /\ AttributedIdxs(types) = 1..k /\ n \in 1..k
      /\ types \in Seq(LoopType) /\ Len(types) \in 1..2 /\ DOMAIN types = 1..Len(types)
  <2>1. k \in 0..2 /\ AttributedIdxs(types) = 1..k
    BY OwnNodesAre
  <2>2. types \in Seq(LoopType) /\ Len(types) \in 1..2 /\ DOMAIN types = 1..Len(types)
    BY DEF TypesOK
  <2>3. n \in 1..k
    OBVIOUS
  <2> HIDE DEF types, k
  <2>4. QED
    BY <2>1, <2>2, <2>3
<1>2. t \in {"Outer", "Inner"} /\ p[j][1] = l /\ p[j][2] = n /\ NodeType(T, p[j]) = t
  <2>1. n \in AttributedIdxs(types)
    BY <1>1
  <2>2. t # "Regular" /\ n \in DOMAIN types
    BY <2>1 DEF AttributedIdxs
  <2>3. t \in LoopType
    BY <1>1, <2>2
  <2>4. QED
    BY <1>b, <2>2, <2>3 DEF LoopType, NodeType
<1>3. AxisHeight(T, l, n) = HeightSameType(T, l, t)
                              + (IF Len(types) = 2 /\ n = 1 /\ types[1] = types[2] THEN 1 ELSE 0)
  BY DEF AxisHeight
<1>4. HeightIsMet(T, WalksDown(T, top), l, t)
  BY <1>2, HeightsAreMet
<1>5. HeightSameType(T, l, t) \in Nat
  BY <1>2, HeightIsDefined
<1>c. t = types[n] /\ k = Len(OwnNodes(T, l))
  OBVIOUS
<1> HIDE DEF types, t, k
<1>6. CASE n = k
  <2>1. Met(T, p, j, t) = HeightSameType(T, l, t)
    BY <1>4, <1>b, <1>6, <1>c DEF HeightIsMet
  <2>2. ~(Len(types) = 2 /\ n = 1 /\ types[1] = types[2])
    <3>1. CASE k = 1
      <4>1. 2 \notin AttributedIdxs(types) /\ 1 \in AttributedIdxs(types)
        BY <1>1, <3>1
      <4>2. QED
        BY <1>1, <4>1 DEF AttributedIdxs
    <3>2. CASE k = 2
      BY <1>6, <3>2
    <3>3. QED
      BY <1>1, <3>1, <3>2
  <2>3. QED
    BY <1>2, <1>3, <1>5, <2>1, <2>2
<1>7. CASE n # k
  <2>1. n = 1 /\ k = 2 /\ Len(types) = 2
    <3>1. n = 1 /\ k = 2
      BY <1>1, <1>7
    <3>2. 2 \in AttributedIdxs(types)
      BY <1>1, <3>1
    <3>3. 2 \in DOMAIN types
      BY <3>2 DEF AttributedIdxs
    <3>4. QED
      BY <1>1, <3>1, <3>3
  <2>2. Below(T, p[j]) = {<<l, 2>>} /\ ~IsLeaf(T, p[j])
    <3>1. 1 \in 1..Len(OwnNodes(T, l)) /\ 1 < Len(OwnNodes(T, l)) /\ 1 + 1 = 2
      BY <2>1, <1>c
    <3>2. Below(T, <<l, 1>>) = {<<l, 1 + 1>>} /\ ~IsLeaf(T, <<l, 1>>)
      BY <3>1, BelowIs
    <3>3. QED
      BY <1>b, <2>1, <3>1, <3>2
  <2>3. j \in 1..Len(p) - 1 /\ j + 1 \in 1..Len(p) /\ j \in 0..Len(p) - 1
    BY <1>0, <2>2
  <2>4. p[j + 1] = <<l, 2>>
    BY <1>0, <2>2, <2>3
  <2>5. Met(T, p, j + 1, t) = HeightSameType(T, l, t)
    BY <1>4, <1>c, <2>1, <2>3, <2>4 DEF HeightIsMet
  <2>6. Met(T, p, j, t) = One(types[2] = t) + Met(T, p, j + 1, t)
    <3>1. NodeType(T, p[j + 1]) = types[2]
      BY <2>4 DEF NodeType, types
    <3>2. QED
      BY <1>0, <2>3, <3>1, MetNext
  <2>7. One(types[2] = t) = IF Len(types) = 2 /\ n = 1 /\ types[1] = types[2] THEN 1 ELSE 0
    BY <1>c, <2>1 DEF One
  <2>8. QED
    BY <1>2, <1>3, <1>5, <2>5, <2>6, <2>7
<1>8. QED
  BY <1>6, <1>7

-----------------------------------------------------------------------------
(* Heights depend on what is inside a loop, and not on what is around it   *)
(* or comes after it.                                                      *)

LEMMA InsideDecidesHeights ==
    ASSUME NEW T, IsTree(T), TypesOK(T), NEW U, IsTree(U), TypesOK(U),
           DOMAIN T \subseteq DOMAIN U,
           \A l \in DOMAIN T : U[l].parent = T[l].parent /\ U[l].type = T[l].type,
           NEW D \in SUBSET DOMAIN T,
           \A l \in D : Descendants(U, l) \subseteq DOMAIN T /\ Descendants(T, l) \subseteq D,
           NEW t \in {"Outer", "Inner"}
    PROVE  \A l \in D : HeightSameType(U, l, t) = HeightSameType(T, l, t)
<1> DEFINE n == Len(T)
           S == {l \in DOMAIN T : l \in D => HeightSameType(U, l, t) = HeightSameType(T, l, t)}
<1>0. n \in Nat /\ DOMAIN T = 1..n
  BY DEF IsTree
<1>1. \A l \in DOMAIN T : Ancestors(U, l) = Ancestors(T, l)
  BY SameParentsSameAncestors
<1>2. \A l \in DOMAIN T : Attributed(U, l) <=> Attributed(T, l)
  BY DEF Attributed
<1>3. ASSUME NEW l \in D
      PROVE  FirstAttributedChild(U, l) = FirstAttributedChild(T, l)
  <2>1. Descendants(U, l) = Descendants(T, l)
    BY <1>1 DEF Descendants
  <2>2. Descendants(T, l) \subseteq DOMAIN T
    BY DEF Descendants
  <2>3. AttributedFrontier(U, l) = AttributedFrontier(T, l)
    BY <1>1, <1>2, <2>1, <2>2 DEF AttributedFrontier
  <2> DEFINE F == AttributedFrontier(T, l)
             deepU(d) == Cardinality(Ancestors(U, d))
             deepT(d) == Cardinality(Ancestors(T, d))
             topU == Min({deepU(d) : d \in F})
             topT == Min({deepT(d) : d \in F})
  <2>4. \A d \in F : deepU(d) = deepT(d)
    BY <1>1, <2>2 DEF AttributedFrontier
  <2>5. FirstAttributedChild(U, l) = IF F = {} THEN 0 ELSE Min({d \in F : deepU(d) = topU})
    BY <2>3 DEF FirstAttributedChild
  <2>6. FirstAttributedChild(T, l) = IF F = {} THEN 0 ELSE Min({d \in F : deepT(d) = topT})
    BY DEF FirstAttributedChild
  <2> HIDE DEF F, deepU, deepT
  <2>7. {deepU(d) : d \in F} = {deepT(d) : d \in F}
    BY <2>4
  <2>8. topU = topT
    BY <2>7
  <2> HIDE DEF topU, topT
  <2> DEFINE A == {d \in F : deepU(d) = topU}
             B == {d \in F : deepT(d) = topT}
  <2>9. A = B
    BY <2>4, <2>8
  <2>a. FirstAttributedChild(U, l) = IF F = {} THEN 0 ELSE Min(A)
    BY <2>5
  <2>b. FirstAttributedChild(T, l) = IF F = {} THEN 0 ELSE Min(B)
    BY <2>6
  <2> HIDE DEF A, B
  <2>10. QED
    BY <2>9, <2>a, <2>b
<1>4. ASSUME NEW i \in 1..n, \A j \in i + 1..n : j \in S PROVE i \in S
  <2> SUFFICES ASSUME i \in D PROVE HeightSameType(U, i, t) = HeightSameType(T, i, t)
    BY <1>0
  <2> DEFINE c == FirstAttributedChild(T, i)
  <2>1. FirstAttributedChild(U, i) = c
    BY <1>3
  <2>2. i \in DOMAIN T /\ i \in DOMAIN U
    BY <1>0
  <2>3. HeightSameType(T, i, t) = IF c = 0 THEN 0 ELSE CountType(T[c].type, t) + HeightSameType(T, c, t)
    BY <2>2, HeightIsDefined
  <2>4. HeightSameType(U, i, t) = IF c = 0 THEN 0 ELSE CountType(U[c].type, t) + HeightSameType(U, c, t)
    BY <2>1, <2>2, HeightIsDefined
  <2>5. c # 0 => c \in DOMAIN T /\ c \in D /\ c \in i + 1..n
    <3> SUFFICES ASSUME c # 0 PROVE c \in DOMAIN T /\ c \in D /\ c \in i + 1..n
      OBVIOUS
    <3>1. c \in Descendants(T, i)
      BY FirstChildIsInside
    <3>2. c \in DOMAIN T /\ i \in Ancestors(T, c) /\ c \in D
      BY <3>1 DEF Descendants
    <3>3. i \in 1..c - 1
      BY <3>2, AncestorsAreEarlier
    <3>4. QED
      BY <1>0, <3>2, <3>3
  <2> HIDE DEF c
  <2>6. c # 0 => HeightSameType(U, c, t) = HeightSameType(T, c, t) /\ U[c].type = T[c].type
    BY <1>4, <2>5
  <2>7. QED
    BY <2>3, <2>4, <2>6
<1>5. \A i \in 1..n : i \in S
  <2> HIDE DEF S
  <2> QED
    BY <1>0, <1>4, LaterInduction
<1>6. QED
  BY <1>0, <1>5

-----------------------------------------------------------------------------
(* The loops that the launcher collects are a way down.                    *)

FirstChild(T, i) == Min(Children(T, i))

LEMMA FirstChildIsLater ==
    ASSUME NEW T, IsTree(T), NEW i \in DOMAIN T, Children(T, i) # {}
    PROVE  FirstChild(T, i) \in Children(T, i) /\ FirstChild(T, i) \in i + 1..Len(T)
<1>1. Children(T, i) \subseteq i + 1..Len(T) /\ i \in Nat /\ Len(T) \in Nat
  BY DEF IsTree, Children
<1>2. Children(T, i) \subseteq Nat
  BY <1>1
<1>3. QED
  BY <1>1, <1>2, MinIsLeast DEF FirstChild

\* The definition by recursion is one.
LEMMA CollectIsDefined ==
    ASSUME NEW T, IsTree(T), TypesOK(T)
    PROVE  \A l \in DOMAIN T :
              CollectLoops(T, l) = OwnNodes(T, l) \o IF Children(T, l) = {} THEN <<>>
                                                     ELSE CollectLoops(T, FirstChild(T, l))
<1> DEFINE n        == Len(T)
           S        == Seq(Nodes(T))
           rest(h, i) == IF Children(T, i) = {} THEN <<>> ELSE h[FirstChild(T, i)]
           of(h, i) == OwnNodes(T, i) \o rest(h, i)
           step     == [i \in 1..n |-> [h \in [1..n -> S] |-> of(h, i)]]
           Collect(h) == [i \in DOMAIN T |->
                            LET kids == Children(T, i)
                            IN  OwnNodes(T, i) \o IF kids = {} THEN <<>> ELSE h[Min(kids)]]
           collect  == CHOOSE h : h = Collect(h)
<1>1. n \in Nat /\ DOMAIN T = 1..n
  BY DEF IsTree
<1>2. \A i \in 1..n : OwnNodes(T, i) \in S
  BY <1>1, OwnNodesAre
<1>3. \A i \in 1..n : Children(T, i) # {} => FirstChild(T, i) \in i + 1..n /\ FirstChild(T, i) \in 1..n
  <2>1. \A i \in 1..n : \A c \in i + 1..n : c \in 1..n
    BY <1>1
  <2>2. QED
    BY <1>1, <2>1, FirstChildIsLater
<1> HIDE DEF n
<1>4. step \in LaterSteps(S, n)
  <2>1. ASSUME NEW i \in 1..n, NEW h \in [1..n -> S] PROVE of(h, i) \in S
    <3>1. rest(h, i) \in S
      <4>1. <<>> \in S
        OBVIOUS
      <4> HIDE DEF S
      <4>2. Children(T, i) # {} => h[FirstChild(T, i)] \in S
        BY <1>3
      <4>3. QED
        BY <4>1, <4>2
    <3> HIDE DEF rest
    <3>2. QED
      BY <1>2, <3>1
  <2>2. ASSUME NEW i \in 1..n, NEW h \in [1..n -> S], NEW k \in [1..n -> S], \A j \in i + 1..n : h[j] = k[j]
        PROVE  of(h, i) = of(k, i)
    BY <1>3, <2>2
  <2> HIDE DEF S, of
  <2>3. QED
    BY <2>1, <2>2 DEF LaterSteps
<1>5. PICK g \in [1..n -> S] : \A i \in 1..n : g[i] = step[i][g]
  <2>1. <<>> \in S
    OBVIOUS
  <2> HIDE DEF step, S
  <2> QED
    BY <1>1, <1>4, <2>1, RecursionFromLater
<1>6. g = Collect(g)
  <2>1. \A i \in 1..n : g[i] = of(g, i)
    <3> HIDE DEF of, S
    <3> QED
      BY <1>5
  <2>2. \A i \in 1..n : g[i] = Collect(g)[i]
    BY <1>1, <2>1 DEF FirstChild
  <2>3. g = [i \in 1..n |-> g[i]] /\ Collect(g) = [i \in 1..n |-> Collect(g)[i]]
    BY <1>1
  <2> HIDE DEF Collect
  <2>4. QED
    BY <2>2, <2>3
<1>7. collect = Collect(collect)
  <2> HIDE DEF Collect
  <2> QED
    BY <1>6
<1>8. \A l : CollectLoops(T, l) = collect[l]
  BY DEF CollectLoops
<1> HIDE DEF collect
<1>9. \A i \in DOMAIN T : collect[i] = of(collect, i)
  BY <1>7 DEF FirstChild
<1>10. QED
  BY <1>8, <1>9

AllAttributed(T, l) == \A d \in Descendants(T, l) : Attributed(T, d)

\* What is inside a child is inside its parent.
LEMMA ChildIsInside ==
    ASSUME NEW T, IsTree(T), NEW l \in DOMAIN T, NEW c \in Children(T, l)
    PROVE  /\ c \in Descendants(T, l)
           /\ Descendants(T, c) \subseteq Descendants(T, l)
<1>1. c \in DOMAIN T /\ T[c].parent = l
  BY DEF Children
<1>2. l \in Ancestors(T, c)
  <2>1. l # 0
    BY DEF IsTree
  <2>2. QED
    BY <1>1, <2>1, AncestorsAreDefined
<1>3. QED
  BY <1>1, <1>2, AncestorsAreTransitive DEF Descendants

LEMMA CollectIsAWay ==
    ASSUME NEW T, IsTree(T), TypesOK(T)
    PROVE  \A l \in DOMAIN T : AllAttributed(T, l) => CollectLoops(T, l) \in PathsFrom(T, l)
<1> DEFINE n == Len(T)
           Good == {l \in DOMAIN T : AllAttributed(T, l) => CollectLoops(T, l) \in PathsFrom(T, l)}
<1>1. n \in Nat /\ DOMAIN T = 1..n
  BY DEF IsTree
<1>2. ASSUME NEW i \in 1..n, \A j \in i + 1..n : j \in Good PROVE i \in Good
  <2> SUFFICES ASSUME AllAttributed(T, i) PROVE CollectLoops(T, i) \in PathsFrom(T, i)
    BY <1>1
  <2>1. i \in DOMAIN T
    BY <1>1
  <2>2. PathsFrom(T, i) = {OwnNodes(T, i) \o p : p \in OrEmpty(WaysBelow(T, i))}
    BY <2>1, WaysAreDefined
  <2>3. CASE Children(T, i) = {}
    <3>1. WaysBelow(T, i) = {}
      BY <2>3 DEF WaysBelow
    <3>2. OrEmpty(WaysBelow(T, i)) = {<<>>}
      BY <3>1 DEF OrEmpty
    <3>3. CollectLoops(T, i) = OwnNodes(T, i) \o <<>>
      BY <2>1, <2>3, CollectIsDefined
    <3>4. QED
      BY <2>2, <3>2, <3>3
  <2>4. CASE Children(T, i) # {}
    <3> DEFINE c == FirstChild(T, i)
    <3>1. c \in Children(T, i) /\ c \in i + 1..n
      BY <2>1, <2>4, FirstChildIsLater
    <3> HIDE DEF c
    <3>2. c \in DOMAIN T /\ Attributed(T, c) /\ AllAttributed(T, c)
      BY <2>1, <3>1, ChildIsInside DEF AllAttributed, Children
    <3>3. CollectLoops(T, c) \in PathsFrom(T, c)
      BY <1>2, <3>1, <3>2
    <3>4. CollectLoops(T, c) # <<>>
      BY <3>2, <3>3, PathsExist
    <3>5. CollectLoops(T, c) \in WaysBelow(T, i)
      BY <3>1, <3>3, <3>4 DEF WaysBelow
    <3>6. CollectLoops(T, c) \in OrEmpty(WaysBelow(T, i))
      BY <3>5 DEF OrEmpty
    <3>7. CollectLoops(T, i) = OwnNodes(T, i) \o CollectLoops(T, c)
      BY <2>1, <2>4, CollectIsDefined DEF c
    <3>8. QED
      BY <2>2, <3>6, <3>7
  <2>5. QED
    BY <2>3, <2>4
<1> HIDE DEF Good
<1>3. \A i \in 1..n : i \in Good
  <2> HIDE DEF n
  <2> QED
    BY <1>1, <1>2, LaterInduction
<1>4. QED
  BY <1>1, <1>3 DEF Good

-----------------------------------------------------------------------------
(* The nodes of one type on a way.                                         *)

Keeps(kept, T, p, t) ==
    /\ kept[0] = <<>>
    /\ \A j \in 1..Len(p) :
          kept[j] = IF NodeType(T, p[j]) = t THEN Append(kept[j - 1], p[j]) ELSE kept[j - 1]

LEMMA KeptExists ==
    ASSUME NEW T, NEW S, NEW p \in Seq(S), NEW t
    PROVE  \E kept \in [0..Len(p) -> Seq(S)] : Keeps(kept, T, p, t) /\ OfType(T, p, t) = kept[Len(p)]
<1> DEFINE n       == Len(p)
           of(s, j) == IF NodeType(T, p[j]) = t THEN Append(s, p[j]) ELSE s
           step    == [j \in 1..n |-> [s \in Seq(S) |-> of(s, j)]]
           Kept(g) == [j \in 0..n |->
                         IF j = 0 THEN <<>>
                         ELSE IF NodeType(T, p[j]) = t THEN Append(g[j - 1], p[j])
                         ELSE g[j - 1]]
           kept    == CHOOSE g : g = Kept(g)
<1>1. n \in Nat /\ \A j \in 1..n : p[j] \in S
  OBVIOUS
<1> HIDE DEF n
<1>2. step \in StepsOn(Seq(S), n)
  <2>1. \A j \in 1..n : \A s \in Seq(S) : of(s, j) \in Seq(S)
    BY <1>1
  <2> HIDE DEF of
  <2>2. QED
    BY <2>1 DEF StepsOn
<1>3. PICK h \in [0..n -> Seq(S)] : Computes(h, <<>>, step, Before(n), n)
  <2>1. <<>> \in Seq(S) /\ Before(n) \in EarlierThan(n)
    BY <1>1, BeforeIsEarlier
  <2> HIDE DEF step
  <2>2. QED
    BY <1>1, <1>2, <2>1, RecursionExists
<1>4. ASSUME NEW j \in 1..n PROVE h[j] = of(h[j - 1], j)
  <2>1. h[j] = step[j][h[j - 1]]
    BY <1>3 DEF Computes, Before
  <2>2. h[j - 1] \in Seq(S)
    BY <1>1, <1>3
  <2>3. QED
    BY <2>1, <2>2
<1>5. h = Kept(h)
  <2>1. h[0] = <<>>
    BY <1>3 DEF Computes
  <2>2. \A j \in 0..n : h[j] = Kept(h)[j]
    <3>1. Kept(h)[0] = <<>>
      BY <1>1
    <3>2. \A j \in 1..n : j \in 0..n /\ j # 0
      BY <1>1
    <3>3. \A j \in 1..n : Kept(h)[j] = of(h[j - 1], j)
      BY <3>2
    <3>4. \A j \in 0..n : j = 0 \/ j \in 1..n
      BY <1>1
    <3> HIDE DEF of, Kept
    <3>5. QED
      BY <1>4, <2>1, <3>1, <3>3, <3>4
  <2>3. h = [j \in 0..n |-> h[j]] /\ Kept(h) = [j \in 0..n |-> Kept(h)[j]]
    BY <1>3
  <2> HIDE DEF Kept
  <2>4. QED
    BY <2>2, <2>3
<1>6. kept = Kept(kept)
  <2> HIDE DEF Kept
  <2> QED
    BY <1>5
<1>7. OfType(T, p, t) = kept[n]
  BY DEF OfType, n
<1> HIDE DEF kept
<1>8. kept[0] = <<>> /\ \A j \in 1..n : kept[j] = of(kept[j - 1], j)
  <2>1. 0 \in 0..n /\ \A j \in 1..n : j \in 0..n /\ j # 0
    BY <1>1
  <2>2. \A j \in 0..n : kept[j] = IF j = 0 THEN <<>>
                                   ELSE IF NodeType(T, p[j]) = t THEN Append(kept[j - 1], p[j])
                                   ELSE kept[j - 1]
    BY <1>6
  <2>3. QED
    BY <2>1, <2>2
<1>9. \A j \in 0..n : kept[j] = h[j]
  <2>1. kept[0] = h[0]
    BY <1>3, <1>8 DEF Computes
  <2>2. \A j \in 1..n : kept[j - 1] = h[j - 1] => kept[j] = h[j]
    BY <1>4, <1>8
  <2> HIDE DEF of, Kept, step
  <2>3. QED
    BY <1>1, <2>1, <2>2, RecursionUnique, ZenonT(60)
<1>10. Keeps(h, T, p, t)
  BY <1>3, <1>4 DEF Keeps, Computes, n
<1>11. OfType(T, p, t) = h[n]
  BY <1>1, <1>7, <1>9
<1>12. QED
  BY <1>10, <1>11 DEF n

\* On p there are as many nodes of the type as are met from the start; the
\* j-th of them, counted from the end, has as many of the type after it.
CountsMet(T, p, t, list) ==
    /\ Len(list) = Met(T, p, 0, t)
    /\ \A j \in 1..Len(list) : \E a \in 1..Len(p) :
          /\ list[j] = p[a]
          /\ NodeType(T, p[a]) = t
          /\ Met(T, p, a, t) = Len(list) - j
    /\ \A a \in 1..Len(p) : NodeType(T, p[a]) = t =>
          /\ Len(list) - Met(T, p, a, t) \in 1..Len(list)
          /\ list[Len(list) - Met(T, p, a, t)] = p[a]

\* The same of a beginning of p.
CountsTo(T, p, t, m, list) ==
    /\ Len(list) + Met(T, p, m, t) = Met(T, p, 0, t)
    /\ \A j \in 1..Len(list) : \E a \in 1..m :
          /\ list[j] = p[a]
          /\ NodeType(T, p[a]) = t
          /\ Met(T, p, a, t) = Met(T, p, 0, t) - j
    /\ \A a \in 1..m : NodeType(T, p[a]) = t =>
          /\ Met(T, p, 0, t) - Met(T, p, a, t) \in 1..Len(list)
          /\ list[Met(T, p, 0, t) - Met(T, p, a, t)] = p[a]

LEMMA OneMore ==
    ASSUME NEW T, NEW S, NEW p \in Seq(S), NEW t, NEW m \in 0..Len(p) - 1, NEW list \in Seq(S),
           CountsTo(T, p, t, m, list), Met(T, p, 0, t) \in Nat,
           \A a \in 0..Len(p) : Met(T, p, a, t) \in Nat
    PROVE  CountsTo(T, p, t, m + 1,
                    IF NodeType(T, p[m + 1]) = t THEN Append(list, p[m + 1]) ELSE list)
<1> DEFINE M(a) == Met(T, p, a, t)
           k    == Len(list)
           x    == p[m + 1]
           more == Append(list, x)
<1>1. m \in Nat /\ m + 1 \in 1..Len(p) /\ k \in Nat /\ M(0) \in Nat /\ M(m) \in Nat /\ M(m + 1) \in Nat
  <2>1. m \in 0..Len(p) /\ m + 1 \in 0..Len(p)
    OBVIOUS
  <2>2. QED
    BY <2>1
<1>2. M(m) = One(NodeType(T, x) = t) + M(m + 1)
  BY MetNext
<1>3. /\ k + M(m) = M(0)
      /\ \A j \in 1..k : \E a \in 1..m : list[j] = p[a] /\ NodeType(T, p[a]) = t /\ M(a) = M(0) - j
      /\ \A a \in 1..m : NodeType(T, p[a]) = t => M(0) - M(a) \in 1..k /\ list[M(0) - M(a)] = p[a]
  BY DEF CountsTo
<1>4. \A a \in 1..m : a \in 1..m + 1
  BY <1>1
<1>5. \A a \in 1..m + 1 : a \in 1..m \/ a = m + 1
  BY <1>1
<1>6. CASE NodeType(T, x) = t
  <2>1. M(m) = 1 + M(m + 1)
    BY <1>2, <1>6 DEF One
  <2>2. x \in S
    BY <1>1
  <2>3. Len(more) = k + 1 /\ more[k + 1] = x /\ \A j \in 1..k : more[j] = list[j]
    BY <2>2
  <2>4. M(0) - M(m + 1) = k + 1 /\ k + 1 + M(m + 1) = M(0) /\ M(m + 1) = M(0) - (k + 1)
    BY <1>1, <1>3, <2>1
  <2>5. /\ \A j \in 1..k + 1 : j \in 1..k \/ j = k + 1
        /\ \A j \in 1..k : j \in 1..k + 1
        /\ k + 1 \in 1..k + 1 /\ m + 1 \in 1..m + 1
    BY <1>1
  <2>6. ASSUME NEW j \in 1..k + 1
        PROVE  \E a \in 1..m + 1 : more[j] = p[a] /\ NodeType(T, p[a]) = t /\ M(a) = M(0) - j
    <3>1. CASE j \in 1..k
      <4> HIDE DEF more, M, k
      <4> QED
        BY <1>3, <1>4, <2>3, <3>1
    <3>2. CASE j = k + 1
      BY <1>6, <2>3, <2>4, <2>5, <3>2
    <3>3. QED
      BY <2>5, <3>1, <3>2
  <2>7. ASSUME NEW a \in 1..m + 1, NodeType(T, p[a]) = t
        PROVE  M(0) - M(a) \in 1..k + 1 /\ more[M(0) - M(a)] = p[a]
    <3>1. CASE a \in 1..m
      <4> HIDE DEF more, M, k
      <4> QED
        BY <1>3, <2>3, <2>5, <2>7, <3>1
    <3>2. CASE a = m + 1
      BY <2>3, <2>4, <2>5, <3>2
    <3>3. QED
      BY <1>5, <3>1, <3>2
  <2>8. QED
    BY <1>6, <2>3, <2>4, <2>6, <2>7 DEF CountsTo
<1>7. CASE NodeType(T, x) # t
  <2>1. M(m) = M(m + 1)
    BY <1>1, <1>2, <1>7 DEF One
  <2>2. \A a \in 1..m + 1 : NodeType(T, p[a]) = t => a \in 1..m
    BY <1>5, <1>7
  <2> HIDE DEF M, k
  <2>3. /\ \A j \in 1..k : \E a \in 1..m + 1 : list[j] = p[a] /\ NodeType(T, p[a]) = t /\ M(a) = M(0) - j
        /\ \A a \in 1..m + 1 : NodeType(T, p[a]) = t => M(0) - M(a) \in 1..k /\ list[M(0) - M(a)] = p[a]
    BY <1>3, <1>4, <2>2
  <2>4. QED
    BY <1>3, <1>7, <2>1, <2>3 DEF CountsTo, M, k
<1>8. QED
  BY <1>6, <1>7

LEMMA OfTypeCounts ==
    ASSUME NEW T, NEW S, NEW p \in Seq(S), NEW t
    PROVE  OfType(T, p, t) \in Seq(S) /\ CountsMet(T, p, t, OfType(T, p, t))
<1> DEFINE n == Len(p)
<1>0. n \in Nat /\ DOMAIN p = 1..n
  OBVIOUS
<1>1. PICK kept \in [0..Len(p) -> Seq(S)] : Keeps(kept, T, p, t) /\ OfType(T, p, t) = kept[Len(p)]
  BY KeptExists
<1> DEFINE Good == {m \in Nat : m <= n => CountsTo(T, p, t, m, kept[m])}
<1> HIDE DEF n
<1>2. \A a \in 0..n : Met(T, p, a, t) \in Nat
  <2>1. ASSUME NEW a \in 0..n PROVE Met(T, p, a, t) \in Nat
    <3>1. CASE a \in 0..Len(p) - 1
      <4>1. Met(T, p, a + 1, t) \in Nat /\ Met(T, p, a, t) = One(NodeType(T, p[a + 1]) = t) + Met(T, p, a + 1, t)
        BY <3>1, MetNext
      <4>2. CASE NodeType(T, p[a + 1]) = t
        <5>1. Met(T, p, a, t) = 1 + Met(T, p, a + 1, t)
          BY <4>1, <4>2 DEF One
        <5>2. QED
          BY <4>1, <5>1
      <4>3. CASE NodeType(T, p[a + 1]) # t
        <5>1. Met(T, p, a, t) = 0 + Met(T, p, a + 1, t)
          BY <4>1, <4>3 DEF One
        <5>2. QED
          BY <4>1, <5>1
      <4>4. QED
        BY <4>2, <4>3
    <3>2. CASE a = Len(p)
      <4>1. After(T, p, a, t) = {}
        BY <1>0, <3>2 DEF After, n
      <4>2. QED
        BY <4>1, FS_EmptySet DEF Met
    <3>3. a \in 0..n - 1 \/ a = n
      BY <1>0
    <3>4. n = Len(p)
      BY DEF n
    <3>5. QED
      BY <3>1, <3>2, <3>3, <3>4
  <2>2. QED
    BY <2>1
<1>3. kept[0] = <<>>
  BY <1>1 DEF Keeps
<1>4. 0 \in Good
  <2>1. Len(kept[0]) = 0 /\ 1..0 = {}
    BY <1>3
  <2>2. 0 \in 0..n
    BY <1>0
  <2>3. Met(T, p, 0, t) \in Nat
    BY <1>2, <2>2
  <2>4. 0 + Met(T, p, 0, t) = Met(T, p, 0, t)
    BY <2>3
  <2>5. QED
    BY <2>1, <2>4 DEF CountsTo
<1>5. ASSUME NEW m \in Nat, m \in Good PROVE m + 1 \in Good
  <2> SUFFICES ASSUME m + 1 <= n PROVE CountsTo(T, p, t, m + 1, kept[m + 1])
    OBVIOUS
  <2>1. m \in 0..n /\ m + 1 \in 1..n /\ m \in 0..n - 1 /\ m <= n
    BY <1>0
  <2>2. kept[m + 1] = IF NodeType(T, p[m + 1]) = t THEN Append(kept[m], p[m + 1]) ELSE kept[m]
    <3>1. (m + 1) - 1 = m
      OBVIOUS
    <3>2. \A j \in 1..n : kept[j] = IF NodeType(T, p[j]) = t THEN Append(kept[j - 1], p[j]) ELSE kept[j - 1]
      BY <1>1 DEF Keeps, n
    <3>3. kept[m + 1] = IF NodeType(T, p[m + 1]) = t THEN Append(kept[(m + 1) - 1], p[m + 1]) ELSE kept[(m + 1) - 1]
      BY <2>1, <3>2
    <3>4. QED
      BY <3>1, <3>3
  <2>3. CountsTo(T, p, t, m, kept[m]) /\ kept[m] \in Seq(S)
    BY <1>1, <1>5, <2>1 DEF n
  <2>4. Met(T, p, 0, t) \in Nat /\ m \in 0..Len(p) - 1 /\ \A a \in 0..Len(p) : Met(T, p, a, t) \in Nat
    <3>1. 0 \in 0..n
      BY <1>0
    <3>2. QED
      BY <1>2, <2>1, <3>1 DEF n
  <2>5. CountsTo(T, p, t, m + 1, IF NodeType(T, p[m + 1]) = t THEN Append(kept[m], p[m + 1]) ELSE kept[m])
    BY <2>3, <2>4, OneMore
  <2>6. QED
    BY <2>2, <2>5
<1>6. n \in Good
  <2>1. Nat \subseteq Good
    <3> HIDE DEF Good
    <3> QED
      BY <1>4, <1>5, SetInduction
  <2>2. QED
    BY <1>0, <2>1
<1>7. CountsTo(T, p, t, n, kept[n]) /\ OfType(T, p, t) = kept[n] /\ kept[n] \in Seq(S)
  BY <1>0, <1>1, <1>6 DEF n
<1>8. Met(T, p, n, t) = 0
  <2>1. After(T, p, n, t) = {}
    BY <1>0 DEF After
  <2>2. QED
    BY <2>1, FS_EmptySet DEF Met
<1>9. Len(kept[n]) = Met(T, p, 0, t)
  <2>1. Len(kept[n]) + Met(T, p, n, t) = Met(T, p, 0, t) /\ Len(kept[n]) \in Nat
    BY <1>7 DEF CountsTo
  <2>2. QED
    BY <1>8, <2>1
<1>10. CountsMet(T, p, t, kept[n])
  BY <1>7, <1>9 DEF CountsTo, CountsMet, n
<1>11. QED
  BY <1>7, <1>10

\* A walk from a loop stays inside it.
LEMMA WalksStayInside ==
    ASSUME NEW T, IsTree(T), TypesOK(T), NEW l \in DOMAIN T, NEW p \in Walks(T, <<l, 1>>)
    PROVE  \A a \in 1..Len(p) : p[a][1] \in Descendants(T, l) \cup {l}
<1> DEFINE n == Len(p)
           In == Descendants(T, l) \cup {l}
           Good == {m \in Nat : m + 1 <= n => p[m + 1][1] \in In}
<1>1. /\ p \in Seq(Nodes(T)) /\ n \in Nat /\ p[1] = <<l, 1>>
      /\ \A j \in 1..n - 1 : p[j + 1] \in Below(T, p[j])
      /\ \A j \in 1..n : p[j] \in Nodes(T)
  <2>1. p \in Seq(Nodes(T))
    BY DEF Walks
  <2>2. QED
    BY <2>1 DEF Walks, IsWalk
<1> HIDE DEF n
<1>2. 0 \in Good
  BY <1>1
<1>3. ASSUME NEW m \in Nat, m \in Good PROVE m + 1 \in Good
  <2> SUFFICES ASSUME m + 1 + 1 <= n PROVE p[m + 1 + 1][1] \in In
    OBVIOUS
  <2>1. m + 1 \in 1..n - 1 /\ m + 1 \in 1..n /\ m + 1 <= n
    BY <1>1
  <2>2. p[m + 1][1] \in In /\ p[m + 1 + 1] \in Below(T, p[m + 1]) /\ p[m + 1] \in Nodes(T)
    BY <1>1, <1>3, <2>1
  <2>3. PICK i \in DOMAIN T : \E b \in 1..Len(OwnNodes(T, i)) : p[m + 1] = <<i, b>>
    BY <2>2, NodesAre
  <2>4. PICK b \in 1..Len(OwnNodes(T, i)) : p[m + 1] = <<i, b>>
    BY <2>3
  <2>5. i \in In
    BY <2>2, <2>4
  <2>6. Len(OwnNodes(T, i)) \in 0..2
    BY OwnNodesAre
  <2>7. CASE b < Len(OwnNodes(T, i))
    <3>1. Below(T, <<i, b>>) = {<<i, b + 1>>}
      BY <2>7, BelowIs
    <3>2. QED
      BY <2>2, <2>4, <2>5, <3>1
  <2>8. CASE b = Len(OwnNodes(T, i))
    <3>1. Below(T, <<i, b>>) = {<<c, 1>> : c \in AttributedFrontier(T, i)}
      BY <2>8, BelowIs
    <3>2. PICK c \in AttributedFrontier(T, i) : p[m + 1 + 1] = <<c, 1>>
      BY <2>2, <2>4, <3>1
    <3>3. c \in DOMAIN T /\ i \in Ancestors(T, c)
      BY DEF AttributedFrontier, Descendants
    <3>4. l = i \/ l \in Ancestors(T, i)
      BY <2>5 DEF Descendants
    <3>5. l \in Ancestors(T, c)
      BY <3>3, <3>4, AncestorsAreTransitive
    <3>6. QED
      BY <3>2, <3>3, <3>5 DEF Descendants
  <2>9. QED
    BY <2>6, <2>7, <2>8
<1>4. Nat \subseteq Good
  <2> HIDE DEF Good
  <2> QED
    BY <1>2, <1>3, SetInduction
<1>5. ASSUME NEW a \in 1..n PROVE p[a][1] \in In
  <2>1. a - 1 \in Good /\ a - 1 + 1 = a /\ a <= n
    BY <1>1, <1>4
  <2>2. QED
    BY <2>1
<1>6. QED
  BY <1>5 DEF n

-----------------------------------------------------------------------------
(* The sizes of the blocks: the definitions by recursion are ones.         *)

Chooses(g, T, i, h) ==
    /\ g[0] = [sizes |-> Ones, prevProd |-> 0]
    /\ \A j \in 1..Len(T) :
          g[j] = IF j \notin Children(T, i) THEN g[j - 1]
                 ELSE [sizes    |-> IF Product(h[j]) > g[j - 1].prevProd THEN h[j] ELSE g[j - 1].sizes,
                       prevProd |-> Product(h[j])]

\* Two functions that start alike and go on alike.
GoAlike(g, h, n) ==
    /\ g[0] = h[0]
    /\ \A i \in 1..n : g[i - 1] = h[i - 1] => g[i] = h[i]

LEMMA AlikeToTheEnd ==
    ASSUME NEW n \in Nat, NEW g, NEW h, GoAlike(g, h, n)
    PROVE  \A i \in 0..n : g[i] = h[i]
<1>1. g[0] = h[0] /\ \A i \in 1..n : g[i - 1] = h[i - 1] => g[i] = h[i]
  BY DEF GoAlike
<1>2. QED
  BY <1>1, RecursionUnique

BranchChoices(V) == [sizes : V, prevProd : {0} \cup {Product(v) : v \in V}]

ChildrenIn(T, i, h, V) == \A c \in Children(T, i) : h[c] \in V

LEMMA ChosenIsDefined ==
    ASSUME NEW T, IsTree(T), NEW V, Ones \in V, NEW i, NEW h, ChildrenIn(T, i, h, V)
    PROVE  \E g \in [0..Len(T) -> BranchChoices(V)] :
              Chooses(g, T, i, h) /\ ChosenBranch(T, i, h) = g[Len(T)].sizes
<1> DEFINE n       == Len(T)
           R       == BranchChoices(V)
           first   == [sizes |-> Ones, prevProd |-> 0]
           of(r, j) == IF j \notin Children(T, i) THEN r
                       ELSE [sizes    |-> IF Product(h[j]) > r.prevProd THEN h[j] ELSE r.sizes,
                             prevProd |-> Product(h[j])]
           step    == [j \in 1..n |-> [r \in R |-> of(r, j)]]
           Chosen(g) == [j \in 0..n |->
                         IF j = 0 THEN [sizes |-> Ones, prevProd |-> 0]
                         ELSE IF j \notin Children(T, i) THEN g[j - 1]
                         ELSE [sizes    |-> IF Product(h[j]) > g[j - 1].prevProd
                                            THEN h[j] ELSE g[j - 1].sizes,
                               prevProd |-> Product(h[j])]]
           chosen  == CHOOSE g : g = Chosen(g)
<1>1. n \in Nat
  BY DEF IsTree
<1> HIDE DEF n
<1>2. step \in StepsOn(R, n)
  <2>1. ASSUME NEW j \in 1..n, NEW r \in R, j \in Children(T, i) PROVE of(r, j) \in R
    <3> DEFINE P == {0} \cup {Product(v) : v \in V}
    <3>1. h[j] \in V /\ Product(h[j]) \in P /\ r.sizes \in V
      BY <2>1 DEF BranchChoices, ChildrenIn
    <3> HIDE DEF P
    <3>2. R = [sizes : V, prevProd : P] /\ r \in R
      BY DEF BranchChoices, P
    <3> HIDE DEF R
    <3>3. QED
      BY <3>1, <3>2
  <2>2. ASSUME NEW j \in 1..n, NEW r \in R, j \notin Children(T, i) PROVE of(r, j) \in R
    BY <2>2
  <2> HIDE DEF of, R
  <2>3. \A j \in 1..n : \A r \in R : of(r, j) \in R
    BY <2>1, <2>2
  <2>4. QED
    BY <2>3 DEF StepsOn
<1>3. first \in R
  BY DEF BranchChoices
<1>4. PICK g \in [0..n -> R] : Computes(g, first, step, Before(n), n)
  <2>1. Before(n) \in EarlierThan(n)
    BY <1>1, BeforeIsEarlier
  <2> HIDE DEF step, R, first
  <2>2. QED
    BY <1>1, <1>2, <1>3, <2>1, RecursionExists
<1>5. ASSUME NEW j \in 1..n PROVE g[j] = of(g[j - 1], j)
  <2>1. g[j] = step[j][g[j - 1]]
    BY <1>4 DEF Computes, Before
  <2>2. g[j - 1] \in R
    BY <1>1, <1>4
  <2> HIDE DEF of, R
  <2>3. QED
    BY <2>1, <2>2
<1>6. g = Chosen(g)
  <2>1. g[0] = first
    BY <1>4 DEF Computes
  <2>2. \A j \in 0..n : g[j] = Chosen(g)[j]
    <3>1. Chosen(g)[0] = first
      BY <1>1
    <3>2. \A j \in 1..n : j \in 0..n /\ j # 0
      BY <1>1
    <3>3. \A j \in 1..n : Chosen(g)[j] = of(g[j - 1], j)
      BY <3>2
    <3>4. \A j \in 0..n : j = 0 \/ j \in 1..n
      BY <1>1
    <3> HIDE DEF of, Chosen, first
    <3>5. QED
      BY <1>5, <2>1, <3>1, <3>3, <3>4
  <2>3. g = [j \in 0..n |-> g[j]] /\ Chosen(g) = [j \in 0..n |-> Chosen(g)[j]]
    BY <1>4
  <2> HIDE DEF Chosen
  <2>4. QED
    BY <2>2, <2>3
<1>7. chosen = Chosen(chosen)
  <2> HIDE DEF Chosen
  <2> QED
    BY <1>6
<1>8. ChosenBranch(T, i, h) = chosen[n].sizes
  BY DEF ChosenBranch, n
<1> HIDE DEF chosen
<1>9. chosen[0] = first /\ \A j \in 1..n : chosen[j] = of(chosen[j - 1], j)
  <2>1. 0 \in 0..n /\ \A j \in 1..n : j \in 0..n /\ j # 0
    BY <1>1
  <2>2. \A j \in 0..n : chosen[j] = IF j = 0 THEN first ELSE of(chosen[j - 1], j)
    BY <1>7
  <2> HIDE DEF of, first
  <2>3. QED
    BY <2>1, <2>2
<1>10. \A j \in 0..n : chosen[j] = g[j]
  <2>1. chosen[0] = g[0]
    BY <1>4, <1>9 DEF Computes
  <2> HIDE DEF of, Chosen, step, first, R
  <2>2. \A j \in 1..n : chosen[j - 1] = g[j - 1] => chosen[j] = g[j]
    BY <1>5, <1>9
  <2>3. n \in Nat
    BY <1>1
  <2>4. GoAlike(chosen, g, n)
    BY <2>1, <2>2 DEF GoAlike
  <2>5. QED
    BY <2>3, <2>4, AlikeToTheEnd
<1>11. Chooses(g, T, i, h)
  BY <1>4, <1>5 DEF Chooses, Computes, n
<1>12. ChosenBranch(T, i, h) = g[n].sizes
  BY <1>1, <1>8, <1>10
<1>13. QED
  BY <1>4, <1>11, <1>12 DEF n

\* Only the sizes of the children matter.
LEMMA ChosenFromChildren ==
    ASSUME NEW T, IsTree(T), NEW V, Ones \in V, NEW i \in DOMAIN T,
           NEW h, NEW k, \A c \in Children(T, i) : h[c] = k[c] /\ h[c] \in V
    PROVE  ChosenBranch(T, i, h) = ChosenBranch(T, i, k) /\ ChosenBranch(T, i, h) \in V
<1> DEFINE n == Len(T)
           R == BranchChoices(V)
<1>0. ChildrenIn(T, i, h, V) /\ ChildrenIn(T, i, k, V)
  BY DEF ChildrenIn
<1>1. PICK g \in [0..n -> R] : Chooses(g, T, i, h) /\ ChosenBranch(T, i, h) = g[n].sizes
  BY <1>0, ChosenIsDefined
<1>2. PICK f \in [0..n -> R] : Chooses(f, T, i, k) /\ ChosenBranch(T, i, k) = f[n].sizes
  BY <1>0, ChosenIsDefined
<1>3. n \in Nat
  BY DEF IsTree
<1>4. g[0] = f[0]
  BY <1>1, <1>2 DEF Chooses
<1>5. \A j \in 1..n : g[j - 1] = f[j - 1] => g[j] = f[j]
  <2> HIDE DEF R
  <2> QED
    BY <1>1, <1>2 DEF Chooses
<1>6. n \in 0..n /\ g[n].sizes \in V
  BY <1>1, <1>3 DEF BranchChoices
<1>7. \A j \in 0..n : g[j] = f[j]
  <2>1. n \in Nat
    BY <1>3
  <2> HIDE DEF n, R
  <2>2. GoAlike(g, f, n)
    BY <1>4, <1>5 DEF GoAlike
  <2>3. QED
    BY <2>1, <2>2, AlikeToTheEnd
<1>8. QED
  BY <1>1, <1>2, <1>6, <1>7

\* The sizes are those of one of the children.
LEMMA ChosenIsAChild ==
    ASSUME NEW T, IsTree(T), NEW V, Ones \in V, NEW i \in DOMAIN T, NEW h,
           \A c \in Children(T, i) : h[c] \in V /\ Product(h[c]) \in Nat \ {0}
    PROVE  /\ Children(T, i) = {} => ChosenBranch(T, i, h) = Ones
           /\ Children(T, i) # {} => \E c \in Children(T, i) : ChosenBranch(T, i, h) = h[c]
<1> DEFINE n == Len(T)
           R == BranchChoices(V)
           first == [sizes |-> Ones, prevProd |-> 0]
           C == Children(T, i)
<1>0. ChildrenIn(T, i, h, V)
  BY DEF ChildrenIn
<1>1. PICK g \in [0..n -> R] : Chooses(g, T, i, h) /\ ChosenBranch(T, i, h) = g[n].sizes
  BY <1>0, ChosenIsDefined
<1> DEFINE Fine(m) == \/ g[m] = first /\ \A c \in C : c > m
                      \/ /\ \E c \in C : g[m].sizes = h[c] 
                         /\ C # {}
           Good == {m \in Nat : m <= n => Fine(m)}
<1>2. n \in Nat /\ \A c \in C : c \in Nat /\ c > 0 /\ c <= n
  BY DEF IsTree, Children
<1> HIDE DEF n, R, C
<1>3. 0 \in Good
  BY <1>1, <1>2 DEF Chooses
<1>4. ASSUME NEW m \in Nat, m \in Good PROVE m + 1 \in Good
  <2> SUFFICES ASSUME m + 1 <= n PROVE Fine(m + 1)
    OBVIOUS
  <2>1. m + 1 \in 1..n /\ Fine(m)
    BY <1>2, <1>4
  <2>2. g[m + 1] = IF m + 1 \notin C THEN g[m]
                   ELSE [sizes    |-> IF Product(h[m + 1]) > g[m].prevProd THEN h[m + 1] ELSE g[m].sizes,
                         prevProd |-> Product(h[m + 1])]
    <3>1. (m + 1) - 1 = m
      OBVIOUS
    <3>2. \A j \in 1..n :
            g[j] = IF j \notin C THEN g[j - 1]
                   ELSE [sizes    |-> IF Product(h[j]) > g[j - 1].prevProd THEN h[j] ELSE g[j - 1].sizes,
                         prevProd |-> Product(h[j])]
      BY <1>1 DEF Chooses, n, C
    <3>3. g[m + 1] = IF m + 1 \notin C THEN g[(m + 1) - 1]
                     ELSE [sizes    |-> IF Product(h[m + 1]) > g[(m + 1) - 1].prevProd THEN h[m + 1]
                                        ELSE g[(m + 1) - 1].sizes,
                           prevProd |-> Product(h[m + 1])]
      BY <2>1, <3>2
    <3>4. QED
      BY <3>1, <3>3
  <2>3. CASE m + 1 \notin C
    <3>1. g[m + 1] = g[m]
      BY <2>2, <2>3
    <3>2. (\A c \in C : c > m) => \A c \in C : c > m + 1
      BY <1>2, <2>3
    <3>3. QED
      BY <2>1, <3>1, <3>2
  <2>4. CASE m + 1 \in C
    <3>1. g[m + 1].sizes = IF Product(h[m + 1]) > g[m].prevProd THEN h[m + 1] ELSE g[m].sizes
      BY <2>2, <2>4
    <3>2. Product(h[m + 1]) > 0
      BY <2>4 DEF C
    <3>3. g[m] = first => g[m + 1].sizes = h[m + 1]
      BY <3>1, <3>2
    <3>4. g[m + 1].sizes = h[m + 1] \/ g[m + 1].sizes = g[m].sizes
      BY <3>1
    <3>5. QED
      BY <2>1, <2>4, <3>3, <3>4
  <2>5. QED
    BY <2>3, <2>4
<1>5. Fine(n)
  <2>1. Nat \subseteq Good
    <3> HIDE DEF Good
    <3> QED
      BY <1>3, <1>4, SetInduction
  <2>2. QED
    BY <1>2, <2>1
<1>6. ChosenBranch(T, i, h) = g[n].sizes
  BY <1>1 DEF n
<1>7. C = {} => g[n] = first
  BY <1>5
<1>8. C # {} => \E c \in C : g[n].sizes = h[c]
  <2>1. C # {} => ~(\A c \in C : c > n)
    BY <1>2
  <2>2. QED
    BY <1>5, <2>1
<1>9. QED
  BY <1>6, <1>7, <1>8 DEF C

\* Along each axis the size of an own type, or the one from below.
OwnOrBelow(s, below, types, axes, text, Y) ==
    /\ s \in [0..MaxAxis -> Y]
    /\ \A a \in 0..MaxAxis :
          \/ /\ s[a] = below[a]
             /\ \A n \in 1..Len(types) : ~(types[n] = "Inner" /\ axes[n] = a)
          \/ \E n \in 1..Len(types) :
                types[n] = "Inner" /\ axes[n] = a /\ s[a] = SizeOfType(types, n, text)

LEMMA OwnSizesAre ==
    ASSUME NEW types \in Seq(LoopType), Len(types) \in 1..2, NEW axes, NEW text, NEW Y,
           NEW below \in [0..MaxAxis -> Y],
           \A n \in 1..Len(types) : SizeOfType(types, n, text) \in Y
    PROVE  OwnOrBelow(WithOwnSizes(below, types, axes, text), below, types, axes, text, Y)
<1> DEFINE along(a) == {n \in DOMAIN types : types[n] = "Inner" /\ axes[n] = a}
           of(a) == IF along(a) = {} THEN below[a] ELSE SizeOfType(types, Min(along(a)), text)
<1>1. WithOwnSizes(below, types, axes, text) = [a \in 0..MaxAxis |-> of(a)]
  BY DEF WithOwnSizes
<1>2. DOMAIN types = 1..Len(types) /\ DOMAIN types \subseteq Nat
  OBVIOUS
<1>3. ASSUME NEW a \in 0..MaxAxis
      PROVE  /\ of(a) \in Y
             /\ \/ /\ of(a) = below[a]
                   /\ \A n \in 1..Len(types) : ~(types[n] = "Inner" /\ axes[n] = a)
                \/ \E n \in 1..Len(types) :
                      types[n] = "Inner" /\ axes[n] = a /\ of(a) = SizeOfType(types, n, text)
  <2>1. CASE along(a) = {}
    <3>1. \A n \in 1..Len(types) : ~(types[n] = "Inner" /\ axes[n] = a)
      BY <1>2, <2>1
    <3>2. of(a) = below[a]
      BY <2>1
    <3>3. QED
      BY <3>1, <3>2
  <2>2. CASE along(a) # {}
    <3>1. along(a) \subseteq Nat
      BY <1>2
    <3> DEFINE A == along(a)
    <3>2. Min(A) \in A
      <4> HIDE DEF A
      <4> QED
        BY <2>2, <3>1, MinIsLeast DEF A
    <3>3. Min(along(a)) \in 1..Len(types) /\ types[Min(along(a))] = "Inner" /\ axes[Min(along(a))] = a
      BY <1>2, <3>2
    <3>4. of(a) = SizeOfType(types, Min(along(a)), text)
      BY <2>2
    <3> HIDE DEF along, of
    <3>5. QED
      BY <3>3, <3>4
  <2>3. QED
    BY <2>1, <2>2
<1> HIDE DEF of
<1>4. QED
  BY <1>1, <1>3 DEF OwnOrBelow

AreSizes(h, T, texts, Y) ==
    /\ h \in [1..Len(T) -> [0..MaxAxis -> Y]]
    /\ Ones \in [0..MaxAxis -> Y]
    /\ \A i \in DOMAIN T :
          /\ GetInnerSizes(T, texts, i) = h[i]
          /\ h[i] = WithOwnSizes(ChosenBranch(T, i, h), T[i].type, T[i].axis, texts[i])

LEMMA SizesAreDefined ==
    ASSUME NEW T, IsTree(T), TypesOK(T), NEW texts
    PROVE  \E Y : \E h : AreSizes(h, T, texts, Y)
<1> DEFINE n == Len(T)
           Y == {1} \cup {SizeOfType(T[i].type, m, texts[i]) : i \in DOMAIN T, m \in 1..2}
           V == [0..MaxAxis -> Y]
           of(h, i) == WithOwnSizes(ChosenBranch(T, i, h), T[i].type, T[i].axis, texts[i])
           step == [i \in 1..n |-> [h \in [1..n -> V] |-> of(h, i)]]
           Sizes(h) == [i \in DOMAIN T |->
                          WithOwnSizes(ChosenBranch(T, i, h), T[i].type, T[i].axis, texts[i])]
           sizes == CHOOSE h : h = Sizes(h)
<1>1. n \in Nat /\ DOMAIN T = 1..n
  BY DEF IsTree
<1>2. Ones \in V
  BY DEF Ones
<1>3. \A i \in DOMAIN T : \A m \in 1..Len(T[i].type) : SizeOfType(T[i].type, m, texts[i]) \in Y
  <2>1. \A i \in DOMAIN T : \A m \in 1..2 : SizeOfType(T[i].type, m, texts[i]) \in Y
    OBVIOUS
  <2> HIDE DEF Y
  <2>2. ASSUME NEW i \in DOMAIN T, NEW m \in 1..Len(T[i].type)
        PROVE  SizeOfType(T[i].type, m, texts[i]) \in Y
    <3> DEFINE k == Len(T[i].type)
    <3>1. k \in 1..2 /\ m \in 1..k
      BY DEF TypesOK
    <3> HIDE DEF k
    <3>2. m \in 1..2
      BY <3>1
    <3>3. QED
      BY <2>1, <3>2
  <2>3. QED
    BY <2>2
<1> HIDE DEF Y
<1>4. \A i \in DOMAIN T : T[i].type \in Seq(LoopType) /\ Len(T[i].type) \in 1..2
  BY DEF TypesOK
<1>5. ASSUME NEW i \in 1..n, NEW h \in [1..n -> V] PROVE of(h, i) \in V
  <2>1. ChosenBranch(T, i, h) \in V
    <3>1. \A c \in Children(T, i) : h[c] \in V
      BY <1>1 DEF Children
    <3> HIDE DEF V
    <3>2. QED
      BY <1>1, <1>2, <3>1, ChosenFromChildren
  <2> HIDE DEF n
  <2>2. QED
    BY <1>1, <1>3, <1>4, <2>1, OwnSizesAre DEF OwnOrBelow
<1>6. ASSUME NEW i \in 1..n, NEW h \in [1..n -> V], NEW k \in [1..n -> V], \A j \in i + 1..n : h[j] = k[j]
      PROVE  of(h, i) = of(k, i)
  <2>1. ChosenBranch(T, i, h) = ChosenBranch(T, i, k)
    <3>1. \A c \in Children(T, i) : c \in i + 1..n /\ c \in 1..n
      BY <1>1 DEF Children, IsTree
    <3> HIDE DEF V, n
    <3>2. \A c \in Children(T, i) : h[c] = k[c] /\ h[c] \in V
      BY <1>6, <3>1
    <3>3. QED
      BY <1>1, <1>2, <3>2, ChosenFromChildren
  <2>2. QED
    BY <2>1
<1>7. step \in LaterSteps(V, n)
  <2> HIDE DEF of, V
  <2> QED
    BY <1>5, <1>6 DEF LaterSteps
<1>8. PICK h \in [1..n -> V] : \A i \in 1..n : h[i] = step[i][h]
  <2> HIDE DEF step, V, n
  <2> QED
    BY <1>1, <1>2, <1>7, RecursionFromLater
<1>9. \A i \in 1..n : h[i] = of(h, i)
  <2> HIDE DEF of, V
  <2> QED
    BY <1>8
<1>10. h = Sizes(h)
  <2>1. \A i \in 1..n : h[i] = Sizes(h)[i]
    BY <1>1, <1>9
  <2>2. h = [i \in 1..n |-> h[i]] /\ Sizes(h) = [i \in 1..n |-> Sizes(h)[i]]
    BY <1>1
  <2> HIDE DEF Sizes
  <2>3. QED
    BY <2>1, <2>2
<1>11. sizes = Sizes(sizes)
  <2> HIDE DEF Sizes
  <2> QED
    BY <1>10
<1>12. \A i : GetInnerSizes(T, texts, i) = sizes[i]
  BY DEF GetInnerSizes
<1> HIDE DEF sizes
<1>13. \A i \in 1..n : sizes[i] = of(sizes, i)
  BY <1>1, <1>11
<1> DEFINE Same == {i \in 1..n : sizes[i] = h[i]}
<1>14. ASSUME NEW i \in 1..n, \A j \in i + 1..n : j \in Same PROVE i \in Same
  <2>1. \A c \in Children(T, i) : c \in i + 1..n /\ c \in 1..n
    BY <1>1 DEF Children, IsTree
  <2>2. \A c \in Children(T, i) : h[c] = sizes[c] /\ h[c] \in V
    BY <1>14, <2>1
  <2>3. ChosenBranch(T, i, h) = ChosenBranch(T, i, sizes)
    <3> HIDE DEF V, n, Same
    <3> QED
      BY <1>1, <1>2, <2>2, ChosenFromChildren
  <2>4. of(h, i) = of(sizes, i)
    BY <2>3
  <2> HIDE DEF of
  <2>5. QED
    BY <1>9, <1>13, <2>4
<1>15. \A i \in 1..n : i \in Same
  <2> HIDE DEF Same, n
  <2> QED
    BY <1>1, <1>14, LaterInduction
<1>16. \A i \in DOMAIN T : GetInnerSizes(T, texts, i) = h[i] /\ h[i] = of(h, i)
  BY <1>1, <1>9, <1>12, <1>15
<1>17. AreSizes(h, T, texts, Y)
  BY <1>2, <1>16 DEF AreSizes
<1>18. QED
  BY <1>17

-----------------------------------------------------------------------------
(* The sizes that getInnerSizes finds are those of the loops on one way.    *)

\* A way from inside a loop is the end of a way from the loop.
LEMMA WaysFromAbove ==
    ASSUME NEW T, IsTree(T), TypesOK(T), NEW l \in DOMAIN T, AllAttributed(T, l)
    PROVE  \A i \in Descendants(T, l) \cup {l} :
              \E w \in Seq(Nodes(T)) : \A p \in PathsFrom(T, i) : w \o p \in PathsFrom(T, l)
<1> DEFINE In == Descendants(T, l) \cup {l}
           Leads(i, w) == \A p \in PathsFrom(T, i) : w \o p \in PathsFrom(T, l)
           S == {i \in DOMAIN T : i \in In => \E w \in Seq(Nodes(T)) : Leads(i, w)}
<1>1. ASSUME NEW i \in DOMAIN T, T[i].parent # 0 => T[i].parent \in S PROVE i \in S
  <2> SUFFICES ASSUME i \in In PROVE \E w \in Seq(Nodes(T)) : Leads(i, w)
    OBVIOUS
  <2>1. CASE i = l
    <3> DEFINE e == <<>>
    <3>1. e \in Seq(Nodes(T))
      OBVIOUS
    <3>2. \A p \in PathsFrom(T, l) : e \o p = p
      <4>1. \A p \in Seq(Nodes(T)) : e \o p = p
        OBVIOUS
      <4>2. PathsFrom(T, l) \subseteq Seq(Nodes(T))
        BY WaysAreDefined
      <4> HIDE DEF e
      <4>3. QED
        BY <4>1, <4>2
    <3> HIDE DEF e
    <3>3. Leads(i, e)
      BY <2>1, <3>2
    <3>4. QED
      BY <3>1, <3>3
  <2>2. CASE i # l
    <3> DEFINE m == T[i].parent
    <3>1. l \in Ancestors(T, i) /\ Attributed(T, i)
      BY <2>2 DEF Descendants, AllAttributed
    <3>2. m # 0 /\ (l = m \/ l \in Ancestors(T, m))
      BY <3>1, AncestorsAreDefined
    <3>3. m \in S /\ m \in DOMAIN T
      BY <1>1, <3>2
    <3>4. m \in In
      BY <3>2, <3>3 DEF Descendants
    <3> HIDE DEF m
    <3>5. PICK w \in Seq(Nodes(T)) : Leads(m, w)
      BY <3>3, <3>4
    <3> DEFINE own == OwnNodes(T, m)
    <3>6. own \in Seq(Nodes(T))
      BY <3>3, OwnNodesAre
    <3>7. ASSUME NEW p \in PathsFrom(T, i) PROVE (w \o own) \o p \in PathsFrom(T, l)
      <4>1. p # <<>> /\ p \in Seq(Nodes(T))
        BY <3>1, PathsExist, WaysAreDefined
      <4>2. i \in Children(T, m)
        BY DEF Children, m
      <4>3. p \in WaysBelow(T, m)
        BY <4>1, <4>2 DEF WaysBelow
      <4>4. p \in OrEmpty(WaysBelow(T, m))
        BY <4>3 DEF OrEmpty
      <4>5. own \o p \in PathsFrom(T, m)
        <5>1. PathsFrom(T, m) = {own \o q : q \in OrEmpty(WaysBelow(T, m))}
          BY <3>3, WaysAreDefined
        <5> HIDE DEF own
        <5>2. QED
          BY <4>4, <5>1
      <4>6. w \o (own \o p) \in PathsFrom(T, l)
        BY <3>5, <4>5
      <4> HIDE DEF own
      <4>7. (w \o own) \o p = w \o (own \o p)
        BY <3>6, <4>1, ConcatAssociative
      <4>8. QED
        BY <4>6, <4>7
    <3>8. w \o own \in Seq(Nodes(T))
      <4> HIDE DEF own
      <4> QED
        BY <3>6
    <3> HIDE DEF own
    <3>9. QED
      BY <3>7, <3>8
  <2>3. QED
    BY <2>1, <2>2
<1>2. \A i \in DOMAIN T : i \in S
  <2> HIDE DEF S
  <2> QED
    BY <1>1, TreeInduction
<1>3. In \subseteq DOMAIN T
  BY DEF Descendants
<1>4. QED
  BY <1>2, <1>3

LEMMA TilesOfRange ==
    ASSUME NEW r \in Nat \ {0}, NEW t \in Nat \ {0}
    PROVE  /\ (r + t - 1) \div t = 1 + (r - 1) \div t
           /\ 1 + (r - 1) \div t \in Nat \ {0}
           /\ r + t - 1 >= 0
<1> DEFINE q == (r - 1) \div t
           m == (r - 1) % t
<1>1. q \in Nat /\ m \in 0..t - 1 /\ r - 1 = q * t + m
  OBVIOUS
<1>2. r + t - 1 = (q + 1) * t + m
  BY <1>1
<1>3. (r + t - 1) \div t = q + 1
  BY <1>1, <1>2
<1>4. QED
  BY <1>1, <1>3

\* What getInnerSizes knows of a type is the dimension that the launcher writes.
LEMMA SizeIsDim ==
    ASSUME NEW texts, NEW x, NEW types, NEW text \in UpwardHeaders, RangeSize(text) \in Nat \ {0},
           loops[x[1]].type = types, texts[x[1]] = text, Len(types) \in 1..2, x[2] \in 1..Len(types)
    PROVE  /\ SizeOfType(types, x[2], text) \in {0, LoopDim(texts, x)}
           /\ SizeOfType(types, x[2], text) \in Nat
<1> DEFINE n == x[2]
           r == RangeSize(text)
           t == text.tileSize
           first == FirstOfTile(text, t)
           second == SecondOfTile(text, t)
<1> DEFINE k == Len(types)
<1>2. n = 1 \/ (n = 2 /\ Len(types) = 2)
  <2>1. k \in 1..2 /\ n \in 1..k
    OBVIOUS
  <2> HIDE DEF k, n
  <2>2. n = 1 \/ (n = 2 /\ k = 2)
    BY <2>1
  <2>3. QED
    BY <2>2 DEF k
<1>a. CASE ~text.literal /\ ~text.tileLiteral
  <2>1. SizeOfType(types, n, text) = 0
    BY <1>a DEF SizeOfType, ParsedRange
  <2>2. QED
    BY <2>1
<1>b. SUFFICES ASSUME text.literal \/ text.tileLiteral
               PROVE  /\ SizeOfType(types, n, text) \in {0, LoopDim(texts, x)}
                      /\ SizeOfType(types, n, text) \in Nat
  BY <1>a
<1>1. /\ text.start \in Int /\ text.end \in Int /\ text.op = "<" /\ text.inc \in {0, 1}
      /\ text.literal \in BOOLEAN /\ text.tileLiteral \in BOOLEAN /\ t \in Nat \ {0}
      /\ r = text.end - text.start /\ r \in Nat \ {0}
  BY <1>b DEF UpwardHeaders, Headers, RangeSize, IsInc
<1>3. RunDim(text) = r
  <2>1. text.inc = 1 => RunDim(text) = Quotient(r + 1 - 1, 1)
    BY <1>1 DEF RunDim
  <2>2. Quotient(r + 1 - 1, 1) = r
    BY <1>1 DEF Quotient
  <2>3. text.inc = 0 => RunDim(text) = r
    BY <1>1 DEF RunDim
  <2>4. QED
    BY <1>1, <2>1, <2>2, <2>3
<1>4. RunDim(first) = 1 + (r - 1) \div t
  <2>1. first.start = text.start /\ first.end = text.end /\ first.op = "<" /\ first.inc = t
    BY <1>1 DEF FirstOfTile, UpwardHeaders, Headers
  <2>2. RunDim(first) = Quotient(r + t - 1, t)
    BY <1>1, <2>1 DEF RunDim, RangeSize, IsInc
  <2> HIDE DEF first, r, t
  <2>3. Quotient(r + t - 1, t) = (r + t - 1) \div t
    BY <1>1, TilesOfRange DEF Quotient
  <2>4. QED
    BY <1>1, <2>2, <2>3, TilesOfRange
<1>5. RunDim(second) = t
  <2>1. second.start = text.start /\ second.end = text.start + t /\ second.op = "<" /\ second.inc = text.inc
    BY <1>1 DEF SecondOfTile, UpwardHeaders, Headers
  <2>2. text.inc = 1 => RunDim(second) = Quotient(t + 1 - 1, 1)
    BY <1>1, <2>1 DEF RunDim, RangeSize, IsInc
  <2>3. Quotient(t + 1 - 1, 1) = t
    BY <1>1 DEF Quotient
  <2>4. text.inc = 0 => RunDim(second) = t
    BY <1>1, <2>1 DEF RunDim, RangeSize, IsInc
  <2>5. QED
    BY <1>1, <2>2, <2>3, <2>4
<1>6. LoopDim(texts, x) = IF Len(types) = 1 THEN RunDim(text)
                          ELSE IF n = 1 THEN RunDim(first) ELSE RunDim(second)
  BY DEF LoopDim
<1> HIDE DEF r, t, first, second
<1>7. 1 + (r - 1) \div t \in Nat \ {0}
  BY <1>1, TilesOfRange
<1>8. ParsedRange(text) \in {0, r}
  BY <1>1 DEF ParsedRange, r
<1>9. CASE Len(types) = 1
  <2>1. SizeOfType(types, n, text) = ParsedRange(text) /\ LoopDim(texts, x) = r
    BY <1>3, <1>6, <1>9 DEF SizeOfType
  <2>2. QED
    BY <1>1, <1>8, <2>1
<1>10. CASE Len(types) = 2 /\ n = 1
  <2>1. LoopDim(texts, x) = 1 + (r - 1) \div t
    BY <1>4, <1>6, <1>10
  <2>2. SizeOfType(types, n, text) = IF ~text.tileLiteral \/ ParsedRange(text) = 0 THEN 0
                                     ELSE 1 + (ParsedRange(text) - 1) \div t
    BY <1>10 DEF SizeOfType, t
  <2>3. SizeOfType(types, n, text) \in {0, 1 + (r - 1) \div t}
    BY <1>8, <2>2
  <2>4. QED
    BY <1>7, <2>1, <2>3
<1>11. CASE Len(types) = 2 /\ n = 2
  <2>1. LoopDim(texts, x) = t
    BY <1>5, <1>6, <1>11
  <2>2. SizeOfType(types, n, text) = IF ~text.tileLiteral THEN 0 ELSE t
    BY <1>11 DEF SizeOfType, t
  <2>3. QED
    BY <1>1, <2>1, <2>2
<1>12. QED
  BY <1>2, <1>9, <1>10, <1>11

InnerAlong(x, a) == NodeType(loops, x) = "Inner" /\ AxisAt(loops, x) = a

\* On a way there is one loop along an axis.
OneAlongEach(f) ==
    \A b, c \in 1..Len(f) : \A a \in 0..MaxAxis :
        InnerAlong(f[b], a) /\ InnerAlong(f[c], a) => f[b] = f[c]

\* The sizes are, where they are known, those of the loops on a way.
Describes(texts, p, s) ==
    /\ s \in [0..MaxAxis -> Nat]
    /\ \A a \in 0..MaxAxis :
          /\ (\A b \in 1..Len(p) : ~InnerAlong(p[b], a)) => s[a] = 1
          /\ \A b \in 1..Len(p) : InnerAlong(p[b], a) => s[a] \in {0, LoopDim(texts, p[b])}

LEMMA ProductIsPositive ==
    ASSUME NEW s \in [0..MaxAxis -> Nat]
    PROVE  Product(s) \in Nat \ {0}
<1> DEFINE k0 == IF s[0] = 0 THEN 1 ELSE s[0]
           k1 == IF s[1] = 0 THEN 1 ELSE s[1]
           k2 == IF s[2] = 0 THEN 1 ELSE s[2]
<1>1. s[0] \in Nat /\ s[1] \in Nat /\ s[2] \in Nat
  BY DEF MaxAxis
<1>2. k0 \in Nat \ {0} /\ k1 \in Nat \ {0} /\ k2 \in Nat \ {0}
  BY <1>1
<1>3. Product(s) = k0 * k1 * k2
  BY DEF Product
<1> HIDE DEF k0, k1, k2
<1>4. \A x, y \in Nat \ {0} : x * y \in Nat \ {0}
  OBVIOUS
<1>5. k0 * k1 \in Nat \ {0}
  BY <1>2, <1>4
<1>6. k0 * k1 * k2 \in Nat \ {0}
  BY <1>2, <1>4, <1>5
<1>7. QED
  BY <1>3, <1>6

\* One step up: the own sizes over those of what is below.
LEMMA OwnSizesDescribe ==
    ASSUME IsTree(loops), TypesOK(loops), NEW i \in DOMAIN loops,
           NEW texts, texts[i] \in UpwardHeaders, RangeSize(texts[i]) \in Nat \ {0},
           NEW q \in Seq(Nodes(loops)), NEW below, Describes(texts, q, below),
           OneAlongEach(OwnNodes(loops, i) \o q)
    PROVE  Describes(texts, OwnNodes(loops, i) \o q,
                     WithOwnSizes(below, loops[i].type, loops[i].axis, texts[i]))
<1> DEFINE own   == OwnNodes(loops, i)
           k     == Len(own)
           p     == own \o q
           types == loops[i].type
           axes  == loops[i].axis
           s     == WithOwnSizes(below, types, axes, texts[i])
<1>1. /\ own \in Seq(Nodes(loops)) /\ k \in 0..2
      /\ AttributedIdxs(types) = 1..k
      /\ \A n \in 1..k : own[n] = <<i, n>>
  BY OwnNodesAre
<1>2. types \in Seq(LoopType) /\ Len(types) \in 1..2 /\ DOMAIN types = 1..Len(types)
  BY DEF TypesOK
<1>3. /\ Len(p) \in Nat /\ Len(p) = k + Len(q) /\ Len(q) \in Nat
      /\ \A b \in 1..k : b \in 1..Len(p) /\ p[b] = <<i, b>>
      /\ \A b \in 1..Len(p) : b \in 1..k \/ (b - k \in 1..Len(q) /\ p[b] = q[b - k])
      /\ \A b \in 1..Len(q) : b + k \in 1..Len(p) /\ p[b + k] = q[b]
  <2> DEFINE N == Nodes(loops)
  <2>1. own \in Seq(N) /\ q \in Seq(N) /\ k \in Nat
    BY <1>1
  <2> HIDE DEF own, N
  <2>2. Len(p) = k + Len(q) /\ Len(q) \in Nat
    BY <2>1
  <2>3. \A b \in 1..k : b \in 1..Len(p) /\ p[b] = own[b]
    BY <2>1
  <2>4. \A b \in 1..Len(p) : b \in 1..k \/ (b - k \in 1..Len(q) /\ p[b] = q[b - k])
    BY <2>1, <2>2
  <2>5. \A b \in 1..Len(q) : b + k \in 1..Len(p) /\ p[b + k] = q[b]
    BY <2>1, <2>2
  <2>6. QED
    BY <1>1, <2>1, <2>2, <2>3, <2>4, <2>5
<1>4. \A n \in 1..Len(types) : /\ SizeOfType(types, n, texts[i]) \in {0, LoopDim(texts, <<i, n>>)}
                               /\ SizeOfType(types, n, texts[i]) \in Nat
  <2>1. ASSUME NEW n \in 1..Len(types)
        PROVE  /\ SizeOfType(types, n, texts[i]) \in {0, LoopDim(texts, <<i, n>>)}
               /\ SizeOfType(types, n, texts[i]) \in Nat
    <3> DEFINE x == <<i, n>>
    <3>1. x[1] = i /\ x[2] = n /\ loops[x[1]].type = types /\ texts[x[1]] = texts[i]
      OBVIOUS
    <3> HIDE DEF x, types
    <3>2. /\ SizeOfType(types, x[2], texts[i]) \in {0, LoopDim(texts, x)}
          /\ SizeOfType(types, x[2], texts[i]) \in Nat
      BY <1>2, <3>1, SizeIsDim
    <3>3. QED
      BY <3>1, <3>2 DEF x
  <2>2. QED
    BY <2>1
<1>5. below \in [0..MaxAxis -> Nat]
  BY DEF Describes
<1>6. OwnOrBelow(s, below, types, axes, texts[i], Nat)
  <2> HIDE DEF types, axes
  <2>1. \A n \in 1..Len(types) : SizeOfType(types, n, texts[i]) \in Nat
    BY <1>4
  <2>2. QED
    BY <1>2, <1>5, <2>1, OwnSizesAre
<1>7. \A n : \A a : InnerAlong(<<i, n>>, a) <=> types[n] = "Inner" /\ axes[n] = a
  BY DEF InnerAlong, NodeType, AxisAt
<1>8. \A n \in 1..k : n \in 1..Len(types)
  BY <1>1, <1>2 DEF AttributedIdxs
<1>9. ASSUME NEW a \in 0..MaxAxis
      PROVE  /\ (\A b \in 1..Len(p) : ~InnerAlong(p[b], a)) => s[a] = 1
             /\ \A b \in 1..Len(p) : InnerAlong(p[b], a) => s[a] \in {0, LoopDim(texts, p[b])}
  <2>0. /\ (\A b \in 1..Len(q) : ~InnerAlong(q[b], a)) => below[a] = 1
        /\ \A b \in 1..Len(q) : InnerAlong(q[b], a) => below[a] \in {0, LoopDim(texts, q[b])}
    BY DEF Describes
  <2>1. CASE s[a] = below[a] /\ \A n \in 1..Len(types) : ~(types[n] = "Inner" /\ axes[n] = a)
    <3>1. ASSUME NEW b \in 1..k PROVE ~InnerAlong(p[b], a)
      <4>1. b \in 1..Len(types) /\ p[b] = <<i, b>>
        BY <1>3, <1>8
      <4>2. ~InnerAlong(<<i, b>>, a)
        BY <1>7, <2>1, <4>1
      <4> HIDE DEF p
      <4>3. QED
        BY <4>1, <4>2
    <3>2. ASSUME NEW b \in 1..Len(p), InnerAlong(p[b], a) PROVE s[a] \in {0, LoopDim(texts, p[b])}
      <4>1. b - k \in 1..Len(q) /\ p[b] = q[b - k]
        BY <1>3, <3>1, <3>2
      <4> HIDE DEF p, s, k
      <4>2. QED
        BY <2>0, <2>1, <3>2, <4>1
    <3>3. ASSUME \A b \in 1..Len(p) : ~InnerAlong(p[b], a) PROVE s[a] = 1
      <4>1. \A b \in 1..Len(q) : ~InnerAlong(q[b], a)
        <5> HIDE DEF p, k
        <5> QED
          BY <1>3, <3>3
      <4> HIDE DEF s
      <4>2. QED
        BY <2>0, <2>1, <4>1
    <3>4. QED
      BY <3>2, <3>3
  <2>2. ASSUME NEW n \in 1..Len(types), types[n] = "Inner", axes[n] = a, s[a] = SizeOfType(types, n, texts[i])
        PROVE  /\ (\A b \in 1..Len(p) : ~InnerAlong(p[b], a)) => s[a] = 1
               /\ \A b \in 1..Len(p) : InnerAlong(p[b], a) => s[a] \in {0, LoopDim(texts, p[b])}
    <3>1. n \in 1..k
      BY <1>1, <1>2, <2>2 DEF AttributedIdxs
    <3>2. n \in 1..Len(p) /\ p[n] = <<i, n>> /\ InnerAlong(p[n], a)
      <4>1. n \in 1..Len(p) /\ p[n] = <<i, n>>
        BY <1>3, <3>1
      <4>2. InnerAlong(<<i, n>>, a)
        BY <1>7, <2>2
      <4> HIDE DEF p
      <4>3. QED
        BY <4>1, <4>2
    <3>3. \A b \in 1..Len(p) : InnerAlong(p[b], a) => p[b] = <<i, n>>
      BY <3>2 DEF OneAlongEach
    <3>4. s[a] \in {0, LoopDim(texts, <<i, n>>)}
      <4> HIDE DEF s, types
      <4> QED
        BY <1>4, <2>2
    <3> HIDE DEF s, p
    <3>5. QED
      BY <3>2, <3>3, <3>4
  <2>3. QED
    <3> HIDE DEF s, p, types, axes
    <3> QED
      BY <1>6, <2>1, <2>2 DEF OwnOrBelow
<1>10. QED
  BY <1>6, <1>9 DEF Describes, OwnOrBelow

\* The sizes of every loop inside l are those of a way.
LEMMA SizesDescribeAWay ==
    ASSUME IsTree(loops), TypesOK(loops), NEW l \in DOMAIN loops, Attributed(loops, l),
           AllAttributed(loops, l), NEW texts,
           \A i \in Descendants(loops, l) \cup {l} :
              texts[i] \in UpwardHeaders /\ RangeSize(texts[i]) \in Nat \ {0},
           \A f \in PathsFrom(loops, l) : OneAlongEach(f)
    PROVE  \A i \in Descendants(loops, l) \cup {l} :
              \E p \in PathsFrom(loops, i) : Describes(texts, p, GetInnerSizes(loops, texts, i))
<1> DEFINE n == Len(loops)
           In == Descendants(loops, l) \cup {l}
           Told(i) == \E p \in PathsFrom(loops, i) : Describes(texts, p, GetInnerSizes(loops, texts, i))
           Good == {i \in DOMAIN loops : i \in In => Told(i)}
<1>1. n \in Nat /\ DOMAIN loops = 1..n
  BY DEF IsTree
<1>2. PICK Y : \E h : AreSizes(h, loops, texts, Y)
  BY SizesAreDefined
<1>a. PICK h : AreSizes(h, loops, texts, Y)
  BY <1>2
<1>3. /\ h \in [1..n -> [0..MaxAxis -> Y]]
      /\ Ones \in [0..MaxAxis -> Y]
      /\ \A i \in DOMAIN loops :
            /\ GetInnerSizes(loops, texts, i) = h[i]
            /\ h[i] = WithOwnSizes(ChosenBranch(loops, i, h), loops[i].type, loops[i].axis, texts[i])
  BY <1>a DEF AreSizes
<1>4. In \subseteq DOMAIN loops
  BY DEF Descendants
<1>5. ASSUME NEW i \in In, NEW p \in PathsFrom(loops, i) PROVE OneAlongEach(p) /\ p \in Seq(Nodes(loops))
  <2> DEFINE N == Nodes(loops)
  <2>1. PICK w \in Seq(N) : \A z \in PathsFrom(loops, i) : w \o z \in PathsFrom(loops, l)
    BY WaysFromAbove
  <2>2. p \in Seq(N)
    BY <1>4, WaysAreDefined
  <2>3. OneAlongEach(w \o p)
    BY <2>1
  <2> HIDE DEF N
  <2>4. \A b \in 1..Len(p) : Len(w) + b \in 1..Len(w \o p) /\ (w \o p)[Len(w) + b] = p[b]
    BY <2>2
  <2>5. OneAlongEach(p)
    BY <2>3, <2>4 DEF OneAlongEach
  <2>6. QED
    BY <2>2, <2>5 DEF N
<1>6. ASSUME NEW i \in 1..n, \A j \in i + 1..n : j \in Good PROVE i \in Good
  <2> SUFFICES ASSUME i \in In PROVE Told(i)
    BY <1>1
  <2> DEFINE own == OwnNodes(loops, i)
             below == ChosenBranch(loops, i, h)
  <2>0. i \in DOMAIN loops
    BY <1>1
  <2>1. PathsFrom(loops, i) = {own \o p : p \in OrEmpty(WaysBelow(loops, i))}
    <3> HIDE DEF In, Told, Good, n, below
    <3> QED
      BY <2>0, WaysAreDefined
  <2>2. \A c \in Children(loops, i) : /\ c \in In /\ c \in i + 1..n /\ c \in DOMAIN loops /\ Attributed(loops, c)
                                      /\ Told(c)
    <3>1. ASSUME NEW c \in Children(loops, i)
          PROVE  c \in In /\ c \in i + 1..n /\ c \in DOMAIN loops /\ Attributed(loops, c)
      <4>1. c \in DOMAIN loops /\ c \in i + 1..n
        BY <1>1 DEF IsTree, Children
      <4>2. c \in Descendants(loops, i)
        BY <2>0, ChildIsInside
      <4>3. i \in Ancestors(loops, c) /\ (i = l \/ l \in Ancestors(loops, i))
        BY <4>2 DEF Descendants
      <4>4. l \in Ancestors(loops, c)
        BY <4>1, <4>3, AncestorsAreTransitive
      <4>5. c \in Descendants(loops, l)
        BY <4>1, <4>4 DEF Descendants
      <4>6. QED
        BY <4>1, <4>5 DEF AllAttributed
    <3> HIDE DEF In, Told
    <3>2. \A c \in Children(loops, i) : c \in Good
      BY <1>6, <3>1
    <3>3. QED
      BY <3>1, <3>2
  <2>3. ASSUME NEW c \in Children(loops, i) PROVE h[c] \in [0..MaxAxis -> Nat] /\ Product(h[c]) \in Nat \ {0}
    <3>1. PICK p \in PathsFrom(loops, c) : Describes(texts, p, GetInnerSizes(loops, texts, c))
      BY <2>2
    <3>2. GetInnerSizes(loops, texts, c) = h[c]
      BY <1>3, <2>2
    <3>3. h[c] \in [0..MaxAxis -> Nat]
      BY <3>1, <3>2 DEF Describes
    <3>4. QED
      BY <3>3, ProductIsPositive
  <2>4. /\ Children(loops, i) = {} => below = Ones
        /\ Children(loops, i) # {} => \E c \in Children(loops, i) : below = h[c]
    <3> DEFINE V == [0..MaxAxis -> Y]
    <3>1. \A c \in Children(loops, i) : h[c] \in V /\ Product(h[c]) \in Nat \ {0}
      BY <1>1, <1>3, <2>2, <2>3
    <3>2. Ones \in V
      BY <1>3
    <3> HIDE DEF V
    <3>3. QED
      BY <2>0, <3>1, <3>2, ChosenIsAChild
  <2>5. \E q \in OrEmpty(WaysBelow(loops, i)) : q \in Seq(Nodes(loops)) /\ Describes(texts, q, below)
    <3>1. CASE Children(loops, i) = {}
      <4> DEFINE e == <<>>
      <4>1. WaysBelow(loops, i) = {}
        BY <3>1 DEF WaysBelow
      <4>2. e \in OrEmpty(WaysBelow(loops, i))
        BY <4>1 DEF OrEmpty
      <4>3. below = Ones
        BY <2>4, <3>1
      <4>4. e \in Seq(Nodes(loops)) /\ 1..Len(e) = {}
        OBVIOUS
      <4>5. Ones \in [0..MaxAxis -> Nat] /\ \A a \in 0..MaxAxis : Ones[a] = 1
        BY DEF Ones
      <4> HIDE DEF e, below
      <4>6. Describes(texts, e, below)
        BY <4>3, <4>4, <4>5 DEF Describes
      <4>7. QED
        BY <4>2, <4>4, <4>6
    <3>2. CASE Children(loops, i) # {}
      <4>1. PICK c \in Children(loops, i) : below = h[c]
        BY <2>4, <3>2
      <4>2. PICK q \in PathsFrom(loops, c) : Describes(texts, q, GetInnerSizes(loops, texts, c))
        BY <2>2
      <4>3. GetInnerSizes(loops, texts, c) = h[c]
        BY <1>3, <2>2
      <4>4. q # <<>> /\ q \in Seq(Nodes(loops))
        BY <1>5, <2>2, PathsExist
      <4>5. q \in WaysBelow(loops, i)
        BY <4>4 DEF WaysBelow
      <4>6. q \in OrEmpty(WaysBelow(loops, i))
        BY <4>5 DEF OrEmpty
      <4> HIDE DEF below
      <4>7. QED
        BY <4>1, <4>2, <4>3, <4>4, <4>6
    <3>3. QED
      BY <3>1, <3>2
  <2>6. PICK q \in OrEmpty(WaysBelow(loops, i)) : q \in Seq(Nodes(loops)) /\ Describes(texts, q, below)
    BY <2>5
  <2>7. own \o q \in PathsFrom(loops, i)
    <3> HIDE DEF own
    <3> QED
      BY <2>1
  <2>8. OneAlongEach(own \o q)
    BY <1>5, <2>7
  <2>9. GetInnerSizes(loops, texts, i) = WithOwnSizes(below, loops[i].type, loops[i].axis, texts[i])
    BY <1>3, <2>0
  <2>10. Describes(texts, own \o q, GetInnerSizes(loops, texts, i))
    <3>1. texts[i] \in UpwardHeaders /\ RangeSize(texts[i]) \in Nat \ {0}
      OBVIOUS
    <3> HIDE DEF below
    <3>2. QED
      BY <2>0, <2>6, <2>8, <2>9, <3>1, OwnSizesDescribe
  <2>11. QED
    BY <2>7, <2>10
<1>7. \A i \in 1..n : i \in Good
  <2> HIDE DEF Good, n
  <2> QED
    BY <1>1, <1>6, LaterInduction
<1>8. QED
  BY <1>1, <1>4, <1>7

-----------------------------------------------------------------------------
(* The sizes are the dimensions that the launcher writes.                  *)

\* What is known of a device kernel that the launcher reads as the device does.
KernelIsReadable(l) ==
    /\ l \in DOMAIN loops
    /\ Attributed(loops, l)
    /\ AllAttributed(loops, l)
    /\ \A f \in PathsFrom(loops, l) :
          /\ f \in Seq(Nodes(loops))
          /\ \A b \in 1..Len(f) :
                /\ f[b][1] \in Descendants(loops, l) \cup {l}
                /\ AxisAt(loops, f[b]) = Met(loops, f, b, NodeType(loops, f[b]))
                /\ AxisAt(loops, f[b]) \in 0..MaxAxis

\* The loops of the type Inner on a way, and their axes.
LEMMA InnerLoopsAre ==
    ASSUME NEW l, KernelIsReadable(l), NEW f \in PathsFrom(loops, l)
    PROVE  LET list == OfType(loops, f, "Inner")
           IN  /\ Len(list) \in 0..3
               /\ \A b \in 1..Len(f) : \A a \in 0..MaxAxis : InnerAlong(f[b], a) =>
                     Len(list) - a \in 1..Len(list) /\ list[Len(list) - a] = f[b]
               /\ \A a \in 0..MaxAxis : Len(list) - a \in 1..Len(list) =>
                     \E b \in 1..Len(f) : InnerAlong(f[b], a) /\ list[Len(list) - a] = f[b]
<1> DEFINE list == OfType(loops, f, "Inner")
           m    == Len(list)
<1>1. f \in Seq(Nodes(loops))
  BY DEF KernelIsReadable
<1>2. list \in Seq(Nodes(loops)) /\ CountsMet(loops, f, "Inner", list)
  BY <1>1, OfTypeCounts
<1> HIDE DEF list
<1>3. m \in Nat
  BY <1>2
<1>4. ASSUME NEW b \in 1..Len(f), NEW a \in 0..MaxAxis, InnerAlong(f[b], a)
      PROVE  m - a \in 1..m /\ list[m - a] = f[b]
  <2>1. NodeType(loops, f[b]) = "Inner" /\ AxisAt(loops, f[b]) = a
    BY <1>4 DEF InnerAlong
  <2>2. Met(loops, f, b, "Inner") = a
    BY <2>1 DEF KernelIsReadable
  <2>3. QED
    BY <1>2, <2>1, <2>2 DEF CountsMet
<1>5. ASSUME NEW j \in 1..m
      PROVE  \E b \in 1..Len(f) : InnerAlong(f[b], m - j) /\ list[j] = f[b] /\ m - j \in 0..MaxAxis
  <2>1. PICK b \in 1..Len(f) : /\ list[j] = f[b]
                               /\ NodeType(loops, f[b]) = "Inner"
                               /\ Met(loops, f, b, "Inner") = m - j
    BY <1>2 DEF CountsMet
  <2>2. AxisAt(loops, f[b]) = m - j /\ AxisAt(loops, f[b]) \in 0..MaxAxis
    BY <2>1 DEF KernelIsReadable
  <2>3. QED
    BY <2>1, <2>2 DEF InnerAlong
<1>6. m \in 0..3
  <2>1. CASE m = 0
    BY <2>1
  <2>2. CASE m # 0
    <3>1. 1 \in 1..m
      BY <1>3, <2>2
    <3>2. m - 1 \in 0..MaxAxis
      BY <1>5, <3>1
    <3>3. QED
      BY <1>3, <3>2 DEF MaxAxis
  <2>3. QED
    BY <2>1, <2>2
<1>7. ASSUME NEW a \in 0..MaxAxis, m - a \in 1..m
      PROVE  \E b \in 1..Len(f) : InnerAlong(f[b], a) /\ list[m - a] = f[b]
  <2>1. m - (m - a) = a
    BY <1>3 DEF MaxAxis
  <2>2. PICK b \in 1..Len(f) : InnerAlong(f[b], m - (m - a)) /\ list[m - a] = f[b]
    BY <1>5, <1>7
  <2>3. QED
    BY <2>1, <2>2
<1>8. QED
  BY <1>4, <1>6, <1>7 DEF list

\* Two loops on a way have different axes.
LEMMA AxesTellLoops ==
    ASSUME NEW l, KernelIsReadable(l)
    PROVE  \A f \in PathsFrom(loops, l) : OneAlongEach(f)
<1> SUFFICES ASSUME NEW f \in PathsFrom(loops, l), NEW b \in 1..Len(f), NEW c \in 1..Len(f),
                    NEW a \in 0..MaxAxis, InnerAlong(f[b], a), InnerAlong(f[c], a)
             PROVE  f[b] = f[c]
  BY DEF OneAlongEach
<1> DEFINE list == OfType(loops, f, "Inner")
<1>1. list[Len(list) - a] = f[b] /\ list[Len(list) - a] = f[c]
  BY InnerLoopsAre
<1>2. QED
  BY <1>1

\* The size of a block is the product of its dimensions, three at most.
LEMMA BlockSizeIs ==
    ASSUME NEW texts, NEW l, NEW inner, inner = LaunchLoops(l, "Inner"), Len(inner) \in 0..3
    PROVE  /\ Len(inner) = 0 => BlockSize(texts, l) = 1
           /\ Len(inner) = 1 => BlockSize(texts, l) = 1 * LoopDim(texts, inner[1])
           /\ Len(inner) = 2 => BlockSize(texts, l) = 1 * LoopDim(texts, inner[1]) * LoopDim(texts, inner[2])
           /\ Len(inner) = 3 => BlockSize(texts, l) = 1 * LoopDim(texts, inner[1]) * LoopDim(texts, inner[2])
                                                        * LoopDim(texts, inner[3])
<1> DEFINE n     == Len(inner)
           d(j)  == LoopDim(texts, inner[j])
           Size(g) == [j \in 0..n |-> IF j = 0 THEN 1 ELSE g[j - 1] * d(j)]
           size  == CHOOSE g : g = Size(g)
           g     == [j \in 0..n |-> IF j = 0 THEN 1
                                    ELSE IF j = 1 THEN 1 * d(1)
                                    ELSE IF j = 2 THEN 1 * d(1) * d(2)
                                    ELSE 1 * d(1) * d(2) * d(3)]
<1>1. BlockSize(texts, l) = size[n]
  BY DEF BlockSize
<1>2. n \in 0..3
  OBVIOUS
<1> HIDE DEF n, d
<1>3. g = Size(g)
  <2>1. ASSUME NEW j \in 0..n PROVE g[j] = Size(g)[j]
    <3>1. j = 0 \/ j = 1 \/ j = 2 \/ j = 3
      BY <1>2
    <3>2. j # 0 => j - 1 \in 0..n
      BY <1>2
    <3>3. CASE j = 0
      BY <3>3
    <3>4. CASE j = 1
      BY <1>2, <3>2, <3>4
    <3>5. CASE j = 2
      BY <1>2, <3>2, <3>5
    <3>6. CASE j = 3
      BY <1>2, <3>2, <3>6
    <3>7. QED
      BY <3>1, <3>3, <3>4, <3>5, <3>6
  <2>2. g = [j \in 0..n |-> g[j]] /\ Size(g) = [j \in 0..n |-> Size(g)[j]]
    OBVIOUS
  <2> HIDE DEF g, Size
  <2>3. QED
    BY <2>1, <2>2
<1> HIDE DEF g
<1>4. size = Size(size)
  <2> HIDE DEF Size
  <2> QED
    BY <1>3
<1> HIDE DEF size
<1>5. \A j \in 0..n : size[j] = IF j = 0 THEN 1 ELSE size[j - 1] * d(j)
  BY <1>4
<1>6. size[0] = 1
  BY <1>2, <1>5
<1>7. n >= 1 => size[1] = 1 * d(1)
  <2> SUFFICES ASSUME n >= 1 PROVE size[1] = 1 * d(1)
    OBVIOUS
  <2>1. 1 \in 0..n /\ 1 - 1 = 0
    BY <1>2
  <2>2. QED
    BY <1>5, <1>6, <2>1
<1>8. n >= 2 => size[2] = 1 * d(1) * d(2)
  <2> SUFFICES ASSUME n >= 2 PROVE size[2] = 1 * d(1) * d(2)
    OBVIOUS
  <2>1. 2 \in 0..n /\ 2 - 1 = 1 /\ n >= 1
    BY <1>2
  <2>2. QED
    BY <1>5, <1>7, <2>1
<1>9. n >= 3 => size[3] = 1 * d(1) * d(2) * d(3)
  <2> SUFFICES ASSUME n >= 3 PROVE size[3] = 1 * d(1) * d(2) * d(3)
    OBVIOUS
  <2>1. 3 \in 0..n /\ 3 - 1 = 2 /\ n >= 2
    BY <1>2
  <2>2. QED
    BY <1>5, <1>8, <2>1
<1>10. /\ n = 0 => size[n] = 1
       /\ n = 1 => size[n] = 1 * d(1)
       /\ n = 2 => size[n] = 1 * d(1) * d(2)
       /\ n = 3 => size[n] = 1 * d(1) * d(2) * d(3)
  BY <1>6, <1>7, <1>8, <1>9
<1>11. QED
  BY <1>1, <1>10 DEF n, d

LEMMA BackwardProduct ==
    ASSUME NEW x \in Nat, NEW y \in Nat, NEW z \in Nat
    PROVE  /\ x * 1 * 1 = 1 * x
           /\ y * x * 1 = 1 * x * y
           /\ z * y * x = 1 * x * y * z
<1>1. x * 1 * 1 = 1 * x
  OBVIOUS
<1>2. y * x = x * y /\ x * y \in Nat
  OBVIOUS
<1>3. y * x * 1 = y * x /\ 1 * x * y = x * y
  BY <1>2
<1>4. z * y * x = 1 * x * y * z
  OBVIOUS
<1>5. QED
  BY <1>1, <1>2, <1>3, <1>4

\* Sizes s of a block are the dimensions of the list of loops, of which the
\* last is along axis 0.
SizesOf(texts, list, s) ==
    /\ Len(list) \in 0..3
    /\ s \in [0..MaxAxis -> Nat \ {0}]
    /\ \A a \in 0..MaxAxis :
          /\ Len(list) - a \in 1..Len(list) => s[a] = LoopDim(texts, list[Len(list) - a])
          /\ Len(list) - a \notin 1..Len(list) => s[a] = 1

LEMMA SizesAreLaunched ==
    ASSUME IsTree(loops), TypesOK(loops), LoopTexts \subseteq UpwardHeaders,
           NEW l, KernelIsReadable(l), NEW texts \in TextsOf(l), SameDims(texts, l),
           LaunchBounds(texts, l) # 0
    PROVE  LET s == GetInnerSizes(loops, texts, l)
           IN  /\ LaunchBounds(texts, l) = Product(s)
               /\ \A f \in PathsFrom(loops, l) : SizesOf(texts, OfType(loops, f, "Inner"), s)
<1> DEFINE s == GetInnerSizes(loops, texts, l)
           In == Descendants(loops, l) \cup {l}
           list(f) == OfType(loops, f, "Inner")
<1>1. l \in DOMAIN loops /\ Attributed(loops, l) /\ AllAttributed(loops, l)
  BY DEF KernelIsReadable
<1>2. \A i \in In : texts[i] \in UpwardHeaders /\ RangeSize(texts[i]) \in Nat \ {0}
  <2>1. texts \in [In -> LoopTexts]
    BY DEF TextsOf
  <2> HIDE DEF In
  <2>2. QED
    BY <2>1, LoopTextsAssumption
<1>3. PICK p \in PathsFrom(loops, l) : Describes(texts, p, s)
  <2>1. \A f \in PathsFrom(loops, l) : OneAlongEach(f)
    BY AxesTellLoops
  <2>2. QED
    BY <1>1, <1>2, <2>1, SizesDescribeAWay
<1>4. LaunchBounds(texts, l) = IF HasNullOpts(s) THEN 0 ELSE Product(s)
  BY DEF LaunchBounds
<1> HIDE DEF s
<1>5. ~HasNullOpts(s) /\ LaunchBounds(texts, l) = Product(s)
  BY <1>4
<1>6. s \in [0..MaxAxis -> Nat \ {0}]
  <2>1. s \in [0..MaxAxis -> Nat]
    BY <1>3 DEF Describes
  <2>2. \A a \in 0..MaxAxis : s[a] # 0
    BY <1>5, <2>1 DEF HasNullOpts
  <2>3. QED
    BY <2>1, <2>2
<1>7. ASSUME NEW f \in PathsFrom(loops, l) PROVE SizesOf(texts, list(f), s)
  <2> DEFINE m == Len(list(f))
             k == Len(list(p))
  <2>1. /\ m \in 0..3 /\ k \in 0..3
        /\ DOMAIN list(f) = 1..m /\ DOMAIN list(p) = 1..k
    <3>1. m \in 0..3 /\ k \in 0..3
      BY InnerLoopsAre
    <3>2. f \in Seq(Nodes(loops)) /\ p \in Seq(Nodes(loops))
      BY DEF KernelIsReadable
    <3>3. list(f) \in Seq(Nodes(loops)) /\ list(p) \in Seq(Nodes(loops))
      BY <3>2, OfTypeCounts
    <3> HIDE DEF list
    <3>4. QED
      BY <3>1, <3>3
  <2>2. InnerDims(texts, f) = InnerDims(texts, p)
    BY DEF SameDims
  <2>3. /\ DOMAIN InnerDims(texts, f) = 1..m /\ DOMAIN InnerDims(texts, p) = 1..k
        /\ \A j \in 1..m : InnerDims(texts, f)[j] = LoopDim(texts, list(f)[j])
        /\ \A j \in 1..k : InnerDims(texts, p)[j] = LoopDim(texts, list(p)[j])
    <3>1. InnerDims(texts, f) = [j \in 1..m |-> LoopDim(texts, list(f)[j])]
      BY <2>1 DEF InnerDims
    <3>2. InnerDims(texts, p) = [j \in 1..k |-> LoopDim(texts, list(p)[j])]
      BY <2>1 DEF InnerDims
    <3> HIDE DEF m, k, list
    <3>3. QED
      BY <3>1, <3>2
  <2>4. m = k
    <3>1. 1..m = 1..k
      BY <2>2, <2>3
    <3> HIDE DEF m, k
    <3>2. m = k
      <4>1. (m \in 1..m \/ m = 0) /\ (k \in 1..k \/ k = 0)
        BY <2>1
      <4>2. (m \in 1..k \/ m = 0) /\ (k \in 1..m \/ k = 0)
        BY <3>1, <4>1
      <4>3. m <= k /\ k <= m
        BY <2>1, <4>2
      <4>4. QED
        BY <2>1, <4>3
    <3>3. QED
      BY <3>2
  <2>5. \A j \in 1..m : LoopDim(texts, list(f)[j]) = LoopDim(texts, list(p)[j])
    BY <2>2, <2>3, <2>4
  <2>6. ASSUME NEW a \in 0..MaxAxis
        PROVE  /\ m - a \in 1..m => s[a] = LoopDim(texts, list(f)[m - a])
               /\ m - a \notin 1..m => s[a] = 1
    <3>1. ASSUME m - a \in 1..m PROVE s[a] = LoopDim(texts, list(f)[m - a])
      <4>1. k - a \in 1..k
        BY <2>4, <3>1
      <4>2. PICK b \in 1..Len(p) : InnerAlong(p[b], a) /\ list(p)[k - a] = p[b]
        BY <4>1, InnerLoopsAre
      <4>3. s[a] \in {0, LoopDim(texts, p[b])}
        BY <1>3, <4>2 DEF Describes
      <4>4. s[a] = LoopDim(texts, p[b])
        BY <1>6, <4>3
      <4>5. LoopDim(texts, list(f)[m - a]) = LoopDim(texts, list(p)[k - a])
        BY <2>4, <2>5, <3>1
      <4>6. QED
        BY <4>2, <4>4, <4>5
    <3>2. ASSUME m - a \notin 1..m PROVE s[a] = 1
      <4>1. \A b \in 1..Len(p) : InnerAlong(p[b], a) => k - a \in 1..k
        BY InnerLoopsAre
      <4>2. \A b \in 1..Len(p) : ~InnerAlong(p[b], a)
        BY <2>4, <3>2, <4>1
      <4>3. QED
        BY <1>3, <4>2 DEF Describes
    <3>3. QED
      BY <3>1, <3>2
  <2> HIDE DEF list
  <2>7. QED
    BY <1>6, <2>1, <2>6 DEF SizesOf
<1>8. QED
  BY <1>5, <1>7 DEF s

\* The product of the sizes is that of the dimensions.
LEMMA ProductIsBlockSize ==
    ASSUME NEW texts, NEW l, NEW s, SizesOf(texts, LaunchLoops(l, "Inner"), s)
    PROVE  Product(s) = BlockSize(texts, l)
<1> DEFINE inner == LaunchLoops(l, "Inner")
           n     == Len(inner)
           d(j)  == LoopDim(texts, inner[j])
           Along(a, j) == n - a = j
<1>1. s[0] \in Nat \ {0} /\ s[1] \in Nat \ {0} /\ s[2] \in Nat \ {0}
  BY DEF SizesOf, MaxAxis
<1>2. Product(s) = s[0] * s[1] * s[2]
  BY <1>1 DEF Product
<1>3. /\ n \in 0..3
      /\ \A a \in 0..2 : /\ n - a \in 1..n => s[a] = d(n - a)
                         /\ n - a \notin 1..n => s[a] = 1
  BY DEF SizesOf, MaxAxis
<1>4. /\ n = 0 => BlockSize(texts, l) = 1
      /\ n = 1 => BlockSize(texts, l) = 1 * d(1)
      /\ n = 2 => BlockSize(texts, l) = 1 * d(1) * d(2)
      /\ n = 3 => BlockSize(texts, l) = 1 * d(1) * d(2) * d(3)
  <2>1. n \in 0..3
    BY <1>3
  <2>2. QED
    BY <2>1, BlockSizeIs
<1> HIDE DEF n, d
<1>5. CASE n = 0
  <2>1. s[0] = 1 /\ s[1] = 1 /\ s[2] = 1
    <3>1. 0 \in 0..2 /\ 1 \in 0..2 /\ 2 \in 0..2 /\ \A a \in 0..2 : n - a \notin 1..n
      BY <1>5
    <3>2. QED
      BY <1>3, <3>1
  <2>2. QED
    BY <1>2, <1>4, <1>5, <2>1
<1>6. CASE n = 1
  <2>1. s[0] = d(1) /\ s[1] = 1 /\ s[2] = 1
    <3>1. /\ 0 \in 0..2 /\ n - 0 \in 1..n /\ n - 0 = 1
          /\ 1 \in 0..2 /\ n - 1 \notin 1..n
          /\ 2 \in 0..2 /\ n - 2 \notin 1..n
      BY <1>6
    <3>2. QED
      BY <1>3, <3>1
  <2>2. d(1) \in Nat
    BY <1>1, <2>1
  <2>3. QED
    BY <1>2, <1>4, <1>6, <2>1, <2>2, BackwardProduct
<1>7. CASE n = 2
  <2>1. s[0] = d(2) /\ s[1] = d(1) /\ s[2] = 1
    <3>1. /\ 0 \in 0..2 /\ n - 0 \in 1..n /\ n - 0 = 2
          /\ 1 \in 0..2 /\ n - 1 \in 1..n /\ n - 1 = 1
          /\ 2 \in 0..2 /\ n - 2 \notin 1..n
      BY <1>7
    <3>2. QED
      BY <1>3, <3>1
  <2>2. d(1) \in Nat /\ d(2) \in Nat
    BY <1>1, <2>1
  <2>3. QED
    BY <1>2, <1>4, <1>7, <2>1, <2>2, BackwardProduct
<1>8. CASE n = 3
  <2>1. s[0] = d(3) /\ s[1] = d(2) /\ s[2] = d(1)
    <3>1. /\ 0 \in 0..2 /\ n - 0 \in 1..n /\ n - 0 = 3
          /\ 1 \in 0..2 /\ n - 1 \in 1..n /\ n - 1 = 2
          /\ 2 \in 0..2 /\ n - 2 \in 1..n /\ n - 2 = 1
      BY <1>8
    <3>2. QED
      BY <1>3, <3>1
  <2>2. d(1) \in Nat /\ d(2) \in Nat /\ d(3) \in Nat
    BY <1>1, <2>1
  <2>3. QED
    BY <1>2, <1>4, <1>8, <2>1, <2>2, BackwardProduct
<1>9. QED
  BY <1>3, <1>5, <1>6, <1>7, <1>8
=============================================================================
