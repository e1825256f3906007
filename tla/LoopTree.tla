------------------------------ MODULE LoopTree ------------------------------
(***************************************************************************)
(* The tree of OklLoopInfo records that semantic analysis builds for the   *)
(* for-statements of a kernel, and the questions the code asks of it.      *)
(*                                                                         *)
(* A tree T is a sequence of loops in the order the traversal enters them  *)
(* (source order).  A loop is named by its index; T[l].parent is the index *)
(* of the loop around it, 0 when there is none, and always less than l.    *)
(* `children`, `getAttributedParent`, ... are derived from `parent`: the   *)
(* order of a std::list of children is the order of the indices.           *)
(***************************************************************************)
EXTENDS Integers, Sequences, FiniteSetsExt

LoopType == {"Regular", "Outer", "Inner"}

AutoAxis == 3                       \* enum Axis { X, Y, Z, Auto }
MaxAxis  == 2                      \* MAX_AXIS_SZ
Axis     == 0..AutoAxis

-----------------------------------------------------------------------------
(* One loop: a single type, or the two types of a tile.                    *)

IsRegular(types) == \A n \in DOMAIN types : types[n] = "Regular"

Has(types, t) == \E n \in DOMAIN types : types[n] = t

CountType(types, t) == Cardinality({n \in DOMAIN types : types[n] = t})

Attributed(T, l) == ~IsRegular(T[l].type)

AttributedIdxs(types) == {n \in DOMAIN types : types[n] # "Regular"}

\* The first (last) type that is not Regular; Regular if there is none.
FirstType(types) ==
    IF IsRegular(types) THEN "Regular" ELSE types[Min(AttributedIdxs(types))]

LastType(types) ==
    IF IsRegular(types) THEN "Regular" ELSE types[Max(AttributedIdxs(types))]

\* isLegalLoopLevel of one loop: no Inner followed by an Outer.
OrderedTypes(types) ==
    \A m, n \in DOMAIN types : types[m] = "Inner" /\ types[n] = "Outer" => n < m

\* isLegalLoopLevel of a child against its immediate parent.
IsLegalLoopLevel(child, parent) ==
    /\ OrderedTypes(parent)
    /\ OrderedTypes(child)
    /\ \/ LastType(parent) = FirstType(child)
       \/ "Regular" \in {LastType(parent), FirstType(child)}
       \/ LastType(parent) = "Outer" /\ FirstType(child) = "Inner"

-----------------------------------------------------------------------------
(* The tree: ancestors, children, first attributed child.                  *)

Children(T, l) == {c \in DOMAIN T : T[c].parent = l}

Ancestors(T, l) ==
    LET above[i \in 0..Len(T)] ==
          IF i = 0 \/ T[i].parent = 0 THEN {}
          ELSE {T[i].parent} \cup above[T[i].parent]
    IN  above[l]

Descendants(T, l) == {d \in DOMAIN T : l \in Ancestors(T, d)}

\* isTopLevelAttributed: an attributed loop with only regular loops around it.
IsTopLevelAttributed(T, l) ==
    /\ Attributed(T, l)
    /\ \A a \in Ancestors(T, l) : ~Attributed(T, a)

\* getAttributedParent: indices grow downwards, so the nearest is the largest.
AttributedParent(T, l) ==
    LET A == {a \in Ancestors(T, l) : Attributed(T, a)}
    IN  IF A = {} THEN 0 ELSE Max(A)

\* Mutant: attributed children only, regular loops are not looked through.
AttributedChildren(T, l) == {c \in Children(T, l) : Attributed(T, c)}

\* The attributed loops met first on every way down from l, which is what
\* getFirstAttributedChild searches and addLoopChildrenToQueue collects.
AttributedFrontier(T, l) ==
    {d \in Descendants(T, l) :
        /\ Attributed(T, d)
        /\ \A a \in Ancestors(T, d) \cap Descendants(T, l) : ~Attributed(T, a)}

\* getFirstAttributedChild: breadth first, left to right; 0 if none.
FirstAttributedChild(T, l) ==
    LET F        == AttributedFrontier(T, l)
        depth(d) == Cardinality(Ancestors(T, d))
        top      == Min({depth(d) : d \in F})
    IN  IF F = {} THEN 0 ELSE Min({d \in F : depth(d) = top})

-----------------------------------------------------------------------------
(* Axes of loops written without one.                                      *)

\* getHeightSameType: loops of type t along the chain of first attributed
\* children below l.
HeightSameType(T, l, t) ==
    LET height[i \in DOMAIN T] ==
          LET c == FirstAttributedChild(T, i)
          IN  IF c = 0 THEN 0 ELSE CountType(T[c].type, t) + height[c]
    IN  height[l]

\* Mutant: the first type of a tile forgets that the second is nested in it.
AxisHeightFlat(T, l, n) == HeightSameType(T, l, T[l].type[n])

\* The height each type of l is compared with MAX_AXIS_SZ, and assigned if auto.
AxisHeight(T, l, n) ==
    LET types == T[l].type
    IN  HeightSameType(T, l, types[n])
          + (IF Len(types) = 2 /\ n = 1 /\ types[1] = types[2] THEN 1 ELSE 0)

HasAuto(axes) == \E n \in DOMAIN axes : axes[n] = AutoAxis

\* updateAutoWithSpecificAxis: does it succeed, and the axes it leaves.
AutoAxisFits(T, l) ==
    \A n \in DOMAIN T[l].type : AxisHeight(T, l, n) \in 0..MaxAxis

UpdatedAxes(T, l) ==
    [n \in DOMAIN T[l].axis |->
        IF T[l].axis[n] = AutoAxis THEN AxisHeight(T, l, n) ELSE T[l].axis[n]]

-----------------------------------------------------------------------------
(* verifyLoops: what a kernel's loops must look like.  A node <<l, n>> is  *)
(* loop l seen through its n-th type: the search visits a tile twice.      *)

NextAttributedIdx(types, n) ==
    LET A == {m \in AttributedIdxs(types) : m > n}
    IN  IF A = {} THEN 0 ELSE Min(A)

NodeType(T, node) == T[node[1]].type[node[2]]

\* Mutant: a tile that still has its second type to visit counts as a leaf.
IsLeafLoop(T, node) == FirstAttributedChild(T, node[1]) = 0

IsLeaf(T, node) ==
    /\ NextAttributedIdx(T[node[1]].type, node[2]) = 0
    /\ FirstAttributedChild(T, node[1]) = 0

Below(T, node) ==
    LET n == NextAttributedIdx(T[node[1]].type, node[2])
    IN  IF n # 0 THEN {<<node[1], n>>}
        ELSE {<<c, 1>> : c \in AttributedFrontier(T, node[1])}

\* verifyLoopStructureRecursiveBFS: every level has one type, and is all
\* leaves or has none.
VerifyLoopStructure(T, top) ==
    LET level[d \in 1..(2 * Len(T) + 1)] ==
          IF d = 1 THEN {<<l, 1>> : l \in top}
          ELSE UNION {Below(T, node) : node \in level[d - 1]}
    IN  \A d \in DOMAIN level : \A a, b \in level[d] :
            /\ NodeType(T, a) = NodeType(T, b)
            /\ IsLeaf(T, a) = IsLeaf(T, b)

MissingInner(T, l) ==
    /\ T[l].type # <<"Outer", "Inner">>
    /\ \A d \in Descendants(T, l) : ~Has(T[d].type, "Inner")

VerifyLoops(T, top) ==
    /\ top # {}
    /\ \A l \in top : ~MissingInner(T, l)
    /\ VerifyLoopStructure(T, top)
=============================================================================
