------------------------------ MODULE OklTree ------------------------------
(***************************************************************************)
(* What the loop trees that OklSema builds are worth to the passes after   *)
(* it.  The reference is the plain reading of a kernel's loop nest: the    *)
(* sequences of attributed types met on the ways from a top level @outer   *)
(* loop down to its deepest loops.  The code never enumerates them: it     *)
(* follows first children (axes, launcher) or levels (verifyLoops).        *)
(***************************************************************************)
EXTENDS OklSema

\* The attributed types of loop l: those of a tile come first.
OwnNodes(T, l) == [n \in AttributedIdxs(T[l].type) |-> <<l, n>>]

\* Where nothing is below, the one way on is the empty one.
OrEmpty(ways) == IF ways = {} THEN {<<>>} ELSE ways

\* The ways down from loop l, each a sequence of <<loop, index of a type>>.
PathsFrom(T, l) ==
    LET paths[i \in DOMAIN T] ==
          LET below == (UNION {paths[c] : c \in Children(T, i)}) \ {<<>>}
          IN  {OwnNodes(T, i) \o p : p \in OrEmpty(below)}
    IN  paths[l]

TypesOf(T, path) == [j \in DOMAIN path |-> NodeType(T, path[j])]

AxisAt(T, node) == T[node[1]].axis[node[2]]

WrittenAxis(T, node) == T[node[1]].attr.axis[node[2]]

TopLevelOuters(k) == ToSet(parsedKernelList[k].topLevelOuterLoops)

KernelPaths(k) == UNION {PathsFrom(loops, l) : l \in TopLevelOuters(k)}

\* The kernels that were walked to their end and that verifyLoops lets pass.
Analysed == {k \in DOMAIN parsedKernelList : status = "done"}
Accepted == {k \in Analysed : VerifyLoops(loops, TopLevelOuters(k))}

-----------------------------------------------------------------------------
\* verifyLoops compares loops level by level.  That is the documented rule,
\* said of whole nests: every way down meets the same types in the same
\* order, so that each one can be run on the same grid of blocks and threads.
LevelsDecidePaths ==
    \A k \in Analysed :
        VerifyLoopStructure(loops, TopLevelOuters(k))
            <=> \A p, q \in KernelPaths(k) : TypesOf(loops, p) = TypesOf(loops, q)

\* Axes left to the transpiler are counted from the deepest loop of the same
\* kind, starting with zero, on EVERY way down, although
\* updateAutoWithSpecificAxis only looks along first children: two nested
\* loops never share an axis, two branches agree on it.
AutoAxesCountFromDeepest ==
    \A k \in Accepted : \A p \in KernelPaths(k) : \A j \in DOMAIN p :
        WrittenAxis(loops, p[j]) = AutoAxis =>
            AxisAt(loops, p[j]) =
                Cardinality({i \in DOMAIN p :
                    i > j /\ NodeType(loops, p[i]) = NodeType(loops, p[j])})

\* topLevelOuterLoops is filled while the tree is still growing; at the end
\* it holds, in source order and once each, the loops that begin with an
\* Outer and have no attributed loop around them: loop number n of the list
\* becomes device kernel number n.
TopLevelOutersInOrder ==
    \A k \in Analysed :
        LET list == parsedKernelList[k].topLevelOuterLoops
        IN  /\ ToSet(list) = {l \in DOMAIN loops : /\ loops[l].kern = k
                                                  /\ IsTopLevelAttributed(loops, l)
                                                  /\ loops[l].type[1] = "Outer"}
            /\ \A i, j \in DOMAIN list : i < j => list[i] < list[j]

-----------------------------------------------------------------------------
(* The launcher (getRootLoopBody): the loops of collectLoops of one type,  *)
(* outermost first, give dimensions n-1 down to 0.                         *)

\* collectLoops: the attributed loops along the FIRST child of every loop, of
\* which getRootLoopBody takes the types of a tile one after the other.
CollectLoops(T, l) ==
    LET collect[i \in DOMAIN T] ==
          LET kids == Children(T, i)
          IN  OwnNodes(T, i) \o IF kids = {} THEN <<>> ELSE collect[Min(kids)]
    IN  collect[l]

\* The nodes of type t on a way, in their order.
OfType(T, path, t) ==
    LET kept[j \in 0..Len(path)] ==
          IF j = 0 THEN <<>>
          ELSE IF NodeType(T, path[j]) = t THEN Append(kept[j - 1], path[j])
          ELSE kept[j - 1]
    IN  kept[Len(path)]

LaunchLoops(l, t) == OfType(loops, CollectLoops(loops, l), t)

\* Mutant: dimensions counted from the outermost loop.
LaunchAxisFromOutermost(l, t, j) == j - 1

LaunchAxis(l, t, j) == Len(LaunchLoops(l, t)) - j

\* The loops of type t that device kernel l runs in parallel, on some way down.
DeviceLoops(l, t) ==
    {OfType(loops, p, t) : p \in PathsFrom(loops, l)}

\* The launcher finds the loops of device kernel l, whatever their axes.
LaunchFindsLoops(l) ==
    \A t \in {"Outer", "Inner"} : LaunchLoops(l, t) \in DeviceLoops(l, t)

\* The loop that the device kernel runs over axis a of the grid is the loop
\* whose size the launcher gives to dimension a.
LaunchMatchesAxes(l) ==
    \A t \in {"Outer", "Inner"} : \A j \in DOMAIN LaunchLoops(l, t) :
        AxisAt(loops, LaunchLoops(l, t)[j]) = LaunchAxis(l, t, j)

AllAuto(l) ==
    \A d \in Descendants(loops, l) \cup {l} : \A n \in DOMAIN loops[d].attr.axis :
        loops[d].attr.axis[n] = AutoAxis

\* With automatic axes, and with only attributed loops inside, the two views
\* of a kernel agree: the grid that the launcher sets up, dimension by
\* dimension, is the one that the device kernel indexes, although the two
\* passes count the same loops in opposite directions.
LaunchMatchesDevice ==
    \A k \in Accepted : \A l \in TopLevelOuters(k) :
        AllAuto(l) /\ (\A d \in Descendants(loops, l) : Attributed(loops, d))
            => LaunchFindsLoops(l) /\ LaunchMatchesAxes(l)
=============================================================================
