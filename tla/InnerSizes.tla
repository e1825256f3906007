----------------------------- MODULE InnerSizes -----------------------------
(***************************************************************************)
(* How many threads a block may have (__launch_bounds__ of CUDA and HIP),  *)
(* and which work-group a kernel requires (reqd_work_group_size of DPC++), *)
(* computed by semantic analysis from the whole tree of loops, against     *)
(* what the launcher asks for, computed from the headers of the loops      *)
(* along first children.                                                   *)
(***************************************************************************)
EXTENDS OklTree, LoopHeader

CONSTANT LoopTexts  \* the headers for-statements may have, with the tile size:
                    \* [start, end, op, inc, literal, tileSize, tileLiteral]

ASSUME LoopTextsAssumption ==
    \A text \in LoopTexts :
        /\ {text.literal, text.tileLiteral} \subseteq BOOLEAN
        /\ text.op \in {"<", "<=", ">", ">="}
        /\ text.inc \in Nat
        /\ RangeSize(text) \in Nat \ {0}
        /\ text.tileSize \in Nat \ {0}

-----------------------------------------------------------------------------
(* getInnerSizes.  Texts assigns a header to each loop of the tree; a size *)
(* that is not known (nullopt) is 0.                                       *)

ParsedRange(text) == IF text.literal THEN RangeSize(text) ELSE 0

Product(sizes) ==
    LET known(a) == IF sizes[a] = 0 THEN 1 ELSE sizes[a]
    IN  known(0) * known(1) * known(2)

HasNullOpts(sizes) == \E a \in DOMAIN sizes : sizes[a] = 0

\* Mutant: the first loop of a tile has as many threads as the range.
UntiledSize(types, n, text) ==
    IF Len(types) = 2 /\ n = 2
    THEN IF text.tileLiteral THEN text.tileSize ELSE 0
    ELSE ParsedRange(text)

\* The threads of the n-th type of a loop.
SizeOfType(types, n, text) ==
    IF Len(types) = 1 THEN ParsedRange(text)
    ELSE IF ~text.tileLiteral \/ (n = 1 /\ ParsedRange(text) = 0) THEN 0
    ELSE IF n = 2 THEN text.tileSize
    ELSE 1 + (ParsedRange(text) - 1) \div text.tileSize

\* The sizes of the Inner types of one loop, over those below it; of two
\* types with one axis the first is written last.
WithOwnSizes(below, types, axes, text) ==
    LET along(a) == {n \in DOMAIN types : types[n] = "Inner" /\ axes[n] = a}
    IN  [a \in DOMAIN below |->
            IF along(a) = {} THEN below[a] ELSE SizeOfType(types, Min(along(a)), text)]

Ones == [a \in 0..MaxAxis |-> 1]

\* The children of loop i one after the other: the last whose product is
\* greater than that of the child BEFORE it.
ChosenBranch(T, i, sizes) ==
    LET chosen[j \in 0..Len(T)] ==
          IF j = 0 THEN [sizes |-> Ones, prevProd |-> 0]
          ELSE IF j \notin Children(T, i) THEN chosen[j - 1]
          ELSE [sizes    |-> IF Product(sizes[j]) > chosen[j - 1].prevProd
                             THEN sizes[j] ELSE chosen[j - 1].sizes,
                prevProd |-> Product(sizes[j])]
    IN  chosen[Len(T)].sizes

GetInnerSizes(T, texts, l) ==
    LET sizes[i \in DOMAIN T] ==
          WithOwnSizes(ChosenBranch(T, i, sizes), T[i].type, T[i].axis, texts[i])
    IN  sizes[l]

\* getFunctionAttributesStr: the bound of device kernel l, 0 if it gets none.
LaunchBounds(texts, l) ==
    LET sizes == GetInnerSizes(loops, texts, l)
    IN  IF HasNullOpts(sizes) THEN 0 ELSE Product(sizes)

\* Mutant: the sizes in the order of the axes.
GroupByAxis(sizes) == sizes

\* INNER_SIZES_FMT: DPC++ writes the size of Axis::Z first.
Group(sizes) == [d \in DOMAIN sizes |-> sizes[MaxAxis - d]]

\* getFunctionAttributesStr of DPC++; it is asked for where LaunchBounds is.
RequiredGroup(texts, l) == Group(GetInnerSizes(loops, texts, l))

\* axisToStr of DPC++: the dimension of the item that a loop is indexed by.
DpcppDimension(axis) == MaxAxis - axis

-----------------------------------------------------------------------------
(* The launcher.                                                           *)

\* The size of a dimension: of a loop, or of one of the two loops of a tile.
LoopDim(texts, node) ==
    LET text == texts[node[1]]
    IN  RunDim(IF Len(loops[node[1]].type) = 1 THEN text
               ELSE IF node[2] = 1 THEN FirstOfTile(text, text.tileSize)
               ELSE SecondOfTile(text, text.tileSize))

BlockSize(texts, l) ==
    LET inner == LaunchLoops(l, "Inner")
        size[j \in 0..Len(inner)] == IF j = 0 THEN 1 ELSE size[j - 1] * LoopDim(texts, inner[j])
    IN  size[Len(inner)]

\* The work-group of a launch: OCCA hands the dimensions of occa::dim to SYCL
\* from the last to the first, and one that is not set is one.
LaunchedGroup(texts, l) ==
    LET inner == LaunchLoops(l, "Inner")
    IN  [d \in 0..MaxAxis |->
            LET j == Len(inner) - (MaxAxis - d)
            IN  IF j \in DOMAIN inner THEN LoopDim(texts, inner[j]) ELSE 1]

-----------------------------------------------------------------------------
(* Properties.                                                             *)

TextsOf(l) == [Descendants(loops, l) \cup {l} -> LoopTexts]

\* The nests that the launcher reads as the device does: see LaunchMatchesDevice.
Readable(l) ==
    AllAuto(l) /\ \A d \in Descendants(loops, l) : Attributed(loops, d)

\* On every way down the threads are as many: the branches share one block.
InnerDims(texts, path) ==
    LET inner == OfType(loops, path, "Inner")
    IN  [j \in DOMAIN inner |-> LoopDim(texts, inner[j])]

SameDims(texts, l) ==
    \A p, q \in PathsFrom(loops, l) : InnerDims(texts, p) = InnerDims(texts, q)

\* Headers that the transpiler can only read where the loop runs upwards in
\* steps of one to a value that is not reached: of others range.size is not
\* always the number of iterations.
Headers ==
    [start : Int, end : Int, op : Comparisons, inc : Nat, literal : BOOLEAN,
     tileSize : Nat \ {0}, tileLiteral : BOOLEAN]

UpwardHeaders ==
    {h \in Headers : h.literal \/ h.tileLiteral => h.op = "<" /\ h.inc \in {0, 1}}

\* The bound of a device kernel is the size of the blocks it is launched
\* with, whichever sizes the transpiler can read from the source and from
\* whichever branch it takes them: getInnerSizes multiplies range sizes of
\* the whole tree, the launcher the dimensions of first children.
BoundsAreLaunched ==
    \A k \in Accepted : \A l \in TopLevelOuters(k) : Readable(l) =>
        \A texts \in TextsOf(l) :
            SameDims(texts, l) /\ LaunchBounds(texts, l) # 0 =>
                LaunchBounds(texts, l) = BlockSize(texts, l)

\* A DPC++ kernel that requires a work-group is launched with it, dimension by
\* dimension, and indexes each loop by the dimension of the loop's size: the
\* attribute, the launcher and the index count axes from three ends.
RequiredGroupIsLaunched ==
    \A k \in Accepted : \A l \in TopLevelOuters(k) : Readable(l) =>
        \A texts \in TextsOf(l) :
            SameDims(texts, l) /\ LaunchBounds(texts, l) # 0 =>
                /\ RequiredGroup(texts, l) = LaunchedGroup(texts, l)
                /\ \A path \in PathsFrom(loops, l) : \A j \in DOMAIN path :
                      NodeType(loops, path[j]) = "Inner" =>
                          RequiredGroup(texts, l)[DpcppDimension(AxisAt(loops, path[j]))]
                              = LoopDim(texts, path[j])
=============================================================================
