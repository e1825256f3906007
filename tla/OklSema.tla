------------------------------ MODULE OklSema ------------------------------
(***************************************************************************)
(* Semantic analysis of a translation unit: PreorderNlrTraversal walks the *)
(* AST, the pre handlers run on the way down (runFromRootToLeaves), the    *)
(* post handlers on the way up (runFromLeavesToRoot), and OklSemaCtx keeps *)
(* the kernels and the tree of their loops.  Every attributed node is put  *)
(* on the list TranspilationNodes with the kernel and the loop that were   *)
(* current, and the later passes trust that pair.                          *)
(*                                                                         *)
(* The program being walked is chosen step by step: `function` and         *)
(* `openFors` are the path from the translation unit to the node under     *)
(* the walk, and every other variable is state of the program.             *)
(***************************************************************************)
EXTENDS LoopTree, SequencesExt

CONSTANTS
    LoopKinds,      \* the for-statements a source may hold: [type, axis, nobarrier]
    LeafAttrs,      \* the attributes of the other nodes: "shared decl", ...
    MaxLoops,       \* bound: for-statements inside kernels
    MaxKernels,     \* bound: @kernel functions
    MaxLeaves       \* bound: attributed nodes that are neither loops nor kernels

ASSUME BoundsAssumption == {MaxLoops, MaxKernels, MaxLeaves} \subseteq Nat

LoopKind == [type : Seq(LoopType), axis : Seq(Axis), nobarrier : BOOLEAN]

ASSUME LoopKindsAssumption ==
    \A kind \in LoopKinds :
        /\ kind \in LoopKind
        /\ Len(kind.type) \in 1..2
        /\ Len(kind.axis) = Len(kind.type)
        /\ kind.type[1] = "Regular" => IsRegular(kind.type)

ASSUME LeafAttrsAssumption == LeafAttrs \cap {"kernel", "loop"} = {}

\* A for-statement without an OKL attribute: getLoopAxisType of no parameters.
PlainFor == [type |-> <<"Regular">>, axis |-> <<AutoAxis>>, nobarrier |-> FALSE]

VARIABLES
    function,           \* the function being walked: "none", "helper" or "kernel"
    openFors,           \* the for-statements of the kernel around the walk, outermost first
    parsingKernInfo,    \* _parsingKernInfo: index of a kernel, 0 for nullptr
    parsedKernelList,   \* _parsedKernelList
    loops,              \* the OklLoopInfo records of all kernels (see LoopTree)
    nodes,              \* TranspilationNodes
    status              \* "walking", "error" (pushError, the walk stops) or "done"

walkVars == <<function, openFors>>
semaVars == <<parsingKernInfo, parsedKernelList, loops>>
vars     == <<walkVars, semaVars, nodes, status>>

Init ==
    /\ function = "none"
    /\ openFors = <<>>
    /\ parsingKernInfo = 0
    /\ parsedKernelList = <<>>
    /\ loops = <<>>
    /\ nodes = <<>>
    /\ status = "walking"

-----------------------------------------------------------------------------

Walking == status = "walking"

\* An error ends the walk: every caller returns, and nothing reads the
\* sema state again.
Fail ==
    /\ status' = "error"
    /\ UNCHANGED <<walkVars, semaVars, nodes>>

NoKernelInfo ==
    [currentLoop |-> 0, loopMap |-> [s \in 1..MaxLoops |-> 0], topLevelOuterLoops |-> <<>>]

Parsing == parsedKernelList[parsingKernInfo]

\* getLoopInfo(): the loop being parsed, 0 for nullptr.
CurrentLoop == IF parsingKernInfo = 0 THEN 0 ELSE Parsing.currentLoop

\* The innermost for-statement of the source around the walk: what
\* CurrentLoop has to be (a for-statement is named like its first loop).
Scope == IF openFors = <<>> THEN 0 ELSE Last(openFors)

\* Mutant: the context is read after the post handler has left the loop.
RecordAfterPost(attr, stmt) ==
    nodes' = Append(nodes, [ki |-> parsingKernInfo, attr |-> attr, stmt |-> stmt, scope |-> Scope,
                            li |-> IF stmt = 0 THEN CurrentLoop ELSE loops[stmt].parent])

\* An entry of TranspilationNodes, with the context read before the post
\* handler runs; `scope` is only for the properties.
Record(attr, stmt) ==
    nodes' = Append(nodes, [ki |-> parsingKernInfo, li |-> CurrentLoop, attr |-> attr,
                            stmt |-> stmt, scope |-> Scope])

-----------------------------------------------------------------------------
(* Functions.                                                              *)

EnterHelper ==
    /\ Walking
    /\ function = "none"
    /\ function' = "helper"
    /\ UNCHANGED <<openFors, semaVars, nodes, status>>

ExitHelper ==
    /\ Walking
    /\ function = "helper"
    /\ function' = "none"
    /\ UNCHANGED <<openFors, semaVars, nodes, status>>

\* preValidateOklKernel, startParsingOklKernel.
EnterKernel ==
    /\ Walking
    /\ function = "none"
    /\ parsingKernInfo = 0
    /\ Len(parsedKernelList) < MaxKernels
    /\ function' = "kernel"
    /\ parsedKernelList' = Append(parsedKernelList, NoKernelInfo)
    /\ parsingKernInfo' = Len(parsedKernelList')
    /\ UNCHANGED <<openFors, loops, nodes, status>>

\* A kernel inside a kernel (a member of a local class).
EnterNestedKernel ==
    /\ Walking
    /\ function = "kernel"
    /\ parsingKernInfo # 0
    /\ Fail

\* Mutant: the parsed kernel stays current.
KeepParsingKernelInfo == UNCHANGED parsingKernInfo

StopParsingKernelInfo == parsingKernInfo' = 0

\* postValidateOklKernel; the context of the node is read before it runs.
ExitKernel ==
    /\ Walking
    /\ function = "kernel"
    /\ openFors = <<>>
    /\ Record("kernel", 0)
    /\ function' = "none"
    /\ StopParsingKernelInfo
    /\ UNCHANGED <<openFors, parsedKernelList, loops, status>>

-----------------------------------------------------------------------------
(* For-statements: startParsingAttributedForLoop and stopParsing...        *)

ParentTypes == IF CurrentLoop = 0 THEN <<"Regular">> ELSE loops[CurrentLoop].type

\* Mutant: only the nearest loop is looked at.
IsTopLevelByParent(kind) ==
    /\ kind.type[1] = "Outer"
    /\ CurrentLoop # 0 => ~Attributed(loops, CurrentLoop)

\* No loop around the new one is attributed, and it begins with an Outer.
IsTopLevelOuter(kind) ==
    /\ kind.type[1] = "Outer"
    /\ CurrentLoop # 0 =>
         \A a \in Ancestors(loops, CurrentLoop) \cup {CurrentLoop} : ~Attributed(loops, a)

EnterLoop(kind) ==
    LET new == Len(loops) + 1
    IN  /\ Walking
        /\ function = "kernel"
        /\ new <= MaxLoops
        /\ IsLegalLoopLevel(kind.type, ParentTypes)
        /\ loops' = Append(loops, [kern |-> parsingKernInfo, type |-> kind.type,
                                   axis |-> kind.axis, attr |-> kind, parent |-> CurrentLoop])
        /\ parsedKernelList' = [parsedKernelList EXCEPT ![parsingKernInfo] =
              [currentLoop |-> new,
               loopMap     |-> [@.loopMap EXCEPT ![new] = new],
               topLevelOuterLoops |->
                   IF IsTopLevelOuter(kind) THEN Append(@.topLevelOuterLoops, new)
                   ELSE @.topLevelOuterLoops]]
        /\ openFors' = Append(openFors, new)
        /\ UNCHANGED <<function, parsingKernInfo, nodes, status>>

\* A loop that does not nest in its parent, or that parseForStmt cannot read.
RejectLoop(kind) ==
    /\ Walking
    /\ function = "kernel"
    /\ Len(loops) < MaxLoops
    /\ ~IsLegalLoopLevel(kind.type, ParentTypes)
    /\ Fail

RejectUnreadableLoop ==
    /\ Walking
    /\ function = "kernel"
    /\ Fail

\* Two loop attributes on one statement: the second is refused as a child of
\* the first, or because loopMap has the statement already.
RejectSecondLoopAttribute(kind) ==
    /\ Walking
    /\ function = "kernel"
    /\ openFors # <<>>
    /\ PlainFor \notin {kind, loops[Scope].attr}
    /\ ~ /\ IsLegalLoopLevel(kind.type, ParentTypes)
         /\ Parsing.loopMap[Scope] = 0
    /\ Fail

\* A loop attribute in a function that is not a kernel.
RejectLoopOutsideKernel ==
    /\ Walking
    /\ function = "helper"
    /\ parsingKernInfo = 0
    /\ Fail

\* Mutant: the loop entered last, whichever statement is left.
LastEnteredLoop == Len(loops)

\* The loop that loopMap holds for the statement whose walk ends.
ClosingLoop == Parsing.loopMap[Scope]

\* Mutants: the walk stays in a plain loop; the walk leaves for the nearest
\* attributed loop.
StayInPlainLoop(l) == IF IsRegular(loops[l].type) THEN l ELSE loops[l].parent
NearestAttributed(l) == AttributedParent(loops, l)

EnclosingLoop(l) == loops[l].parent

IsPlain(l) == loops[l].attr = PlainFor

ExitLoop ==
    LET l == ClosingLoop
        auto == HasAuto(loops[l].axis)
    IN  /\ Walking
        /\ function = "kernel"
        /\ openFors # <<>>
        /\ auto => AutoAxisFits(loops, l)
        /\ loops' = IF auto THEN [loops EXCEPT ![l].axis = UpdatedAxes(loops, l)] ELSE loops
        /\ parsedKernelList' =
              [parsedKernelList EXCEPT ![parsingKernInfo].currentLoop = EnclosingLoop(l)]
        /\ IF IsPlain(l) THEN UNCHANGED nodes ELSE Record("loop", Scope)
        /\ openFors' = Front(openFors)
        /\ UNCHANGED <<function, parsingKernInfo, status>>

\* "More than 3 nested [@inner] loops".
RejectDeepLoop ==
    /\ Walking
    /\ function = "kernel"
    /\ openFors # <<>>
    /\ HasAuto(loops[ClosingLoop].axis)
    /\ ~AutoAxisFits(loops, ClosingLoop)
    /\ Fail

-----------------------------------------------------------------------------
(* Every other attributed node, wherever it stands: it is only recorded.   *)

Leaves == Cardinality({n \in DOMAIN nodes : nodes[n].attr \in LeafAttrs})

RecordLeaf(attr) ==
    /\ Walking
    /\ Leaves < MaxLeaves
    /\ Record(attr, 0)
    /\ UNCHANGED <<walkVars, semaVars, status>>

FinishWalk ==
    /\ Walking
    /\ function = "none"
    /\ status' = "done"
    /\ UNCHANGED <<walkVars, semaVars, nodes>>

Reject ==
    \/ EnterNestedKernel
    \/ \E kind \in LoopKinds : RejectLoop(kind)
    \/ RejectUnreadableLoop
    \/ \E kind \in LoopKinds : RejectSecondLoopAttribute(kind)
    \/ RejectLoopOutsideKernel
    \/ RejectDeepLoop

Next ==
    \/ EnterHelper
    \/ ExitHelper
    \/ EnterKernel
    \/ ExitKernel
    \/ \E kind \in LoopKinds : EnterLoop(kind)
    \/ ExitLoop
    \/ \E attr \in LeafAttrs : RecordLeaf(attr)
    \/ FinishWalk
    \/ Reject

Spec == Init /\ [][Next]_vars

-----------------------------------------------------------------------------
(* Properties of the walk.                                                 *)

Loop == [kern : Nat \ {0}, type : Seq(LoopType), axis : Seq(Axis),
         attr : LoopKinds, parent : Nat]

KernelInfo == [currentLoop : Nat, loopMap : [1..MaxLoops -> Nat],
               topLevelOuterLoops : Seq(Nat \ {0})]

Node == [ki : Nat, li : Nat, attr : LeafAttrs \cup {"kernel", "loop"}, stmt : Nat, scope : Nat]

\* The loops are a forest: a loop has a kernel, which finds it by its
\* statement, and its parent is an earlier loop of the same kernel.
LoopOK(l) ==
    LET loop == loops[l]
    IN  /\ Len(loop.axis) = Len(loop.type)
        /\ loop.kern \in DOMAIN parsedKernelList
        /\ parsedKernelList[loop.kern].loopMap[l] = l
        /\ loop.parent < l
        /\ loop.parent # 0 => loops[loop.parent].kern = loop.kern

\* Every variable has its type, the loops are a forest, and a kernel is being
\* parsed exactly while the walk is inside a @kernel function.
TypeOK ==
    /\ function \in {"none", "helper", "kernel"}
    /\ openFors \in Seq(DOMAIN loops)
    /\ parsingKernInfo \in 0..Len(parsedKernelList)
    /\ parsingKernInfo # 0 <=> function = "kernel"
    /\ parsedKernelList \in Seq(KernelInfo)
    /\ loops \in Seq(Loop)
    /\ Len(loops) <= MaxLoops
    /\ \A l \in DOMAIN loops : LoopOK(l)
    /\ nodes \in Seq(Node)
    /\ status \in {"walking", "error", "done"}

\* The parent pointers of the loops around the walk repeat the nesting of the
\* source, although each was copied from currentLoop when the loop was
\* entered, after any number of loops were entered and left before it.
ParentIsEnclosingFor ==
    /\ function # "kernel" => openFors = <<>>
    /\ \A i \in DOMAIN openFors :
          /\ loops[openFors[i]].kern = parsingKernInfo
          /\ loops[openFors[i]].parent = IF i = 1 THEN 0 ELSE openFors[i - 1]

\* While a kernel is walked its currentLoop, which stopParsingAttributedForLoop
\* restores by following loopMap and then `parent`, is the innermost
\* for-statement around the walk, and every other kernel has none: what the
\* second passes rely on when they begin with no current loop.
CurrentLoopIsScope ==
    \A k \in DOMAIN parsedKernelList :
        parsedKernelList[k].currentLoop = IF k = parsingKernInfo THEN Scope ELSE 0

KnowsItsLoop(node) ==
    /\ node.li = node.scope
    /\ node.li # 0 =>
          /\ node.li \in DOMAIN loops
          /\ node.ki = loops[node.li].kern
          /\ node.ki \in DOMAIN parsedKernelList
          /\ parsedKernelList[node.ki].loopMap[node.li] = node.li
    /\ node.attr = "loop" => node.li = node.stmt /\ node.stmt # 0

\* The context recorded for a node is where the node stands in the source:
\* the loop is the innermost one around it, it belongs to the recorded
\* kernel, and that kernel's loopMap knows it, so that setLoopInfo and
\* getLoopInfo(forStmt) will find it when the node is transpiled.
NodesKnowTheirLoop == \A n \in DOMAIN nodes : KnowsItsLoop(nodes[n])

\* The axis of a loop is worked out when the walk leaves it, "since children
\* for loopInfo should be complete": a loop that was left never changes and
\* never gets another child.
LeftLoopsAreFinal ==
    [][ \A l \in DOMAIN loops \ ToSet(openFors) :
          /\ loops'[l] = loops[l]
          /\ Children(loops', l) = Children(loops, l) ]_vars

\* The parent pointers of the current loop, followed from the outside, are a
\* stack: loops are entered on top of it and left from the top, one at a time
\* (see LoopNesting).
CurrentPath ==
    LET path[l \in 0..Len(loops)] == IF l = 0 THEN <<>> ELSE Append(path[loops[l].parent], l)
    IN  path[CurrentLoop]

Nesting == INSTANCE LoopNesting WITH open <- CurrentPath, entered <- Len(loops)

NestingSpec == Nesting!Spec
=============================================================================
