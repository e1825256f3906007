---------------------------- MODULE AttrFrontend ----------------------------
(***************************************************************************)
(* The frontends of the attributes: to what an attribute may be attached   *)
(* (diagAppertainsToStmt, diagAppertainsToDecl), and what its parser makes *)
(* of the parameters: a value of a type of its own, or an error.           *)
(***************************************************************************)
EXTENDS Integers, FiniteSets, Sequences

VarDecls  == {"VarDecl", "ParmVarDecl"}
TypeDecls == {"TypedefDecl", "CXXRecordDecl"}
Functions == {"FunctionDecl", "CXXMethodDecl"}

\* Whether clang attaches the attribute.  A subject is the kind of a node and
\* its type, or what a function returns.
Attached == {"attached"}
Rejected == {"error"}
If(condition) == IF condition THEN Attached ELSE Rejected

TileOn(s)         == If(s.kind = "ForStmt")
OuterOn(s)        == If(s.kind = "ForStmt")
InnerOn(s)        == If(s.kind = "ForStmt")
NoBarrierOn(s)    == If(s.kind = "ForStmt")
MaxInnerDimsOn(s) == If(s.kind = "ForStmt")
SimdLengthOn(s)   == If(s.kind = "ForStmt")

\* Mutant: a barrier before any statement.
BarrierBeforeStmt(s) == If(s.kind \in {"NullStmt", "ForStmt", "CompoundStmt"})

BarrierOn(s)      == If(s.kind = "NullStmt")
AtomicOn(s)       == If(s.kind \in {"BinaryOperator", "CompoundStmt"})
KernelOn(s)       == If(s.kind \in Functions /\ s.type = "void")

\* The kinds that have no case of their own are cast to VarDecl, which a
\* class and a method are not: undefined behaviour.
RestrictOn(s) ==
    IF s.kind \in {"CXXRecordDecl", "CXXMethodDecl"} THEN Attached \cup Rejected
    ELSE If(/\ s.kind \in VarDecls \cup TypeDecls \cup {"FieldDecl", "FunctionDecl"}
            /\ s.type \in {"pointer", "array"})

\* A variable that is no array is attached all the same, with an error.
SharedOn(s)    == If(s.kind \in VarDecls \cup TypeDecls)
ExclusiveOn(s) == If(s.kind \in VarDecls \cup TypeDecls)
DimOn(s)       == If(s.kind \in VarDecls \cup TypeDecls)

\* A declaration of another kind gets a warning only, and no attribute.
DimOrderOn(s) ==
    IF s.kind \in VarDecls \cup {"TypedefDecl"} THEN Attached
    ELSE IF s.kind \in TypeDecls \cup Functions \cup {"FieldDecl"} THEN {"warning"}
    ELSE Rejected

AppertainsTo(attr, s) ==
    CASE attr = "tile"           -> TileOn(s)
      [] attr = "outer"          -> OuterOn(s)
      [] attr = "inner"          -> InnerOn(s)
      [] attr = "nobarrier"      -> NoBarrierOn(s)
      [] attr = "max_inner_dims" -> MaxInnerDimsOn(s)
      [] attr = "simd_length"    -> SimdLengthOn(s)
      [] attr = "barrier"        -> BarrierOn(s)
      [] attr = "atomic"         -> AtomicOn(s)
      [] attr = "kernel"         -> KernelOn(s)
      [] attr = "restrict"       -> RestrictOn(s)
      [] attr = "shared"         -> SharedOn(s)
      [] attr = "exclusive"      -> ExclusiveOn(s)
      [] attr = "dim"            -> DimOn(s)
      [] attr = "dimOrder"       -> DimOrderOn(s)

-----------------------------------------------------------------------------
(* The parsers.  p is an OKLParsedAttr.                                    *)

Bad        == [type |-> "error"]
NoKwargs(p) == DOMAIN p.kwargs = {}
NoParams(p) == IF p.args = <<>> /\ NoKwargs(p) THEN [type |-> "EmptyParams"] ELSE Bad

\* OKLAttrParam::get<int>, and the same for an argument below Bound.
IsInt(a)        == a.data[1] = "int"
IsIndex(a)      == IsInt(a) /\ a.data[2] >= 0
IsAxis(a)       == IsInt(a) /\ a.data[2] \in 0..2
IsLoopAttr(a)   == a.data[1] = "attr"
IsBool(a)       == a.data[1] = "bool"

AutoAxis == 3

Loop(type, axis) == [type |-> "AttributedLoop", loop |-> type, axis |-> axis]

\* An argument that is no integer counts as none.
LoopParams(type, p) ==
    IF ~NoKwargs(p) \/ Len(p.args) > 1 THEN Bad
    ELSE IF p.args = <<>> \/ ~IsInt(p.args[1]) THEN Loop(type, AutoAxis)
    ELSE IF IsAxis(p.args[1]) THEN Loop(type, p.args[1].data[2]) ELSE Bad

OuterParams(p) == LoopParams("outer", p)
InnerParams(p) == LoopParams("inner", p)

\* The frontend of another attribute returns parameters of another type, and
\* a name that nobody has registered is EmptyParams.
NestedLoop(a) ==
    IF ~IsLoopAttr(a) THEN Bad
    ELSE IF a.data[2].name = "outer" THEN OuterParams(a.data[2])
    ELSE IF a.data[2].name = "inner" THEN InnerParams(a.data[2]) ELSE Bad

LoopAt(p, i) == IF i > Len(p.args) THEN Loop("regular", AutoAxis) ELSE NestedLoop(p.args[i])

TileParams(p) ==
    IF \/ Len(p.args) \notin 1..3
       \/ \E i \in 2..3 : LoopAt(p, i) = Bad
       \/ \E k \in DOMAIN p.kwargs : k # "check" \/ ~IsBool(p.kwargs[k])
    THEN Bad
    ELSE [type |-> "TileParams", size |-> p.args[1].raw, first |-> LoopAt(p, 2), second |-> LoopAt(p, 3),
          check |-> IF NoKwargs(p) THEN TRUE ELSE p.kwargs["check"].data[2]]

NoBarrierParams(p) == NoParams(p)
AtomicParams(p)    == NoParams(p)
KernelParams(p)    == NoParams(p)
RestrictParams(p)  == NoParams(p)
SharedParams(p)    == NoParams(p)
ExclusiveParams(p) == NoParams(p)

MaxInnerDimsParams(p) ==
    IF ~NoKwargs(p) \/ Len(p.args) \notin 1..3 \/ \E i \in DOMAIN p.args : ~IsIndex(p.args[i]) THEN Bad
    ELSE [type |-> "AttributedLoopInnerSize", size |-> [i \in DOMAIN p.args |-> p.args[i].data[2]]]

SimdLengthParams(p) ==
    IF ~NoKwargs(p) \/ Len(p.args) # 1 \/ \E i \in DOMAIN p.args : ~IsIndex(p.args[i]) THEN Bad
    ELSE [type |-> "AttributedLoopSimdLength", size |-> p.args[1].data[2]]

BarrierParams(p) ==
    IF ~NoKwargs(p) \/ Len(p.args) > 1 \/ \E i \in DOMAIN p.args : p.args[i].data # <<"string", <<"'warp'">>>>
    THEN Bad
    ELSE [type |-> "AttributedBarrier", warp |-> p.args # <<>>]

DimParams(p) ==
    IF ~NoKwargs(p) \/ p.args = <<>> THEN Bad
    ELSE [type |-> "AttributedDim", dim |-> [i \in DOMAIN p.args |-> p.args[i].raw]]

DimOrderParams(p) ==
    IF \/ ~NoKwargs(p) \/ p.args = <<>>
       \/ \E i \in DOMAIN p.args : ~IsIndex(p.args[i])
       \/ \E i, j \in DOMAIN p.args : i < j /\ p.args[i].data = p.args[j].data
    THEN Bad
    ELSE [type |-> "AttributedDimOrder", idx |-> [i \in DOMAIN p.args |-> p.args[i].data[2]]]

\* Mutant: a frontend is registered for the wrong attribute.
SwappedParams(attr, p) ==
    IF attr = "simd_length" THEN MaxInnerDimsParams(p)
    ELSE IF attr = "max_inner_dims" THEN SimdLengthParams(p) ELSE NoParams(p)

\* HandlerManager::parseAttr.
ParamsOf(attr, p) ==
    CASE attr = "tile"           -> TileParams(p)
      [] attr = "outer"          -> OuterParams(p)
      [] attr = "inner"          -> InnerParams(p)
      [] attr = "nobarrier"      -> NoBarrierParams(p)
      [] attr = "max_inner_dims" -> MaxInnerDimsParams(p)
      [] attr = "simd_length"    -> SimdLengthParams(p)
      [] attr = "barrier"        -> BarrierParams(p)
      [] attr = "atomic"         -> AtomicParams(p)
      [] attr = "kernel"         -> KernelParams(p)
      [] attr = "restrict"       -> RestrictParams(p)
      [] attr = "shared"         -> SharedParams(p)
      [] attr = "exclusive"      -> ExclusiveParams(p)
      [] attr = "dim"            -> DimParams(p)
      [] attr = "dimOrder"       -> DimOrderParams(p)
=============================================================================
