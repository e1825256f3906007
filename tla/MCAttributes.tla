---------------------------- MODULE MCAttributes ----------------------------
(***************************************************************************)
(* Every attribute, written with good and with bad parameters, for every   *)
(* kind of node, in every backend.                                         *)
(***************************************************************************)
EXTENDS Attributes

\* The handlers of one attribute are registered in any order; with those of
\* @tile come the parsers of the attributes that may stand among its
\* parameters.  The implicit handlers go by backend.
SliceOf(name) ==
    {h \in Registrations : h.attr = name}
        \cup (IF name = "tile" THEN {Parser("outer"), Parser("inner")} ELSE {})

MCSlices ==
    {SliceOf(name) : name \in OklAttrs}
        \cup {{h \in Registrations : h.t \in {"IMPLICIT", "SEMA"} /\ h.attr = "" /\ h.backend = b} :
                b \in Backends \cup {"LAUNCHER", Nil}}

W(args, kwargs) == [args |-> args, kwargs |-> kwargs, cut |-> 0]
Kw(key, tokens) == [key |-> key, value |-> Expr(tokens)]

One == Expr(<<"1">>)
Two == Expr(<<"2">>)
Neg == Expr(<<"-", "1">>)
Call == Expr(<<"f", "(", "1", ",", "(", "2", ")", ")">>)
Item == Expr(<<"a", "[", "1", ",", "n", "]">>)

\* None at all, one that is none of the attribute's own, and a few.
Simple == {W(<<>>, <<>>), W(<<One>>, <<>>), W(<<>>, <<Kw("check", <<"true">>)>>)}

Numbers1 == Simple \cup {W(<<Two, Neg>>, <<>>), W(<<Two, One, Two>>, <<>>), W(<<Expr(<<"3">>)>>, <<>>),
                         W(<<Call>>, <<>>), W(<<Neg>>, <<>>), W(<<One, One, One, One>>, <<>>)}

LoopArgs == {Nested("inner", <<>>), Nested("inner", <<<<"0">>>>), Nested("outer", <<<<"3">>>>),
             Nested("outer", <<<<"f", "(", "1", ",", "2", ")">>>>), Nested("barrier", <<>>), Item}

Checks == {<<>>, <<Kw("check", <<"false">>)>>, <<Kw("check", <<"n">>)>>, <<Kw("size", <<"1">>)>>,
           <<Kw("check", <<"n">>), Kw("check", <<"true">>)>>}

Tiles ==
    {W(<<first>>, kw) : first \in {One, Call, Item}, kw \in Checks}
        \cup {W(<<first, second>>, kw) : first \in {One, Call}, second \in LoopArgs, kw \in Checks}
        \cup {W(<<One, second, third>>, <<>>) : second, third \in LoopArgs}
        \cup {W(<<One, One, One, One>>, <<>>), W(<<>>, <<Kw("check", <<"true">>)>>), W(<<>>, <<>>)}
        \cup {[W(<<One>>, <<Kw("check", <<"true">>)>>) EXCEPT !.cut = cut] : cut \in 1..3}
        \cup {[W(<<One, Nested("inner", <<>>)>>, <<>>) EXCEPT !.cut = 1]}

MCWritten ==
    [name \in OklAttrs |->
        CASE name = "tile" -> Tiles
          [] name \in {"outer", "inner", "max_inner_dims", "simd_length", "dimOrder"} -> Numbers1
          [] name = "barrier" -> Simple \cup {W(<<Expr(<<"'warp'">>)>>, <<>>), W(<<Expr(<<"'row'">>)>>, <<>>)}
          [] name = "dim" -> {W(<<>>, <<>>), W(<<Two>>, <<>>), W(<<Two, Expr(<<"3">>)>>, <<>>),
                              W(<<Expr(<<"3">>), Expr(<<"2">>), Two>>, <<>>),
                              W(<<Expr(<<"1", "+", "2">>), Two>>, <<>>), W(<<Two>>, <<Kw("n", <<"1">>)>>)}
          [] OTHER -> Simple]

S(kind, type) == [kind |-> kind, type |-> type]

MCSubjects ==
    {S(k, "none") : k \in {"ForStmt", "NullStmt", "CompoundStmt", "BinaryOperator", "IfStmt"}}
        \cup {S(k, t) : k \in {"VarDecl", "ParmVarDecl", "FieldDecl", "TypedefDecl"}, t \in {"int", "pointer"}}
        \cup {S("VarDecl", "array"), S("CXXRecordDecl", "record")}
        \cup {S(k, t) : k \in {"FunctionDecl", "CXXMethodDecl"}, t \in {"void", "pointer"}}

Operands == {Value(0), Value(1), SumOf(1, 1), Choice(TRUE, 0, 1)}

MCAccesses == {<<>>, <<Value(1), Value(0), SumOf(1, 0)>>, <<Value(1), Choice(FALSE, 0, 1), Value(1)>>}
                \cup {<<x>> : x \in Operands} \cup {<<x, y>> : x, y \in Operands}

MCOrders == {NoOrder, <<0>>, <<1, 0>>, <<0, 2>>, <<2, 0, 1>>}
=============================================================================
