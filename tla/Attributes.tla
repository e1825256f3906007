----------------------------- MODULE Attributes -----------------------------
(***************************************************************************)
(* The life of an attribute, from the static constructors that register    *)
(* its handlers to the code that is generated for it: clang attaches it to *)
(* a node; the walk asks whether there is a handler; then, for each node   *)
(* it is recorded with, its parameters are parsed, the frontend gives them *)
(* a type and the handler of the node takes them; and for a device all     *)
(* this again in the launcher pass.                                        *)
(***************************************************************************)
EXTENDS HandlerMap, AttrParser, AttrFrontend, DimAccess, SequencesExt

CONSTANTS
    Written,    \* for each attribute, the parameters that may be written
    Subjects,   \* what it may be written for: kind and type of a node
    Accesses,   \* the arguments of an access to a variable with @dim
    Orders      \* and the arguments of the variable's @dimOrder

\* Only handlers of this program are registered; clang passes on attributes of
\* OKL only; indices are expressions; @dimOrder counts from zero.
ASSUME AttributesAssumption ==
    /\ \A slice \in Slices : slice \subseteq Registrations
    /\ DOMAIN Written \subseteq OklAttrs
    /\ \A args \in Accesses : args \in Seq(Operand)
    /\ \A order \in Orders : order \in Seq(Nat)

HostBackends == {"SERIAL", "OPENMP"}
Backends     == HostBackends \cup {"CUDA", "HIP", "DPCPP"}

VARIABLES
    attr,       \* the attribute
    written,    \* its parameters, as they are written
    subject,    \* what it is written for
    uses,       \* the expressions that use what it declares
    backend,    \* the backend of the pass
    phase,      \* "start", "clang", "walk", "parse", "handle", "done"
    nodes,      \* the nodes that are still to be handled in this pass
    params,     \* what the frontend has returned
    access,     \* what has become of an access to a variable with @dim
    outcome     \* why it ended, or "none"

lifeVars == <<attr, written, subject, uses, backend, phase, nodes, params, access, outcome>>
attrVars == <<mapVars, parserVars, lifeVars>>

NoSubject == [kind |-> Nil, type |-> Nil]
NoWritten == [args |-> <<>>, kwargs |-> <<>>, cut |-> 0]
NoParam   == [type |-> "none"]
NoAccess  == [args |-> <<>>, order |-> <<>>, result |-> <<"none">>]

AttrInit ==
    /\ MapInit /\ ParserIdle
    /\ attr = Nil /\ written = NoWritten /\ subject = NoSubject /\ uses = <<>> /\ backend = Nil
    /\ phase = "start" /\ nodes = <<>> /\ params = NoParam /\ access = NoAccess /\ outcome = "none"

RegisterHandler == Register /\ UNCHANGED <<parserVars, lifeVars>>

-----------------------------------------------------------------------------
(* The text of the parameters, and what the parser should make of it.  An  *)
(* argument is an expression or an attribute with arguments of its own; of *)
(* a text that breaks off, `cut` tokens are missing.                       *)

Expr(tokens)       == [name |-> Nil, tokens |-> tokens, args |-> <<>>]
Nested(name, args) == [name |-> name, tokens |-> <<>>, args |-> args]

Joined(texts) ==
    FlattenSeq([i \in 1..2 * Len(texts) - 1 |-> IF i % 2 = 1 THEN texts[(i + 1) \div 2] ELSE <<",">>])

List(texts) == IF texts = <<>> THEN <<>> ELSE <<"(">> \o Joined(texts) \o <<")">>

ArgText(a) == IF a.name = Nil THEN a.tokens ELSE <<"@", a.name>> \o List(a.args)

TextOf(w) ==
    LET text == List([i \in DOMAIN w.args |-> ArgText(w.args[i])]
                        \o [i \in DOMAIN w.kwargs |->
                               <<w.kwargs[i].key, "=">> \o ArgText(w.kwargs[i].value)])
    IN  SubSeq(text, 1, Len(text) - w.cut)

ArgOf(a) ==
    IF a.name = Nil THEN Param(a.tokens)
    ELSE AttrParam(<<>>, [name |-> a.name, args |-> [i \in DOMAIN a.args |-> Param(a.args[i])],
                          kwargs |-> <<>>])

MeaningOf(name, w) ==
    [name   |-> name,
     args   |-> [i \in DOMAIN w.args |-> ArgOf(w.args[i])],
     kwargs |-> [k \in {w.kwargs[i].key : i \in DOMAIN w.kwargs} |->
                    ArgOf(w.kwargs[Max({i \in DOMAIN w.kwargs : w.kwargs[i].key = k})].value)]]

\* As many parentheses and brackets are closed as opened.
IsClosed(s) == Count("(", ")", s) = 0 /\ Count("[", "]", s) = 0

\* What a text can be read back from: commas and parentheses that close belong
\* to what is open, a name at the beginning is not assigned to, and no
\* attribute stands in the middle.
IsExpression(s) ==
    /\ s \in Seq(STRING) /\ s # <<>> /\ s[1] # ")" /\ IsClosed(s)
    /\ \A i \in 1..Len(s) - 1 :
          /\ s[i + 1] \in {",", ")"} => ~IsClosed(SubSeq(s, 1, i))
          /\ s[i] = "@" => TokenKind(s[i + 1]) # "identifier"
    /\ Len(s) > 1 /\ TokenKind(s[1]) = "identifier" => s[2] # "="

IsSequence(s) == s \in Seq(Range(s))

IsName(s) == s \in STRING \ {NoKey} /\ TokenKind(s) = "identifier"

IsArgument(a) ==
    IF a.name = Nil THEN IsExpression(a.tokens)
    ELSE IsName(a.name) /\ IsSequence(a.args) /\ \A i \in DOMAIN a.args : IsExpression(a.args[i])

IsList(w) ==
    /\ IsSequence(w.args) /\ \A i \in DOMAIN w.args : IsArgument(w.args[i])
    /\ IsSequence(w.kwargs)
    /\ \A i \in DOMAIN w.kwargs : IsName(w.kwargs[i].key) /\ IsArgument(w.kwargs[i].value)

\* Before it breaks off, the text is a list of arguments.
ASSUME WrittenAssumption == \A name \in DOMAIN Written : \A w \in Written[name] : IsList(w)

-----------------------------------------------------------------------------
(* clang and the walk of the AST.                                          *)

\* What is declared with one of these has the attribute in its type, and so
\* have the expressions that name it.  RecoveryExpr and CallExpr are what
\* clang makes of an access m(i, j).
UsesOf(name, s) ==
    IF name \in TypeAttrs /\ s.kind \in VarDecls \cup {"TypedefDecl"}
    THEN {<<"DeclRefExpr">>, <<"DeclRefExpr", "RecoveryExpr">>, <<"DeclRefExpr", "CallExpr">>}
    ELSE {<<>>}

Write ==
    /\ pending = {} /\ phase = "start"
    /\ attr' \in {name \in DOMAIN Written : {h \in Registrations : h.attr = name} \subseteq registered}
    /\ written' \in Written[attr']
    /\ subject' \in Subjects
    /\ uses' \in UsesOf(attr', subject')
    /\ backend' \in Backends
    /\ phase' = "clang"
    /\ UNCHANGED <<mapVars, parserVars, nodes, params, access, outcome>>

End(reason) == phase' = "done" /\ outcome' = reason

Attach ==
    /\ phase = "clang"
    /\ \E answer \in AppertainsTo(attr, subject) :
          IF answer = "attached" THEN phase' = "walk" /\ UNCHANGED outcome ELSE End(answer)
    /\ UNCHANGED <<mapVars, parserVars, attr, written, subject, uses, backend, nodes, params, access>>

\* getNodeAttrs: checkAttrs for what the attribute is attached to, no question
\* asked for what has it by way of its type.
CheckAttrs ==
    /\ phase = "walk"
    /\ IF IsHandled(backend, attr, subject.kind)
       THEN phase' = "parse" /\ nodes' = <<subject.kind>> \o uses /\ UNCHANGED outcome
       ELSE End("no handler") /\ UNCHANGED nodes
    /\ UNCHANGED <<mapVars, parserVars, attr, written, subject, uses, backend, params, access>>

-----------------------------------------------------------------------------
(* applyTranspilationToAttrNode: the parser, the frontend, the handler.    *)

BeginParsing ==
    /\ phase = "parse" /\ mode = "idle"
    /\ StartParsing(TextOf(written), attr)
    /\ UNCHANGED <<mapVars, lifeVars>>

Parse == phase = "parse" /\ ParserStep /\ UNCHANGED <<mapVars, lifeVars>>

CheckParams ==
    /\ phase = "parse" /\ ParserDone
    /\ params' = ParamsOf(attr, Result)
    /\ IF params' = Bad THEN End("bad parameters") ELSE phase' = "handle" /\ UNCHANGED outcome
    /\ UNCHANGED <<mapVars, parserVars, attr, written, subject, uses, backend, nodes, access>>

Node == Head(nodes)

\* A handler takes parameters of one type, or none, or whatever there are.
Takes(h) == h.params \in {"no", "any", params.type}

\* A dimension is a number or a name, of which any value will do, or a sum.
NumberOrName(t) == IF t \in Numbers THEN NumberOf[t] ELSE 0

SizeOf(raw) ==
    IF Len(raw) = 1 THEN Value(NumberOrName(raw[1]))
    ELSE SumOf(NumberOrName(raw[1]), NumberOrName(raw[3]))

Sizes == [i \in DOMAIN params.dim |-> SizeOf(params.dim[i])]

\* A call without arguments is not recorded as a node with attributes.
IsAccess == attr = "dim" /\ Node \in {"RecoveryExpr", "CallExpr"}

HandleAccess ==
    IF IsAccess /\ access = NoAccess
    THEN \E args \in Accesses, order \in Orders :
            /\ Node = "CallExpr" => args # <<>>
            /\ access' = [args |-> args, order |-> order, result |-> DimIndex(args, Sizes, order)]
    ELSE UNCHANGED access

HandleNode ==
    /\ phase = "handle" /\ nodes # <<>>
    /\ IF ~IsHandled(backend, attr, Node) THEN End("no handle for node") /\ UNCHANGED <<nodes, access>>
       ELSE IF ~Takes(HandlerOf(backend, attr, Node)) THEN End("any cast fail") /\ UNCHANGED <<nodes, access>>
       ELSE /\ HandleAccess
            /\ IF access'.result = <<"rejected">> THEN End("bad access") /\ UNCHANGED nodes
               ELSE nodes' = Tail(nodes) /\ UNCHANGED <<phase, outcome>>
    /\ UNCHANGED <<mapVars, parserVars, attr, written, subject, uses, backend, params>>

\* The launcher pass, over the same nodes.
LauncherPass ==
    /\ phase = "handle" /\ nodes = <<>> /\ backend \notin HostBackends \cup {"LAUNCHER"}
    /\ backend' = "LAUNCHER"
    /\ nodes' = <<subject.kind>> \o uses
    /\ UNCHANGED <<mapVars, parserVars, attr, written, subject, uses, phase, params, access, outcome>>

Accept ==
    /\ phase = "handle" /\ nodes = <<>> /\ backend \in HostBackends \cup {"LAUNCHER"}
    /\ End("accepted")
    /\ UNCHANGED <<mapVars, parserVars, attr, written, subject, uses, backend, nodes, params, access>>

AttrNext ==
    \/ RegisterHandler \/ Write \/ Attach \/ CheckAttrs \/ BeginParsing \/ Parse \/ CheckParams
    \/ HandleNode \/ LauncherPass \/ Accept

AttrSpec == AttrInit /\ [][AttrNext]_attrVars

-----------------------------------------------------------------------------
(* What has to hold.                                                       *)

\* The parser takes the text apart as it was written, whatever commas and
\* parentheses, nested attributes and keywords are in it, and stays within
\* its tokens; if only the text does not break off.
ParsedAsWritten ==
    written.cut = 0 =>
        /\ mode # "undefined"
        /\ ParserDone => at = Len(toks) + 1 /\ Result = MeaningOf(attr, written)

\* No handler is given parameters that it cannot take, in whatever backend,
\* by frontends and handlers that meet only in std::any.
ParametersFit == outcome # "any cast fail"

\* The nodes to which an attribute may be attached, or which use it, and for
\* which a backend has no handler all the same.
Gaps ==
    {[backend |-> "DPCPP", attr |-> "shared", kind |-> k] :
        k \in {"TypedefDecl", "ParmVarDecl", "CXXRecordDecl"}}
    \cup {[backend |-> b, attr |-> "exclusive", kind |-> k] :
            b \in HostBackends,
            k \in {"TypedefDecl", "ParmVarDecl", "CXXRecordDecl", "RecoveryExpr", "CallExpr"}}
    \cup {[backend |-> b, attr |-> "kernel", kind |-> "CXXMethodDecl"] : b \in Backends}

\* What the frontend lets pass the backend has a handler for, at every node
\* that has the attribute, but for the gaps.
AttachedIsHandled ==
    outcome \in {"no handler", "no handle for node"} /\ backend # "LAUNCHER" =>
        LET kind == IF outcome = "no handler" THEN subject.kind ELSE Node
        IN  [backend |-> backend, attr |-> attr, kind |-> kind] \in Gaps

\* The launcher pass gets through with what the device pass has accepted: a
\* failure there would leave an empty launcher and no error.
LauncherFollowsDevice == phase = "done" /\ backend = "LAUNCHER" => outcome = "accepted"

\* The access, with the arguments and dimensions as operands of their own.
IsOffset ==
    access.result[1] = "index" =>
        access.result[2] = Offset(access.args, Sizes, OrderOf(access.order, Sizes))

\* An index of @dim is the offset of the element, in the order of @dimOrder,
\* if the arguments are sums or tighter and the dimensions are no sums.
IndexIsOffset ==
    /\ \A i \in DOMAIN access.args : access.args[i].op # "choice"
    /\ access # NoAccess => \A i \in DOMAIN Sizes : Sizes[i].op = "value"
    => IsOffset

\* "Value can be indexed with comma-separated expressions in parenthesis":
\* with any.
ExpressionsIndex == IsOffset
=============================================================================
