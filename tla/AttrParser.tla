----------------------------- MODULE AttrParser -----------------------------
(***************************************************************************)
(* AttrParamParser: from the tokens of an attribute's parameters to a list *)
(* of arguments and a map of keyword arguments, some of which are          *)
(* attributes with parameters of their own.                                *)
(***************************************************************************)
EXTENDS Integers, Sequences

Numbers     == {"0", "1", "2", "3"}
NumberOf    == [n \in Numbers |-> CHOOSE i \in 0..3 : n = <<"0", "1", "2", "3">>[i + 1]]
Strings     == {"'warp'", "'row'"}
Punctuation == {"(", ")", "[", "]", ",", "@", "=", "-", "+"}

\* As the lexer in raw mode sees them: true and false are identifiers, too.
TokenKind(t) ==
    IF t \in Numbers THEN "number" ELSE IF t \in Strings THEN "string"
    ELSE IF t \in Punctuation THEN t ELSE "identifier"

Front0(s) == SubSeq(s, 1, Len(s) - 1)
Top(s)    == s[Len(s)]

NoKey == "no key"

VARIABLES
    toks,   \* AttrParamParser::Toks
    at,     \* TokIt
    frames, \* the calls of parseOKLAttr and what each has put in its result
    arg,    \* argToks
    mode    \* where the topmost call is

parserVars == <<toks, at, frames, arg, mode>>

\* A call, and in "key" the name before the equals sign.
Frame(name) == [name |-> name, args |-> <<>>, kwargs |-> <<>>, key |-> NoKey]

ParserIdle ==
    /\ toks = <<>> /\ at = 1 /\ frames = <<>> /\ arg = <<>> /\ mode = "idle"

\* ParseOKLAttr.
StartParsing(text, name) ==
    /\ toks' = text /\ at' = 1 /\ frames' = <<Frame(name)>> /\ arg' = <<>> /\ mode' = "call"

AtEnd    == at > Len(toks)
Is(t)    == ~AtEnd /\ toks[at] = t
NextIs(t) == at < Len(toks) /\ toks[at + 1] = t
IsIdentifier(i) == i <= Len(toks) /\ TokenKind(toks[i]) = "identifier"

-----------------------------------------------------------------------------
(* parseOKLAttr(attrFullName).                                             *)

Return == mode' = "return" /\ UNCHANGED <<toks, frames, arg>>

\* There may be no list of parameters.
OpenList ==
    /\ mode = "call"
    /\ IF Is("(") THEN at' = at + 1 /\ mode' = "list" /\ UNCHANGED <<toks, frames, arg>>
       ELSE Return /\ UNCHANGED at

CloseList ==
    /\ mode = "list" /\ (AtEnd \/ Is(")"))
    /\ Return
    /\ at' = IF AtEnd THEN at ELSE at + 1

IsKeyword == IsIdentifier(at) /\ NextIs("=")

KeywordArg ==
    /\ mode = "list" /\ IsKeyword
    /\ frames' = [frames EXCEPT ![Len(frames)].key = toks[at]]
    /\ at' = at + 2
    /\ mode' = "value"
    /\ UNCHANGED <<toks, arg>>

RegularArg ==
    /\ mode = "list" /\ ~AtEnd /\ ~Is(")") /\ ~IsKeyword
    /\ mode' = "value"
    /\ UNCHANGED <<toks, at, frames, arg>>

-----------------------------------------------------------------------------
(* parseArg.                                                               *)

NoArg == mode = "value" /\ AtEnd /\ Return /\ UNCHANGED at

IsNested == Is("@") /\ IsIdentifier(at + 1)

NestedAttr ==
    /\ mode = "value" /\ IsNested
    /\ frames' = Append(frames, Frame(toks[at + 1]))
    /\ at' = at + 2
    /\ mode' = "call"
    /\ UNCHANGED <<toks, arg>>

\* BraceCounter: the counters are unsigned, and a parenthesis that closes
\* nothing leaves one that is not zero.
Count(open, close, s) ==
    Len(SelectSeq(s, LAMBDA t : t = open)) - Len(SelectSeq(s, LAMBDA t : t = close))

\* Mutant: brackets and parentheses are not counted.
NothingIsOpen(s) == TRUE

IsBalanced(s) == Count("(", ")", s) = 0 /\ Count("[", "]", s) = 0

\* The token after the argument is looked at whether there is one or not.
TakeArgToken ==
    /\ mode = "value" /\ ~AtEnd /\ ~IsNested
    /\ arg' = Append(arg, toks[at])
    /\ at' = at + 1
    /\ mode' = IF at = Len(toks) THEN "undefined"
               ELSE IF toks[at + 1] \in {",", ")"} /\ IsBalanced(arg') THEN "argument" ELSE "value"
    /\ UNCHANGED <<toks, frames>>

\* The kind of the tokens, a sign aside, or that they are an expression.
KindAfter(kind, t) ==
    IF kind \in {"-", "+"} /\ TokenKind(t) = "number" THEN "number"
    ELSE IF TokenKind(t) # kind THEN "expression" ELSE kind

ArgKind(s) ==
    LET kind[i \in 1..Len(s)] ==
            IF i = 1 THEN TokenKind(s[1])
            ELSE IF kind[i - 1] = "expression" THEN "expression" ELSE KindAfter(kind[i - 1], s[i])
    IN  kind[Len(s)]

Literal(s) ==
    CASE ArgKind(s) = "number" /\ Len(s) = 1 /\ TokenKind(s[1]) = "number" -> <<"int", NumberOf[s[1]]>>
      [] ArgKind(s) = "number" /\ Len(s) = 2 /\ s[1] = "+" /\ TokenKind(s[2]) = "number" ->
            <<"int", NumberOf[s[2]]>>
      [] ArgKind(s) = "number" /\ Len(s) = 2 /\ s[1] = "-" /\ TokenKind(s[2]) = "number" ->
            <<"int", -NumberOf[s[2]]>>
      [] ArgKind(s) = "string" -> <<"string", s>>
      [] ArgKind(s) = "identifier" /\ s[1] \in {"true", "false"} -> <<"bool", s[1] = "true">>
      [] OTHER -> <<"none">>

\* OKLAttrParam: the text and, if there is one, the value.
Param(s)          == [raw |-> s, data |-> Literal(s)]
AttrParam(s, f)   == [raw |-> s, data |-> <<"attr", f>>]
Parsed(f)         == [name |-> f.name, args |-> f.args, kwargs |-> f.kwargs]

\* The result goes to the arguments, or replaces the keyword argument of that
\* name.
Store(f, v) ==
    IF f.key = NoKey THEN [f EXCEPT !.args = Append(@, v)]
    ELSE [f EXCEPT !.kwargs = [k \in DOMAIN @ \cup {f.key} |-> IF k = f.key THEN v ELSE @[k]],
                   !.key = NoKey]

FinishArg ==
    /\ mode = "argument"
    /\ frames' = [frames EXCEPT ![Len(frames)] = Store(@, Param(arg))]
    /\ arg' = <<>>
    /\ mode' = "stored"
    /\ UNCHANGED <<toks, at>>

\* The text of a nested attribute is not used by anyone and left out.
ReturnNested ==
    /\ mode = "return" /\ Len(frames) > 1
    /\ LET callers == Front0(frames)
       IN  frames' = [callers EXCEPT ![Len(callers)] = Store(@, AttrParam(<<>>, Parsed(Top(frames))))]
    /\ mode' = IF AtEnd THEN "undefined" ELSE "stored"
    /\ UNCHANGED <<toks, at, arg>>

\* After an argument.
Comma ==
    /\ mode = "stored" /\ Is(",")
    /\ at' = at + 1
    /\ mode' = "list"
    /\ UNCHANGED <<toks, frames, arg>>

NoComma ==
    /\ mode = "stored" /\ ~Is(",")
    /\ IF Is(")") THEN mode' = "list" /\ UNCHANGED <<toks, frames, arg>> ELSE Return
    /\ UNCHANGED at

ParserStep ==
    \/ OpenList \/ CloseList \/ KeywordArg \/ RegularArg
    \/ NoArg \/ NestedAttr \/ TakeArgToken \/ FinishArg \/ ReturnNested \/ Comma \/ NoComma

ParserDone == mode = "return" /\ Len(frames) = 1
Result     == Parsed(frames[1])
=============================================================================
