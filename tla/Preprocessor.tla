---------------------------- MODULE Preprocessor ----------------------------
(***************************************************************************)
(* The preprocessor of clang, as far as the stages in front of the         *)
(* normalizer depend on it: object-like macros and macros of one argument, *)
(* conditional directives, and the tokens it hands over.                   *)
(*                                                                         *)
(* A directive is one token for "#" and its keyword.  The parameter of a   *)
(* macro is "p"; in a definition its list is the one token "(p)".          *)
(***************************************************************************)
EXTENDS Integers, SequencesExt

Newline      == "nl"
Continuation == "\\nl"     \* a newline within a directive
Comment      == "//"
BlockComment == "/*nl*/"   \* a comment that ends on the next line

LineBreaks == {Newline, Continuation, BlockComment}
Blank      == {Comment, BlockComment, Continuation}

Tokens(cells) == SelectSeq(cells, LAMBDA c : c \notin Blank)

LinesIn(cells) == Len(SelectSeq(cells, LAMBDA c : c \in LineBreaks))

-----------------------------------------------------------------------------
(* Macros: functions from names to definitions.                            *)

NoMacros == [n \in {} |-> <<>>]

With(macros, name, definition) ==
    [n \in DOMAIN macros \cup {name} |-> IF n = name THEN definition ELSE macros[n]]

Without(macros, name) == [n \in DOMAIN macros \ {name} |-> macros[n]]

IsUse(macros, cells, i) ==
    /\ cells[i] \in DOMAIN macros
    /\ macros[cells[i]].fun => i + 3 <= Len(cells) /\ cells[i + 1] = "(" /\ cells[i + 3] = ")"

UseSize(macros, cells, i) == IF macros[cells[i]].fun THEN 4 ELSE 1

RECURSIVE Expand(_, _)

\* What one use becomes.  In its own expansion a macro is a plain name.
Expansion(macros, cells, i) ==
    LET definition == macros[cells[i]]
        inside     == Without(macros, cells[i])
        body       == IF definition.fun
                      THEN FlattenSeq([j \in DOMAIN definition.body |->
                               IF definition.body[j] = "p" THEN Expand(macros, <<cells[i + 2]>>)
                               ELSE <<definition.body[j]>>])
                      ELSE definition.body
    IN  Expand(inside, body)

Expand(macros, cells) ==
    IF cells = <<>> THEN <<>>
    ELSE IF IsUse(macros, cells, 1)
         THEN Expansion(macros, cells, 1)
                  \o Expand(macros, SubSeq(cells, UseSize(macros, cells, 1) + 1, Len(cells)))
         ELSE <<cells[1]>> \o Expand(macros, Tail(cells))

RECURSIVE Uses(_, _, _)

\* The places of the uses in a line that are not the argument of another.
Uses(macros, cells, i) ==
    IF i > Len(cells) THEN <<>>
    ELSE IF IsUse(macros, cells, i)
         THEN <<i>> \o Uses(macros, cells, i + UseSize(macros, cells, i))
         ELSE Uses(macros, cells, i + 1)

-----------------------------------------------------------------------------
(* Lines, one after the other.                                             *)

\* Macros, the conditionals that are open, and the tokens with their lines.
\* A conditional is on while its tokens count and done once one of its
\* branches was.
Start(macros) == [macros |-> macros, conds |-> <<>>, out |-> <<>>, line |-> 1]

Active(pp) == \A i \in DOMAIN pp.conds : pp.conds[i].on

Keyword(cells) == IF Tokens(cells) = <<>> THEN "" ELSE Tokens(cells)[1]

\* The operands of a directive.
Operands(cells) == IF Tokens(cells) = <<>> THEN <<>> ELSE Tail(Tokens(cells))

\* Of the conditions of #if: a name that is no macro counts as zero.
IsTrue(macros, condition) == Expand(macros, condition) = <<"1">>

Condition(pp, cells) ==
    CASE Keyword(cells) \in {"#if", "#elif"}       -> IsTrue(pp.macros, Operands(cells))
      [] Keyword(cells) \in {"#ifdef", "#elifdef"} -> Operands(cells)[1] \in DOMAIN pp.macros
      [] Keyword(cells) = "#ifndef"                -> Operands(cells)[1] \notin DOMAIN pp.macros

Opens  == {"#if", "#ifdef", "#ifndef"}
Elifs  == {"#elif", "#elifdef"}

Innermost(pp) == Last(pp.conds)

\* The condition of an #elif is looked at.
IsReached(pp) ==
    /\ pp.conds # <<>>
    /\ ~Innermost(pp).done
    /\ \A i \in 1..(Len(pp.conds) - 1) : pp.conds[i].on

\* The condition of a source that compiles, if it is looked at, is a value.
HasValue(pp, cells) ==
    LET isAsked == \/ Keyword(cells) = "#if" /\ Active(pp)
                   \/ Keyword(cells) = "#elif" /\ IsReached(pp)
    IN  isAsked => Len(Expand(pp.macros, Operands(cells))) = 1

Definition(cells) ==
    LET operands == Operands(cells)
        fun      == Len(operands) > 1 /\ operands[2] = "(p)"
    IN  [fun |-> fun, body |-> SubSeq(operands, IF fun THEN 3 ELSE 2, Len(operands))]

NextConds(pp, cells) ==
    LET outer == Front(pp.conds)
    IN  CASE Keyword(cells) \in Opens ->
               LET on == Active(pp) /\ Condition(pp, cells)
               IN  Append(pp.conds, [on |-> on, done |-> ~Active(pp) \/ on])
          [] Keyword(cells) \in Elifs ->
               LET on == IsReached(pp) /\ Condition(pp, cells)
               IN  Append(outer, [on |-> on, done |-> Innermost(pp).done \/ on])
          [] Keyword(cells) = "#else"  -> Append(outer, [on |-> ~Innermost(pp).done, done |-> TRUE])
          [] Keyword(cells) = "#endif" -> outer
          [] OTHER -> pp.conds

NextMacros(pp, cells) ==
    CASE ~Active(pp) -> pp.macros
      [] Active(pp) /\ Keyword(cells) = "#define" ->
             With(pp.macros, Operands(cells)[1], Definition(cells))
      [] Active(pp) /\ Keyword(cells) = "#undef" -> Without(pp.macros, Operands(cells)[1])
      [] OTHER -> pp.macros

Directives == Opens \cup Elifs \cup {"#else", "#endif", "#define", "#undef"}

IsText(cells) == Keyword(cells) \notin Directives

NextLine(pp, cells) ==
    LET text == IF IsText(cells) /\ Active(pp) THEN Expand(pp.macros, Tokens(cells)) ELSE <<>>
    IN  [macros |-> NextMacros(pp, cells),
         conds  |-> NextConds(pp, cells),
         out    |-> pp.out \o [j \in DOMAIN text |-> [token |-> text[j], line |-> pp.line]],
         line   |-> pp.line + LinesIn(cells) + 1]

\* Nobody closes what is not open.
IsReadable(pp, cells) ==
    Keyword(cells) \in Elifs \cup {"#else", "#endif"} => pp.conds # <<>>

RECURSIVE Lines(_)

Lines(cells) ==
    LET ends == {i \in DOMAIN cells : cells[i] = Newline}
    IN  IF ends = {} THEN IF cells = <<>> THEN <<>> ELSE <<cells>>
        ELSE LET end == CHOOSE i \in ends : \A j \in ends : i <= j
             IN  <<SubSeq(cells, 1, end - 1)>> \o Lines(SubSeq(cells, end + 1, Len(cells)))

Preprocessed(cells, macros) ==
    FoldLeft(LAMBDA pp, line : IF IsReadable(pp, line) THEN NextLine(pp, line) ELSE pp,
             Start(macros), Lines(cells))

TokensOf(pp) == [j \in DOMAIN pp.out |-> pp.out[j].token]
=============================================================================
