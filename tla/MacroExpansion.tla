--------------------------- MODULE MacroExpansion ---------------------------
(***************************************************************************)
(* The two stages in front of the normalizer.  The first writes the        *)
(* directives that stand in @directive attributes as lines; the second     *)
(* reads the source with the preprocessor of clang, whose callbacks note   *)
(* what there is, and then edits the text so that it needs no macros: uses *)
(* are replaced by what they become, definitions removed, and conditions   *)
(* replaced by their values.                                               *)
(***************************************************************************)
EXTENDS Preprocessor, TextRewriter, FiniteSets

CONSTANTS
    SourceLines,  \* the lines that sources are made of
    CommandLines, \* the macros that -D may define
    HeaderGuards, \* the names with the suffix of a header guard
    MaxLines      \* the lines of a source

\* The definitions and the texts among the lines.
Definitions == {l \in SourceLines : Keyword(l) = "#define"}
EmptyNames  == {Operands(d)[1] : d \in {d \in Definitions : Definition(d).body = <<>>}}

\* An empty macro stands in lines and conditions, not in the body or in an
\* argument of another one, and a comment only at the end of a line.
SourceLinesAssumption ==
    /\ \A l \in SourceLines : \A i \in DOMAIN l : l[i] \in {Comment, BlockComment} => i = Len(l)
    /\ \A d \in Definitions : ToSet(Definition(d).body) \cap EmptyNames = {}
    /\ \A l \in SourceLines : \A i \in DOMAIN l : l[i] = "(" => l[i + 1] \notin EmptyNames

\* A command line defines no macro in terms of itself.
CommandLinesAssumption ==
    \A macros \in CommandLines : \A n \in DOMAIN macros :
        /\ ~macros[n].fun
        /\ ToSet(macros[n].body) \cap DOMAIN macros = {}

ASSUME SourcesAssumption == SourceLinesAssumption /\ CommandLinesAssumption

VARIABLES
    style,      \* "lines" or "attributes": how directives are written
    commandLine,\* the macros of -D
    intended,   \* the preprocessor over the lines as they were meant
    source,     \* the text of the second stage
    read,       \* how many tokens of it the preprocessor has read
    pp,         \* the preprocessor
    noted,      \* what the callbacks have noted
    phase,      \* "reading", then the loops of preprocessMacros, "done"
    text        \* the rewriter

srcVars   == <<style, commandLine, intended, source>>
macroVars == <<style, commandLine, intended, source, read, pp, noted, phase, text>>

NothingNoted ==
    [uses |-> <<>>, definitions |-> <<>>, empties |-> <<>>, conditions |-> <<>>,
     defConditions |-> <<>>, comments |-> <<>>]

Init ==
    /\ style \in {"lines", "attributes"}
    /\ commandLine \in CommandLines
    /\ intended = Start(commandLine)
    /\ source = <<>>
    /\ read = 0
    /\ pp = Start(commandLine)
    /\ noted = NothingNoted
    /\ phase = "reading"
    /\ text = Unedited(<<>>)

-----------------------------------------------------------------------------
(* The first stage, piece by piece.                                        *)

\* replaceOklMacroAttribute: the directive gets a line of its own.  The look
\* to the left asks about two tokens of the attribute, which are always on one
\* line; the look to the right about the token behind it.
DirectiveLine(line, nextOnLine) ==
    <<Newline>> \o line \o (IF nextOnLine THEN <<Newline>> ELSE <<>>)

\* A piece of the source, with the end of its line unless another one follows
\* on the same line.
Written(line, nextOnLine) ==
    (IF style = "attributes" /\ ~IsText(line) THEN DirectiveLine(line, nextOnLine) ELSE line)
        \o (IF nextOnLine THEN <<>> ELSE <<Newline>>)

Unread == SubSeq(source, read + 1, Len(source))
HasLine == Newline \in ToSet(Unread)

Write(line, nextOnLine) ==
    /\ phase = "reading"
    /\ ~HasLine
    /\ intended.line + Len(intended.conds) <= MaxLines
    /\ IsReadable(intended, line) /\ HasValue(intended, line)
    /\ nextOnLine => style = "attributes" /\ Last(line) # Comment
    /\ source' = source \o Written(line, nextOnLine)
    /\ intended' = NextLine(intended, line)
    /\ UNCHANGED <<style, commandLine, read, pp, noted, phase, text>>

-----------------------------------------------------------------------------
(* The second stage: callbacks while the preprocessor reads a line.        *)

Line == Head(Lines(Unread))

\* Where the n-th token of the line is.
Places(cells) == SelectSeq([i \in DOMAIN cells |-> i], LAMBDA i : cells[i] \notin Blank)
Offset(n) == read + Places(Line)[n] - 1
LastOffset == Offset(Len(Tokens(Line)))

IsHeaderGuardEx(name) == name \in HeaderGuards

\* CommentDeleter: tokens that are skipped are not looked at.
LexedComments ==
    IF Active(pp) \/ IsReached(pp) \/ Active(NextLine(pp, Line))
    THEN LET at == SelectSeq([i \in DOMAIN Line |-> i],
                             LAMBDA i : Line[i] \in {Comment, BlockComment})
         IN  [j \in DOMAIN at |->
                 [at |-> read + at[j] - 1, line |-> pp.line + LinesIn(SubSeq(Line, 1, at[j] - 1)),
                  lines |-> LinesIn(<<Line[at[j]]>>)]]
    ELSE <<>>

\* The line is read; the callbacks add to what was noted.
Read(more) ==
    /\ read' = read + Len(Line) + 1
    /\ pp' = NextLine(pp, Line)
    /\ noted' = [more EXCEPT !.comments = @ \o LexedComments]
    /\ UNCHANGED <<style, commandLine, intended, source, phase, text>>

ReadKeyword(keyword) ==
    /\ phase = "reading"
    /\ HasLine
    /\ Keyword(Line) = keyword
    /\ IsReadable(pp, Line)

\* Mutant: what the source defines is not looked up.
IsPredefined == Operands(Line)[1] \in DOMAIN commandLine

\* The definition is in effect as long as nobody expands it: isEnabled.
IsEnabled == Operands(Line)[1] \in DOMAIN pp.macros

\* MacroExpands, for the uses that begin in the file: among the tokens from
\* the n-th on, and in an argument that the macro asks for.
EmptyUses(n) ==
    LET cells  == SubSeq(Tokens(Line), n, Len(Tokens(Line)))
        uses   == Uses(pp.macros, cells, 1)
        inArgs == SelectSeq([j \in DOMAIN uses |-> uses[j] + 2],
                            LAMBDA i : /\ pp.macros[cells[i - 2]].fun
                                       /\ "p" \in ToSet(pp.macros[cells[i - 2]].body)
                                       /\ IsUse(pp.macros, cells, i))
        empty  == SelectSeq(uses \o inArgs,
                            LAMBDA i : /\ pp.macros[cells[i]].body = <<>>
                                       /\ ~IsHeaderGuardEx(cells[i]))
    IN  [j \in DOMAIN empty |->
            [first |-> Offset(n + empty[j] - 1),
             last  |-> Offset(n + empty[j] + UseSize(pp.macros, cells, empty[j]) - 2)]]

\* MacroDefined.
ReadDefine ==
    /\ ReadKeyword("#define")
    /\ Active(pp)
    /\ IF IsHeaderGuardEx(Operands(Line)[1]) THEN Read(noted)
       ELSE Read([noted EXCEPT !.definitions = Append(@,
                    [first |-> Offset(1), last |-> LastOffset, line |-> pp.line,
                     lines |-> LinesIn(SubSeq(Line, Places(Line)[2], LastOffset - read + 1))])])

NotEvaluated == "not evaluated"

\* The condition is replaced from its first to its last token.
NotedCondition(value) ==
    [noted EXCEPT !.conditions = Append(@,
                     [first |-> Offset(2), last |-> LastOffset, line |-> pp.line, new |-> <<value>>]),
                  !.empties = @ \o (IF value = NotEvaluated THEN <<>> ELSE EmptyUses(2))]

Value(isTrue) == IF isTrue THEN "1" ELSE "0"

ReadIf ==
    /\ ReadKeyword("#if")
    /\ Active(pp)
    /\ Read(NotedCondition(Value(Condition(pp, Line))))

ReadElif ==
    /\ ReadKeyword("#elif")
    /\ \/ IsReached(pp) /\ Read(NotedCondition(Value(Condition(pp, Line))))
       \/ Active(pp) /\ Read(NotedCondition(NotEvaluated))

\* The whole directive is replaced.
NotedDirective(new) ==
    [noted EXCEPT !.defConditions = Append(@,
        [first |-> Offset(1), last |-> LastOffset, line |-> pp.line, new |-> new])]

ReadIfdef ==
    /\ ReadKeyword("#ifdef")
    /\ Active(pp)
    /\ IF IsHeaderGuardEx(Operands(Line)[1]) THEN Read(noted)
       ELSE Read(NotedDirective(<<"#if", Value(IsEnabled)>>))

ReadElifdef ==
    /\ ReadKeyword("#elifdef")
    /\ \/ IsReached(pp) /\ Read(NotedDirective(<<"#elif", Value(IsEnabled)>>))
       \/ Active(pp) /\ Read(NotedDirective(<<"#elif", Value(FALSE)>>))

\* Of a name that is no macro there is nothing to ask.
ReadIfndef ==
    /\ ReadKeyword("#ifndef")
    /\ Active(pp)
    /\ IF ~IsEnabled \/ IsHeaderGuardEx(Operands(Line)[1]) THEN Read(noted)
       ELSE Read(NotedDirective(<<"#if", Value(~IsEnabled)>>))

\* An #endif is replaced by itself, for the comment behind it.
ReadEndif ==
    /\ ReadKeyword("#endif")
    /\ Active([pp EXCEPT !.conds = Front(@)])
    /\ Read(NotedDirective(<<"#endif">>))

RECURSIVE EndsInToken(_, _)

\* The last token of the expansion is where the expansion ends: by it the use
\* is recognised.
EndsInToken(macros, name) ==
    LET body == macros[name].body
    IN  /\ body # <<>>
        /\ Last(body) \in DOMAIN macros \ {name} => EndsInToken(Without(macros, name), Last(body))

ReadText ==
    /\ phase = "reading"
    /\ HasLine
    /\ IsText(Line)
    /\ Active(pp)
    /\ LET cells == Tokens(Line)
           uses  == SelectSeq(Uses(pp.macros, cells, 1),
                              LAMBDA i : EndsInToken(pp.macros, cells[i]))
       IN  Read([noted EXCEPT
                   !.uses = @ \o [j \in DOMAIN uses |->
                                    [first |-> Offset(uses[j]),
                                     size  |-> UseSize(pp.macros, cells, uses[j]),
                                     new   |-> Expansion(pp.macros, cells, uses[j])]],
                   !.empties = @ \o EmptyUses(1)])

\* Lines that no callback takes anything from.
ReadOther ==
    /\ phase = "reading"
    /\ HasLine
    /\ IsReadable(pp, Line)
    /\ \/ Keyword(Line) \in {"#undef", "#else"}
       \/ /\ ~Active(pp)
          /\ ~(Keyword(Line) \in Elifs /\ IsReached(pp))
          /\ ~(Keyword(Line) = "#endif" /\ Active([pp EXCEPT !.conds = Front(@)]))
    /\ Read(noted)

\* The whole file is read.
EndOfFile ==
    /\ phase = "reading"
    /\ read = Len(source) /\ pp.conds = <<>> /\ intended.conds = <<>>
    /\ phase' = "inline"
    /\ text' = Unedited(source)
    /\ UNCHANGED <<style, commandLine, intended, source, read, pp, noted>>

-----------------------------------------------------------------------------
(* The edits.                                                              *)

\* removeCommentAfterDirective: an erased comment takes the next one out of
\* the loop.  After the last one the list begins again, and of the line, which
\* has one comment, nothing is left.
WithoutComments(edited, line) ==
    LET Visit(e, c) ==
          IF ~e.skip /\ c.line = line
          THEN [e EXCEPT !.skip = TRUE,
                         !.text = ReplaceText(@, c.at, 1, [i \in 1..c.lines |-> Newline])]
          ELSE [e EXCEPT !.skip = FALSE, !.comments = Append(@, c)]
        all == FoldLeft(Visit, [skip |-> FALSE, text |-> edited.text, comments |-> <<>>],
                        edited.comments)
    IN  [text |-> all.text, comments |-> all.comments]

\* One of the loops over what was noted: ranges are replaced, each with the
\* comment behind it.
Loop(this, next, ranges) ==
    /\ phase = this
    /\ phase' = next
    /\ LET Edit(e, r) == WithoutComments([e EXCEPT !.text = ReplaceRange(@, r.first, r.last, r.new)],
                                         r.line)
           edited == FoldLeft(Edit, [text |-> text, comments |-> noted.comments], ranges)
       IN  text' = edited.text /\ noted' = [noted EXCEPT !.comments = edited.comments]
    /\ UNCHANGED <<style, commandLine, intended, source, read, pp>>

InlineUses ==
    /\ phase = "inline"
    /\ phase' = "definitions"
    /\ text' = FoldLeft(LAMBDA t, u : ReplaceText(t, u.first, u.size, u.new), text, noted.uses)
    /\ UNCHANGED <<style, commandLine, intended, source, read, pp, noted>>

\* Mutant: a definition is removed with its lines.
NoLinesLeft(definition) == <<>>

\* A definition leaves as many lines as it had.
LinesLeft(definition) == [i \in 1..definition.lines |-> Newline]

RemoveDefinitions ==
    Loop("definitions", "empties",
         [j \in DOMAIN noted.definitions |->
             LET d == noted.definitions[j]
             IN  [first |-> d.first, last |-> d.last, line |-> d.line, new |-> LinesLeft(d)]])

RemoveEmptyMacros ==
    /\ phase = "empties"
    /\ phase' = "conditions"
    /\ text' = FoldLeft(LAMBDA t, e : ReplaceRange(t, e.first, e.last, <<>>), text, noted.empties)
    /\ UNCHANGED <<style, commandLine, intended, source, read, pp, noted>>

\* Mutant: only conditions that do not hold are replaced.
EvaluatedFalse == SelectSeq(noted.conditions, LAMBDA c : c.new = <<"0">>)

Evaluated == SelectSeq(noted.conditions, LAMBDA c : c.new # <<NotEvaluated>>)

ReplaceConditions == Loop("conditions", "names", Evaluated)

ReplaceDefConditions == Loop("names", "done", noted.defConditions)

Next ==
    \/ \E line \in SourceLines, nextOnLine \in BOOLEAN : Write(line, nextOnLine)
    \/ ReadDefine \/ ReadIf \/ ReadElif \/ ReadIfdef \/ ReadElifdef \/ ReadIfndef \/ ReadEndif
    \/ ReadText \/ ReadOther \/ EndOfFile
    \/ InlineUses \/ RemoveDefinitions \/ RemoveEmptyMacros
    \/ ReplaceConditions \/ ReplaceDefConditions

Spec == Init /\ [][Next]_macroVars

-----------------------------------------------------------------------------
(* Properties.                                                             *)

Result(macros) == Preprocessed(text.cells, macros)

\* What the stages hand over is the same program: preprocessed once more, with
\* the macros of the command line as every later stage does, it has the tokens
\* that the source had, whichever macros were defined, redefined and removed
\* on the way and however the edits moved each other's places.
SameProgram ==
    phase = "done" => TokensOf(Result(commandLine)) = TokensOf(intended)

\* The result is free of its context: every condition that was decided by a
\* macro and every use is decided for good, so that the program does not need
\* the command line any more.
ContextFree ==
    phase = "done" => TokensOf(Result(NoMacros)) = TokensOf(intended)

\* Tokens of a source without attributes stay on their lines, where messages
\* and the source mapper look for them, although definitions of several lines
\* and comments go away.
LinesAreKept ==
    phase = "done" /\ style = "lines" => Result(commandLine).out = intended.out
=============================================================================
