----------------------------- MODULE Normalizer -----------------------------
(***************************************************************************)
(* The OKL to GNU normalizer.  visitOklAttributes feeds the tokens of the  *)
(* source one by one to a state machine, and hands every attribute it      *)
(* recognises to replaceOklByGnuAttribute, which edits the text.  The      *)
(* edits name tokens of the original source, so an attribute has to be the *)
(* tokens that the machine says it is.                                     *)
(*                                                                         *)
(* A token is its kind; "param" is any token that is allowed in the list   *)
(* of parameters besides those that have a kind of their own, "other" any  *)
(* that is not.  All locations are valid: macros were expanded before.     *)
(***************************************************************************)
EXTENDS Integers, SequencesExt, FiniteSetsExt

CONSTANT Sources    \* the sequences of tokens to be normalized

Kind == {"at", "identifier", "l_paren", "r_paren", "semi", "l_brace", "kw_for", "param", "other"}

\* A translation unit ends with a semicolon or a brace, not with an attribute.
ASSUME SourcesAssumption ==
    \A s \in Sources : s \in Seq(Kind) /\ s # <<>> /\ s[Len(s)] \in {"semi", "other"}

VARIABLES
    source,         \* tokens
    cursor,         \* token_cursor, from 1
    state,          \* OklAttributeParserState
    attr,           \* attr.tok_indecies
    parenDepth,
    visited,        \* the attributes that were handed to the visitor
    text,           \* what each token became; "gone" is no text
    moved,          \* the attributes that were inserted before a `for`: [attr, kwFor]
    status          \* "reading", "done", "error" or "stopped" (by the visitor)

fsmVars == <<cursor, state, attr, parenDepth>>
outVars == <<visited, text, moved>>
vars    == <<source, fsmVars, outVars, status>>

Init ==
    /\ source \in Sources
    /\ cursor = 1
    /\ state = "SearchingAttrStart"
    /\ attr = <<>>
    /\ parenDepth = 0
    /\ visited = <<>>
    /\ text = source
    /\ moved = {}
    /\ status = "reading"

-----------------------------------------------------------------------------
(* The visitor: replaceOklByGnuAttribute.                                  *)

LeftNeighbour(a)  == IF a[1] > 1 THEN source[a[1] - 1] ELSE "other"
RightNeighbour(a) == source[a[Len(a)] + 1]

\* Mutant: whatever follows a semicolon is in the header of a loop.
IsAfterSemi(left, right) == left = "semi"

\* for (init; cond; step; @outer)
IsOklSpecificForStmt(left, right) == left = "semi" /\ right = "r_paren"

IsAtBeginningOfExpr(left, right) ==
    left \in {"semi", "l_brace", "r_paren"} /\ right \notin {"semi", "r_paren"}

\* Mutant: the first `for` of the source.
FirstFor(start) ==
    LET found == {i \in 2..start : source[i] = "kw_for"}
    IN  IF found = {} THEN 0 ELSE Min(found)

\* findForKwLocBefore: the last `for` up to a token, which never is the very
\* first token; 0 is an invalid location.
ForBefore(start) ==
    LET found == {i \in 2..start : source[i] = "kw_for"}
    IN  IF found = {} THEN 0 ELSE Max(found)

\* The text with a in the place of the tokens of an attribute.
Replaced(t, a, new) ==
    [i \in DOMAIN t |-> IF i = a[1] THEN new ELSE IF i \in a[1]..a[Len(a)] THEN "gone" ELSE t[i]]

\* The semicolon before the attribute closes the header, and the parenthesis
\* after it goes.
ClosedHeader(a) == [text EXCEPT ![a[1] - 1] = "r_paren", ![a[Len(a)] + 1] = "gone"]

MoveBeforeFor(a) ==
    LET kwFor == ForBefore(a[1])
    IN  IF kwFor = 0
        THEN /\ text' = ClosedHeader(a)
             /\ status' = "stopped"
             /\ UNCHANGED moved
        ELSE /\ text' = Replaced(ClosedHeader(a), a, "gone")
             /\ moved' = moved \cup {[attr |-> a, kwFor |-> kwFor]}
             /\ UNCHANGED status

ReplaceInPlace(a) ==
    /\ text' = Replaced(text, a,
                  IF IsAtBeginningOfExpr(LeftNeighbour(a), RightNeighbour(a)) THEN "cxx" ELSE "gnu")
    /\ UNCHANGED <<moved, status>>

Visit(a) ==
    /\ visited' = Append(visited, a)
    /\ IF IsOklSpecificForStmt(LeftNeighbour(a), RightNeighbour(a))
       THEN MoveBeforeFor(a)
       ELSE ReplaceInPlace(a)

-----------------------------------------------------------------------------
(* The state machine: processTokenByFsm.  A token that completes an        *)
(* attribute is not consumed, and is looked at again.                      *)

Token == source[cursor]

Reading(s) ==
    /\ status = "reading"
    /\ cursor <= Len(source)
    /\ state = s

\* Mutant: the tokens of one attribute are kept for the next.
KeepAttr == attr

\* resetFsmAttrState.
ResetAttr == <<>>

\* Mutant: nested lists are not counted.
AnyParenCloses == TRUE

ClosesParamList == parenDepth = 1

TakeToken ==
    /\ attr' = Append(attr, cursor)
    /\ cursor' = cursor + 1
    /\ UNCHANGED <<source, outVars, status>>

\* The attribute is handed over, and the machine begins anew.
AttrParsed(a) ==
    /\ Visit(a)
    /\ attr' = ResetAttr
    /\ state' = "SearchingAttrStart"
    /\ UNCHANGED <<source, cursor>>

Skip ==
    /\ Reading("SearchingAttrStart")
    /\ Token # "at"
    /\ cursor' = cursor + 1
    /\ UNCHANGED <<source, state, attr, parenDepth, outVars, status>>

FindMarker ==
    /\ Reading("SearchingAttrStart")
    /\ Token = "at"
    /\ TakeToken
    /\ state' = "ParseAttrName"
    /\ UNCHANGED parenDepth

ParseName ==
    /\ Reading("ParseAttrName")
    /\ Token = "identifier"
    /\ TakeToken
    /\ state' = "SearchingAttrParamList"
    /\ UNCHANGED parenDepth

OpenParamList ==
    /\ Reading("SearchingAttrParamList")
    /\ Token = "l_paren"
    /\ TakeToken
    /\ parenDepth' = parenDepth + 1
    /\ state' = "ParseAttrParamList"

NoParamList ==
    /\ Reading("SearchingAttrParamList")
    /\ Token # "l_paren"
    /\ AttrParsed(attr)
    /\ UNCHANGED parenDepth

CloseParamList ==
    /\ Reading("ParseAttrParamList")
    /\ Token = "r_paren"
    /\ ClosesParamList
    /\ parenDepth' = parenDepth - 1
    /\ AttrParsed(Append(attr, cursor))

TakeParam ==
    /\ Reading("ParseAttrParamList")
    /\ Token \in {"at", "identifier", "param", "l_paren", "r_paren"}
    /\ Token = "r_paren" => ~ClosesParamList
    /\ TakeToken
    /\ parenDepth' = CASE Token = "l_paren" -> parenDepth + 1
                       [] Token = "r_paren" -> parenDepth - 1
                       [] OTHER             -> parenDepth
    /\ UNCHANGED state

Malformed ==
    /\ \/ Reading("ParseAttrName") /\ Token # "identifier"
       \/ Reading("ParseAttrParamList") /\ Token \in {"semi", "l_brace", "kw_for", "other"}
    /\ status' = "error"
    /\ UNCHANGED <<source, fsmVars, outVars>>

\* What was begun and not completed is dropped without an error.
Finish ==
    /\ status = "reading"
    /\ cursor > Len(source)
    /\ status' = "done"
    /\ UNCHANGED <<source, fsmVars, outVars>>

Next ==
    \/ Skip
    \/ FindMarker
    \/ ParseName
    \/ OpenParamList
    \/ NoParamList
    \/ CloseParamList
    \/ TakeParam
    \/ Malformed
    \/ Finish

Spec == Init /\ [][Next]_vars

-----------------------------------------------------------------------------
(* The reference: attributes as the language has them.                     *)

Opens(s, i, j)  == Cardinality({k \in i..j : s[k] = "l_paren"})
Closes(s, i, j) == Cardinality({k \in i..j : s[k] = "r_paren"})

ParensMatch(s) ==
    /\ Opens(s, 1, Len(s)) = Closes(s, 1, Len(s))
    /\ \A i \in DOMAIN s : Opens(s, 1, i) >= Closes(s, 1, i)

\* Where the parenthesis at i is closed, 0 if nowhere.
ClosingParen(s, i) ==
    LET closing == {j \in i..Len(s) : Opens(s, i, j) = Closes(s, i, j)}
    IN  IF closing = {} THEN 0 ELSE Min(closing)

\* The last token of the attribute with the marker at b; 0 if it is malformed.
EndOfAttribute(b) ==
    IF b + 1 > Len(source) \/ source[b + 1] # "identifier" THEN 0
    ELSE IF b + 2 > Len(source) \/ source[b + 2] # "l_paren" THEN b + 1
    ELSE LET e == ClosingParen(source, b + 2)
         IN  IF \E k \in b..e : source[k] \in {"semi", "l_brace", "kw_for", "other"} THEN 0 ELSE e

Markers == {b \in DOMAIN source : source[b] = "at"}

\* Markers that are not among the parameters of an attribute.
OuterMarkers == {b \in Markers : \A c \in Markers : c < b => EndOfAttribute(c) < b}

\* The tokens of the attribute with the marker at b.
AttributeAt(b) == [j \in 1..EndOfAttribute(b) - b + 1 |-> b + j - 1]

Attributes == {AttributeAt(b) : b \in OuterMarkers}

\* The header of the loop at f, between parentheses: its semicolons.
Semis(s, f) ==
    {i \in (f + 2)..(ClosingParen(s, f + 1) - 1) :
        s[i] = "semi" /\ Opens(s, f + 1, i) = Closes(s, f + 1, i) + 1}

Fors(s) == {i \in DOMAIN s : s[i] = "kw_for"}

EndsHeader(a, f) == a[Len(a)] + 1 = ClosingParen(source, f + 1)

\* A header of OKL: that of C++, or with an attribute after a third semicolon.
\* (`for (;; @outer)`, without a step, is neither.)  Within it there is no
\* loop, as there might be in a lambda.
OklHeader(f) ==
    /\ f > 1
    /\ f < Len(source)
    /\ source[f + 1] = "l_paren"
    /\ ClosingParen(source, f + 1) # 0
    /\ \A g \in Fors(source) : g <= f \/ g > ClosingParen(source, f + 1)
    /\ LET semis == Semis(source, f)
           last  == {a \in Attributes : EndsHeader(a, f) /\ a[1] - 1 \in semis}
       IN  IF last = {} THEN Cardinality(semis) = 2 ELSE Cardinality(semis) = 3

\* The source is OKL as far as loops are concerned.
IsOkl ==
    /\ ParensMatch(source)
    /\ \A b \in OuterMarkers : EndOfAttribute(b) # 0
    /\ \A f \in Fors(source) : OklHeader(f)
    /\ \A a \in Attributes :
          source[a[1] - 1] = "semi" /\ source[a[Len(a)] + 1] = "r_paren" =>
              \E f \in Fors(source) : a[1] > f /\ EndsHeader(a, f)

-----------------------------------------------------------------------------
(* Properties.                                                             *)

\* The machine, which only knows a depth and its state, recognises the
\* attributes of the source, no more and no fewer and in their order, and
\* fails exactly when one is malformed.
AttributesFound ==
    /\ status = "done" =>
          /\ ToSet(visited) = Attributes
          /\ \A m, n \in DOMAIN visited : m < n => visited[m][1] < visited[n][1]
    /\ status = "error" => \E b \in OuterMarkers : EndOfAttribute(b) = 0

Contiguous(a) == \A j \in DOMAIN a : a[j] = a[1] + j - 1

\* The tokens from the first to the last of an attribute are those the
\* machine took, it has a marker and a name, and no token belongs to two
\* attributes: an edit never removes text of another attribute or text that
\* is none.
EditsNeverOverlap ==
    /\ \A n \in DOMAIN visited :
          /\ Len(visited[n]) >= 2
          /\ Contiguous(visited[n])
          /\ source[visited[n][1]] = "at"
          /\ source[visited[n][2]] = "identifier"
    /\ \A m, n \in DOMAIN visited :
          m < n => visited[m][Len(visited[m])] < visited[n][1]

\* The text is C++ again: every loop has a header of two semicolons, whatever
\* attributes stand in and around it, and no parenthesis was lost or added.
\* (Tokens that are gone are neither.)
HeadersBecomeLegal ==
    status = "done" /\ IsOkl =>
        /\ ParensMatch(text)
        /\ \A f \in Fors(text) : text[f + 1] = "l_paren" /\ Cardinality(Semis(text, f)) = 2

\* An attribute is moved before the loop in whose header it was written.
MovedToOwnFor ==
    status = "done" /\ IsOkl => \A m \in moved : EndsHeader(m.attr, m.kwFor)
=============================================================================
