-------------------------- MODULE NormalizerProofs --------------------------
(***************************************************************************)
(* For any source: the attributes that the state machine hands to the      *)
(* visitor are disjoint runs of tokens, they are the attributes that the   *)
(* grammar has, one in the header of a loop is moved before that loop, and *)
(* the headers that are left are those of C++.                             *)
(*                                                                         *)
(* Inv holds what the machine knows between two attributes: the tokens of  *)
(* the one that is being read end right before the cursor, and all earlier *)
(* ones end before it begins, but for the parenthesis that is looked at    *)
(* twice.  FoundInv relates the depth that the machine counts to the       *)
(* parentheses of the source, and what was handed over to the grammar.     *)
(* EditInv says for every token what it became, from which the depth of    *)
(* the text is found along the text, and with it the headers of its loops. *)
(***************************************************************************)
EXTENDS Normalizer, InductionLemmas, FiniteSetTheorems

States == {"SearchingAttrStart", "ParseAttrName", "SearchingAttrParamList", "ParseAttrParamList"}

Types ==
    /\ source \in Seq(Kind)
    /\ cursor \in Nat \ {0}
    /\ state \in States
    /\ attr \in Seq(Nat)
    /\ visited \in Seq(Seq(Nat))

\* The tokens of the attribute under way.
AttrInv ==
    /\ cursor - Len(attr) >= 1
    /\ \A j \in 1..Len(attr) : attr[j] = cursor - Len(attr) + j - 1
    /\ state = "SearchingAttrStart" => Len(attr) = 0
    /\ state = "ParseAttrName" => Len(attr) = 1
    /\ state \in {"SearchingAttrParamList", "ParseAttrParamList"} =>
          Len(attr) >= 2 /\ source[attr[2]] = "identifier"
    /\ Len(attr) > 0 => source[attr[1]] = "at"

IsAttribute(a) ==
    /\ Len(a) >= 2
    /\ \A j \in 1..Len(a) : a[j] = a[1] + j - 1
    /\ source[a[1]] = "at"
    /\ source[a[2]] = "identifier"

End(n) == visited[n][Len(visited[n])]

\* Those that were handed over, one after the other and before the cursor.
VisitedInv ==
    /\ \A n \in 1..Len(visited) : IsAttribute(visited[n])
    /\ \A m, n \in 1..Len(visited) : m < n => End(m) < visited[n][1]
    /\ \A n \in 1..Len(visited) :
          \/ End(n) < cursor - Len(attr)
          \/ state = "SearchingAttrStart" /\ End(n) = cursor /\ source[cursor] = "r_paren"

Inv == Types /\ AttrInv /\ VisitedInv

\* What the provers need to know of the attributes that were handed over.
LEMMA VisitedAreSeqs ==
    ASSUME Types, VisitedInv, NEW n \in 1..Len(visited)
    PROVE  /\ visited[n] \in Seq(Nat)
           /\ Len(visited[n]) \in Nat
           /\ DOMAIN visited[n] = 1..Len(visited[n])
           /\ IsAttribute(visited[n])
  BY DEF Types, VisitedInv

LEMMA EndIsNat == ASSUME Inv, NEW n \in 1..Len(visited) PROVE End(n) \in Nat
<1>1. visited[n] \in Seq(Nat) /\ Len(visited[n]) \in Nat /\ Len(visited[n]) >= 2
  BY VisitedAreSeqs DEF Inv, IsAttribute
<1> QED
  BY <1>1 DEF End

\* Nothing was read.
LEMMA InitInv == Init => Inv
  BY SourcesAssumption DEF Init, Inv, Types, AttrInv, VisitedInv, States

\* The attribute under way takes the token at the cursor, which is the first
\* one only when it is a marker.
LEMMA TakeTokenInv ==
    ASSUME Inv, TakeToken, state' \in States \ {"SearchingAttrStart"},
           state = "SearchingAttrStart" => Token = "at",
           state' = "ParseAttrName" => state = "SearchingAttrStart",
           state' # "ParseAttrName" => state # "SearchingAttrStart",
           state = "ParseAttrName" => Token = "identifier"
    PROVE  Inv'
<1>1. /\ attr' = Append(attr, cursor)
      /\ cursor' = cursor + 1
      /\ source' = source
      /\ visited' = visited
  BY DEF TakeToken, outVars
<1>2. /\ attr' \in Seq(Nat)
      /\ Len(attr') = Len(attr) + 1
      /\ \A j \in 1..Len(attr) : attr'[j] = attr[j]
      /\ attr'[Len(attr) + 1] = cursor
  BY <1>1 DEF Inv, Types
<1>3. Types'
  BY <1>1, <1>2 DEF Inv, Types
<1>4. AttrInv'
  <2>1. cursor' - Len(attr') >= 1
    BY <1>1, <1>2 DEF Inv, Types, AttrInv
  <2>2. \A j \in 1..Len(attr') : attr'[j] = cursor' - Len(attr') + j - 1
    <3> SUFFICES ASSUME NEW j \in 1..Len(attr') PROVE attr'[j] = cursor' - Len(attr') + j - 1
      OBVIOUS
    <3>1. Len(attr) \in Nat /\ cursor \in Nat /\ cursor' - Len(attr') = cursor - Len(attr)
      BY <1>1, <1>2 DEF Inv, Types
    <3>2. CASE j \in 1..Len(attr)
      <4>1. attr'[j] = attr[j]
        BY <3>2, <1>2
      <4>2. attr[j] = cursor - Len(attr) + j - 1
        BY <3>2 DEF Inv, AttrInv
      <4> QED
        BY <4>1, <4>2, <3>1
    <3>3. CASE j = Len(attr) + 1
      <4>1. attr'[j] = cursor
        BY <3>3, <1>2
      <4> QED
        BY <4>1, <3>1, <3>3
    <3> QED
      BY <3>1, <3>2, <3>3, <1>2
  <2>3. /\ state' # "SearchingAttrStart"
        /\ state' = "ParseAttrName" => Len(attr') = 1
    BY <1>2 DEF Inv, Types, AttrInv
  <2>4. state' \in {"SearchingAttrParamList", "ParseAttrParamList"} =>
            Len(attr') >= 2 /\ source'[attr'[2]] = "identifier"
    BY <1>1, <1>2 DEF Inv, Types, AttrInv, States, Token
  <2>5. source'[attr'[1]] = "at"
    BY <1>1, <1>2 DEF Inv, Types, AttrInv, States, Token
  <2> QED
    BY <2>1, <2>2, <2>3, <2>4, <2>5 DEF AttrInv
<1>5. VisitedInv'
  <2>1. cursor' - Len(attr') = cursor - Len(attr)
    BY <1>1, <1>2 DEF Inv, Types
  <2>2. \A n \in 1..Len(visited) : End(n) < cursor - Len(attr)
    BY DEF Inv, VisitedInv, Token
  <2> QED
    BY <1>1, <2>1, <2>2 DEF Inv, VisitedInv, IsAttribute, End
<1> QED
  BY <1>3, <1>4, <1>5 DEF Inv

\* An attribute is handed over that begins where the one under way does and
\* ends before the cursor, or on the closing parenthesis that it is at.
LEMMA AttrParsedInv ==
    ASSUME Inv, NEW a \in Seq(Nat), AttrParsed(a), IsAttribute(a),
           state \in {"SearchingAttrParamList", "ParseAttrParamList"},
           a[1] = cursor - Len(attr),
           a[Len(a)] < cursor \/ (a[Len(a)] = cursor /\ Token = "r_paren")
    PROVE  Inv'
<1>1. /\ attr' = <<>>
      /\ state' = "SearchingAttrStart"
      /\ source' = source
      /\ cursor' = cursor
      /\ visited' = Append(visited, a)
  BY DEF AttrParsed, Visit, ResetAttr
<1>2. /\ visited' \in Seq(Seq(Nat))
      /\ Len(visited') = Len(visited) + 1
      /\ \A n \in 1..Len(visited) : visited'[n] = visited[n]
      /\ visited'[Len(visited) + 1] = a
  BY <1>1 DEF Inv, Types
<1>3. Types'
  BY <1>1, <1>2 DEF Inv, Types, States
<1>4. AttrInv'
  BY <1>1 DEF Inv, Types, AttrInv
<1>5. \A n \in 1..Len(visited) : End(n) < a[1]
  BY DEF Inv, VisitedInv
<1>6. /\ Len(a) \in Nat /\ a[1] \in Nat /\ a[Len(a)] \in Nat
      /\ a[Len(a)] = a[1] + Len(a) - 1
      /\ Len(visited) \in Nat
      /\ cursor \in Nat /\ Len(attr) \in Nat
      /\ Len(attr') = 0
  <2>1. Len(a) \in Nat /\ Len(a) >= 2 /\ a[1] \in Nat /\ a[Len(a)] \in Nat
    BY DEF IsAttribute
  <2>2. a[Len(a)] = a[1] + Len(a) - 1
    BY <2>1 DEF IsAttribute
  <2>3. Len(attr') = 0
    BY <1>1
  <2> QED
    BY <2>1, <2>2, <2>3 DEF Inv, Types
<1>7. VisitedInv'
  <2>1. \A n \in 1..Len(visited) : End(n)' = End(n) /\ visited'[n][1] = visited[n][1]
    BY <1>2 DEF End
  <2>2. ASSUME NEW n \in 1..Len(visited'), n = Len(visited) + 1
        PROVE  End(n)' = a[Len(a)] /\ visited'[n][1] = a[1]
    BY <2>2, <1>2 DEF End
  <2>3. ASSUME NEW n \in 1..Len(visited') PROVE IsAttribute(visited[n])'
    <3>1. CASE n \in 1..Len(visited)
      BY <3>1, <1>1, <1>2 DEF Inv, VisitedInv, IsAttribute
    <3>2. CASE n = Len(visited) + 1
      BY <3>2, <1>1, <1>2 DEF IsAttribute
    <3> QED
      BY <3>1, <3>2, <1>6, <1>2
  <2>4. ASSUME NEW m \in 1..Len(visited'), NEW n \in 1..Len(visited'), m < n
        PROVE  End(m)' < visited'[n][1]
    <3>1. m \in 1..Len(visited)
      BY <2>4, <1>6, <1>2
    <3>2. CASE n \in 1..Len(visited)
      BY <3>1, <3>2, <2>1, <2>4 DEF Inv, VisitedInv
    <3>3. CASE n = Len(visited) + 1
      BY <3>1, <3>3, <2>1, <2>2, <1>5
    <3> QED
      BY <3>2, <3>3, <1>6, <1>2
  <2>5. ASSUME NEW n \in 1..Len(visited')
        PROVE  \/ End(n)' < cursor' - Len(attr')
               \/ End(n)' = cursor' /\ source'[cursor'] = "r_paren"
    <3>1. CASE n \in 1..Len(visited)
      <4>1. End(n)' < a[1] /\ End(n)' \in Nat
        BY <3>1, <2>1, <1>5, EndIsNat
      <4>2. a[1] <= cursor
        BY <1>6
      <4> QED
        BY <4>1, <4>2, <1>6, <1>1
    <3>2. CASE n = Len(visited) + 1
      <4>1. End(n)' = a[Len(a)]
        BY <3>2, <2>2
      <4> QED
        BY <4>1, <1>6, <1>1 DEF Token
    <3> QED
      BY <3>1, <3>2, <1>6, <1>2
  <2> QED
    BY <2>3, <2>4, <2>5, <1>1 DEF VisitedInv
<1> QED
  BY <1>3, <1>4, <1>7 DEF Inv

\* A token between two attributes is passed over.
LEMMA SkipInv == Inv /\ Skip => Inv'
<1> SUFFICES ASSUME Inv, Skip PROVE Inv'
  OBVIOUS
<1>1. /\ state = "SearchingAttrStart"
      /\ cursor' = cursor + 1
      /\ UNCHANGED <<source, state, attr, visited>>
  BY DEF Skip, Reading, outVars
<1>2. Len(attr) = 0
  BY <1>1 DEF Inv, AttrInv
<1>3. Types' /\ AttrInv'
  BY <1>1, <1>2 DEF Inv, Types, AttrInv
<1>4. \A n \in 1..Len(visited) : End(n)' < cursor' - Len(attr')
  <2> TAKE n \in 1..Len(visited)
  <2>1. End(n)' = End(n) /\ End(n) \in Nat /\ cursor \in Nat /\ Len(attr') = 0
    BY <1>1, <1>2, EndIsNat DEF End, Inv, Types
  <2>2. End(n) < cursor \/ End(n) = cursor
    BY <1>2, <2>1 DEF Inv, Types, VisitedInv
  <2> QED
    BY <1>1, <2>1, <2>2
<1>5. VisitedInv'
  BY <1>1, <1>4 DEF Inv, VisitedInv, IsAttribute, End
<1> QED
  BY <1>3, <1>5 DEF Inv

\* The attribute ends before the cursor.
LEMMA NoParamListInv == Inv /\ NoParamList => Inv'
<1> SUFFICES ASSUME Inv, NoParamList PROVE Inv'
  OBVIOUS
<1>1. state = "SearchingAttrParamList" /\ AttrParsed(attr)
  BY DEF NoParamList, Reading
<1>2. attr \in Seq(Nat) /\ Len(attr) \in Nat /\ cursor \in Nat /\ Len(attr) >= 2
  BY <1>1 DEF Inv, Types, AttrInv
<1>3. \A j \in 1..Len(attr) : attr[j] = cursor - Len(attr) + j - 1
  BY DEF Inv, AttrInv
<1>4. attr[1] = cursor - Len(attr) /\ attr[Len(attr)] < cursor
  BY <1>2, <1>3
<1>5. IsAttribute(attr)
  BY <1>1, <1>2, <1>3, <1>4 DEF Inv, AttrInv, IsAttribute
<1> QED
  BY <1>1, <1>2, <1>4, <1>5, AttrParsedInv

\* The attribute ends on the cursor.
LEMMA CloseParamListInv == Inv /\ CloseParamList => Inv'
<1> SUFFICES ASSUME Inv, CloseParamList PROVE Inv'
  OBVIOUS
<1> DEFINE a == Append(attr, cursor)
<1>1. state = "ParseAttrParamList" /\ Token = "r_paren" /\ AttrParsed(a)
  BY DEF CloseParamList, Reading
<1>2. /\ a \in Seq(Nat)
      /\ Len(a) = Len(attr) + 1
      /\ \A j \in 1..Len(attr) : a[j] = attr[j]
      /\ a[Len(a)] = cursor
  BY DEF Inv, Types
<1>3. /\ Len(attr) \in Nat /\ Len(attr) >= 2 /\ cursor \in Nat
      /\ \A j \in 1..Len(attr) : attr[j] = cursor - Len(attr) + j - 1
      /\ source[attr[1]] = "at" /\ source[attr[2]] = "identifier"
  BY <1>1 DEF Inv, Types, AttrInv
<1> HIDE DEF a
<1>4. a[1] = cursor - Len(attr) /\ a[2] = attr[2] /\ attr[1] = a[1]
  BY <1>3, <1>2
<1>5. IsAttribute(a)
  <2>1. ASSUME NEW j \in 1..Len(a) PROVE a[j] = a[1] + j - 1
    <3>1. CASE j \in 1..Len(attr)
      BY <3>1, <1>3, <1>2, <1>4
    <3>2. CASE j = Len(attr) + 1
      BY <3>2, <1>3, <1>2, <1>4
    <3> QED
      BY <3>1, <3>2, <1>3, <1>2
  <2> QED
    BY <2>1, <1>3, <1>2, <1>4 DEF IsAttribute
<1> QED
  BY <1>1, <1>2, <1>3, <1>4, <1>5, AttrParsedInv

\* Every step preserves the invariant.
LEMMA NextInv == Inv /\ [Next]_vars => Inv'
<1> SUFFICES ASSUME Inv, [Next]_vars PROVE Inv'
  OBVIOUS
<1>1. CASE Skip
  BY <1>1, SkipInv
<1>2. CASE FindMarker
  BY <1>2, TakeTokenInv DEF FindMarker, Reading, States
<1>3. CASE ParseName
  BY <1>3, TakeTokenInv DEF ParseName, Reading, States
<1>4. CASE OpenParamList
  BY <1>4, TakeTokenInv DEF OpenParamList, Reading, States
<1>5. CASE NoParamList
  BY <1>5, NoParamListInv
<1>6. CASE CloseParamList
  BY <1>6, CloseParamListInv
<1>7. CASE TakeParam
  BY <1>7, TakeTokenInv DEF TakeParam, Reading, States
<1>8. CASE Malformed \/ Finish \/ UNCHANGED vars
  <2>1. UNCHANGED <<source, fsmVars, visited>>
    BY <1>8 DEF Malformed, Finish, vars, outVars
  <2> QED
    BY <2>1 DEF fsmVars, Inv, Types, AttrInv, VisitedInv, IsAttribute, End
<1> QED
  BY <1>1, <1>2, <1>3, <1>4, <1>5, <1>6, <1>7, <1>8 DEF Next

\* For every source, the tokens that the normalizer replaces for one
\* attribute are those of that attribute, and belong to no other.
THEOREM EditsAreDisjoint == Spec => []EditsNeverOverlap
<1>1. ASSUME Inv PROVE EditsNeverOverlap
  <2>1. DOMAIN visited = 1..Len(visited)
    BY <1>1 DEF Inv, Types
  <2>2. ASSUME NEW n \in DOMAIN visited
        PROVE  /\ Len(visited[n]) >= 2
               /\ Contiguous(visited[n])
               /\ source[visited[n][1]] = "at"
               /\ source[visited[n][2]] = "identifier"
    BY <1>1, <2>1, VisitedAreSeqs DEF Inv, IsAttribute, Contiguous
  <2>3. \A m, n \in DOMAIN visited : m < n => visited[m][Len(visited[m])] < visited[n][1]
    BY <1>1, <2>1 DEF Inv, VisitedInv, End
  <2> QED
    BY <2>2, <2>3 DEF EditsNeverOverlap
<1> QED
  BY <1>1, InitInv, NextInv, PTL DEF Spec

-----------------------------------------------------------------------------
(* Parentheses, counted in any sequence and in the source.                 *)

CountIn(s, t, i, j) == Cardinality({k \in i..j : s[k] = t})
DepthIn(s, i, j)    == Opens(s, i, j) - Closes(s, i, j)

LEMMA CountsInAre ==
    \A s, i, j : Opens(s, i, j) = CountIn(s, "l_paren", i, j) /\ Closes(s, i, j) = CountIn(s, "r_paren", i, j)
BY DEF Opens, Closes, CountIn

\* What the next token adds to a count.
LEMMA CountInStep ==
    ASSUME NEW s, NEW t, NEW i \in Int, NEW j \in Int, i <= j + 1
    PROVE  /\ CountIn(s, t, i, j) \in Nat
           /\ CountIn(s, t, i, j + 1) = CountIn(s, t, i, j) + (IF s[j + 1] = t THEN 1 ELSE 0)
<1> DEFINE A == {k \in i..j : s[k] = t}
           B == {k \in i..j + 1 : s[k] = t}
<1>1. IsFiniteSet(A)
  <2>1. IsFiniteSet(i..j)
    BY FS_Interval
  <2>2. A \in SUBSET (i..j)
    OBVIOUS
  <2>3. QED
    BY <2>1, <2>2, FS_Subset
<1>2. Cardinality(A) \in Nat
  BY <1>1, FS_CardinalityType
<1>3. CountIn(s, t, i, j) = Cardinality(A) /\ CountIn(s, t, i, j + 1) = Cardinality(B)
  BY DEF CountIn
<1>4. s[j + 1] = t => Cardinality(B) = Cardinality(A) + 1
  <2> SUFFICES ASSUME s[j + 1] = t PROVE Cardinality(B) = Cardinality(A) + 1
    OBVIOUS
  <2>1. B = A \cup {j + 1} /\ j + 1 \notin A
    OBVIOUS
  <2> HIDE DEF A, B
  <2>2. QED
    BY <1>1, <2>1, FS_AddElement
<1>5. s[j + 1] # t => Cardinality(B) = Cardinality(A)
  <2> SUFFICES ASSUME s[j + 1] # t PROVE Cardinality(B) = Cardinality(A)
    OBVIOUS
  <2>1. B = A
    OBVIOUS
  <2> HIDE DEF A, B
  <2>2. QED
    BY <2>1
<1> HIDE DEF A, B
<1>6. QED
  BY <1>2, <1>3, <1>4, <1>5

LEMMA DepthInStep ==
    ASSUME NEW s, NEW i \in Int, NEW j \in Int, i <= j + 1
    PROVE  /\ DepthIn(s, i, j) \in Int
           /\ s[j + 1] = "l_paren" => DepthIn(s, i, j + 1) = DepthIn(s, i, j) + 1
           /\ s[j + 1] = "r_paren" => DepthIn(s, i, j + 1) = DepthIn(s, i, j) - 1
           /\ s[j + 1] \notin {"l_paren", "r_paren"} => DepthIn(s, i, j + 1) = DepthIn(s, i, j)
<1>1. \A x, y : DepthIn(s, x, y) = CountIn(s, "l_paren", x, y) - CountIn(s, "r_paren", x, y)
  BY CountsInAre DEF DepthIn
<1>2. /\ CountIn(s, "l_paren", i, j) \in Nat
      /\ CountIn(s, "l_paren", i, j + 1) = CountIn(s, "l_paren", i, j) + (IF s[j + 1] = "l_paren" THEN 1 ELSE 0)
  BY CountInStep
<1>3. /\ CountIn(s, "r_paren", i, j) \in Nat
      /\ CountIn(s, "r_paren", i, j + 1) = CountIn(s, "r_paren", i, j) + (IF s[j + 1] = "r_paren" THEN 1 ELSE 0)
  BY CountInStep
<1>4. QED
  BY <1>1, <1>2, <1>3

LEMMA DepthInOfNothing == \A s : \A i \in Int : DepthIn(s, i, i - 1) = 0
<1> SUFFICES ASSUME NEW s, NEW i \in Int PROVE DepthIn(s, i, i - 1) = 0
  OBVIOUS
<1>1. {k \in i..i - 1 : s[k] = "l_paren"} = {} /\ {k \in i..i - 1 : s[k] = "r_paren"} = {}
  OBVIOUS
<1>2. Opens(s, i, i - 1) = 0 /\ Closes(s, i, i - 1) = 0
  BY <1>1, FS_EmptySet DEF Opens, Closes
<1>3. QED
  BY <1>2 DEF DepthIn

\* From p on, the depth is counted anew.
LEMMA DepthInSplits ==
    ASSUME NEW s, NEW i \in Nat, NEW p \in Nat, i <= p, p > 0, NEW e \in Nat, p <= e
    PROVE  DepthIn(s, p, e) = DepthIn(s, i, e) - DepthIn(s, i, p - 1)
<1> DEFINE S == {n \in Nat : DepthIn(s, p, p - 1 + n) = DepthIn(s, i, p - 1 + n) - DepthIn(s, i, p - 1)}
<1>1. 0 \in S
  <2>1. DepthIn(s, p, p - 1) = 0 /\ DepthIn(s, i, p - 1) \in Int
    BY DepthInOfNothing, DepthInStep
  <2>2. QED
    BY <2>1
<1>2. ASSUME NEW n \in Nat, n \in S PROVE n + 1 \in S
  <2> DEFINE j == p - 1 + n
             a == DepthIn(s, p, j)
             b == DepthIn(s, i, j)
             c == DepthIn(s, i, p - 1)
  <2>1. j \in Int /\ p <= j + 1 /\ i <= j + 1 /\ p - 1 + (n + 1) = j + 1 /\ i <= (p - 1) + 1 /\ p - 1 \in Int
    OBVIOUS
  <2> HIDE DEF j
  <2>2. /\ a \in Int
        /\ s[j + 1] = "l_paren" => DepthIn(s, p, j + 1) = a + 1
        /\ s[j + 1] = "r_paren" => DepthIn(s, p, j + 1) = a - 1
        /\ s[j + 1] \notin {"l_paren", "r_paren"} => DepthIn(s, p, j + 1) = a
    BY <2>1, DepthInStep
  <2>3. /\ b \in Int
        /\ s[j + 1] = "l_paren" => DepthIn(s, i, j + 1) = b + 1
        /\ s[j + 1] = "r_paren" => DepthIn(s, i, j + 1) = b - 1
        /\ s[j + 1] \notin {"l_paren", "r_paren"} => DepthIn(s, i, j + 1) = b
    BY <2>1, DepthInStep
  <2>4. c \in Int
    BY <2>1, DepthInStep
  <2>5. a = b - c
    BY <1>2 DEF j
  <2> HIDE DEF a, b, c
  <2>6. DepthIn(s, p, j + 1) = DepthIn(s, i, j + 1) - c
    <3>1. CASE s[j + 1] = "l_paren"
      BY <2>2, <2>3, <2>4, <2>5, <3>1
    <3>2. CASE s[j + 1] = "r_paren"
      BY <2>2, <2>3, <2>4, <2>5, <3>2
    <3>3. CASE s[j + 1] \notin {"l_paren", "r_paren"}
      BY <2>2, <2>3, <2>4, <2>5, <3>3
    <3>4. QED
      BY <3>1, <3>2, <3>3
  <2>7. QED
    BY <2>1, <2>6 DEF c
<1>3. Nat \subseteq S
  <2> HIDE DEF S
  <2>1. QED
    BY <1>1, <1>2, SetInduction
<1>4. e - p + 1 \in Nat /\ p - 1 + (e - p + 1) = e
  OBVIOUS
<1>5. e - p + 1 \in S
  BY <1>3, <1>4
<1>6. DepthIn(s, p, p - 1 + (e - p + 1)) = DepthIn(s, i, p - 1 + (e - p + 1)) - DepthIn(s, i, p - 1)
  BY <1>5
<1>7. QED
  BY <1>4, <1>6

Depth(i, j) == DepthIn(source, i, j)

LEMMA DepthStep ==
    ASSUME NEW i \in Int, NEW j \in Int, i <= j + 1
    PROVE  /\ Depth(i, j) \in Int
           /\ source[j + 1] = "l_paren" => Depth(i, j + 1) = Depth(i, j) + 1
           /\ source[j + 1] = "r_paren" => Depth(i, j + 1) = Depth(i, j) - 1
           /\ source[j + 1] \notin {"l_paren", "r_paren"} => Depth(i, j + 1) = Depth(i, j)
BY DepthInStep DEF Depth

LEMMA DepthOfNothing == \A i \in Int : Depth(i, i - 1) = 0
BY DepthInOfNothing DEF Depth

LEMMA DepthSplits ==
    ASSUME NEW i \in Nat, NEW p \in Nat, i <= p, p > 0, NEW e \in Nat, p <= e
    PROVE  Depth(p, e) = Depth(i, e) - Depth(i, p - 1)
BY DepthInSplits DEF Depth

LEMMA DepthOfOpen == ASSUME NEW i \in Int, source[i] = "l_paren" PROVE Depth(i, i) = 1
<1> DEFINE x == i - 1
<1>1. x \in Int /\ x + 1 = i /\ i <= x + 1
  OBVIOUS
<1>2. Depth(i, x) = 0
  BY DepthOfNothing
<1> HIDE DEF x
<1>3. Depth(i, x + 1) = Depth(i, x) + 1
  BY <1>1, DepthStep
<1>4. QED
  BY <1>1, <1>2, <1>3

-----------------------------------------------------------------------------
(* Where an attribute ends.                                                *)

ClosingsIn(s, i) == {j \in i..Len(s) : Opens(s, i, j) = Closes(s, i, j)}

LEMMA ClosingsInAre ==
    ASSUME NEW s, NEW i \in Nat, Len(s) \in Nat
    PROVE  /\ ClosingsIn(s, i) \subseteq Nat
           /\ \A j \in i..Len(s) : j \in ClosingsIn(s, i) <=> DepthIn(s, i, j) = 0
           /\ ClosingsIn(s, i) = {} => ClosingParen(s, i) = 0
           /\ ClosingsIn(s, i) # {} =>
                 /\ ClosingParen(s, i) \in ClosingsIn(s, i)
                 /\ \A j \in ClosingsIn(s, i) : ClosingParen(s, i) <= j
<1>1. ClosingsIn(s, i) \subseteq Nat
  BY DEF ClosingsIn
<1>2. ASSUME NEW j \in i..Len(s) PROVE j \in ClosingsIn(s, i) <=> DepthIn(s, i, j) = 0
  <2>1. Opens(s, i, j) \in Nat /\ Closes(s, i, j) \in Nat
    <3>1. j \in Int /\ i \in Int /\ i <= j + 1
      OBVIOUS
    <3>2. QED
      BY <3>1, CountInStep, CountsInAre
  <2>2. QED
    BY <2>1 DEF ClosingsIn, DepthIn
<1>3. ClosingParen(s, i) = IF ClosingsIn(s, i) = {} THEN 0 ELSE Min(ClosingsIn(s, i))
  BY DEF ClosingParen, ClosingsIn
<1> HIDE DEF ClosingsIn
<1>4. QED
  BY <1>1, <1>2, <1>3, MinIsLeast

LEMMA ClosingInIs ==
    ASSUME NEW s, NEW i \in Nat, Len(s) \in Nat, NEW e \in i..Len(s), DepthIn(s, i, e) = 0,
           \A j \in i..e - 1 : DepthIn(s, i, j) # 0
    PROVE  ClosingParen(s, i) = e
<1> DEFINE c == ClosingParen(s, i)
<1>1. e \in ClosingsIn(s, i)
  BY ClosingsInAre
<1>2. c \in ClosingsIn(s, i) /\ c <= e
  BY <1>1, ClosingsInAre
<1>3. c \in i..Len(s)
  BY <1>2 DEF ClosingsIn
<1>4. DepthIn(s, i, c) = 0
  BY <1>2, <1>3, ClosingsInAre
<1> HIDE DEF c
<1>5. c = e
  BY <1>2, <1>3, <1>4
<1>6. QED
  BY <1>5 DEF c

Closings(i) == ClosingsIn(source, i)

LEMMA ClosingsAre ==
    ASSUME NEW i \in Nat, Len(source) \in Nat
    PROVE  /\ Closings(i) \subseteq i..Len(source)
           /\ \A j \in i..Len(source) : j \in Closings(i) <=> Depth(i, j) = 0
           /\ Closings(i) = {} => ClosingParen(source, i) = 0
           /\ Closings(i) # {} =>
                 /\ ClosingParen(source, i) \in Closings(i)
                 /\ \A j \in Closings(i) : ClosingParen(source, i) <= j
<1>1. Closings(i) \subseteq i..Len(source)
  BY DEF Closings, ClosingsIn
<1>2. QED
  BY <1>1, ClosingsInAre DEF Closings, Depth

LEMMA ClosingIs ==
    ASSUME NEW i \in Nat, Len(source) \in Nat, NEW e \in i..Len(source), Depth(i, e) = 0,
           \A j \in i..e - 1 : Depth(i, j) # 0
    PROVE  ClosingParen(source, i) = e
BY ClosingInIs DEF Depth

LEMMA ClosingBeyond ==
    ASSUME NEW i \in Nat, Len(source) \in Nat, NEW n \in Nat, \A j \in i..n : Depth(i, j) # 0
    PROVE  ClosingParen(source, i) = 0 \/ ClosingParen(source, i) > n
<1> DEFINE c == ClosingParen(source, i)
<1>1. CASE Closings(i) = {}
  BY <1>1, ClosingsAre
<1>2. CASE Closings(i) # {}
  <2>1. c \in Closings(i)
    BY <1>2, ClosingsAre
  <2>2. c \in i..Len(source)
    BY <2>1 DEF Closings, ClosingsIn
  <2>3. Depth(i, c) = 0
    BY <2>1, <2>2, ClosingsAre
  <2> HIDE DEF c
  <2>4. c > n
    BY <2>2, <2>3
  <2>5. QED
    BY <2>4 DEF c
<1>3. QED
  BY <1>1, <1>2

\* A list that is open at p and more than closed at e is closed before.
LEMMA ClosingWithin ==
    ASSUME NEW p \in Nat, Len(source) \in Nat, NEW e \in p..Len(source), source[p] = "l_paren", Depth(p, e) < 0
    PROVE  ClosingParen(source, p) \in p..e
<1> DEFINE S == {j \in p..e : Depth(p, j) <= 0}
<1> HIDE DEF S
<1>1. Depth(p, p) = 1
  BY DepthOfOpen
<1>2. Depth(p, e) \in Int
  BY DepthStep
<1>3. S \in SUBSET Nat /\ e \in S
  BY <1>2 DEF S
<1>4. PICK m \in S : \A y \in S : m <= y
  BY <1>3, MinIsLeast
<1>5. m \in p..e /\ Depth(p, m) <= 0 /\ m # p
  BY <1>1 DEF S
<1>6. m - 1 \in p..e /\ (m - 1) + 1 = m
  BY <1>5
<1>7. Depth(p, m - 1) \in Int /\ Depth(p, m) \in Int
  BY <1>5, <1>6, DepthStep
<1>8. Depth(p, m - 1) > 0
  <2>1. m - 1 \notin S
    BY <1>4, <1>6
  <2>2. QED
    BY <1>6, <1>7, <2>1 DEF S
<1>9. Depth(p, m) >= Depth(p, m - 1) - 1
  <2> DEFINE x == m - 1
  <2>1. x \in Int /\ p \in Int /\ p <= x + 1 /\ x + 1 = m
    BY <1>6
  <2> HIDE DEF x
  <2>2. /\ Depth(p, x) \in Int
        /\ source[x + 1] = "l_paren" => Depth(p, x + 1) = Depth(p, x) + 1
        /\ source[x + 1] = "r_paren" => Depth(p, x + 1) = Depth(p, x) - 1
        /\ source[x + 1] \notin {"l_paren", "r_paren"} => Depth(p, x + 1) = Depth(p, x)
    BY <2>1, DepthStep
  <2>3. Depth(p, x + 1) >= Depth(p, x) - 1
    BY <2>2
  <2>4. QED
    BY <2>1, <2>3 DEF x
<1>10. Depth(p, m) = 0
  BY <1>5, <1>7, <1>8, <1>9
<1>11. m \in Closings(p)
  BY <1>5, <1>10, ClosingsAre
<1>12. ClosingParen(source, p) \in Closings(p) /\ ClosingParen(source, p) <= m
  BY <1>11, ClosingsAre
<1>13. QED
  BY <1>5, <1>12 DEF Closings, ClosingsIn

Broken == {"semi", "l_brace", "kw_for", "other"}

\* A marker and a name without a list, or without a name.
LEMMA EndWithoutList ==
    ASSUME NEW b \in Nat
    PROVE  /\ b + 1 > Len(source) \/ source[b + 1] # "identifier" => EndOfAttribute(b) = 0
           /\ b + 1 <= Len(source) /\ source[b + 1] = "identifier"
              /\ (b + 2 > Len(source) \/ source[b + 2] # "l_paren") => EndOfAttribute(b) = b + 1
BY DEF EndOfAttribute

HasList(b) ==
    /\ b \in Nat \ {0} /\ Len(source) \in Nat /\ b + 2 <= Len(source)
    /\ source[b + 1] = "identifier" /\ source[b + 2] = "l_paren"

LEMMA EndOfList ==
    ASSUME NEW b, HasList(b)
    PROVE  EndOfAttribute(b) =
              IF \E k \in b..ClosingParen(source, b + 2) : source[k] \in Broken
              THEN 0 ELSE ClosingParen(source, b + 2)
BY DEF EndOfAttribute, HasList, Broken

LEMMA EndIsClosing ==
    ASSUME NEW b, HasList(b), NEW e \in b + 2..Len(source), Depth(b + 2, e) = 0,
           \A j \in b + 2..e - 1 : Depth(b + 2, j) # 0,
           \A k \in b..e : source[k] \notin Broken
    PROVE  EndOfAttribute(b) = e
<1>1. ClosingParen(source, b + 2) = e
  BY ClosingIs DEF HasList
<1>2. QED
  BY <1>1, EndOfList

LEMMA EndIsBroken ==
    ASSUME NEW b, HasList(b), NEW n \in b + 2..Len(source), source[n] \in Broken,
           \A j \in b + 2..n - 1 : Depth(b + 2, j) # 0
    PROVE  EndOfAttribute(b) = 0
<1> DEFINE c == ClosingParen(source, b + 2)
<1>1. c = 0 \/ c > n - 1
  BY ClosingBeyond DEF HasList
<1>2. c \in Int
  <2>1. b + 2 \in Nat
    BY DEF HasList
  <2>2. CASE Closings(b + 2) = {}
    BY <2>1, <2>2, ClosingsAre DEF HasList
  <2>3. CASE Closings(b + 2) # {}
    BY <2>1, <2>3, ClosingsAre DEF HasList
  <2>4. QED
    BY <2>2, <2>3
<1>3. EndOfAttribute(b) = IF \E k \in b..c : source[k] \in Broken THEN 0 ELSE c
  BY EndOfList
<1> HIDE DEF c
<1>4. CASE c = 0
  BY <1>3, <1>4
<1>5. CASE c > n - 1
  <2>1. n \in b..c
    BY <1>2, <1>5 DEF HasList
  <2>2. QED
    BY <1>3, <2>1
<1>6. QED
  BY <1>1, <1>4, <1>5

\* An attribute among the parameters ends where theirs do, or before.
LEMMA NestedEnd ==
    ASSUME NEW b, HasList(b), NEW e \in b + 2..Len(source), source[e] = "r_paren", Depth(b + 2, e) = 0,
           \A j \in b + 2..e - 1 : Depth(b + 2, j) >= 1,
           NEW c \in Markers, b < c, c <= e
    PROVE  EndOfAttribute(c) <= e
<1>0. b \in Nat /\ Len(source) \in Nat /\ source[b + 1] = "identifier" /\ source[b + 2] = "l_paren"
  BY DEF HasList
<1>1. c \in Nat \ {0} /\ source[c] = "at" /\ c > b + 2 /\ c < e
  <2>1. c \in DOMAIN source /\ source[c] = "at"
    BY DEF Markers
  <2>2. c # b + 1 /\ c # b + 2 /\ c # e
    BY <1>0, <2>1
  <2>3. c \in Int
    BY <1>0 DEF Markers
  <2>4. QED
    BY <1>0, <2>1, <2>2, <2>3
<1>2. CASE c + 1 > Len(source) \/ source[c + 1] # "identifier"
  BY <1>0, <1>1, <1>2, EndWithoutList
<1>3. CASE c + 1 <= Len(source) /\ source[c + 1] = "identifier"
  <2>1. c + 1 # e
    BY <1>3
  <2>2. c + 2 <= e
    BY <1>0, <1>1, <2>1
  <2>3. CASE source[c + 2] # "l_paren"
    <3>1. EndOfAttribute(c) = c + 1
      BY <1>1, <1>3, <2>3, EndWithoutList
    <3>2. QED
      BY <1>1, <2>2, <3>1
  <2>4. CASE source[c + 2] = "l_paren"
    <3>1. HasList(c)
      BY <1>0, <1>1, <1>3, <2>2, <2>4 DEF HasList
    <3> DEFINE s == b + 2
               p == c + 2
               d == Depth(s, p - 1)
    <3>2. Depth(p, e) = Depth(s, e) - d
      BY <1>0, <1>1, <2>2, DepthSplits
    <3>3. p - 1 \in s..e - 1 /\ p - 1 \in Int /\ s \in Int /\ s <= (p - 1) + 1
      BY <1>0, <1>1, <2>2
    <3>4. d >= 1
      BY <3>3
    <3>5. Depth(c + 2, e) < 0
      <4> HIDE DEF s, p
      <4>1. d \in Int
        BY <3>3, DepthStep
      <4> HIDE DEF d
      <4>2. Depth(s, e) = 0
        BY DEF s
      <4>3. Depth(p, e) < 0
        BY <3>2, <3>4, <4>1, <4>2
      <4>4. QED
        BY <4>3 DEF p
    <3>6. ClosingParen(source, c + 2) \in c + 2..e
      BY <1>0, <1>1, <2>2, <2>4, <3>5, ClosingWithin
    <3>7. QED
      BY <1>0, <1>1, <3>1, <3>6, EndOfList
  <2>5. QED
    BY <2>3, <2>4
<1>4. QED
  BY <1>0, <1>1, <1>2, <1>3

-----------------------------------------------------------------------------
(* The machine finds the attributes of the source.                         *)

Start == cursor - Len(attr)

\* The attributes that were handed over are those before the cursor.
HandedOver ==
    /\ \A n \in 1..Len(visited) :
          visited[n][1] \in OuterMarkers /\ End(n) = EndOfAttribute(visited[n][1])
    /\ \A b \in OuterMarkers : b < Start => \E n \in 1..Len(visited) : visited[n][1] = b
    /\ \A c \in Markers : c < Start =>
          \/ EndOfAttribute(c) < Start
          \/ EndOfAttribute(c) = cursor /\ state = "SearchingAttrStart" /\ source[cursor] = "r_paren"

\* What the machine knows of the attribute under way.
UnderWay ==
    /\ Len(attr) > 0 => Start \in OuterMarkers /\ \A k \in Start..cursor - 1 : source[k] \notin Broken
    /\ cursor > Len(source) => state = "SearchingAttrStart"
    /\ state = "SearchingAttrParamList" => Len(attr) = 2
    /\ state # "ParseAttrParamList" => parenDepth = 0
    /\ state = "ParseAttrParamList" =>
          /\ Len(attr) >= 3
          /\ source[Start + 2] = "l_paren"
          /\ parenDepth = Depth(Start + 2, cursor - 1)
          /\ \A j \in Start + 2..cursor - 1 : Depth(Start + 2, j) >= 1

Ended ==
    /\ status = "done" => cursor > Len(source)
    /\ status = "error" => \E b \in OuterMarkers : EndOfAttribute(b) = 0

LastToken == Len(source) \in Nat \ {0} /\ source[Len(source)] \in {"semi", "other"}

FoundInv == HandedOver /\ UnderWay /\ Ended /\ LastToken

\* The grammar depends on the source only.
LEMMA SourceStays ==
    ASSUME source' = source
    PROVE  /\ OuterMarkers' = OuterMarkers /\ Markers' = Markers
           /\ \A b : EndOfAttribute(b)' = EndOfAttribute(b)
           /\ \A i, j : Depth(i, j)' = Depth(i, j)
           /\ LastToken' = LastToken
<1>1. \A i, j : Depth(i, j)' = Depth(i, j)
  BY DEF Depth
<1>2. \A b : EndOfAttribute(b)' = EndOfAttribute(b)
  BY DEF EndOfAttribute
<1>3. Markers' = Markers
  BY DEF Markers
<1>4. OuterMarkers' = OuterMarkers
  BY <1>2, <1>3 DEF OuterMarkers
<1>5. QED
  BY <1>1, <1>2, <1>3, <1>4 DEF LastToken

LEMMA InitFound == Init => FoundInv
<1> SUFFICES ASSUME Init PROVE FoundInv
  OBVIOUS
<1>1. LastToken
  BY SourcesAssumption DEF Init, LastToken
<1>2. /\ cursor = 1 /\ attr = <<>> /\ visited = <<>> /\ state = "SearchingAttrStart"
      /\ status = "reading" /\ parenDepth = 0 /\ Start = 1 /\ Len(visited) = 0 /\ Len(attr) = 0
  BY DEF Init, Start
<1>3. \A b \in Markers : ~(b < 1)
  BY SourcesAssumption DEF Markers, Init
<1>4. HandedOver
  BY <1>2, <1>3 DEF HandedOver, OuterMarkers
<1>5. UnderWay /\ Ended
  BY <1>1, <1>2 DEF UnderWay, Ended, LastToken
<1>6. QED
  BY <1>1, <1>4, <1>5 DEF FoundInv

\* What the steps below need of the attribute under way.
Facts ==
    /\ cursor \in Nat \ {0} /\ Len(attr) \in Nat /\ Len(source) \in Nat \ {0} /\ Start \in Nat \ {0}
    /\ source \in Seq(Kind)
    /\ Markers \subseteq Nat \ {0} /\ OuterMarkers \subseteq Markers
    /\ \A c \in Markers : c <= Len(source) /\ source[c] = "at"
    /\ state = "SearchingAttrStart" => Start = cursor
    /\ state = "ParseAttrName" => cursor = Start + 1
    /\ state = "SearchingAttrParamList" => cursor = Start + 2
    /\ state = "ParseAttrParamList" => cursor >= Start + 3
    /\ state # "SearchingAttrStart" => Len(attr) > 0 /\ source[Start] = "at"
    /\ state \in {"SearchingAttrParamList", "ParseAttrParamList"} => source[Start + 1] = "identifier"

LEMMA AttributeUnderWay == Inv /\ FoundInv => Facts
<1> SUFFICES ASSUME Inv, FoundInv PROVE Facts
  OBVIOUS
<1>1. /\ cursor \in Nat \ {0} /\ Len(attr) \in Nat /\ source \in Seq(Kind) /\ state \in States
      /\ Start \in Nat \ {0}
  BY DEF Inv, Types, AttrInv, Start
<1>2. Len(source) \in Nat \ {0}
  BY DEF FoundInv, LastToken
<1>3. /\ Markers \subseteq Nat \ {0} /\ OuterMarkers \subseteq Markers
      /\ \A c \in Markers : c <= Len(source) /\ source[c] = "at"
  BY <1>1, <1>2 DEF Markers, OuterMarkers
<1>0. /\ state = "SearchingAttrStart" => Len(attr) = 0
      /\ state = "ParseAttrName" => Len(attr) = 1
      /\ state = "SearchingAttrParamList" => Len(attr) = 2
      /\ state = "ParseAttrParamList" => Len(attr) >= 3
  <2>1. (state = "SearchingAttrStart" => Len(attr) = 0) /\ (state = "ParseAttrName" => Len(attr) = 1)
    BY DEF Inv, AttrInv
  <2>2. (state = "SearchingAttrParamList" => Len(attr) = 2) /\ (state = "ParseAttrParamList" => Len(attr) >= 3)
    BY DEF FoundInv, UnderWay
  <2>3. QED
    BY <2>1, <2>2
<1>4. /\ state = "SearchingAttrStart" => Start = cursor
      /\ state = "ParseAttrName" => cursor = Start + 1
      /\ state = "SearchingAttrParamList" => cursor = Start + 2
      /\ state = "ParseAttrParamList" => cursor >= Start + 3
  <2>1. cursor \in Nat \ {0} /\ Len(attr) \in Nat
    BY <1>1
  <2>2. Len(attr) = 0 => Start = cursor
    BY <2>1 DEF Start
  <2>3. Len(attr) = 1 => cursor = Start + 1
    BY <2>1 DEF Start
  <2>4. Len(attr) = 2 => cursor = Start + 2
    BY <2>1 DEF Start
  <2>5. Len(attr) >= 3 => cursor >= Start + 3
    BY <2>1 DEF Start
  <2>6. QED
    BY <1>0, <2>2, <2>3, <2>4, <2>5
<1>5. state # "SearchingAttrStart" => Len(attr) > 0
  BY <1>0, <1>1 DEF States
<1>6. Len(attr) > 0 => attr[1] = Start /\ source[Start] = "at"
  BY <1>1 DEF Inv, AttrInv, Start
<1>7. state \in {"SearchingAttrParamList", "ParseAttrParamList"} => source[Start + 1] = "identifier"
  <2> SUFFICES ASSUME state \in {"SearchingAttrParamList", "ParseAttrParamList"}
               PROVE  source[Start + 1] = "identifier"
    OBVIOUS
  <2>1. Len(attr) >= 2 /\ source[attr[2]] = "identifier"
    BY DEF Inv, AttrInv
  <2>2. attr[2] = cursor - Len(attr) + 2 - 1
    BY <1>1, <2>1 DEF Inv, AttrInv
  <2>3. attr[2] = Start + 1
    BY <1>1, <2>2 DEF Start
  <2>4. QED
    BY <2>1, <2>3
<1>8. QED
  BY <1>1, <1>2, <1>3, <1>4, <1>5, <1>6, <1>7 DEF Facts

LEMMA EndIsInt == ASSUME Inv, FoundInv, NEW c \in Markers PROVE EndOfAttribute(c) \in Nat
<1>1. c \in Nat \ {0} /\ Len(source) \in Nat /\ c <= Len(source)
  BY AttributeUnderWay DEF Facts
<1>2. CASE c + 1 > Len(source) \/ source[c + 1] # "identifier"
  BY <1>1, <1>2, EndWithoutList
<1>3. CASE /\ c + 1 <= Len(source) /\ source[c + 1] = "identifier"
           /\ (c + 2 > Len(source) \/ source[c + 2] # "l_paren")
  BY <1>1, <1>3, EndWithoutList
<1>4. CASE HasList(c)
  <2>1. ClosingParen(source, c + 2) \in Nat
    <3>1. c + 2 \in Nat
      BY <1>1
    <3>2. CASE Closings(c + 2) = {}
      BY <1>1, <3>1, <3>2, ClosingsAre
    <3>3. CASE Closings(c + 2) # {}
      <4>1. ClosingParen(source, c + 2) \in Closings(c + 2)
        BY <1>1, <3>1, <3>3, ClosingsAre
      <4>2. QED
        BY <1>1, <3>1, <4>1, ClosingsAre
    <3>4. QED
      BY <3>2, <3>3
  <2>2. QED
    BY <1>4, <2>1, EndOfList
<1>5. QED
  BY <1>1, <1>2, <1>3, <1>4 DEF HasList

\* A marker that is not among the parameters of an attribute.
LEMMA MarkerIsOuter ==
    ASSUME Inv, FoundInv, state = "SearchingAttrStart", cursor <= Len(source), Token = "at"
    PROVE  cursor \in OuterMarkers
<1>1. cursor \in Markers
  BY AttributeUnderWay DEF Facts, Markers, Token
<1>2. ASSUME NEW c \in Markers, c < cursor PROVE EndOfAttribute(c) < cursor
  BY <1>2, AttributeUnderWay DEF Facts, FoundInv, HandedOver, Token
<1>3. QED
  BY <1>1, <1>2 DEF OuterMarkers

LEMMA TakeTokenFound ==
    ASSUME Inv, FoundInv, TakeToken, cursor <= Len(source), status = "reading", Token \notin Broken,
           state = "SearchingAttrStart" => Token = "at",
           state' # "SearchingAttrStart"
    PROVE  /\ HandedOver' /\ Ended' /\ LastToken'
           /\ Start' = Start /\ cursor' = cursor + 1 /\ Len(attr') = Len(attr) + 1
           /\ Start' \in OuterMarkers' /\ cursor' <= Len(source')
           /\ \A k \in Start'..cursor' - 1 : source'[k] \notin Broken
<1>0. Facts
  BY AttributeUnderWay
<1> USE <1>0 DEF Facts
<1>1. UNCHANGED <<source, visited, status>> /\ cursor' = cursor + 1 /\ attr' = Append(attr, cursor)
  BY DEF TakeToken, outVars
<1>2. Len(attr') = Len(attr) + 1
  BY <1>1 DEF Inv, Types
<1>3. Start' = Start
  BY <1>1, <1>2 DEF Start
<1>4. /\ OuterMarkers' = OuterMarkers /\ Markers' = Markers /\ LastToken'
      /\ \A b : EndOfAttribute(b)' = EndOfAttribute(b)
  BY <1>1, SourceStays DEF FoundInv
<1>5. \A c \in Markers : c < Start => EndOfAttribute(c) < Start
  BY DEF FoundInv, HandedOver, Token
<1>6. HandedOver'
  <2>1. \A n \in 1..Len(visited) :
           visited[n][1] \in OuterMarkers /\ End(n) = EndOfAttribute(visited[n][1])
    BY DEF FoundInv, HandedOver
  <2>2. \A b \in OuterMarkers : b < Start => \E n \in 1..Len(visited) : visited[n][1] = b
    BY DEF FoundInv, HandedOver
  <2>3. \A n : End(n)' = End(n)
    BY <1>1 DEF End
  <2>4. QED
    BY <1>1, <1>3, <1>4, <1>5, <2>1, <2>2, <2>3 DEF HandedOver
<1>7. Ended'
  BY <1>1 DEF Ended
<1>8. cursor < Len(source)
  <2>1. cursor # Len(source)
    BY DEF FoundInv, LastToken, Token, Broken
  <2>2. QED
    BY <2>1
<1>9. Start \in OuterMarkers
  <2>1. CASE state = "SearchingAttrStart"
    BY <2>1, MarkerIsOuter
  <2>2. CASE state # "SearchingAttrStart"
    BY <2>2 DEF FoundInv, UnderWay
  <2>3. QED
    BY <2>1, <2>2
<1>10. \A k \in Start..cursor : source[k] \notin Broken
  <2> SUFFICES ASSUME NEW k \in Start..cursor PROVE source[k] \notin Broken
    OBVIOUS
  <2>1. CASE k = cursor
    BY <2>1 DEF Token
  <2>2. CASE k # cursor
    <3>1. k \in Start..cursor - 1 /\ Len(attr) > 0
      BY <2>2
    <3>2. QED
      BY <3>1 DEF FoundInv, UnderWay
  <2>3. QED
    BY <2>1, <2>2
<1>11. QED
  <2>1. cursor' - 1 = cursor /\ cursor' <= Len(source')
    BY <1>1, <1>8
  <2>2. QED
    BY <1>1, <1>2, <1>3, <1>4, <1>6, <1>7, <1>9, <1>10, <2>1

LEMMA SkipFound == Inv /\ FoundInv /\ Skip => FoundInv'
<1> SUFFICES ASSUME Inv, FoundInv, Skip PROVE FoundInv'
  OBVIOUS
<1>0. Facts
  BY AttributeUnderWay
<1> USE <1>0 DEF Facts
<1>1. /\ state = "SearchingAttrStart" /\ Token # "at" /\ cursor' = cursor + 1 /\ status = "reading"
      /\ UNCHANGED <<source, state, attr, visited, parenDepth, status>>
  BY DEF Skip, Reading, outVars
<1>2. /\ OuterMarkers' = OuterMarkers /\ Markers' = Markers /\ LastToken'
      /\ \A b : EndOfAttribute(b)' = EndOfAttribute(b)
  BY <1>1, SourceStays DEF FoundInv
<1>3. Start = cursor /\ Start' = cursor + 1 /\ Len(attr) = 0
  BY <1>1 DEF Start, Inv, AttrInv
<1>4. \A c \in Markers : c < cursor + 1 => c < cursor
  BY <1>1 DEF Token
<1>5. \A c \in Markers : c < cursor + 1 => EndOfAttribute(c) < cursor + 1
  <2> SUFFICES ASSUME NEW c \in Markers, c < cursor + 1 PROVE EndOfAttribute(c) < cursor + 1
    OBVIOUS
  <2>1. c < Start
    BY <1>3, <1>4
  <2>2. EndOfAttribute(c) < Start \/ EndOfAttribute(c) = cursor
    BY <2>1 DEF FoundInv, HandedOver
  <2>3. EndOfAttribute(c) \in Nat
    BY EndIsInt
  <2>4. QED
    BY <1>3, <2>2, <2>3
<1>6. HandedOver'
  <2>1. \A n \in 1..Len(visited) :
           visited[n][1] \in OuterMarkers /\ End(n) = EndOfAttribute(visited[n][1])
    BY DEF FoundInv, HandedOver
  <2>2. \A b \in OuterMarkers : b < cursor + 1 => \E n \in 1..Len(visited) : visited[n][1] = b
    BY <1>3, <1>4 DEF FoundInv, HandedOver
  <2>3. \A n : End(n)' = End(n)
    BY <1>1 DEF End
  <2>4. QED
    BY <1>1, <1>2, <1>3, <1>5, <2>1, <2>2, <2>3 DEF HandedOver
<1>7. UnderWay'
  BY <1>1, <1>3 DEF FoundInv, UnderWay
<1>8. Ended'
  BY <1>1 DEF Ended
<1>9. QED
  BY <1>2, <1>6, <1>7, <1>8 DEF FoundInv

LEMMA FindMarkerFound == Inv /\ FoundInv /\ (FindMarker \/ ParseName) => FoundInv'
<1> SUFFICES ASSUME Inv, FoundInv, FindMarker \/ ParseName PROVE FoundInv'
  OBVIOUS
<1>0. Facts
  BY AttributeUnderWay
<1> USE <1>0 DEF Facts
<1>1. /\ TakeToken /\ cursor <= Len(source) /\ status = "reading" /\ Token \in {"at", "identifier"}
      /\ state = "SearchingAttrStart" => Token = "at"
      /\ \/ state = "SearchingAttrStart" /\ state' = "ParseAttrName"
         \/ state = "ParseAttrName" /\ state' = "SearchingAttrParamList"
      /\ parenDepth' = parenDepth
  BY DEF FindMarker, ParseName, Reading
<1>2. /\ HandedOver' /\ Ended' /\ LastToken'
      /\ Start' = Start /\ cursor' = cursor + 1 /\ Len(attr') = Len(attr) + 1
      /\ Start' \in OuterMarkers' /\ cursor' <= Len(source')
      /\ \A k \in Start'..cursor' - 1 : source'[k] \notin Broken
  BY <1>1, TakeTokenFound DEF Broken
<1>3. state = "ParseAttrName" => Len(attr) = 1
  BY DEF Inv, AttrInv
<1>4. parenDepth = 0
  BY <1>1 DEF FoundInv, UnderWay
<1>5. Len(source') \in Nat
  BY <1>2 DEF LastToken
<1>6. UnderWay'
  <2>1. cursor' > Len(source') => FALSE
    BY <1>2, <1>5
  <2>2. state' = "SearchingAttrParamList" => Len(attr') = 2
    <3>1. state' = "SearchingAttrParamList" => Len(attr) = 1
      BY <1>1, <1>3
    <3>2. Len(attr) = 1 => Len(attr') = 2
      BY <1>2
    <3>3. QED
      BY <3>1, <3>2
  <2>3. state' # "ParseAttrParamList" /\ parenDepth' = 0
    BY <1>1, <1>4
  <2>4. QED
    BY <1>2, <2>1, <2>2, <2>3 DEF UnderWay
<1>7. QED
  BY <1>2, <1>6 DEF FoundInv

LEMMA OpenFound == Inv /\ FoundInv /\ OpenParamList => FoundInv'
<1> SUFFICES ASSUME Inv, FoundInv, OpenParamList PROVE FoundInv'
  OBVIOUS
<1>0. Facts
  BY AttributeUnderWay
<1> USE <1>0 DEF Facts
<1>1. /\ TakeToken /\ cursor <= Len(source) /\ status = "reading" /\ Token = "l_paren"
      /\ state = "SearchingAttrParamList" /\ state' = "ParseAttrParamList"
      /\ parenDepth' = parenDepth + 1
  BY DEF OpenParamList, Reading
<1>2. /\ HandedOver' /\ Ended' /\ LastToken'
      /\ Start' = Start /\ cursor' = cursor + 1 /\ Len(attr') = Len(attr) + 1
      /\ Start' \in OuterMarkers' /\ cursor' <= Len(source')
      /\ \A k \in Start'..cursor' - 1 : source'[k] \notin Broken
  BY <1>1, TakeTokenFound DEF Broken
<1>3. cursor = Start + 2 /\ parenDepth = 0 /\ Len(attr) = 2
  BY <1>1 DEF FoundInv, UnderWay
<1>4. Depth(cursor, cursor) = 1
  BY <1>1, DepthOfOpen DEF Token
<1>5. source' = source /\ \A i, j : Depth(i, j)' = Depth(i, j)
  BY <1>1, SourceStays DEF TakeToken
<1>6. UnderWay'
  <2>1. Len(attr') = 3 /\ Start' + 2 = cursor /\ cursor' - 1 = cursor /\ parenDepth' = 1
    BY <1>1, <1>2, <1>3
  <2>2. source'[Start' + 2] = "l_paren"
    BY <1>1, <1>5, <2>1 DEF Token
  <2>3. \A i, j : i = cursor /\ j = cursor => Depth(i, j)' = 1
    BY <1>4, <1>5
  <2>4. Depth(Start + 2, cursor - 1)' = 1
    BY <2>1, <2>3
  <2>5. \A j \in (Start + 2)'..(cursor' - 1) : Depth(Start + 2, j)' >= 1
    BY <2>1, <2>3
  <2>6. ~(cursor' > Len(source'))
    BY <1>2 DEF LastToken
  <2>7. state' = "ParseAttrParamList" /\ Len(attr') >= 3
    BY <1>1, <2>1
  <2>8. QED
    BY <1>2, <2>1, <2>2, <2>4, <2>5, <2>6, <2>7 DEF UnderWay
<1>7. QED
  BY <1>2, <1>6 DEF FoundInv

LEMMA TakeParamFound == Inv /\ FoundInv /\ TakeParam => FoundInv'
<1> SUFFICES ASSUME Inv, FoundInv, TakeParam PROVE FoundInv'
  OBVIOUS
<1>0. Facts
  BY AttributeUnderWay
<1> USE <1>0 DEF Facts
<1>1. /\ TakeToken /\ cursor <= Len(source) /\ status = "reading"
      /\ Token \in {"at", "identifier", "param", "l_paren", "r_paren"}
      /\ Token = "r_paren" => parenDepth # 1
      /\ state = "ParseAttrParamList" /\ state' = state
  BY DEF TakeParam, Reading, ClosesParamList
<1>2. /\ Token = "l_paren" => parenDepth' = parenDepth + 1
      /\ Token = "r_paren" => parenDepth' = parenDepth - 1
      /\ Token \notin {"l_paren", "r_paren"} => parenDepth' = parenDepth
  BY DEF TakeParam
<1>3. /\ HandedOver' /\ Ended' /\ LastToken'
      /\ Start' = Start /\ cursor' = cursor + 1 /\ Len(attr') = Len(attr) + 1
      /\ Start' \in OuterMarkers' /\ cursor' <= Len(source')
      /\ \A k \in Start'..cursor' - 1 : source'[k] \notin Broken
  BY <1>1, TakeTokenFound DEF Broken
<1>4. /\ source[Start + 2] = "l_paren" /\ parenDepth = Depth(Start + 2, cursor - 1) /\ Len(attr) >= 3
      /\ \A j \in Start + 2..cursor - 1 : Depth(Start + 2, j) >= 1
      /\ cursor >= Start + 3
  BY <1>1 DEF FoundInv, UnderWay
<1>5. source' = source /\ \A i, j : Depth(i, j)' = Depth(i, j)
  BY <1>1, SourceStays DEF TakeToken
<1>6. parenDepth' = Depth(Start + 2, cursor) /\ Depth(Start + 2, cursor) >= 1
  <2> DEFINE x == cursor - 1
             s == Start + 2
  <2>1. x \in Int /\ x + 1 = cursor /\ s \in Int /\ s <= x /\ s <= x + 1 /\ x \in s..x
    BY <1>4
  <2>2. parenDepth = Depth(s, x) /\ Depth(s, x) >= 1 /\ Token = source[x + 1]
    BY <1>4, <2>1 DEF Token
  <2> HIDE DEF x, s
  <2>3. /\ Depth(s, x) \in Int
        /\ Token = "l_paren" => Depth(s, x + 1) = Depth(s, x) + 1
        /\ Token = "r_paren" => Depth(s, x + 1) = Depth(s, x) - 1
        /\ Token \notin {"l_paren", "r_paren"} => Depth(s, x + 1) = Depth(s, x)
    BY <2>1, <2>2, DepthStep
  <2>4. parenDepth' = Depth(s, x + 1) /\ Depth(s, x + 1) >= 1
    <3>1. CASE Token = "l_paren"
      BY <1>2, <2>2, <2>3, <3>1
    <3>2. CASE Token = "r_paren"
      BY <1>1, <1>2, <2>2, <2>3, <3>2
    <3>3. CASE Token \notin {"l_paren", "r_paren"}
      BY <1>2, <2>2, <2>3, <3>3
    <3>4. QED
      BY <3>1, <3>2, <3>3
  <2>5. QED
    BY <2>1, <2>4 DEF s
<1>7. UnderWay'
  <2>1. cursor' - 1 = cursor
    BY <1>3
  <2>2. \A j \in Start + 2..cursor : Depth(Start + 2, j) >= 1
    BY <1>4, <1>6
  <2>3. \A j \in (Start + 2)'..(cursor' - 1) : Depth(Start + 2, j)' >= 1
    BY <1>3, <1>5, <2>1, <2>2
  <2>4. parenDepth' = Depth(Start + 2, cursor - 1)'
    <3>1. \A i, j : i = Start + 2 /\ j = cursor => Depth(i, j)' = parenDepth'
      BY <1>5, <1>6
    <3>2. QED
      BY <1>3, <2>1, <3>1
  <2>5. Len(source') \in Nat /\ source'[Start' + 2] = "l_paren"
    BY <1>3, <1>4, <1>5 DEF LastToken
  <2>6. QED
    BY <1>1, <1>3, <1>4, <2>3, <2>4, <2>5 DEF UnderWay
<1>8. QED
  BY <1>3, <1>7 DEF FoundInv

\* An attribute is handed over that begins at Start and ends where the
\* grammar says, before the cursor or on it.
LEMMA AttrParsedFound ==
    ASSUME Inv, FoundInv, NEW a \in Seq(Nat), AttrParsed(a), IsAttribute(a), cursor <= Len(source),
           status = "reading", state # "SearchingAttrStart", parenDepth' = 0, a[1] = Start,
           a[Len(a)] = EndOfAttribute(Start),
           \/ a[Len(a)] = cursor - 1
           \/ a[Len(a)] = cursor /\ source[cursor] = "r_paren",
           \A c \in Markers : Start < c /\ c < cursor => EndOfAttribute(c) <= EndOfAttribute(Start)
    PROVE  FoundInv'
<1>0. Facts
  BY AttributeUnderWay
<1> USE <1>0 DEF Facts
<1> DEFINE e == EndOfAttribute(Start)
<1>1. /\ attr' = <<>> /\ state' = "SearchingAttrStart" /\ UNCHANGED <<source, cursor>>
      /\ visited' = Append(visited, a)
      /\ status' \in {"reading", "stopped"}
  <2>1. status' \in {status, "stopped"}
    BY DEF AttrParsed, Visit, MoveBeforeFor, ReplaceInPlace
  <2>2. QED
    BY <2>1 DEF AttrParsed, Visit, ResetAttr
<1>2. /\ OuterMarkers' = OuterMarkers /\ Markers' = Markers /\ LastToken'
      /\ \A b : EndOfAttribute(b)' = EndOfAttribute(b)
  BY <1>1, SourceStays DEF FoundInv
<1>3. Start' = cursor /\ Len(attr') = 0
  BY <1>1 DEF Start
<1>4. /\ Len(visited) \in Nat /\ Len(visited') = Len(visited) + 1
      /\ \A n \in 1..Len(visited) : visited'[n] = visited[n]
      /\ visited'[Len(visited) + 1] = a
  BY <1>1 DEF Inv, Types
<1>5. e = cursor - 1 \/ (e = cursor /\ source[cursor] = "r_paren")
  OBVIOUS
<1>6. Start \in OuterMarkers /\ Start < cursor
  <2>1. Len(attr) > 0
    OBVIOUS
  <2>2. Start < cursor
    BY <2>1 DEF Start
  <2>3. QED
    BY <2>1, <2>2 DEF FoundInv, UnderWay
<1>7. \A c \in Markers : c < Start => EndOfAttribute(c) < Start
  BY DEF FoundInv, HandedOver
<1> HIDE DEF e
<1>8. \A n \in 1..Len(visited') : visited'[n][1] \in OuterMarkers /\ End(n)' = EndOfAttribute(visited'[n][1])
  <2> SUFFICES ASSUME NEW n \in 1..Len(visited')
               PROVE  visited'[n][1] \in OuterMarkers /\ End(n)' = EndOfAttribute(visited'[n][1])
    OBVIOUS
  <2>1. CASE n \in 1..Len(visited)
    <3>1. visited[n][1] \in OuterMarkers /\ End(n) = EndOfAttribute(visited[n][1])
      BY <2>1 DEF FoundInv, HandedOver
    <3>2. QED
      BY <1>4, <2>1, <3>1 DEF End
  <2>2. CASE n = Len(visited) + 1
    BY <1>4, <1>6, <2>2 DEF End
  <2>3. QED
    BY <1>4, <2>1, <2>2
<1>9. \A b \in OuterMarkers : b < cursor => \E n \in 1..Len(visited') : visited'[n][1] = b
  <2> SUFFICES ASSUME NEW b \in OuterMarkers, b < cursor PROVE \E n \in 1..Len(visited') : visited'[n][1] = b
    OBVIOUS
  <2>1. CASE b < Start
    <3>1. PICK n \in 1..Len(visited) : visited[n][1] = b
      BY <2>1 DEF FoundInv, HandedOver
    <3>2. n \in 1..Len(visited') /\ visited'[n][1] = b
      BY <1>4, <3>1
    <3>3. QED
      BY <3>2
  <2>2. CASE b = Start
    BY <1>4, <2>2
  <2>3. CASE b > Start
    <3>1. e < b
      BY <1>6, <2>3 DEF OuterMarkers, e
    <3>2. QED
      BY <1>5, <3>1
  <2>4. b \in Nat
    OBVIOUS
  <2>5. QED
    BY <2>1, <2>2, <2>3, <2>4
<1>10. \A c \in Markers : c < cursor =>
          EndOfAttribute(c) < cursor \/ (EndOfAttribute(c) = cursor /\ source[cursor] = "r_paren")
  <2> SUFFICES ASSUME NEW c \in Markers, c < cursor
               PROVE  EndOfAttribute(c) < cursor \/ (EndOfAttribute(c) = cursor /\ source[cursor] = "r_paren")
    OBVIOUS
  <2>1. EndOfAttribute(c) \in Int
    BY EndIsInt
  <2>2. CASE c < Start
    BY <1>6, <1>7, <2>1, <2>2
  <2>3. CASE c = Start
    BY <1>5, <2>3 DEF e
  <2>4. CASE c > Start
    <3>1. EndOfAttribute(c) <= e
      BY <2>4 DEF e
    <3>2. QED
      BY <1>5, <2>1, <3>1
  <2>5. QED
    BY <2>2, <2>3, <2>4
<1>11. HandedOver'
  <2>1. \A n \in 1..Len(visited') :
           visited'[n][1] \in OuterMarkers' /\ End(n)' = EndOfAttribute(visited[n][1])'
    BY <1>2, <1>8
  <2>2. \A b \in OuterMarkers' : b < Start' => \E n \in 1..Len(visited') : visited'[n][1] = b
    BY <1>2, <1>3, <1>9
  <2>3. \A c \in Markers' : c < Start' =>
           \/ EndOfAttribute(c)' < Start'
           \/ EndOfAttribute(c)' = cursor' /\ state' = "SearchingAttrStart" /\ source'[cursor'] = "r_paren"
    BY <1>1, <1>2, <1>3, <1>10
  <2>4. QED
    BY <2>1, <2>2, <2>3 DEF HandedOver
<1>12. UnderWay' /\ Ended'
  BY <1>1, <1>3 DEF UnderWay, Ended
<1>13. QED
  BY <1>2, <1>11, <1>12 DEF FoundInv

LEMMA NoParamListFound == Inv /\ FoundInv /\ NoParamList => FoundInv'
<1> SUFFICES ASSUME Inv, FoundInv, NoParamList PROVE FoundInv'
  OBVIOUS
<1>0. Facts
  BY AttributeUnderWay
<1> USE <1>0 DEF Facts
<1>1. /\ state = "SearchingAttrParamList" /\ AttrParsed(attr) /\ Token # "l_paren" /\ cursor <= Len(source)
      /\ status = "reading" /\ parenDepth' = parenDepth
  BY DEF NoParamList, Reading
<1>2. cursor = Start + 2 /\ Len(attr) = 2 /\ parenDepth = 0
  BY <1>1 DEF FoundInv, UnderWay
<1>3. attr \in Seq(Nat) /\ \A j \in 1..Len(attr) : attr[j] = Start + j - 1
  BY DEF Inv, Types, AttrInv, Start
<1>4. attr[1] = Start /\ attr[Len(attr)] = cursor - 1
  BY <1>2, <1>3
<1>5. EndOfAttribute(Start) = cursor - 1
  BY <1>1, <1>2, EndWithoutList DEF Token
<1>6. IsAttribute(attr)
  BY <1>1, <1>2, <1>3, <1>4 DEF IsAttribute, Inv, AttrInv
<1>7. \A c \in Markers : Start < c /\ c < cursor => FALSE
  BY <1>1, <1>2
<1>8. QED
  BY <1>1, <1>2, <1>3, <1>4, <1>5, <1>6, <1>7, AttrParsedFound

LEMMA CloseFound == Inv /\ FoundInv /\ CloseParamList => FoundInv'
<1> SUFFICES ASSUME Inv, FoundInv, CloseParamList PROVE FoundInv'
  OBVIOUS
<1>0. Facts
  BY AttributeUnderWay
<1> USE <1>0 DEF Facts
<1> DEFINE a == Append(attr, cursor)
<1>1. /\ state = "ParseAttrParamList" /\ AttrParsed(a) /\ Token = "r_paren" /\ cursor <= Len(source)
      /\ status = "reading" /\ parenDepth = 1 /\ parenDepth' = 0
  <2>1. parenDepth = 1 /\ parenDepth' = parenDepth - 1
    BY DEF CloseParamList, ClosesParamList
  <2>2. QED
    BY <2>1 DEF CloseParamList, Reading
<1>2. /\ source[Start + 2] = "l_paren" /\ 1 = Depth(Start + 2, cursor - 1) /\ Len(attr) >= 3
      /\ \A j \in Start + 2..cursor - 1 : Depth(Start + 2, j) >= 1
      /\ \A k \in Start..cursor - 1 : source[k] \notin Broken
      /\ cursor >= Start + 3 /\ source[Start + 1] = "identifier"
  BY <1>1 DEF FoundInv, UnderWay
<1>3. HasList(Start) /\ cursor \in Start + 2..Len(source) /\ source[cursor] = "r_paren"
  BY <1>1, <1>2 DEF HasList, Token
<1>4. Depth(Start + 2, cursor) = 0
  <2> DEFINE x == cursor - 1
             s == Start + 2
  <2>1. x \in Int /\ x + 1 = cursor /\ s \in Int /\ s <= x + 1
    BY <1>2
  <2>2. Depth(s, x) = 1 /\ source[x + 1] = "r_paren"
    BY <1>2, <1>3, <2>1
  <2> HIDE DEF x, s
  <2>3. Depth(s, x + 1) = Depth(s, x) - 1
    BY <2>1, <2>2, DepthStep
  <2>4. QED
    BY <2>1, <2>2, <2>3 DEF s
<1>5. EndOfAttribute(Start) = cursor
  <2>1. \A j \in Start + 2..cursor - 1 : Depth(Start + 2, j) # 0
    BY <1>2
  <2>2. \A k \in Start..cursor : source[k] \notin Broken
    BY <1>2, <1>3 DEF Broken
  <2>3. QED
    BY <1>3, <1>4, <2>1, <2>2, EndIsClosing
<1>6. \A c \in Markers : Start < c /\ c < cursor => EndOfAttribute(c) <= cursor
  BY <1>2, <1>3, <1>4, NestedEnd
<1>7. a \in Seq(Nat) /\ a[1] = Start /\ a[Len(a)] = cursor /\ IsAttribute(a)
  <2>1. /\ a \in Seq(Nat) /\ Len(a) = Len(attr) + 1 /\ a[Len(a)] = cursor
        /\ \A j \in 1..Len(attr) : a[j] = attr[j]
    BY DEF Inv, Types
  <2>2. \A j \in 1..Len(attr) : attr[j] = Start + j - 1
    BY DEF Inv, AttrInv, Start
  <2> HIDE DEF a
  <2>3. \A j \in 1..Len(a) : a[j] = Start + j - 1
    <3> SUFFICES ASSUME NEW j \in 1..Len(a) PROVE a[j] = Start + j - 1
      OBVIOUS
    <3>1. CASE j \in 1..Len(attr)
      BY <2>1, <2>2, <3>1
    <3>2. CASE j = Len(attr) + 1
      BY <2>1, <3>2 DEF Start
    <3>3. QED
      BY <2>1, <3>1, <3>2
  <2>4. a[1] = Start /\ a[2] = Start + 1
    BY <1>2, <2>1, <2>3
  <2>5. IsAttribute(a)
    BY <1>1, <1>2, <2>1, <2>3, <2>4 DEF IsAttribute
  <2>6. QED
    BY <2>1, <2>4, <2>5
<1> HIDE DEF a
<1>8. QED
  BY <1>1, <1>3, <1>5, <1>6, <1>7, AttrParsedFound

LEMMA MalformedFound == Inv /\ FoundInv /\ Malformed => FoundInv'
<1> SUFFICES ASSUME Inv, FoundInv, Malformed PROVE FoundInv'
  OBVIOUS
<1>0. Facts
  BY AttributeUnderWay
<1> USE <1>0 DEF Facts
<1>1. status' = "error" /\ UNCHANGED <<source, cursor, state, attr, parenDepth, visited>>
  BY DEF Malformed, fsmVars, outVars
<1>2. /\ OuterMarkers' = OuterMarkers /\ Markers' = Markers /\ LastToken'
      /\ (\A b : EndOfAttribute(b)' = EndOfAttribute(b))
      /\ \A i, j : Depth(i, j)' = Depth(i, j)
  BY <1>1, SourceStays DEF FoundInv
<1>3. Start' = Start /\ \A n : End(n)' = End(n)
  BY <1>1 DEF Start, End
<1>4. HandedOver'
  BY <1>1, <1>2, <1>3 DEF FoundInv, HandedOver
<1>5. UnderWay'
  BY <1>1, <1>2, <1>3 DEF FoundInv, UnderWay
<1>6. Start \in OuterMarkers /\ EndOfAttribute(Start) = 0
  <2>1. CASE Reading("ParseAttrName") /\ Token # "identifier"
    <3>1. cursor = Start + 1 /\ Start \in OuterMarkers
      BY <2>1 DEF Reading, FoundInv, UnderWay
    <3>2. QED
      BY <2>1, <3>1, EndWithoutList DEF Token
  <2>2. CASE Reading("ParseAttrParamList") /\ Token \in Broken
    <3>1. state = "ParseAttrParamList" /\ cursor <= Len(source) /\ Start \in OuterMarkers
      BY <2>2 DEF Reading, FoundInv, UnderWay
    <3>2. /\ source[Start + 2] = "l_paren" /\ source[Start + 1] = "identifier" /\ cursor >= Start + 3
          /\ \A j \in Start + 2..cursor - 1 : Depth(Start + 2, j) >= 1
      BY <3>1 DEF FoundInv, UnderWay
    <3>3. HasList(Start) /\ cursor \in Start + 2..Len(source) /\ source[cursor] \in Broken
      BY <2>2, <3>1, <3>2 DEF HasList, Token
    <3>4. \A j \in Start + 2..cursor - 1 : Depth(Start + 2, j) # 0
      BY <3>2
    <3>5. QED
      BY <3>1, <3>3, <3>4, EndIsBroken
  <2>3. QED
    BY <2>1, <2>2 DEF Malformed, Broken
<1>7. Ended'
  BY <1>1, <1>2, <1>6 DEF Ended
<1>8. QED
  BY <1>2, <1>4, <1>5, <1>7 DEF FoundInv

LEMMA FinishFound == Inv /\ FoundInv /\ (Finish \/ UNCHANGED vars) => FoundInv'
<1> SUFFICES ASSUME Inv, FoundInv, Finish \/ UNCHANGED vars PROVE FoundInv'
  OBVIOUS
<1>1. /\ UNCHANGED <<source, cursor, state, attr, parenDepth, visited>>
      /\ status' = status \/ (status' = "done" /\ cursor > Len(source))
  BY DEF Finish, vars, fsmVars, outVars
<1>2. /\ OuterMarkers' = OuterMarkers /\ Markers' = Markers /\ LastToken'
      /\ (\A b : EndOfAttribute(b)' = EndOfAttribute(b))
      /\ \A i, j : Depth(i, j)' = Depth(i, j)
  BY <1>1, SourceStays DEF FoundInv
<1>3. Start' = Start /\ \A n : End(n)' = End(n)
  BY <1>1 DEF Start, End
<1>4. HandedOver'
  BY <1>1, <1>2, <1>3 DEF FoundInv, HandedOver
<1>5. UnderWay'
  BY <1>1, <1>2, <1>3 DEF FoundInv, UnderWay
<1>6. Ended'
  BY <1>1, <1>2 DEF FoundInv, Ended
<1>7. QED
  BY <1>2, <1>4, <1>5, <1>6 DEF FoundInv

LEMMA FoundInvariance == Spec => [](Inv /\ FoundInv)
<1>1. Inv /\ FoundInv /\ [Next]_vars => (Inv /\ FoundInv)'
  <2> SUFFICES ASSUME Inv, FoundInv, [Next]_vars PROVE Inv' /\ FoundInv'
    OBVIOUS
  <2>1. Inv'
    BY NextInv
  <2>2. FoundInv'
    BY SkipFound, FindMarkerFound, OpenFound, NoParamListFound, CloseFound, TakeParamFound, MalformedFound,
       FinishFound DEF Next
  <2>3. QED
    BY <2>1, <2>2
<1>2. QED
  BY <1>1, InitInv, InitFound, PTL DEF Spec

LEMMA FirstAndLast ==
    ASSUME Inv, NEW n \in 1..Len(visited)
    PROVE  /\ visited[n] \in Seq(Nat) /\ visited[n][1] \in Nat /\ Len(visited[n]) \in Nat \ {0, 1}
           /\ End(n) \in Nat /\ End(n) = visited[n][1] + Len(visited[n]) - 1
           /\ visited[n][1] < End(n)
<1> DEFINE a == visited[n]
<1>1. a \in Seq(Nat) /\ Len(a) >= 2 /\ \A j \in 1..Len(a) : a[j] = a[1] + j - 1
  BY VisitedAreSeqs DEF Inv, IsAttribute
<1>2. End(n) = a[Len(a)]
  BY DEF End
<1> HIDE DEF a
<1>3. Len(a) \in Nat /\ Len(a) \in 1..Len(a) /\ 1 \in 1..Len(a)
  BY <1>1
<1>4. a[1] \in Nat /\ a[Len(a)] \in Nat /\ a[Len(a)] = a[1] + Len(a) - 1
  <2>1. \A j \in 1..Len(a) : a[j] \in Nat
    BY <1>1
  <2>2. QED
    BY <1>1, <1>3, <2>1
<1>5. QED
  BY <1>1, <1>2, <1>3, <1>4 DEF a

\* The state machine of the traverser, which only knows a depth and its state,
\* finds the attributes of any source, and fails exactly on a malformed one.
THEOREM MachineFindsAttributes == Spec => []AttributesFound
<1>1. ASSUME Inv, FoundInv PROVE AttributesFound
  <2>0. Facts
    BY <1>1, AttributeUnderWay
  <2> USE <1>1, <2>0 DEF Facts
  <2>1. status = "error" => \E b \in OuterMarkers : EndOfAttribute(b) = 0
    BY DEF FoundInv, Ended
  <2>2. DOMAIN visited = 1..Len(visited) /\ Len(visited) \in Nat
    BY DEF Inv, Types
  <2>3. ASSUME status = "done"
        PROVE  ToSet(visited) = Attributes
    <3>1. cursor > Len(source) /\ state = "SearchingAttrStart" /\ Start = cursor
      BY <2>3 DEF FoundInv, Ended, UnderWay
    <3>2. ASSUME NEW n \in 1..Len(visited)
          PROVE  visited[n][1] \in OuterMarkers /\ visited[n] = AttributeAt(visited[n][1])
      <4> DEFINE a == visited[n]
                 b == visited[n][1]
                 e == EndOfAttribute(b)
      <4>1. b \in OuterMarkers /\ a[Len(a)] = e
        BY <3>2 DEF FoundInv, HandedOver, End
      <4>2. a \in Seq(Nat) /\ Len(a) >= 2 /\ \A j \in 1..Len(a) : a[j] = b + j - 1
        BY <3>2, VisitedAreSeqs DEF Inv, IsAttribute
      <4>3. b \in Nat
        BY <4>1
      <4>4. AttributeAt(b) = [j \in 1..e - b + 1 |-> b + j - 1]
        BY DEF AttributeAt
      <4> HIDE DEF a, b, e
      <4>5. Len(a) = e - b + 1
        <5>1. Len(a) \in 1..Len(a) /\ Len(a) \in Nat
          BY <4>2
        <5>2. a[Len(a)] = b + Len(a) - 1
          BY <4>2, <5>1
        <5>3. QED
          BY <4>1, <4>3, <5>1, <5>2
      <4>6. a = [j \in 1..Len(a) |-> b + j - 1]
        <5>1. a = [j \in 1..Len(a) |-> a[j]]
          BY <4>2
        <5>2. QED
          BY <4>2, <5>1
      <4>7. a = AttributeAt(b)
        BY <4>4, <4>5, <4>6
      <4>8. QED
        BY <4>1, <4>7 DEF a, b
    <3>3. ASSUME NEW b \in OuterMarkers PROVE \E n \in 1..Len(visited) : visited[n][1] = b
      <4>1. b < Start
        BY <3>1
      <4>2. QED
        BY <4>1 DEF FoundInv, HandedOver
    <3>4. \A n \in DOMAIN visited : visited[n] \in Attributes
      BY <2>2, <3>2 DEF Attributes
    <3>5. ASSUME NEW b \in OuterMarkers PROVE \E n \in DOMAIN visited : visited[n] = AttributeAt(b)
      <4>1. PICK n \in 1..Len(visited) : visited[n][1] = b
        BY <3>3
      <4>2. QED
        BY <2>2, <3>2, <4>1
    <3>6. QED
      BY <3>4, <3>5 DEF ToSet, Attributes
  <2>4. ASSUME NEW m \in DOMAIN visited, NEW n \in DOMAIN visited, m < n
        PROVE  visited[m][1] < visited[n][1]
    <3>1. m \in 1..Len(visited) /\ n \in 1..Len(visited)
      BY <2>2
    <3>2. End(m) < visited[n][1]
      BY <2>4, <3>1 DEF Inv, VisitedInv
    <3>3. visited[m][1] \in Nat /\ visited[m][1] < End(m)
      BY <3>1, FirstAndLast
    <3>4. visited[n][1] \in Nat /\ End(m) \in Nat
      BY <3>1, FirstAndLast
    <3>5. QED
      BY <3>2, <3>3, <3>4
  <2>5. QED
    BY <2>1, <2>3, <2>4 DEF AttributesFound
<1>2. QED
  BY <1>1, FoundInvariance, PTL

-----------------------------------------------------------------------------
(* Attributes that are moved.                                              *)

\* They stand after the last semicolon of a header, and are moved before the
\* last `for` that precedes them.
MovedInv ==
    \A m \in moved :
        /\ \E n \in 1..Len(visited) : m.attr = visited[n]
        /\ m.attr[1] > 1 /\ source[m.attr[1] - 1] = "semi" /\ source[m.attr[Len(m.attr)] + 1] = "r_paren"
        /\ m.kwFor # 0 /\ m.kwFor = ForBefore(m.attr[1])

LEMMA MovedStays ==
    ASSUME MovedInv, source' = source, visited' = visited, moved' = moved
    PROVE  MovedInv'
BY DEF MovedInv, ForBefore

LEMMA AttrParsedMoved ==
    ASSUME Inv, MovedInv, NEW a, AttrParsed(a), a \in Seq(Nat), a # <<>>
    PROVE  MovedInv'
<1>1. /\ source' = source /\ visited' = Append(visited, a)
      /\ \/ moved' = moved
         \/ /\ moved' = moved \cup {[attr |-> a, kwFor |-> ForBefore(a[1])]} /\ ForBefore(a[1]) # 0
            /\ LeftNeighbour(a) = "semi" /\ RightNeighbour(a) = "r_paren"
  BY DEF AttrParsed, Visit, MoveBeforeFor, ReplaceInPlace, IsOklSpecificForStmt
<1>2. /\ Len(visited) \in Nat /\ Len(visited') = Len(visited) + 1
      /\ \A n \in 1..Len(visited) : visited'[n] = visited[n]
      /\ visited'[Len(visited) + 1] = a
  BY <1>1 DEF Inv, Types
<1>3. \A x : ForBefore(x)' = ForBefore(x)
  BY <1>1 DEF ForBefore
<1> SUFFICES ASSUME NEW m \in moved'
             PROVE  /\ \E n \in 1..Len(visited') : m.attr = visited'[n]
                    /\ m.attr[1] > 1 /\ source[m.attr[1] - 1] = "semi"
                    /\ source[m.attr[Len(m.attr)] + 1] = "r_paren"
                    /\ m.kwFor # 0 /\ m.kwFor = ForBefore(m.attr[1])
  BY <1>1, <1>3 DEF MovedInv
<1>4. CASE m \in moved
  <2>1. PICK n \in 1..Len(visited) : m.attr = visited[n]
    BY <1>4 DEF MovedInv
  <2>2. n \in 1..Len(visited') /\ visited'[n] = m.attr
    BY <1>2, <2>1
  <2>3. QED
    BY <1>4, <2>2 DEF MovedInv
<1>5. CASE m \notin moved
  <2>1. /\ m = [attr |-> a, kwFor |-> ForBefore(a[1])] /\ ForBefore(a[1]) # 0
        /\ LeftNeighbour(a) = "semi" /\ RightNeighbour(a) = "r_paren"
    BY <1>1, <1>5
  <2>2. a[1] > 1 /\ source[a[1] - 1] = "semi" /\ source[a[Len(a)] + 1] = "r_paren"
    BY <2>1 DEF LeftNeighbour, RightNeighbour
  <2>3. Len(visited) + 1 \in 1..Len(visited')
    BY <1>2
  <2>4. QED
    BY <1>2, <2>1, <2>2, <2>3
<1>6. QED
  BY <1>4, <1>5

LEMMA MovedInvariance == Spec => []MovedInv
<1>1. Init => MovedInv
  BY DEF Init, MovedInv
<1>2. Inv /\ MovedInv /\ [Next]_vars => MovedInv'
  <2> SUFFICES ASSUME Inv, MovedInv, [Next]_vars PROVE MovedInv'
    OBVIOUS
  <2>1. CASE NoParamList
    <3>1. AttrParsed(attr) /\ attr \in Seq(Nat) /\ Len(attr) >= 2
      BY <2>1 DEF NoParamList, Reading, Inv, Types, AttrInv
    <3>2. QED
      BY <3>1, AttrParsedMoved
  <2>2. CASE CloseParamList
    <3>1. AttrParsed(Append(attr, cursor)) /\ Append(attr, cursor) \in Seq(Nat) /\ Append(attr, cursor) # <<>>
      BY <2>2 DEF CloseParamList, Inv, Types
    <3>2. QED
      BY <3>1, AttrParsedMoved
  <2>3. CASE \/ Skip \/ FindMarker \/ ParseName \/ OpenParamList \/ TakeParam \/ Malformed \/ Finish
             \/ UNCHANGED vars
    <3>1. UNCHANGED <<source, visited, moved>>
      BY <2>3 DEF Skip, FindMarker, ParseName, OpenParamList, TakeParam, TakeToken, Malformed, Finish, vars, outVars
    <3>2. QED
      BY <3>1, MovedStays
  <2>4. QED
    BY <2>1, <2>2, <2>3 DEF Next
<1>3. Spec => []Inv
  BY InitInv, NextInv, PTL DEF Spec
<1>4. QED
  BY <1>1, <1>2, <1>3, PTL DEF Spec

\* findForKwLocBefore, which goes back to the nearest `for` whatever header
\* that one has, finds the loop in whose header the attribute was written.
THEOREM AttributesGoToTheirFor == Spec => []MovedToOwnFor
<1>1. ASSUME Inv, FoundInv, AttributesFound, MovedInv PROVE MovedToOwnFor
  <2> SUFFICES ASSUME status = "done", IsOkl, NEW m \in moved PROVE EndsHeader(m.attr, m.kwFor)
    BY DEF MovedToOwnFor
  <2> USE <1>1
  <2>1. PICK n \in 1..Len(visited) : m.attr = visited[n]
    BY DEF MovedInv
  <2> DEFINE a == m.attr
  <2>2. /\ a \in Seq(Nat) /\ Len(a) \in Nat /\ Len(a) >= 2 /\ a[Len(a)] = a[1] + Len(a) - 1 /\ a[1] \in Nat
    BY <2>1, FirstAndLast DEF End
  <2>3. /\ source[a[1] - 1] = "semi" /\ source[a[Len(a)] + 1] = "r_paren"
        /\ m.kwFor = ForBefore(a[1])
    BY DEF MovedInv
  <2>4. a \in Attributes
    <3>1. n \in DOMAIN visited
      BY <2>1 DEF Inv, Types
    <3>2. a \in ToSet(visited)
      BY <2>1, <3>1 DEF ToSet
    <3>3. QED
      BY <3>2 DEF AttributesFound
  <2>5. PICK f \in Fors(source) : a[1] > f /\ EndsHeader(a, f)
    BY <2>3, <2>4 DEF IsOkl
  <2>6. OklHeader(f)
    BY <2>5 DEF IsOkl
  <2>7. /\ f \in Nat /\ f > 1 /\ source[f] = "kw_for"
        /\ ClosingParen(source, f + 1) = a[Len(a)] + 1
        /\ \A g \in Fors(source) : g <= f \/ g > ClosingParen(source, f + 1)
    <3>1. f \in DOMAIN source /\ source[f] = "kw_for" /\ DOMAIN source = 1..Len(source)
      BY <2>5 DEF Fors, Inv, Types
    <3>2. QED
      BY <2>5, <2>6, <3>1 DEF OklHeader, EndsHeader
  <2> DEFINE found == {i \in 2..a[1] : source[i] = "kw_for"}
  <2> HIDE DEF a
  <2>8. f \in found
    BY <2>2, <2>5, <2>7
  <2>9. \A g \in found : f >= g
    <3> SUFFICES ASSUME NEW g \in found PROVE f >= g
      OBVIOUS
    <3>1. g \in 2..a[1] /\ source[g] = "kw_for" /\ a[1] <= Len(source)
      <4>1. a[1] \in OuterMarkers
        BY <2>1 DEF a, FoundInv, HandedOver
      <4>2. QED
        BY <4>1, AttributeUnderWay DEF Facts
    <3>2. g \in Fors(source)
      <4>1. DOMAIN source = 1..Len(source) /\ Len(source) \in Nat
        BY DEF Inv, Types
      <4>2. QED
        BY <2>2, <3>1, <4>1 DEF Fors
    <3>3. QED
      BY <2>2, <2>7, <3>1, <3>2
  <2>10. ForBefore(a[1]) = f
    <3>1. ForBefore(a[1]) = Max(found)
      BY <2>8 DEF ForBefore
    <3>2. \A x \in found : x \in Nat
      OBVIOUS
    <3> HIDE DEF found
    <3>3. Max(found) \in found /\ \A y \in found : Max(found) >= y
      BY <2>8, <2>9 DEF Max
    <3> DEFINE x == Max(found)
    <3> HIDE DEF x
    <3>4. Max(found) = f
      <4>1. x \in Nat /\ f \in Nat /\ x >= f /\ f >= x
        BY <2>8, <2>9, <3>2, <3>3 DEF x
      <4>2. x = f
        BY <4>1
      <4>3. QED
        BY <4>2 DEF x
    <3>5. QED
      BY <3>1, <3>4
  <2>11. QED
    BY <2>3, <2>5, <2>10 DEF a
<1>2. QED
  BY <1>1, FoundInvariance, MachineFindsAttributes, MovedInvariance, PTL

-----------------------------------------------------------------------------
(* What the edits leave of the source.                                     *)

First(n)  == visited[n][1]
Of(n)     == First(n)..End(n)
Moves(n)  == First(n) > 1 /\ source[First(n) - 1] = "semi" /\ source[End(n) + 1] = "r_paren"
Visited   == 1..Len(visited)

\* Each token of an attribute became the whole GNU attribute or nothing; where
\* one is moved the header is closed before it, instead of after it; and all
\* else is as it was.
Became(i, t) ==
    IF \E n \in Visited : i \in Of(n) THEN t \in {"cxx", "gnu", "gone"}
    ELSE IF \E n \in Visited : Moves(n) /\ i = First(n) - 1 THEN t = "r_paren"
    ELSE IF \E n \in Visited : Moves(n) /\ i = End(n) + 1 THEN t = "gone"
    ELSE t = source[i]

TextIs ==
    /\ text \in Seq(Kind \cup {"cxx", "gnu", "gone"})
    /\ Len(text) = Len(source)
    /\ \A i \in 1..Len(source) : Became(i, text[i])

EditInv == status = "stopped" \/ TextIs

LEMMA TextStays ==
    ASSUME TextIs, source' = source, visited' = visited, text' = text
    PROVE  TextIs'
<1>1. \A n : First(n)' = First(n) /\ End(n)' = End(n)
  BY DEF First, End
<1>2. Visited' = Visited /\ (\A n : Of(n)' = Of(n) /\ Moves(n)' = Moves(n))
  BY <1>1 DEF Visited, Of, Moves
<1>3. \A i, t : Became(i, t)' = Became(i, t)
  BY <1>1, <1>2 DEF Became
<1>4. QED
  BY <1>3 DEF TextIs

\* The text after an attribute was handed over.
LEMMA VisitEdits ==
    ASSUME NEW a, NEW b \in Nat \ {0}, NEW e \in Nat, a[1] = b, a[Len(a)] = e, b < e, e < Len(source),
           TextIs, Len(source) \in Nat, AttrParsed(a), status' # "stopped"
    PROVE  LET moves == b > 1 /\ source[b - 1] = "semi" /\ source[e + 1] = "r_paren"
           IN  /\ text' \in Seq(Kind \cup {"cxx", "gnu", "gone"}) /\ Len(text') = Len(source)
               /\ \A i \in 1..Len(source) :
                     /\ i \in b..e => text'[i] \in {"cxx", "gnu", "gone"}
                     /\ moves /\ i = b - 1 => text'[i] = "r_paren"
                     /\ moves /\ i = e + 1 => text'[i] = "gone"
                     /\ i \notin b..e /\ ~(moves /\ (i = b - 1 \/ i = e + 1)) => text'[i] = text[i]
<1> DEFINE moves == b > 1 /\ source[b - 1] = "semi" /\ source[e + 1] = "r_paren"
           T == Kind \cup {"cxx", "gnu", "gone"}
           new == IF IsAtBeginningOfExpr(LeftNeighbour(a), RightNeighbour(a)) THEN "cxx" ELSE "gnu"
<1>1. moves <=> IsOklSpecificForStmt(LeftNeighbour(a), RightNeighbour(a))
  BY DEF IsOklSpecificForStmt, LeftNeighbour, RightNeighbour
<1>2. text \in Seq(T) /\ Len(text) = Len(source) /\ DOMAIN text = 1..Len(source)
  BY DEF TextIs
<1>3. CASE moves
  <2>1. text' = Replaced(ClosedHeader(a), a, "gone")
    BY <1>1, <1>3 DEF AttrParsed, Visit, MoveBeforeFor
  <2> DEFINE c == ClosedHeader(a)
  <2>2. c = [text EXCEPT ![b - 1] = "r_paren", ![e + 1] = "gone"]
    BY DEF ClosedHeader
  <2>3. /\ DOMAIN c = 1..Len(source)
        /\ c[b - 1] = "r_paren" /\ c[e + 1] = "gone"
        /\ \A i \in 1..Len(source) : i # b - 1 /\ i # e + 1 => c[i] = text[i]
    <3>1. b - 1 \in DOMAIN text /\ e + 1 \in DOMAIN text /\ b - 1 # e + 1
      BY <1>2, <1>3
    <3> HIDE DEF c
    <3>2. QED
      BY <1>2, <2>2, <3>1
  <2> HIDE DEF c
  <2>4. text' = [i \in 1..Len(source) |-> IF i = b THEN "gone" ELSE IF i \in b..e THEN "gone" ELSE c[i]]
    BY <2>1, <2>3 DEF Replaced, c
  <2>5. \A i \in 1..Len(source) : c[i] \in T
    <3> TAKE i \in 1..Len(source)
    <3>1. text[i] \in T /\ "r_paren" \in T /\ "gone" \in T
      BY <1>2 DEF Kind
    <3>2. QED
      BY <2>3, <3>1
  <2>6. \A i \in 1..Len(source) : text'[i] = IF i \in b..e THEN "gone" ELSE c[i]
    BY <2>4
  <2>7. text' \in [1..Len(source) -> T]
    BY <2>4, <2>5
  <2>8. text' \in Seq(T) /\ Len(text') = Len(source)
    BY <2>7
  <2>9. QED
    BY <1>3, <2>3, <2>6, <2>8
<1>4. CASE ~moves
  <2>1. text' = Replaced(text, a, new)
    BY <1>1, <1>4 DEF AttrParsed, Visit, ReplaceInPlace
  <2>2. new \in {"cxx", "gnu"}
    OBVIOUS
  <2> HIDE DEF new
  <2>3. text' = [i \in 1..Len(source) |-> IF i = b THEN new ELSE IF i \in b..e THEN "gone" ELSE text[i]]
    BY <1>2, <2>1 DEF Replaced
  <2>4. text' \in [1..Len(source) -> T]
    BY <1>2, <2>2, <2>3
  <2>5. text' \in Seq(T) /\ Len(text') = Len(source)
    BY <2>4
  <2>6. \A i \in 1..Len(source) : text'[i] = IF i = b THEN new ELSE IF i \in b..e THEN "gone" ELSE text[i]
    BY <2>3
  <2>7. QED
    BY <1>4, <2>2, <2>5, <2>6
<1>5. QED
  BY <1>3, <1>4

\* An attribute is not broken off, its parentheses match, and none in it
\* closes one before it.
IsWhole(n) ==
    /\ First(n) \in Nat \ {0} /\ End(n) \in Nat /\ First(n) < End(n) /\ End(n) < Len(source)
    /\ source[First(n)] = "at"
    /\ \A k \in Of(n) : source[k] \notin Broken
    /\ Depth(1, End(n)) = Depth(1, First(n) - 1)
    /\ \A k \in Of(n) : Depth(1, k) >= Depth(1, First(n) - 1)

LEMMA DepthKept ==
    ASSUME NEW k \in Nat \ {0}, source[k] \notin {"l_paren", "r_paren"}
    PROVE  Depth(1, k) = Depth(1, k - 1) /\ Depth(1, k) \in Int
<1> DEFINE x == k - 1
<1>1. x \in Int /\ 1 <= x + 1 /\ x + 1 = k /\ 1 \in Int
  OBVIOUS
<1> HIDE DEF x
<1>2. Depth(1, x) \in Int /\ Depth(1, x + 1) = Depth(1, x)
  BY <1>1, DepthStep
<1>3. QED
  BY <1>1, <1>2 DEF x

LEMMA VisitedAreWhole ==
    ASSUME Inv, FoundInv, NEW n \in Visited
    PROVE  IsWhole(n)
<1> DEFINE b == First(n)
           e == End(n)
<1>0. Facts
  BY AttributeUnderWay
<1>1. /\ b \in Nat /\ e \in Nat /\ b < e
      /\ b \in OuterMarkers /\ e = EndOfAttribute(b)
      /\ IsAttribute(visited[n]) /\ visited[n][2] = visited[n][1] + 1
  <2>1. b \in Nat /\ e \in Nat /\ b < e
    BY FirstAndLast DEF First, Visited
  <2>2. b \in OuterMarkers /\ e = EndOfAttribute(b)
    BY DEF FoundInv, HandedOver, First, Visited
  <2>3. IsAttribute(visited[n])
    BY DEF Inv, VisitedInv, Visited
  <2>4. visited[n][2] = visited[n][1] + 1
    <3>1. Len(visited[n]) \in Nat \ {0, 1}
      BY FirstAndLast DEF Visited
    <3>2. 2 \in 1..Len(visited[n])
      <4> DEFINE l == Len(visited[n])
      <4> HIDE DEF l
      <4>1. l \in Nat \ {0, 1}
        BY <3>1 DEF l
      <4>2. 2 \in 1..l
        BY <4>1
      <4>3. QED
        BY <4>2 DEF l
    <3>3. visited[n][2] = visited[n][1] + 2 - 1
      BY <2>3, <3>2 DEF IsAttribute
    <3>4. QED
      BY <2>1, <3>3 DEF First
  <2>5. QED
    BY <2>1, <2>2, <2>3, <2>4
<1>2. source[b] = "at" /\ source[b + 1] = "identifier" /\ b >= 1
  BY <1>0, <1>1 DEF IsAttribute, First, Facts
<1>3. Len(source) \in Nat \ {0} /\ source[Len(source)] \in Broken
  BY DEF FoundInv, LastToken, Broken
<1> HIDE DEF b, e
<1>4. Depth(1, b + 1) = Depth(1, b - 1) /\ Depth(1, b) = Depth(1, b - 1) /\ Depth(1, b - 1) \in Int
  <2>1. Depth(1, b) = Depth(1, b - 1) /\ Depth(1, b) \in Int
    BY <1>1, <1>2, DepthKept
  <2>2. b + 1 \in Nat \ {0} /\ (b + 1) - 1 = b
    BY <1>1
  <2>3. Depth(1, b + 1) = Depth(1, (b + 1) - 1)
    BY <1>2, <2>2, DepthKept
  <2>4. QED
    BY <2>1, <2>2, <2>3
<1>5. /\ e < Len(source)
      /\ \A k \in b..e : source[k] \notin Broken
      /\ Depth(1, e) = Depth(1, b - 1)
      /\ \A k \in b..e : Depth(1, k) >= Depth(1, b - 1)
  <2>1. CASE b + 1 > Len(source) \/ source[b + 1] # "identifier"
    <3>1. e = 0
      BY <1>1, <2>1, EndWithoutList
    <3>2. QED
      BY <1>1, <3>1
  <2>2. CASE b + 1 <= Len(source) /\ (b + 2 > Len(source) \/ source[b + 2] # "l_paren")
    <3>1. e = b + 1
      BY <1>1, <1>2, <2>2, EndWithoutList
    <3>2. e # Len(source)
      BY <1>2, <1>3, <3>1 DEF Broken
    <3>3. \A k \in b..e : k = b \/ k = b + 1
      BY <1>1, <3>1
    <3>4. QED
      BY <1>1, <1>2, <1>3, <1>4, <2>2, <3>1, <3>2, <3>3 DEF Broken
  <2>3. CASE b + 2 <= Len(source) /\ source[b + 2] = "l_paren"
    <3> DEFINE p == b + 2
    <3>1. HasList(b) /\ p \in Nat /\ p >= 3
      BY <1>1, <1>2, <1>3, <2>3 DEF HasList
    <3>2. e = ClosingParen(source, p) /\ \A k \in b..e : source[k] \notin Broken
      <4>1. e = IF \E k \in b..ClosingParen(source, p) : source[k] \in Broken THEN 0 ELSE ClosingParen(source, p)
        BY <1>1, <3>1, EndOfList
      <4> HIDE DEF p
      <4>2. QED
        BY <1>1, <4>1
    <3>3. e \in Closings(p) /\ e \in p..Len(source) /\ Depth(p, e) = 0
      <4>1. Closings(p) # {}
        BY <1>1, <1>3, <3>1, <3>2, ClosingsAre
      <4>2. e \in Closings(p)
        BY <1>3, <3>1, <3>2, <4>1, ClosingsAre
      <4>3. e \in p..Len(source)
        BY <4>2 DEF Closings, ClosingsIn
      <4>4. QED
        BY <1>3, <3>1, <4>2, <4>3, ClosingsAre
    <3>4. e # Len(source)
      BY <1>1, <1>3, <3>2
    <3>5. ASSUME NEW k \in p..e PROVE Depth(p, k) >= 0 /\ Depth(p, k) \in Int
      <4>1. Depth(p, k) \in Int
        BY <3>1, DepthStep
      <4>2. ASSUME Depth(p, k) < 0 PROVE FALSE
        <5>1. k \in p..Len(source) /\ k # e
          BY <1>3, <3>3, <4>2
        <5>2. ClosingParen(source, p) \in p..k
          BY <1>3, <2>3, <3>1, <4>2, <5>1, ClosingWithin
        <5>3. QED
          BY <3>2, <3>5, <5>1, <5>2
      <4>3. QED
        BY <4>1, <4>2
    <3>6. ASSUME NEW k \in p..e PROVE Depth(1, k) = Depth(p, k) + Depth(1, b - 1)
      <4> DEFINE q == p - 1
      <4>1. 1 <= p /\ p > 0 /\ k \in Nat /\ p <= k /\ q = b + 1 /\ 1 \in Nat
        BY <1>1, <3>1
      <4>2. Depth(p, k) = Depth(1, k) - Depth(1, q)
        BY <3>1, <4>1, DepthSplits
      <4>3. Depth(1, k) \in Int /\ Depth(1, q) = Depth(1, b - 1)
        <5>1. k \in Int /\ 1 <= k + 1
          BY <4>1
        <5>2. Depth(1, k) \in Int
          BY <5>1, DepthStep
        <5>3. QED
          BY <1>4, <4>1, <5>2
      <4> HIDE DEF p, q
      <4>4. QED
        BY <1>4, <4>2, <4>3
    <3>7. \A k \in b..e : Depth(1, k) >= Depth(1, b - 1)
      <4> TAKE k \in b..e
      <4>1. CASE k \in p..e
        <5>1. Depth(1, k) = Depth(p, k) + Depth(1, b - 1) /\ Depth(p, k) >= 0 /\ Depth(p, k) \in Int
          BY <3>5, <3>6, <4>1
        <5> HIDE DEF p
        <5>2. QED
          BY <1>4, <5>1
      <4>2. CASE k = b \/ k = b + 1
        BY <1>4, <4>2
      <4>3. QED
        BY <1>1, <4>1, <4>2
    <3>8. Depth(1, e) = Depth(1, b - 1)
      <4>1. e \in p..e
        BY <3>3
      <4>2. Depth(1, e) = Depth(p, e) + Depth(1, b - 1)
        BY <3>6, <4>1
      <4>3. QED
        BY <1>4, <3>3, <4>2
    <3>9. QED
      BY <1>1, <1>3, <3>2, <3>3, <3>4, <3>7, <3>8
  <2>4. QED
    BY <1>1, <1>2, <1>3, <2>1, <2>2, <2>3
<1>6. QED
  BY <1>1, <1>2, <1>5 DEF IsWhole, b, e, Of

LEMMA AttrParsedEdits ==
    ASSUME Inv, FoundInv, TextIs, NEW a, AttrParsed(a), a \in Seq(Nat), status' # "stopped",
           state # "SearchingAttrStart", a[1] = Start, a[1] < a[Len(a)], a[Len(a)] \in Nat,
           a[Len(a)] < Len(source)
    PROVE  TextIs'
<1> DEFINE b     == a[1]
           e     == a[Len(a)]
           moves == b > 1 /\ source[b - 1] = "semi" /\ source[e + 1] = "r_paren"
<1>1. b \in Nat \ {0} /\ e \in Nat /\ b < e /\ e < Len(source) /\ Len(source) \in Nat
  BY AttributeUnderWay DEF Facts
<1>2. source' = source /\ visited' = Append(visited, a)
  BY DEF AttrParsed, Visit
<1>10. PICK last \in Nat : last = Len(visited) + 1
  BY DEF Inv, Types
<1>3. /\ Len(visited) \in Nat /\ Visited' = Visited \cup {last} /\ last \notin Visited
      /\ \A n \in Visited : visited'[n] = visited[n]
      /\ visited'[last] = a
  BY <1>2, <1>10 DEF Inv, Types, Visited
<1>4. \A n \in Visited : First(n)' = First(n) /\ End(n)' = End(n) /\ Of(n)' = Of(n) /\ (Moves(n)' <=> Moves(n))
  <2>1. \A n \in Visited : First(n)' = First(n) /\ End(n)' = End(n)
    BY <1>3 DEF First, End
  <2>2. QED
    BY <1>2, <2>1 DEF Of, Moves
<1>5. First(last)' = b /\ End(last)' = e /\ Of(last)' = b..e /\ (Moves(last)' <=> moves)
  <2>1. First(last)' = b /\ End(last)' = e
    BY <1>3 DEF First, End
  <2>2. QED
    BY <1>2, <2>1 DEF Of, Moves
<1>6. \A n \in Visited : IsWhole(n) /\ End(n) < b
  <2>1. \A n \in Visited : End(n) < b
    BY DEF Inv, VisitedInv, Visited, Start
  <2>2. QED
    BY <2>1, VisitedAreWhole
<1>7. /\ text' \in Seq(Kind \cup {"cxx", "gnu", "gone"}) /\ Len(text') = Len(source)
      /\ \A i \in 1..Len(source) :
            /\ i \in b..e => text'[i] \in {"cxx", "gnu", "gone"}
            /\ moves /\ i = b - 1 => text'[i] = "r_paren"
            /\ moves /\ i = e + 1 => text'[i] = "gone"
            /\ i \notin b..e /\ ~(moves /\ (i = b - 1 \/ i = e + 1)) => text'[i] = text[i]
  BY <1>1, VisitEdits
<1> HIDE DEF b, e, moves
<1>8. ASSUME NEW i \in 1..Len(source), NEW t, t = text'[i] PROVE Became(i, t)'
  <2>1. /\ i \in b..e => t \in {"cxx", "gnu", "gone"}
        /\ moves /\ i = b - 1 => t = "r_paren"
        /\ moves /\ i = e + 1 => t = "gone"
        /\ i \notin b..e /\ ~(moves /\ (i = b - 1 \/ i = e + 1)) => t = text[i]
    BY <1>7, <1>8
  <2> DEFINE inside  == \E n \in Visited : i \in Of(n)
             closes  == \E n \in Visited : Moves(n) /\ i = First(n) - 1
             removed == \E n \in Visited : Moves(n) /\ i = End(n) + 1
  <2>2. Became(i, text[i])
    BY <1>8 DEF TextIs
  <2>3. /\ (\E n \in Visited' : i \in Of(n)') <=> inside \/ i \in b..e
        /\ (\E n \in Visited' : Moves(n)' /\ i = First(n)' - 1) <=> closes \/ (moves /\ i = b - 1)
        /\ (\E n \in Visited' : Moves(n)' /\ i = End(n)' + 1) <=> removed \/ (moves /\ i = e + 1)
    BY <1>3, <1>4, <1>5
  <2>4. (IF inside THEN text[i] \in {"cxx", "gnu", "gone"}
         ELSE IF closes THEN text[i] = "r_paren" ELSE IF removed THEN text[i] = "gone" ELSE text[i] = source[i])
    BY <2>2 DEF Became
  <2>5. moves /\ i = b - 1 => ~inside
    <3>1. \A n \in Visited : i \in Of(n) => source[i] \notin Broken
      BY <1>6 DEF IsWhole
    <3>2. QED
      BY <1>1, <3>1 DEF moves, Broken
  <2>6. moves /\ i = e + 1 => ~inside /\ ~closes
    <3>1. \A n \in Visited : i \in Of(n) => i < b
      BY <1>1, <1>6 DEF IsWhole, Of
    <3>2. closes => source[i] = "semi"
      BY DEF Moves
    <3>3. QED
      BY <1>1, <3>1, <3>2 DEF moves
  <2>7. i = b - 1 \/ i = e + 1 => i \notin b..e
    BY <1>1
  <2>8. IF inside \/ i \in b..e THEN t \in {"cxx", "gnu", "gone"}
        ELSE IF closes \/ (moves /\ i = b - 1) THEN t = "r_paren"
        ELSE IF removed \/ (moves /\ i = e + 1) THEN t = "gone" ELSE t = source[i]
    <3> HIDE DEF inside, closes, removed
    <3>1. CASE i \in b..e
      BY <2>1, <3>1
    <3>2. CASE moves /\ i = b - 1
      BY <2>1, <2>5, <2>7, <3>2
    <3>3. CASE moves /\ i = e + 1
      <4>1. ~(i = b - 1)
        BY <1>1, <3>3
      <4>2. QED
        BY <2>1, <2>6, <2>7, <3>3, <4>1
    <3>4. CASE i \notin b..e /\ ~(moves /\ (i = b - 1 \/ i = e + 1))
      BY <2>1, <2>4, <3>4
    <3>5. QED
      BY <3>1, <3>2, <3>3, <3>4
  <2> HIDE DEF inside, closes, removed
  <2>9. QED
    BY <1>2, <2>3, <2>8 DEF Became
<1>9. QED
  BY <1>2, <1>7, <1>8 DEF TextIs

LEMMA EditInvariance == Spec => []EditInv
<1>1. Init => EditInv
  <2> SUFFICES ASSUME Init PROVE TextIs
    BY DEF EditInv
  <2>1. source \in Seq(Kind) /\ text = source /\ Len(visited) = 0
    BY SourcesAssumption DEF Init
  <2>2. Visited = {}
    BY <2>1 DEF Visited
  <2>3. \A i \in 1..Len(source) : Became(i, text[i])
    BY <2>1, <2>2 DEF Became
  <2>4. text \in Seq(Kind \cup {"cxx", "gnu", "gone"})
    BY <2>1
  <2>5. QED
    BY <2>1, <2>3, <2>4 DEF TextIs
<1>2. Inv /\ FoundInv /\ EditInv /\ [Next]_vars => EditInv'
  <2> SUFFICES ASSUME Inv, FoundInv, EditInv, [Next]_vars, status' # "stopped" PROVE TextIs'
    BY DEF EditInv
  <2>0. Facts
    BY AttributeUnderWay
  <2>1. CASE NoParamList
    <3>1. /\ state = "SearchingAttrParamList" /\ AttrParsed(attr) /\ cursor <= Len(source) /\ status = "reading"
          /\ TextIs
      BY <2>1 DEF NoParamList, Reading, EditInv
    <3>2. cursor = Start + 2 /\ Len(attr) = 2 /\ cursor \in Nat /\ Start \in Nat /\ Len(source) \in Nat
      BY <2>0, <3>1 DEF FoundInv, UnderWay, Facts
    <3>3. attr \in Seq(Nat) /\ \A j \in 1..Len(attr) : attr[j] = Start + j - 1
      BY DEF Inv, Types, AttrInv, Start
    <3>4. attr[1] = Start /\ attr[Len(attr)] = cursor - 1
      BY <3>2, <3>3
    <3>5. /\ attr[1] < attr[Len(attr)] /\ attr[Len(attr)] \in Nat /\ attr[Len(attr)] < Len(source)
      BY <3>1, <3>2, <3>4
    <3>6. QED
      BY <3>1, <3>3, <3>4, <3>5, AttrParsedEdits
  <2>2. CASE CloseParamList
    <3> DEFINE a == Append(attr, cursor)
    <3>1. /\ state = "ParseAttrParamList" /\ AttrParsed(a) /\ cursor <= Len(source) /\ status = "reading"
          /\ source[cursor] = "r_paren" /\ TextIs
      BY <2>2 DEF CloseParamList, Reading, EditInv, Token
    <3>2. cursor >= Start + 3 /\ Len(attr) >= 3 /\ cursor \in Nat /\ Start \in Nat /\ Len(source) \in Nat
      BY <2>0, <3>1 DEF FoundInv, UnderWay, Facts
    <3>3. attr \in Seq(Nat) /\ attr[1] = Start
      BY <3>2 DEF Inv, Types, AttrInv, Start
    <3>4. a \in Seq(Nat) /\ a[1] = Start /\ a[Len(a)] = cursor
      BY <3>2, <3>3
    <3>5. cursor # Len(source)
      BY <3>1 DEF FoundInv, LastToken
    <3> HIDE DEF a
    <3>6. QED
      BY <3>1, <3>2, <3>4, <3>5, AttrParsedEdits
  <2>3. CASE \/ Skip \/ FindMarker \/ ParseName \/ OpenParamList \/ TakeParam \/ Malformed \/ Finish
             \/ UNCHANGED vars
    <3>1. /\ UNCHANGED <<source, visited, text>>
          /\ status' = status \/ status = "reading"
      BY <2>3 DEF Skip, FindMarker, ParseName, OpenParamList, TakeParam, TakeToken, Malformed, Finish, vars, outVars,
                  Reading
    <3>2. TextIs
      BY <3>1 DEF EditInv
    <3>3. QED
      BY <3>1, <3>2, TextStays
  <2>4. QED
    BY <2>1, <2>2, <2>3 DEF Next
<1>3. QED
  BY <1>1, <1>2, FoundInvariance, PTL DEF Spec

-----------------------------------------------------------------------------
(* The depth in the text.                                                  *)

TextDepth(i) == DepthIn(text, 1, i)

\* The attributes are whole, and no token belongs to two of them.
Whole ==
    /\ Len(source) \in Nat \ {0} /\ source[Len(source)] \in Broken
    /\ \A n \in Visited : IsWhole(n)
    /\ \A m, n \in Visited : m # n => Of(m) \cap Of(n) = {}

LEMMA AttributesAreWhole == Inv /\ FoundInv => Whole
<1> SUFFICES ASSUME Inv, FoundInv PROVE Whole
  OBVIOUS
<1>1. \A n \in Visited : IsWhole(n)
  BY VisitedAreWhole
<1>2. ASSUME NEW m \in Visited, NEW n \in Visited, m < n PROVE Of(m) \cap Of(n) = {}
  <2>1. End(m) < First(n)
    BY <1>2 DEF Inv, VisitedInv, Visited, First
  <2>2. End(m) \in Nat /\ First(n) \in Nat /\ First(m) \in Nat /\ End(n) \in Nat
    BY <1>1 DEF IsWhole
  <2>3. QED
    BY <2>1, <2>2 DEF Of
<1>3. ASSUME NEW m \in Visited, NEW n \in Visited, m # n PROVE Of(m) \cap Of(n) = {}
  <2>1. m < n \/ n < m
    BY <1>3 DEF Visited
  <2>2. QED
    BY <1>2, <2>1
<1>4. QED
  BY <1>1, <1>3 DEF Whole, FoundInv, LastToken, Broken

\* The text is as deep as the source, but within an attribute, where it is as
\* deep as before it, and within one that is moved, where the header is closed.
AsDeep(i) ==
    /\ \A n \in Visited : i \in Of(n) =>
          TextDepth(i) = IF Moves(n) THEN Depth(1, First(n) - 1) - 1 ELSE Depth(1, First(n) - 1)
    /\ \A n \in Visited : Moves(n) /\ i = First(n) - 1 => TextDepth(i) = Depth(1, i) - 1
    /\ (\A n \in Visited : i \notin Of(n) /\ ~(Moves(n) /\ i = First(n) - 1)) => TextDepth(i) = Depth(1, i)

LEMMA AsDeepBetween ==
    ASSUME Whole, NEW i, AsDeep(i),
           \A n \in Visited : i \in Of(n) => i = End(n) /\ ~Moves(n),
           \A n \in Visited : ~(Moves(n) /\ i = First(n) - 1)
    PROVE  TextDepth(i) = Depth(1, i)
<1>1. CASE \E n \in Visited : i \in Of(n)
  <2>1. PICK n \in Visited : i \in Of(n)
    BY <1>1
  <2>2. i = End(n) /\ ~Moves(n) /\ TextDepth(i) = Depth(1, First(n) - 1)
    BY <2>1 DEF AsDeep
  <2>3. QED
    BY <2>2 DEF Whole, IsWhole
<1>2. QED
  BY <1>1 DEF AsDeep

LEMMA BothSteps ==
    ASSUME NEW i \in Nat
    PROVE  /\ Depth(1, i) \in Int /\ TextDepth(i) \in Int
           /\ Depth(1, i + 1) \in Int /\ TextDepth(i + 1) \in Int
           /\ source[i + 1] = "l_paren" => Depth(1, i + 1) = Depth(1, i) + 1
           /\ source[i + 1] = "r_paren" => Depth(1, i + 1) = Depth(1, i) - 1
           /\ source[i + 1] \notin {"l_paren", "r_paren"} => Depth(1, i + 1) = Depth(1, i)
           /\ text[i + 1] = "l_paren" => TextDepth(i + 1) = TextDepth(i) + 1
           /\ text[i + 1] = "r_paren" => TextDepth(i + 1) = TextDepth(i) - 1
           /\ text[i + 1] \notin {"l_paren", "r_paren"} => TextDepth(i + 1) = TextDepth(i)
<1>1. 1 \in Int /\ i \in Int /\ 1 <= i + 1 /\ i + 1 \in Int /\ 1 <= (i + 1) + 1
  OBVIOUS
<1>2. Depth(1, i + 1) \in Int /\ TextDepth(i + 1) \in Int
  BY <1>1, DepthStep, DepthInStep DEF TextDepth
<1>3. /\ Depth(1, i) \in Int
      /\ source[i + 1] = "l_paren" => Depth(1, i + 1) = Depth(1, i) + 1
      /\ source[i + 1] = "r_paren" => Depth(1, i + 1) = Depth(1, i) - 1
      /\ source[i + 1] \notin {"l_paren", "r_paren"} => Depth(1, i + 1) = Depth(1, i)
  BY <1>1, DepthStep
<1>4. /\ TextDepth(i) \in Int
      /\ text[i + 1] = "l_paren" => TextDepth(i + 1) = TextDepth(i) + 1
      /\ text[i + 1] = "r_paren" => TextDepth(i + 1) = TextDepth(i) - 1
      /\ text[i + 1] \notin {"l_paren", "r_paren"} => TextDepth(i + 1) = TextDepth(i)
  BY <1>1, DepthInStep DEF TextDepth
<1>5. QED
  BY <1>2, <1>3, <1>4

LEMMA AsDeepStep ==
    ASSUME Whole, TextIs, NEW i \in Nat, i + 1 <= Len(source), AsDeep(i)
    PROVE  AsDeep(i + 1)
<1> DEFINE j == i + 1
<1>1. j \in 1..Len(source) /\ j \in Nat /\ i < j /\ j = i + 1
  BY DEF Whole
<1>2. Became(j, text[j])
  BY <1>1 DEF TextIs
<1>3. /\ Depth(1, i) \in Int /\ TextDepth(i) \in Int
      /\ Depth(1, j) \in Int /\ TextDepth(j) \in Int
      /\ source[j] = "l_paren" => Depth(1, j) = Depth(1, i) + 1
      /\ source[j] = "r_paren" => Depth(1, j) = Depth(1, i) - 1
      /\ source[j] \notin {"l_paren", "r_paren"} => Depth(1, j) = Depth(1, i)
      /\ text[j] = "l_paren" => TextDepth(j) = TextDepth(i) + 1
      /\ text[j] = "r_paren" => TextDepth(j) = TextDepth(i) - 1
      /\ text[j] \notin {"l_paren", "r_paren"} => TextDepth(j) = TextDepth(i)
  BY BothSteps
<1> HIDE DEF j
<1>4. \A n \in Visited : /\ First(n) \in Nat \ {0} /\ End(n) \in Nat /\ First(n) < End(n)
                         /\ source[First(n)] = "at"
                         /\ \A k \in Of(n) : source[k] \notin Broken
                         /\ Depth(1, End(n)) = Depth(1, First(n) - 1)
  BY DEF Whole, IsWhole
\* The token before one that is in no attribute.
<1>5. ASSUME \A n \in Visited : j \notin Of(n), \A n \in Visited : ~(Moves(n) /\ j = End(n) + 1)
      PROVE  TextDepth(i) = Depth(1, i)
  <2>1. ASSUME NEW n \in Visited, i \in Of(n) PROVE i = End(n) /\ ~Moves(n)
    <3>1. i = End(n)
      BY <1>1, <1>4, <1>5, <2>1 DEF Of
    <3>2. QED
      BY <1>1, <1>5, <3>1
  <2>2. \A n \in Visited : ~(Moves(n) /\ i = First(n) - 1)
    BY <1>1, <1>4, <1>5 DEF Of
  <2>3. QED
    BY <2>1, <2>2, AsDeepBetween
<1>6. CASE \E n \in Visited : j \in Of(n)
  <2>1. PICK n \in Visited : j \in Of(n)
    BY <1>6
  <2>2. \A m \in Visited : j \in Of(m) => m = n
    BY <2>1 DEF Whole
  <2>3. TextDepth(j) = TextDepth(i)
    <3>1. text[j] \in {"cxx", "gnu", "gone"}
      BY <1>2, <1>6 DEF Became
    <3>2. QED
      BY <1>3, <3>1
  <2>4. TextDepth(i) = IF Moves(n) THEN Depth(1, First(n) - 1) - 1 ELSE Depth(1, First(n) - 1)
    <3>1. CASE j > First(n)
      <4>1. i \in Of(n)
        BY <1>1, <1>4, <2>1, <3>1 DEF Of
      <4>2. QED
        BY <4>1 DEF AsDeep
    <3>2. CASE j = First(n) /\ Moves(n)
      <4>1. i = First(n) - 1
        BY <1>1, <1>4, <3>2
      <4>2. QED
        BY <3>2, <4>1 DEF AsDeep
    <3>3. CASE j = First(n) /\ ~Moves(n)
      <4>1. i = First(n) - 1
        BY <1>1, <1>4, <3>3
      <4>2. ASSUME NEW m \in Visited, i \in Of(m) PROVE i = End(m) /\ ~Moves(m)
        <5>1. m # n
          BY <1>1, <1>4, <3>3, <4>2 DEF Of
        <5>2. j \notin Of(m)
          BY <2>2, <5>1
        <5>3. i = End(m)
          BY <1>1, <1>4, <4>2, <5>2 DEF Of
        <5>4. source[End(m) + 1] = "at"
          BY <1>1, <1>4, <3>3, <5>3
        <5>5. QED
          BY <5>3, <5>4 DEF Moves
      <4>3. ASSUME NEW m \in Visited, Moves(m), i = First(m) - 1 PROVE FALSE
        <5>1. j = First(m)
          BY <1>1, <1>4, <4>3
        <5>2. j \in Of(m)
          BY <1>4, <5>1 DEF Of
        <5>3. QED
          BY <2>2, <3>3, <4>3, <5>2
      <4>4. TextDepth(i) = Depth(1, i)
        BY <4>2, <4>3, AsDeepBetween
      <4>5. QED
        BY <3>3, <4>1, <4>4
    <3>4. QED
      BY <1>1, <1>4, <2>1, <3>1, <3>2, <3>3 DEF Of
  <2>5. \A m \in Visited : ~(Moves(m) /\ j = First(m) - 1)
    BY <1>4, <2>1 DEF Moves, Broken
  <2>6. AsDeep(j)
    BY <2>1, <2>2, <2>3, <2>4, <2>5 DEF AsDeep
  <2>7. QED
    BY <2>6 DEF j
<1>7. CASE /\ ~\E n \in Visited : j \in Of(n)
           /\ \E n \in Visited : Moves(n) /\ j = First(n) - 1
  <2>1. text[j] = "r_paren" /\ source[j] = "semi"
    BY <1>2, <1>7 DEF Became, Moves
  <2>2. \A n \in Visited : ~(Moves(n) /\ j = End(n) + 1)
    BY <2>1 DEF Moves
  <2>3. TextDepth(i) = Depth(1, i)
    BY <1>5, <1>7, <2>2
  <2>4. TextDepth(j) = Depth(1, j) - 1
    BY <1>3, <2>1, <2>3
  <2>5. AsDeep(j)
    BY <1>7, <2>4 DEF AsDeep
  <2>6. QED
    BY <2>5 DEF j
<1>8. CASE /\ ~\E n \in Visited : j \in Of(n)
           /\ ~\E n \in Visited : Moves(n) /\ j = First(n) - 1
           /\ \E n \in Visited : Moves(n) /\ j = End(n) + 1
  <2>1. PICK n \in Visited : Moves(n) /\ j = End(n) + 1
    BY <1>8
  <2>2. text[j] = "gone" /\ source[j] = "r_paren"
    BY <1>2, <1>8, <2>1 DEF Became, Moves
  <2>3. i \in Of(n) /\ i = End(n)
    BY <1>1, <1>4, <2>1 DEF Of
  <2>4. TextDepth(i) = Depth(1, i) - 1
    BY <1>4, <2>1, <2>3 DEF AsDeep
  <2>5. TextDepth(j) = Depth(1, j)
    BY <1>3, <2>2, <2>4
  <2>6. AsDeep(j)
    BY <1>8, <2>5 DEF AsDeep
  <2>7. QED
    BY <2>6 DEF j
<1>9. CASE /\ ~\E n \in Visited : j \in Of(n)
           /\ ~\E n \in Visited : Moves(n) /\ j = First(n) - 1
           /\ ~\E n \in Visited : Moves(n) /\ j = End(n) + 1
  <2>1. text[j] = source[j]
    BY <1>2, <1>9 DEF Became
  <2>2. TextDepth(i) = Depth(1, i)
    BY <1>5, <1>9
  <2>3. TextDepth(j) = Depth(1, j)
    BY <1>3, <2>1, <2>2
  <2>4. AsDeep(j)
    BY <1>9, <2>3 DEF AsDeep
  <2>5. QED
    BY <2>4 DEF j
<1>10. QED
  BY <1>6, <1>7, <1>8, <1>9

LEMMA DepthsAgree ==
    ASSUME Whole, TextIs, NEW i \in 0..Len(source)
    PROVE  AsDeep(i)
<1> DEFINE S == {k \in Nat : k <= Len(source) => AsDeep(k)}
<1>1. 0 \in S
  <2>1. Depth(1, 0) = 0 /\ TextDepth(0) = 0
    <3>1. 1 \in Int /\ 1 - 1 = 0
      OBVIOUS
    <3>2. Depth(1, 1 - 1) = 0 /\ DepthIn(text, 1, 1 - 1) = 0
      BY <3>1, DepthOfNothing, DepthInOfNothing
    <3>3. QED
      BY <3>1, <3>2 DEF TextDepth
  <2>2. \A n \in Visited : 0 \notin Of(n) /\ ~(Moves(n) /\ 0 = First(n) - 1)
    BY DEF Whole, IsWhole, Of, Moves
  <2>3. AsDeep(0)
    BY <2>1, <2>2 DEF AsDeep
  <2>4. QED
    BY <2>3
<1>2. ASSUME NEW k \in Nat, k \in S PROVE k + 1 \in S
  <2>1. k + 1 <= Len(source) => AsDeep(k + 1)
    BY <1>2, AsDeepStep DEF Whole
  <2>2. QED
    BY <2>1
<1>3. Nat \subseteq S
  <2> HIDE DEF S
  <2>1. QED
    BY <1>1, <1>2, SetInduction
<1>4. QED
  BY <1>3 DEF Whole

-----------------------------------------------------------------------------
(* Headers in the text.                                                    *)

\* What is known when an OKL source was read to its end.
OklRead ==
    /\ Whole /\ TextIs /\ IsOkl /\ source \in Seq(Kind)
    /\ \A a \in Attributes : \E n \in Visited : a = visited[n]
    /\ \A n \in Visited : visited[n] \in Attributes

LEMMA DepthIsInt == \A i \in Nat : Depth(1, i) \in Int /\ TextDepth(i) \in Int
BY BothSteps

LEMMA SourceMatches ==
    ASSUME OklRead
    PROVE  Depth(1, Len(source)) = 0 /\ \A i \in 0..Len(source) : Depth(1, i) >= 0
<1>1. ASSUME NEW i \in Nat PROVE Opens(source, 1, i) \in Nat /\ Closes(source, 1, i) \in Nat
  <2>1. i \in Int /\ 1 \in Int /\ 1 <= i + 1
    OBVIOUS
  <2>2. QED
    BY <2>1, CountInStep, CountsInAre
<1>2. /\ Opens(source, 1, Len(source)) = Closes(source, 1, Len(source))
      /\ \A i \in 1..Len(source) : Opens(source, 1, i) >= Closes(source, 1, i)
  BY DEF OklRead, IsOkl, ParensMatch
<1>3. Len(source) \in Nat
  BY DEF OklRead, Whole
<1>4. Depth(1, Len(source)) = 0
  BY <1>1, <1>2, <1>3 DEF Depth, DepthIn
<1>5. \A i \in 1..Len(source) : Depth(1, i) >= 0
  BY <1>1, <1>2, <1>3 DEF Depth, DepthIn
<1>6. Depth(1, 0) = 0
  <2>1. 1 \in Int /\ 1 - 1 = 0
    OBVIOUS
  <2>2. Depth(1, 1 - 1) = 0
    BY DepthOfNothing
  <2>3. QED
    BY <2>1, <2>2
<1>7. QED
  BY <1>3, <1>4, <1>5, <1>6

\* Where an attribute is moved, a parenthesis is open.
LEMMA MovedIsInParens ==
    ASSUME OklRead, NEW n \in Visited, Moves(n)
    PROVE  /\ Depth(1, First(n) - 1) = Depth(1, End(n))
           /\ Depth(1, End(n)) = Depth(1, End(n) + 1) + 1
           /\ Depth(1, First(n) - 1) >= 1
<1>1. /\ First(n) \in Nat \ {0} /\ End(n) \in Nat /\ End(n) < Len(source) /\ Len(source) \in Nat
      /\ Depth(1, End(n)) = Depth(1, First(n) - 1) /\ source[End(n) + 1] = "r_paren"
  BY DEF OklRead, Whole, IsWhole, Moves
<1>2. /\ Depth(1, End(n)) \in Int /\ Depth(1, End(n) + 1) \in Int
      /\ Depth(1, End(n) + 1) = Depth(1, End(n)) - 1
  BY <1>1, BothSteps
<1>3. Depth(1, End(n) + 1) >= 0
  <2>1. End(n) + 1 \in 0..Len(source)
    BY <1>1
  <2>2. QED
    BY <2>1, SourceMatches
<1>4. QED
  BY <1>1, <1>2, <1>3

LEMMA TextMatches == OklRead => ParensMatch(text)
<1> SUFFICES ASSUME OklRead PROVE ParensMatch(text)
  OBVIOUS
<1>1. /\ Whole /\ TextIs /\ Len(source) \in Nat \ {0} /\ Len(text) = Len(source)
      /\ DOMAIN text = 1..Len(source)
  BY DEF OklRead, Whole, TextIs
<1>2. \A n \in Visited : First(n) \in Nat \ {0} /\ End(n) \in Nat /\ First(n) < End(n) /\ End(n) < Len(source)
  BY <1>1 DEF Whole, IsWhole
<1>3. ASSUME NEW i \in Nat PROVE Opens(text, 1, i) \in Nat /\ Closes(text, 1, i) \in Nat
  <2>1. i \in Int /\ 1 \in Int /\ 1 <= i + 1
    OBVIOUS
  <2>2. QED
    BY <2>1, CountInStep, CountsInAre
<1>4. TextDepth(Len(source)) = 0
  <2>1. AsDeep(Len(source))
    BY <1>1, DepthsAgree
  <2>2. \A n \in Visited : Len(source) \notin Of(n) /\ ~(Len(source) = First(n) - 1)
    BY <1>1, <1>2 DEF Of
  <2>3. TextDepth(Len(source)) = Depth(1, Len(source))
    BY <2>1, <2>2 DEF AsDeep
  <2>4. QED
    BY <2>3, SourceMatches
<1>5. ASSUME NEW i \in 1..Len(source) PROVE TextDepth(i) >= 0
  <2>0. i \in 0..Len(source) /\ i \in Nat
    BY <1>1
  <2>1. AsDeep(i)
    BY <1>1, <2>0, DepthsAgree
  <2>2. CASE \E n \in Visited : i \in Of(n)
    <3>1. PICK n \in Visited : i \in Of(n)
      BY <2>2
    <3>2. First(n) - 1 \in 0..Len(source) /\ First(n) - 1 \in Nat
      BY <1>1, <1>2
    <3>3. Depth(1, First(n) - 1) >= 0 /\ Depth(1, First(n) - 1) \in Int
      BY <3>2, SourceMatches, DepthIsInt
    <3>4. TextDepth(i) = IF Moves(n) THEN Depth(1, First(n) - 1) - 1 ELSE Depth(1, First(n) - 1)
      BY <2>1, <3>1 DEF AsDeep
    <3>5. Moves(n) => Depth(1, First(n) - 1) >= 1
      BY MovedIsInParens
    <3>6. QED
      BY <3>3, <3>4, <3>5
  <2>3. CASE \E n \in Visited : Moves(n) /\ i = First(n) - 1
    <3>1. PICK n \in Visited : Moves(n) /\ i = First(n) - 1
      BY <2>3
    <3>2. TextDepth(i) = Depth(1, i) - 1
      BY <2>1, <3>1 DEF AsDeep
    <3>3. Depth(1, i) >= 1 /\ Depth(1, i) \in Int
      BY <2>0, <3>1, MovedIsInParens, DepthIsInt
    <3>4. QED
      BY <3>2, <3>3
  <2>4. CASE \A n \in Visited : i \notin Of(n) /\ ~(Moves(n) /\ i = First(n) - 1)
    <3>1. TextDepth(i) = Depth(1, i)
      BY <2>1, <2>4 DEF AsDeep
    <3>2. QED
      BY <2>0, <3>1, SourceMatches
  <2>5. QED
    BY <2>2, <2>3, <2>4
<1>6. Opens(text, 1, Len(text)) = Closes(text, 1, Len(text))
  BY <1>1, <1>3, <1>4 DEF TextDepth, DepthIn
<1>7. \A i \in DOMAIN text : Opens(text, 1, i) >= Closes(text, 1, i)
  <2> TAKE i \in DOMAIN text
  <2>1. i \in 1..Len(source) /\ i \in Nat
    BY <1>1
  <2>2. Opens(text, 1, i) - Closes(text, 1, i) >= 0
    BY <1>5, <2>1 DEF TextDepth, DepthIn
  <2>3. Opens(text, 1, i) \in Nat /\ Closes(text, 1, i) \in Nat
    BY <1>3, <2>1
  <2>4. QED
    BY <2>2, <2>3
<1>8. QED
  BY <1>6, <1>7 DEF ParensMatch

\* The header of the loop at f, from f + 1 to c.
HeaderAt(f, c) ==
    /\ f \in Nat \ {0} /\ c \in Nat /\ f + 1 < c /\ c <= Len(source)
    /\ source[f] = "kw_for" /\ source[f + 1] = "l_paren" /\ source[c] = "r_paren"
    /\ c = ClosingParen(source, f + 1)
    /\ Depth(1, f + 1) = Depth(1, f) + 1 /\ Depth(1, c) = Depth(1, f)
    /\ \A j \in f + 1..c - 1 : Depth(1, j) >= Depth(1, f) + 1
    /\ \A g \in Fors(source) : g <= f \/ g > c

LEMMA HeadersAre ==
    ASSUME OklRead, NEW f \in Fors(source)
    PROVE  HeaderAt(f, ClosingParen(source, f + 1))
<1> DEFINE c == ClosingParen(source, f + 1)
           p == f + 1
<1>1. /\ Len(source) \in Nat \ {0} /\ DOMAIN source = 1..Len(source)
      /\ f \in Nat \ {0} /\ p \in Nat \ {0} /\ source[f] = "kw_for"
  BY DEF OklRead, Whole, Fors
<1>2. /\ source[p] = "l_paren" /\ c # 0 /\ f < Len(source)
      /\ \A g \in Fors(source) : g <= f \/ g > c
  BY DEF OklRead, IsOkl, OklHeader
<1>3. c \in Closings(p) /\ c \in p..Len(source) /\ Depth(p, c) = 0
  <2>1. Closings(p) # {}
    BY <1>1, <1>2, ClosingsAre
  <2>2. c \in Closings(p)
    BY <1>1, <2>1, ClosingsAre
  <2>3. c \in p..Len(source)
    BY <2>2 DEF Closings, ClosingsIn
  <2>4. QED
    BY <1>1, <2>2, <2>3, ClosingsAre
<1>4. Depth(p, p) = 1
  BY <1>1, <1>2, DepthOfOpen
<1>5. c \in Nat /\ p < c
  BY <1>1, <1>3, <1>4
<1>6. ASSUME NEW j \in p..c PROVE Depth(1, j) = Depth(p, j) + Depth(1, f) /\ Depth(p, j) \in Int
  <2>1. 1 \in Nat /\ 1 <= p /\ p > 0 /\ j \in Nat /\ p <= j /\ p - 1 = f
    BY <1>1
  <2>2. Depth(p, j) = Depth(1, j) - Depth(1, p - 1)
    BY <1>1, <2>1, DepthSplits
  <2>3. Depth(1, j) \in Int /\ Depth(1, f) \in Int
    BY <1>1, <2>1, DepthIsInt
  <2>4. QED
    BY <2>1, <2>2, <2>3
<1>7. Depth(1, f) \in Int
  BY <1>1, DepthIsInt
<1> HIDE DEF c, p
<1>8. Depth(1, p) = Depth(1, f) + 1 /\ Depth(1, c) = Depth(1, f)
  <2>1. p \in p..c /\ c \in p..c
    BY <1>1, <1>5
  <2>2. Depth(1, p) = Depth(p, p) + Depth(1, f) /\ Depth(1, c) = Depth(p, c) + Depth(1, f)
    BY <1>6, <2>1
  <2>3. QED
    BY <1>3, <1>4, <1>7, <2>2
<1>9. \A j \in p..c - 1 : Depth(1, j) >= Depth(1, f) + 1
  <2> TAKE j \in p..c - 1
  <2>1. j \in p..c /\ j \in p..Len(source) /\ j # c /\ j < c
    BY <1>1, <1>3, <1>5
  <2>2. Depth(p, j) # 0
    <3>1. j \notin Closings(p)
      BY <1>1, <1>3, <1>5, <2>1, ClosingsAre DEF c, p
    <3>2. QED
      BY <1>1, <2>1, <3>1, ClosingsAre
  <2>3. ~(Depth(p, j) < 0)
    <3> SUFFICES ASSUME Depth(p, j) < 0 PROVE FALSE
      OBVIOUS
    <3>1. ClosingParen(source, p) \in p..j
      BY <1>1, <1>2, <2>1, ClosingWithin
    <3>2. c = ClosingParen(source, p)
      BY DEF c, p
    <3>3. QED
      BY <1>1, <1>5, <2>1, <3>1, <3>2
  <2>4. Depth(1, j) = Depth(p, j) + Depth(1, f) /\ Depth(p, j) \in Int
    BY <1>6, <2>1
  <2>5. QED
    BY <1>7, <2>2, <2>3, <2>4
<1>10. source[c] = "r_paren"
  <2> DEFINE x == c - 1
  <2>1. x \in Nat /\ x + 1 = c /\ x \in p..c - 1
    BY <1>1, <1>5
  <2>2. Depth(1, x) >= Depth(1, f) + 1
    BY <1>9, <2>1
  <2> HIDE DEF x
  <2>3. /\ Depth(1, x) \in Int
        /\ source[x + 1] = "l_paren" => Depth(1, x + 1) = Depth(1, x) + 1
        /\ source[x + 1] \notin {"l_paren", "r_paren"} => Depth(1, x + 1) = Depth(1, x)
    BY <2>1, BothSteps
  <2>4. QED
    BY <1>7, <1>8, <2>1, <2>2, <2>3
<1>11. c = ClosingParen(source, f + 1) /\ c <= Len(source)
  BY <1>1, <1>3 DEF c
<1>12. QED
  BY <1>1, <1>2, <1>5, <1>8, <1>9, <1>10, <1>11 DEF HeaderAt, p, c

\* Within a header, only its last attribute is moved.
LEMMA OnlyLastMoves ==
    ASSUME OklRead, NEW f, NEW c, HeaderAt(f, c),
           NEW n \in Visited, Moves(n), First(n) - 1 \in f + 1..c
    PROVE  End(n) + 1 = c
<1>1. /\ First(n) \in Nat \ {0} /\ End(n) \in Nat /\ First(n) < End(n) /\ source[First(n) - 1] = "semi"
      /\ source[End(n) + 1] = "r_paren"
  BY DEF OklRead, Whole, IsWhole, Moves
<1>2. /\ visited[n] \in Attributes /\ visited[n][1] = First(n) /\ visited[n][Len(visited[n])] = End(n)
  BY DEF OklRead, First, End
<1>3. PICK g \in Fors(source) : First(n) > g /\ EndsHeader(visited[n], g)
  BY <1>1, <1>2 DEF OklRead, IsOkl
<1>4. End(n) + 1 = ClosingParen(source, g + 1)
  BY <1>2, <1>3 DEF EndsHeader
<1>5. HeaderAt(g, End(n) + 1)
  BY <1>4, HeadersAre
<1>6. /\ f \in Nat /\ c \in Nat /\ f \in Fors(source) /\ source[c] = "r_paren"
      /\ (g <= f \/ g > c) /\ c = ClosingParen(source, f + 1)
  BY DEF HeaderAt, OklRead, Whole, Fors
<1>7. g \in Nat /\ (f <= g \/ f > End(n) + 1)
  BY <1>5, <1>6 DEF HeaderAt
<1>8. First(n) <= c
  BY <1>1, <1>6
<1>9. CASE g = f
  BY <1>4, <1>6, <1>9
<1>10. CASE g # f
  BY <1>1, <1>3, <1>6, <1>7, <1>8, <1>10
<1>11. QED
  BY <1>9, <1>10

\* The beginning of a header is left as it is.
LEMMA HeaderBegins ==
    ASSUME OklRead, NEW f, NEW c, HeaderAt(f, c)
    PROVE  /\ text[f + 1] = "l_paren" /\ TextDepth(f) = Depth(1, f)
           /\ \A n \in Visited : f + 1 \notin Of(n)
<1>1. /\ f \in Nat \ {0} /\ f + 1 \in 1..Len(source) /\ f \in 0..Len(source)
      /\ source[f] = "kw_for" /\ source[f + 1] = "l_paren"
  BY DEF HeaderAt, OklRead, Whole
<1>2. \A n \in Visited : /\ First(n) \in Nat \ {0} /\ End(n) \in Nat /\ First(n) < End(n)
                         /\ source[First(n)] = "at" /\ \A k \in Of(n) : source[k] \notin Broken
  BY DEF OklRead, Whole, IsWhole
<1>3. \A n \in Visited : f \notin Of(n)
  BY <1>1, <1>2 DEF Broken
<1>4. ASSUME NEW n \in Visited PROVE f + 1 \notin Of(n)
  <2>1. f + 1 # First(n)
    BY <1>1, <1>2
  <2>2. QED
    BY <1>1, <1>2, <1>3, <2>1 DEF Of
<1>5. Became(f + 1, text[f + 1])
  BY <1>1 DEF OklRead, TextIs
<1>6. \A n \in Visited : ~(Moves(n) /\ f + 1 = First(n) - 1) /\ ~(Moves(n) /\ f + 1 = End(n) + 1)
  BY <1>1 DEF Moves
<1>7. text[f + 1] = "l_paren"
  BY <1>1, <1>4, <1>5, <1>6 DEF Became
<1>8. AsDeep(f)
  BY <1>1, DepthsAgree DEF OklRead
<1>9. \A n \in Visited : ~(Moves(n) /\ f = First(n) - 1)
  BY <1>1 DEF Moves
<1>10. TextDepth(f) = Depth(1, f)
  BY <1>3, <1>8, <1>9 DEF AsDeep
<1>11. QED
  BY <1>4, <1>7, <1>10

\* Within a header the text is as deep as it has to be, up to an attribute that
\* is moved.
LEMMA HeaderIsOpen ==
    ASSUME OklRead, NEW f, NEW c, HeaderAt(f, c), NEW j \in f + 1..c - 1,
           \A n \in Visited : Moves(n) /\ End(n) + 1 = c => j < First(n) - 1
    PROVE  TextDepth(j) >= Depth(1, f) + 1 /\ TextDepth(j) \in Int
<1>1. /\ f \in Nat \ {0} /\ c \in Nat /\ c <= Len(source) /\ Len(source) \in Nat /\ j \in Nat /\ j \in 0..Len(source)
      /\ \A k \in f + 1..c - 1 : Depth(1, k) >= Depth(1, f) + 1
  BY DEF HeaderAt, OklRead, Whole
<1>2. Depth(1, f) \in Int /\ Depth(1, j) \in Int /\ TextDepth(j) \in Int
  BY <1>1, DepthIsInt
<1>3. AsDeep(j)
  BY <1>1, DepthsAgree DEF OklRead
<1>4. \A n \in Visited : First(n) \in Nat \ {0} /\ End(n) \in Nat /\ First(n) < End(n)
  BY DEF OklRead, Whole, IsWhole
<1>5. CASE \E n \in Visited : j \in Of(n)
  <2>1. PICK n \in Visited : j \in Of(n)
    BY <1>5
  <2>2. First(n) > f + 1
    <3>1. f + 1 \notin Of(n)
      BY HeaderBegins
    <3>2. QED
      BY <1>1, <1>4, <2>1, <3>1 DEF Of
  <2>3. First(n) - 1 \in f + 1..c - 1 /\ First(n) - 1 \in f + 1..c
    BY <1>1, <1>4, <2>1, <2>2 DEF Of
  <2>4. ~Moves(n)
    <3> SUFFICES ASSUME Moves(n) PROVE FALSE
      OBVIOUS
    <3>1. End(n) + 1 = c
      BY <2>3, OnlyLastMoves
    <3>2. QED
      BY <1>1, <1>4, <2>1, <3>1 DEF Of
  <2>5. TextDepth(j) = Depth(1, First(n) - 1)
    BY <1>3, <2>1, <2>4 DEF AsDeep
  <2>6. QED
    BY <1>1, <1>2, <2>3, <2>5
<1>6. CASE \E n \in Visited : Moves(n) /\ j = First(n) - 1
  <2>1. PICK n \in Visited : Moves(n) /\ j = First(n) - 1
    BY <1>6
  <2>2. First(n) - 1 \in f + 1..c
    BY <1>1, <2>1
  <2>3. End(n) + 1 = c
    BY <2>1, <2>2, OnlyLastMoves
  <2>4. QED
    BY <1>1, <2>1, <2>3
<1>7. CASE \A n \in Visited : j \notin Of(n) /\ ~(Moves(n) /\ j = First(n) - 1)
  <2>1. TextDepth(j) = Depth(1, j)
    BY <1>3, <1>7 DEF AsDeep
  <2>2. QED
    BY <1>1, <1>2, <2>1
<1>8. QED
  BY <1>5, <1>6, <1>7

\* The header in the text, when it is closed at e.
LEMMA TextHeader ==
    ASSUME OklRead, NEW f, NEW c, HeaderAt(f, c), NEW e \in f + 2..c,
           TextDepth(e) = Depth(1, f), \A j \in f + 1..e - 1 : TextDepth(j) >= Depth(1, f) + 1
    PROVE  ClosingParen(text, f + 1) = e
<1> DEFINE p == f + 1
<1>1. /\ f \in Nat \ {0} /\ c \in Nat /\ c <= Len(source) /\ Len(source) \in Nat /\ Len(text) = Len(source)
      /\ p \in Nat /\ p > 0 /\ p - 1 = f /\ 1 <= p /\ e \in Nat /\ p <= e /\ e \in p..Len(text) /\ Len(text) \in Nat
  BY DEF HeaderAt, OklRead, Whole, TextIs
<1>2. ASSUME NEW j \in p..e PROVE DepthIn(text, p, j) = TextDepth(j) - Depth(1, f) /\ TextDepth(j) \in Int
  <2>1. 1 \in Nat /\ p \in Nat /\ 1 <= p /\ p > 0 /\ j \in Nat /\ p <= j
    BY <1>1
  <2> HIDE DEF p
  <2>2. DepthIn(text, p, j) = DepthIn(text, 1, j) - DepthIn(text, 1, p - 1)
    BY <2>1, DepthInSplits
  <2>3. TextDepth(f) = Depth(1, f)
    BY HeaderBegins
  <2>4. QED
    BY <1>1, <2>1, <2>2, <2>3, DepthIsInt DEF TextDepth
<1>3. Depth(1, f) \in Int
  BY <1>1, DepthIsInt
<1> HIDE DEF p
<1>4. DepthIn(text, p, e) = 0
  <2>1. e \in p..e
    BY <1>1
  <2>2. DepthIn(text, p, e) = TextDepth(e) - Depth(1, f)
    BY <1>2, <2>1
  <2>3. QED
    BY <1>3, <2>2
<1>5. \A j \in p..e - 1 : DepthIn(text, p, j) # 0
  <2> TAKE j \in p..e - 1
  <2>1. j \in p..e /\ j \in f + 1..e - 1
    BY <1>1 DEF p
  <2>2. DepthIn(text, p, j) = TextDepth(j) - Depth(1, f) /\ TextDepth(j) \in Int
    BY <1>2, <2>1
  <2>3. TextDepth(j) >= Depth(1, f) + 1
    BY <2>1
  <2>4. QED
    BY <1>3, <2>2, <2>3
<1>6. ClosingParen(text, p) = e
  BY <1>1, <1>4, <1>5, ClosingInIs
<1>7. QED
  BY <1>6 DEF p

SourceSemis(f, c) == {i \in f + 2..c - 1 : source[i] = "semi" /\ Depth(1, i) = Depth(1, f) + 1}
TextSemis(f, e)   == {i \in f + 2..e - 1 : text[i] = "semi" /\ TextDepth(i) = Depth(1, f) + 1}

LEMMA SemisOfSource ==
    ASSUME OklRead, NEW f, NEW c, HeaderAt(f, c)
    PROVE  Semis(source, f) = SourceSemis(f, c)
<1> DEFINE p == f + 1
<1>1. f \in Nat \ {0} /\ c \in Nat /\ c = ClosingParen(source, f + 1)
  BY DEF HeaderAt
<1>2. ASSUME NEW i \in f + 2..c - 1
      PROVE  Opens(source, p, i) = Closes(source, p, i) + 1 <=> Depth(1, i) = Depth(1, f) + 1
  <2>1. 1 \in Nat /\ p \in Nat /\ 1 <= p /\ p > 0 /\ i \in Nat /\ p <= i /\ p - 1 = f /\ i \in Int /\ p \in Int
        /\ p <= i + 1
    BY <1>1
  <2> HIDE DEF p
  <2>2. Depth(p, i) = Depth(1, i) - Depth(1, p - 1)
    BY <2>1, DepthSplits
  <2>3. Opens(source, p, i) \in Nat /\ Closes(source, p, i) \in Nat
    BY <2>1, CountInStep, CountsInAre
  <2>4. Depth(1, i) \in Int /\ Depth(1, f) \in Int
    BY <1>1, <2>1, DepthIsInt
  <2>5. Depth(p, i) = Opens(source, p, i) - Closes(source, p, i)
    BY DEF Depth, DepthIn
  <2>6. QED
    BY <2>1, <2>2, <2>3, <2>4, <2>5
<1>3. QED
  BY <1>1, <1>2 DEF Semis, SourceSemis

LEMMA SemisOfText ==
    ASSUME OklRead, NEW f, NEW c, HeaderAt(f, c), NEW e \in Nat, e = ClosingParen(text, f + 1)
    PROVE  Semis(text, f) = TextSemis(f, e)
<1> DEFINE p == f + 1
<1>1. f \in Nat \ {0} /\ c \in Nat
  BY DEF HeaderAt
<1>2. ASSUME NEW i \in f + 2..e - 1
      PROVE  Opens(text, p, i) = Closes(text, p, i) + 1 <=> TextDepth(i) = Depth(1, f) + 1
  <2>1. 1 \in Nat /\ p \in Nat /\ 1 <= p /\ p > 0 /\ i \in Nat /\ p <= i /\ p - 1 = f /\ i \in Int /\ p \in Int
        /\ p <= i + 1
    BY <1>1
  <2> HIDE DEF p
  <2>2. DepthIn(text, p, i) = DepthIn(text, 1, i) - DepthIn(text, 1, p - 1)
    BY <2>1, DepthInSplits
  <2>3. Opens(text, p, i) \in Nat /\ Closes(text, p, i) \in Nat
    BY <2>1, CountInStep, CountsInAre
  <2>4. TextDepth(i) \in Int /\ Depth(1, f) \in Int /\ TextDepth(f) = Depth(1, f)
    BY <1>1, <2>1, DepthIsInt, HeaderBegins
  <2>5. DepthIn(text, p, i) = Opens(text, p, i) - Closes(text, p, i)
    BY DEF DepthIn
  <2>6. QED
    BY <2>1, <2>2, <2>3, <2>4, <2>5 DEF TextDepth
<1>3. QED
  BY <1>1, <1>2 DEF Semis, TextSemis

\* A semicolon in a header stays one at its depth, unless it closes the header.
LEMMA SemiStays ==
    ASSUME OklRead, NEW i \in 1..Len(source)
    PROVE  /\ text[i] = "semi" => source[i] = "semi"
           /\ source[i] = "semi" /\ (\A n \in Visited : ~(Moves(n) /\ i = First(n) - 1)) =>
                 text[i] = "semi" /\ TextDepth(i) = Depth(1, i)
           /\ text[i] = "semi" => TextDepth(i) = Depth(1, i)
<1>1. Became(i, text[i])
  BY DEF OklRead, TextIs
<1>2. AsDeep(i)
  BY DepthsAgree DEF OklRead, Whole
<1>3. \A n \in Visited : \A k \in Of(n) : source[k] # "semi"
  BY DEF OklRead, Whole, IsWhole, Broken
<1>4. ASSUME source[i] = "semi", \A n \in Visited : ~(Moves(n) /\ i = First(n) - 1)
      PROVE  text[i] = "semi" /\ TextDepth(i) = Depth(1, i)
  <2>1. \A n \in Visited : i \notin Of(n) /\ ~(Moves(n) /\ i = End(n) + 1)
    BY <1>3, <1>4 DEF Moves
  <2>2. QED
    BY <1>1, <1>2, <1>4, <2>1 DEF Became, AsDeep
<1>5. ASSUME text[i] = "semi"
      PROVE  source[i] = "semi" /\ \A n \in Visited : ~(Moves(n) /\ i = First(n) - 1)
  BY <1>1, <1>5 DEF Became
<1>6. QED
  BY <1>4, <1>5

\* The header of the loop at f has two semicolons in the text.
LEMMA HeaderIsLegal ==
    ASSUME OklRead, NEW f \in Fors(source)
    PROVE  text[f + 1] = "l_paren" /\ Cardinality(Semis(text, f)) = 2
<1> DEFINE c     == ClosingParen(source, f + 1)
           S     == SourceSemis(f, c)
           ended == {a \in Attributes : EndsHeader(a, f) /\ a[1] - 1 \in Semis(source, f)}
<1>1. HeaderAt(f, c)
  BY HeadersAre
<1>2. /\ f \in Nat \ {0} /\ c \in Nat /\ f + 1 < c /\ c <= Len(source) /\ Len(source) \in Nat
      /\ source[c] = "r_paren" /\ source[f + 1] = "l_paren" /\ c = ClosingParen(source, f + 1)
      /\ Depth(1, c) = Depth(1, f) /\ Depth(1, f) \in Int
      /\ \A j \in f + 1..c - 1 : Depth(1, j) >= Depth(1, f) + 1
  BY <1>1, DepthIsInt DEF HeaderAt, OklRead, Whole
<1>3. Semis(source, f) = S
  BY <1>1, SemisOfSource
<1>4. Cardinality(S) = IF ended = {} THEN 2 ELSE 3
  BY <1>3 DEF OklRead, IsOkl, OklHeader
<1>5. IsFiniteSet(S)
  <2>1. IsFiniteSet(f + 2..c - 1)
    BY <1>2, FS_Interval
  <2>2. S \in SUBSET (f + 2..c - 1)
    BY DEF SourceSemis
  <2>3. QED
    BY <2>1, <2>2, FS_Subset
<1> HIDE DEF c
<1>6. \A n \in Visited : /\ First(n) \in Nat \ {0} /\ End(n) \in Nat /\ First(n) < End(n)
                         /\ \A k \in Of(n) : source[k] # "semi"
                         /\ Depth(1, End(n)) = Depth(1, First(n) - 1)
                         /\ \A k \in Of(n) : Depth(1, k) >= Depth(1, First(n) - 1)
  BY DEF OklRead, Whole, IsWhole, Broken
<1>7. \A n \in Visited : f + 1 \notin Of(n)
  BY <1>1, HeaderBegins
<1>8. CASE \E n \in Visited : Moves(n) /\ End(n) + 1 = c
  <2>1. PICK n \in Visited : Moves(n) /\ End(n) + 1 = c
    BY <1>8
  <2> DEFINE e == First(n) - 1
  <2>2. /\ e \in f + 2..c - 1 /\ e \in 1..Len(source) /\ e \in 0..Len(source) /\ e \in Nat /\ source[e] = "semi"
        /\ First(n) = e + 1
    <3>1. First(n) > f + 1
      BY <1>2, <1>6, <1>7, <2>1 DEF Of
    <3>2. source[e] = "semi"
      BY <2>1 DEF Moves
    <3>3. e # f + 1
      BY <1>2, <3>2
    <3>4. QED
      BY <1>2, <1>6, <2>1, <3>1, <3>2, <3>3
  <2>3. \A m \in Visited : Moves(m) /\ End(m) + 1 = c => m = n
    <3> SUFFICES ASSUME NEW m \in Visited, End(m) + 1 = c, m # n PROVE FALSE
      OBVIOUS
    <3>1. End(m) = End(n)
      BY <1>6, <2>1
    <3>2. End(m) \in Of(m) /\ End(n) \in Of(n)
      BY <1>6 DEF Of
    <3>3. Of(m) \cap Of(n) = {}
      BY DEF OklRead, Whole
    <3>4. QED
      BY <3>1, <3>2, <3>3
  <2>4. Depth(1, e) = Depth(1, f) + 1
    <3>1. Depth(1, e) = Depth(1, End(n)) /\ Depth(1, End(n)) = Depth(1, End(n) + 1) + 1
      BY <2>1, MovedIsInParens
    <3>2. QED
      BY <1>2, <2>1, <3>1
  <2>5. TextDepth(e) = Depth(1, f)
    <3>1. AsDeep(e)
      BY <2>2, DepthsAgree DEF OklRead
    <3>2. TextDepth(e) = Depth(1, e) - 1
      BY <2>1, <3>1 DEF AsDeep
    <3>3. QED
      BY <1>2, <2>4, <3>2
  <2> HIDE DEF e
  <2>6. \A j \in f + 1..e - 1 : TextDepth(j) >= Depth(1, f) + 1
    <3> TAKE j \in f + 1..e - 1
    <3>1. j \in f + 1..c - 1
      BY <1>2, <2>2
    <3>2. \A m \in Visited : Moves(m) /\ End(m) + 1 = c => j < First(m) - 1
      BY <2>2, <2>3 DEF e
    <3>3. QED
      BY <1>1, <3>1, <3>2, HeaderIsOpen
  <2>7. ClosingParen(text, f + 1) = e
    <3>1. e \in f + 2..c
      BY <1>2, <2>2
    <3>2. QED
      BY <1>1, <2>5, <2>6, <3>1, TextHeader
  <2>8. Semis(text, f) = TextSemis(f, e)
    BY <1>1, <2>2, <2>7, SemisOfText
  <2>9. e \in S
    BY <2>2, <2>4 DEF SourceSemis
  <2>10. TextSemis(f, e) = S \ {e}
    <3>1. ASSUME NEW i \in TextSemis(f, e) PROVE i \in S \ {e}
      <4>1. i \in f + 2..e - 1 /\ text[i] = "semi" /\ TextDepth(i) = Depth(1, f) + 1
        BY DEF TextSemis
      <4>2. i \in 1..Len(source) /\ i \in f + 2..c - 1 /\ i # e
        BY <1>2, <2>2, <4>1
      <4>3. source[i] = "semi" /\ TextDepth(i) = Depth(1, i)
        BY <4>1, <4>2, SemiStays
      <4>4. QED
        BY <4>1, <4>2, <4>3 DEF SourceSemis
    <3>2. ASSUME NEW i \in S, i # e PROVE i \in TextSemis(f, e)
      <4>1. i \in f + 2..c - 1 /\ source[i] = "semi" /\ Depth(1, i) = Depth(1, f) + 1
        BY DEF SourceSemis
      <4>2. i < e
        <5>1. i \notin Of(n)
          BY <1>6, <4>1
        <5>2. QED
          BY <1>2, <1>6, <2>1, <2>2, <3>2, <4>1, <5>1 DEF Of
      <4>3. i \in 1..Len(source) /\ i \in f + 2..e - 1 /\ i \in f + 1..c
        BY <1>2, <2>2, <4>1, <4>2
      <4>4. ASSUME NEW m \in Visited, Moves(m), i = First(m) - 1 PROVE FALSE
        <5>1. End(m) + 1 = c
          BY <1>1, <4>3, <4>4, OnlyLastMoves
        <5>2. m = n
          BY <2>3, <4>4, <5>1
        <5>3. QED
          BY <3>2, <4>4, <5>2 DEF e
      <4>5. text[i] = "semi" /\ TextDepth(i) = Depth(1, i)
        BY <4>1, <4>3, <4>4, SemiStays
      <4>6. QED
        BY <4>1, <4>3, <4>5 DEF TextSemis
    <3>3. e \notin TextSemis(f, e)
      BY <2>2 DEF TextSemis
    <3>4. QED
      BY <3>1, <3>2
  <2>11. Cardinality(S) = 3
    <3>1. visited[n] \in Attributes /\ visited[n][1] = First(n) /\ visited[n][Len(visited[n])] = End(n)
      BY DEF OklRead, First, End
    <3>2. EndsHeader(visited[n], f)
      BY <1>2, <2>1, <3>1 DEF EndsHeader
    <3>3. visited[n][1] - 1 \in Semis(source, f)
      BY <1>3, <2>9, <3>1 DEF e
    <3>4. visited[n] \in ended
      BY <3>1, <3>2, <3>3
    <3>5. QED
      BY <1>4, <3>4
  <2>12. Cardinality(S \ {e}) = 2
    <3> HIDE DEF S
    <3>1. Cardinality(S \ {e}) = Cardinality(S) - 1
      BY <1>5, <2>9, FS_RemoveElement
    <3>2. QED
      BY <2>11, <3>1
  <2>13. QED
    BY <1>1, <2>8, <2>10, <2>12, HeaderBegins
<1>9. CASE \A n \in Visited : ~(Moves(n) /\ End(n) + 1 = c)
  <2>1. TextDepth(c) = Depth(1, f)
    <3>1. AsDeep(c)
      <4>1. c \in 0..Len(source)
        BY <1>2
      <4>2. QED
        BY <4>1, DepthsAgree DEF OklRead
    <3>2. ASSUME NEW n \in Visited PROVE c \notin Of(n)
      <4> SUFFICES ASSUME c \in Of(n) PROVE FALSE
        OBVIOUS
      <4>1. First(n) - 1 \in f + 1..c - 1
        BY <1>2, <1>6, <1>7 DEF Of
      <4>2. Depth(1, c) >= Depth(1, First(n) - 1) /\ Depth(1, First(n) - 1) >= Depth(1, f) + 1
        BY <1>2, <1>6, <4>1
      <4>3. Depth(1, First(n) - 1) \in Int
        <5>1. First(n) - 1 \in Nat
          BY <1>2, <4>1
        <5>2. QED
          BY <5>1, DepthIsInt
      <4>4. QED
        BY <1>2, <4>2, <4>3
    <3>3. \A n \in Visited : ~(Moves(n) /\ c = First(n) - 1)
      BY <1>2 DEF Moves
    <3>4. TextDepth(c) = Depth(1, c)
      BY <3>1, <3>2, <3>3 DEF AsDeep
    <3>5. QED
      BY <1>2, <3>4
  <2>2. \A j \in f + 1..c - 1 : TextDepth(j) >= Depth(1, f) + 1
    BY <1>1, <1>9, HeaderIsOpen
  <2>3. ClosingParen(text, f + 1) = c
    <3>1. c \in f + 2..c
      BY <1>2
    <3>2. QED
      BY <1>1, <2>1, <2>2, <3>1, TextHeader
  <2>4. Semis(text, f) = TextSemis(f, c)
    BY <1>1, <1>2, <2>3, SemisOfText
  <2>5. TextSemis(f, c) = S
    <3>1. ASSUME NEW i \in f + 2..c - 1
          PROVE  text[i] = "semi" /\ TextDepth(i) = Depth(1, f) + 1 <=>
                 source[i] = "semi" /\ Depth(1, i) = Depth(1, f) + 1
      <4>1. i \in 1..Len(source) /\ i \in f + 1..c
        BY <1>2
      <4>2. \A n \in Visited : ~(Moves(n) /\ i = First(n) - 1)
        BY <1>1, <1>9, <4>1, OnlyLastMoves
      <4>3. QED
        BY <4>1, <4>2, SemiStays
    <3>2. QED
      BY <3>1 DEF TextSemis, SourceSemis
  <2>6. ended = {}
    <3> SUFFICES ASSUME NEW a \in Attributes, EndsHeader(a, f), a[1] - 1 \in S PROVE FALSE
      BY <1>3
    <3>1. PICK n \in Visited : a = visited[n]
      BY DEF OklRead
    <3>2. a[1] = First(n) /\ End(n) + 1 = c
      BY <1>2, <3>1 DEF First, End, EndsHeader
    <3>3. First(n) > 1 /\ source[First(n) - 1] = "semi"
      BY <1>2, <1>6, <3>2 DEF SourceSemis
    <3>4. Moves(n)
      BY <1>2, <3>2, <3>3 DEF Moves
    <3>5. QED
      BY <1>9, <3>2, <3>4
  <2>7. QED
    BY <1>1, <1>4, <2>4, <2>5, <2>6, HeaderBegins
<1>10. QED
  BY <1>8, <1>9

\* Whatever attributes stand in and around the loops of an OKL source, the
\* semicolon and the parenthesis that the two tokens beside an attribute select
\* are the right ones: the text has headers of two semicolons, and no
\* parenthesis was lost or added.
THEOREM HeadersAreLegal == Spec => []HeadersBecomeLegal
<1>1. ASSUME Inv, FoundInv, AttributesFound, EditInv PROVE HeadersBecomeLegal
  <2> SUFFICES ASSUME status = "done", IsOkl
               PROVE  /\ ParensMatch(text)
                      /\ \A f \in Fors(text) : text[f + 1] = "l_paren" /\ Cardinality(Semis(text, f)) = 2
    BY DEF HeadersBecomeLegal
  <2>1. OklRead
    <3>1. Whole /\ TextIs /\ source \in Seq(Kind)
      BY <1>1, AttributesAreWhole DEF EditInv, Inv, Types
    <3>2. ToSet(visited) = Attributes /\ DOMAIN visited = Visited
      BY <1>1 DEF AttributesFound, Inv, Types, Visited
    <3>3. QED
      BY <3>1, <3>2 DEF OklRead, ToSet
  <2>2. ASSUME NEW f \in Fors(text) PROVE f \in Fors(source)
    <3>1. f \in 1..Len(source) /\ text[f] = "kw_for" /\ DOMAIN source = 1..Len(source)
      BY <2>1 DEF Fors, OklRead, TextIs
    <3>2. Became(f, "kw_for")
      BY <2>1, <3>1 DEF OklRead, TextIs
    <3>3. source[f] = "kw_for"
      BY <3>2 DEF Became
    <3>4. QED
      BY <3>1, <3>3 DEF Fors
  <2>3. QED
    BY <2>1, <2>2, TextMatches, HeaderIsLegal
<1>2. QED
  BY <1>1, FoundInvariance, MachineFindsAttributes, EditInvariance, PTL
=============================================================================
