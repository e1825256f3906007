----------------------------- MODULE MCOklTree -----------------------------
(***************************************************************************)
(* Instances of OklTree and InnerSizes: every loop nest of a few loops.    *)
(***************************************************************************)
EXTENDS InnerSizes

Loop1(t, a) == [type |-> <<t>>, axis |-> <<a>>, nobarrier |-> FALSE]
Tile(t, u)  == [type |-> <<t, u>>, axis |-> <<AutoAxis, AutoAxis>>, nobarrier |-> FALSE]

\* A plain loop, attributed loops whose axes are left to the transpiler, and
\* tiles of every combination that @tile can spell.
AutoKinds ==
    {PlainFor, Loop1("Outer", AutoAxis), Loop1("Inner", AutoAxis)} \cup
    {Tile(p[1], p[2]) : p \in {<<"Outer", "Outer">>, <<"Outer", "Inner">>, <<"Outer", "Regular">>,
                               <<"Inner", "Inner">>, <<"Inner", "Regular">>,
                               <<"Inner", "Outer">>}}

\* Headers that run upwards in steps of one; two that differ in the range, two
\* in what is literal.  The tile does not always divide the range.
Text(end, inc, literal, tileSize, tileLiteral) ==
    [start |-> 0, end |-> end, op |-> "<", inc |-> inc, literal |-> literal,
     tileSize |-> tileSize, tileLiteral |-> tileLiteral]

UpwardTexts ==
    {Text(3, 0, TRUE, 2, TRUE), Text(4, 1, TRUE, 2, TRUE),
     Text(4, 0, FALSE, 2, TRUE), Text(4, 0, TRUE, 2, FALSE)}

\* The headers that the theorems about bounds and work-groups are about.
ASSUME UpwardTextsAssumption == UpwardTexts \subseteq UpwardHeaders
=============================================================================
