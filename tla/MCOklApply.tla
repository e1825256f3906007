----------------------------- MODULE MCOklApply -----------------------------
(***************************************************************************)
(* Instances of OklApply for TLC: every small program is walked, then      *)
(* transpiled for the device and for the launcher.                         *)
(***************************************************************************)
EXTENDS OklApply

Loop1(t, nobarrier) == [type |-> <<t>>, axis |-> <<AutoAxis>>, nobarrier |-> nobarrier]
Tile(t, u, nobarrier) ==
    [type |-> <<t, u>>, axis |-> <<AutoAxis, AutoAxis>>, nobarrier |-> nobarrier]

ApplyKinds == {PlainFor, Loop1("Outer", FALSE), Loop1("Inner", FALSE), Loop1("Inner", TRUE),
               Tile("Outer", "Inner", FALSE)}

\* With a tile, which is a whole kernel in one loop.
ProgramKinds ==
    {PlainFor, Loop1("Outer", FALSE), Loop1("Inner", FALSE), Tile("Outer", "Inner", FALSE)}
=============================================================================
