----------------------------- MODULE MCOklSema -----------------------------
(***************************************************************************)
(* Instances of OklSema for TLC: the walk, with several kernels, helper    *)
(* functions and nodes among the loops.                                    *)
(***************************************************************************)
EXTENDS OklSema

OuterAuto == [type |-> <<"Outer">>, axis |-> <<AutoAxis>>, nobarrier |-> FALSE]
InnerAuto == [type |-> <<"Inner">>, axis |-> <<AutoAxis>>, nobarrier |-> FALSE]

WalkKinds == {PlainFor, OuterAuto, InnerAuto}
=============================================================================
