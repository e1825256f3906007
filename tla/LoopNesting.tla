---------------------------- MODULE LoopNesting ----------------------------
(***************************************************************************)
(* What OklSemaCtx::currentLoop promises: the loops around the point of    *)
(* the walk are a stack.  Loops are numbered as they are entered; a loop   *)
(* is entered on top of the stack and left from the top, so it is left     *)
(* before the loop around it is, and it is never entered twice.            *)
(***************************************************************************)
EXTENDS Naturals, SequencesExt

VARIABLES
    open,       \* the loops around the walk, outermost first
    entered     \* how many loops were entered so far

vars == <<open, entered>>

Init ==
    /\ open = <<>>
    /\ entered = 0

Enter ==
    /\ entered' = entered + 1
    /\ open' = Append(open, entered')

Leave ==
    /\ open # <<>>
    /\ open' = Front(open)
    /\ UNCHANGED entered

Next == Enter \/ Leave

Spec == Init /\ [][Next]_vars
=============================================================================
