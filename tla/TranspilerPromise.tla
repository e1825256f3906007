------------------------- MODULE TranspilerPromise -------------------------
(***************************************************************************)
(* What a pipeline promises to its caller: the stages are applied one      *)
(* after the other, each to what the one before it left; the first trouble *)
(* ends the run and is the result; otherwise the result is that of all the *)
(* stages; and there is a result.                                          *)
(***************************************************************************)
EXTENDS Naturals

VARIABLES
    stages,     \* the number of stages of this pipeline
    applied,    \* how many of them are done
    trouble,    \* an error was seen
    result      \* "none", "ok" or "failed"

promiseVars == <<stages, applied, trouble, result>>

PromiseInit ==
    /\ stages \in Nat \ {0}
    /\ applied = 0
    /\ trouble \in BOOLEAN    \* the input may be empty
    /\ result = "none"

ApplyStage ==
    /\ result = "none"
    /\ ~trouble
    /\ applied < stages
    /\ applied' = applied + 1
    /\ UNCHANGED <<stages, trouble, result>>

SeeTrouble ==
    /\ result = "none"
    /\ ~trouble
    /\ trouble' = TRUE
    /\ UNCHANGED <<stages, applied, result>>

Fail ==
    /\ result = "none"
    /\ trouble
    /\ result' = "failed"
    /\ UNCHANGED <<stages, applied, trouble>>

Succeed ==
    /\ result = "none"
    /\ ~trouble
    /\ applied = stages
    /\ result' = "ok"
    /\ UNCHANGED <<stages, applied, trouble>>

PromiseNext == ApplyStage \/ SeeTrouble \/ Fail \/ Succeed

PromiseSpec == PromiseInit /\ [][PromiseNext]_promiseVars /\ WF_promiseVars(ApplyStage \/ Fail \/ Succeed)
=============================================================================
