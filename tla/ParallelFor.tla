---------------------------- MODULE ParallelFor ----------------------------
(***************************************************************************)
(* What a for-statement promises whatever it is turned into: its           *)
(* iterations run in any order and any company, none of them twice, and    *)
(* nothing else runs.                                                      *)
(***************************************************************************)
EXTENDS Integers

VARIABLES
    iterations,     \* the values of the loop variable, which never change
    runs            \* how often the body ran, per value

Init == runs = [i \in iterations |-> 0]

Run(S) ==
    /\ S # {}
    /\ \A i \in S : runs[i] = 0
    /\ runs' = [i \in iterations |-> IF i \in S THEN 1 ELSE runs[i]]
    /\ UNCHANGED iterations

Next == \E S \in SUBSET iterations : Run(S)

Spec == Init /\ [][Next]_<<iterations, runs>>
=============================================================================
