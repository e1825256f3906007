----------------------------- MODULE MCLoopCode -----------------------------
(***************************************************************************)
(* Every shape of header over a range of up to seven values, and every     *)
(* tile of up to three.                                                    *)
(***************************************************************************)
EXTENDS LoopCode

Headers == [start : {0, 6}, end : {1, 5, 6}, op : {"<", "<=", ">", ">="}, inc : 0..3]

AllLoops ==
    {[type |-> type, tileSize |-> size, check |-> check,
      start |-> h.start, end |-> h.end, op |-> h.op, inc |-> h.inc] :
        type \in Types, size \in 1..3, check \in BOOLEAN, h \in Headers}

AllCases == [loop : AllLoops, backend : {"device", "host"}]

AgreedCases == {c \in AllCases : Agreed(c)}
=============================================================================
