----------------------------- MODULE LoopHeader -----------------------------
(***************************************************************************)
(* The header of a for-statement, and the numbers that are computed from   *)
(* it: by semantic analysis (range.size), and by the launcher (the size of *)
(* a dimension of the launch).                                             *)
(*                                                                         *)
(* The expressions of a header have constant values, and integers do not   *)
(* overflow.                                                               *)
(***************************************************************************)
EXTENDS Integers

\* A header h has fields start, end, op and inc.  h.inc is 0 for ++ and --;
\* which of the two (or += and -=) follows from h.op, "loop must be a simple
\* iteration over range of values in increasing or decreasing order".
Comparisons == {"<", "<=", ">", ">="}

Compare(op, x, y) ==
    \/ op = "<" /\ x < y
    \/ op = "<=" /\ x <= y
    \/ op = ">" /\ x > y
    \/ op = ">=" /\ x >= y

IsInc(h) == h.op \in {"<", "<="}

Direction(h) == IF IsInc(h) THEN 1 ELSE -1

Step(h) == IF h.inc = 0 THEN 1 ELSE h.inc

\* range.size of a for-statement between two literals: neither the increment
\* nor the last value of <= and >= counts.
RangeSize(h) == IF IsInc(h) THEN h.end - h.start ELSE h.start - h.end

\* Division of C++, towards zero.
Quotient(a, b) == IF a >= 0 THEN a \div b ELSE -((-a) \div b)

\* Mutant: the last value of a loop with <= or >= is not counted.
HalfOpenRunDim(h) ==
    IF h.inc = 0 THEN RangeSize(h) ELSE Quotient(RangeSize(h) + h.inc - 1, h.inc)

\* getLoopInfoStr: the number of blocks or threads for a loop.
RunDim(h) ==
    LET range == RangeSize(h) + IF h.op \in {"<=", ">="} THEN 1 ELSE 0
    IN  IF h.inc = 0 THEN range ELSE Quotient(range + h.inc - 1, h.inc)

\* splitTileAttr: the headers of the two loops of a tile.  The second starts
\* at _occa_tiled_..., which the launcher initialises like the first.
FirstOfTile(h, tileSize) == [h EXCEPT !.inc = IF @ = 0 THEN tileSize ELSE tileSize * @]

SecondOfTile(h, tileSize) ==
    [h EXCEPT !.end = h.start + tileSize,
              !.op  = CASE @ = "<=" -> "<" [] @ = ">=" -> ">" [] OTHER -> @]
=============================================================================
