----------------------------- MODULE DimAccess -----------------------------
(***************************************************************************)
(* The access m(i, j, ...) to a variable with @dim, which becomes          *)
(* m[i + (d0 * (j + ...))]: the texts of the indices and of the dimensions *)
(* are put together as they are, without parentheses round them, and what  *)
(* the new text means is up to the precedence of their operators.          *)
(***************************************************************************)
EXTENDS Integers, Sequences

\* An expression of the source: a value, a sum, or a choice (c ? yes : no).
Value(v)             == [op |-> "value", value |-> v]
SumOf(l, r)          == [op |-> "sum", left |-> l, right |-> r]
Choice(c, yes, no)   == [op |-> "choice", cond |-> c, yes |-> yes, no |-> no]

Operand ==
    [op : {"value"}, value : Int]
        \cup [op : {"sum"}, left : Int, right : Int]
        \cup [op : {"choice"}, cond : BOOLEAN, yes : Int, no : Int]

ValueOf(e) ==
    CASE e.op = "value"  -> e.value
      [] e.op = "sum"    -> e.left + e.right
      [] e.op = "choice" -> IF e.cond THEN e.yes ELSE e.no

\* What the text `e + (x)` stands for, and the text `e * (x)`.
Plus(e, x) ==
    CASE e.op = "choice" -> IF e.cond THEN e.yes ELSE e.no + x
      [] OTHER           -> ValueOf(e) + x

Times(e, x) ==
    CASE e.op = "value"  -> e.value * x
      [] e.op = "sum"    -> e.left + e.right * x
      [] e.op = "choice" -> IF e.cond THEN e.yes ELSE e.no * x

DefaultOrder(n) == [k \in 1..n |-> k - 1]
\* @dimOrder has at least one argument.
NoOrder         == <<>>

\* validateDim.
FitsDims(args, sizes) == Len(args) = Len(sizes)

\* getDimOrder.
OrderOf(order, sizes) == IF order = NoOrder THEN DefaultOrder(Len(sizes)) ELSE order

OrderFits(order, sizes) ==
    Len(order) = Len(sizes) /\ \A k \in DOMAIN order : order[k] < Len(sizes)

\* Mutant: the dimensions are taken as they come, whatever the order.
SizesInPlace(args, sizes, order) ==
    LET n == Len(sizes)
        rest[k \in 1..n] ==
            IF k = n THEN ValueOf(args[order[k] + 1])
            ELSE Plus(args[order[k] + 1], Times(sizes[k], rest[k + 1]))
    IN  rest[1]

\* buildIndexCalculation.
IndexText(args, sizes, order) ==
    LET n == Len(sizes)
        rest[k \in 1..n] ==
            IF k = n THEN ValueOf(args[order[k] + 1])
            ELSE Plus(args[order[k] + 1], Times(sizes[order[k] + 1], rest[k + 1]))
    IN  rest[1]

\* handleDimStmtAttribute: the index, or that the access is rejected.
DimIndex(args, sizes, order) ==
    IF FitsDims(args, sizes) /\ OrderFits(OrderOf(order, sizes), sizes)
    THEN <<"index", IndexText(args, sizes, OrderOf(order, sizes))>>
    ELSE <<"rejected">>

-----------------------------------------------------------------------------
\* What the index should be: an argument counts in blocks of the dimensions
\* that @dimOrder names before its own.
BlockSizes(sizes, order) ==
    LET block[k \in 0..Len(order)] ==
            IF k = 0 THEN 1 ELSE block[k - 1] * ValueOf(sizes[order[k] + 1])
    IN  block

Offset(args, sizes, order) ==
    LET sum[k \in 0..Len(order)] ==
            IF k = 0 THEN 0
            ELSE sum[k - 1] + BlockSizes(sizes, order)[k - 1] * ValueOf(args[order[k] + 1])
    IN  sum[Len(order)]
=============================================================================
