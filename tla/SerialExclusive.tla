--------------------------- MODULE SerialExclusive ---------------------------
(***************************************************************************)
(* @exclusive on the host.  Serial and OpenMP run the threads of a block   *)
(* as iterations of the @inner loops, so an @exclusive variable, declared  *)
(* between @outer and @inner loops, becomes an array with an element per   *)
(* thread, and its uses are indexed with _occa_exclusive_index.  Nobody    *)
(* computes that index: the handlers of @inner and @tile emit              *)
(* `_occa_exclusive_index = 0` before some loops and                       *)
(* `++_occa_exclusive_index` at the end of some bodies.                    *)
(*                                                                         *)
(* The module executes the emitted code during one iteration of the        *)
(* declaring loop.  Its body is a sequence of nests; a nest is a sequence  *)
(* of loops, each the only child of the one before, and the variable is    *)
(* used in the deepest.  Bodies are compound statements.                   *)
(***************************************************************************)
EXTENDS LoopTree, SequencesExt

CONSTANTS
    Programs,   \* sequences of nests, which are sequences of loops
    FixedSize   \* elements of an array for blocks of unknown size: 1024 in the code

ASSUME FixedSizeAssumption == FixedSize \in Nat \ {0}

\* A loop, and a tile of two loops; literal and tileLiteral say whether the
\* number of iterations and the tile size are known when the code is generated.
Loop == [type        : {<<"Regular">>, <<"Inner">>} \cup (LoopType \X LoopType),
         range       : Nat \ {0},
         literal     : BOOLEAN,
         tileSize    : Nat \ {0},
         tileLiteral : BOOLEAN,
         check       : BOOLEAN]

ASSUME ProgramsAssumption == Programs \subseteq Seq(Seq(Loop))

VARIABLES
    program,    \* the body of the declaring loop
    emitted,    \* the loops of the emitted code, for each nest from the outside in
    nest,       \* the nest under execution
    iters,      \* the iteration of each emitted loop around the execution
    leaving,    \* is the next thing the end of a body?
    index,      \* _occa_exclusive_index, -1 when not initialised
    uses        \* the uses that were executed: [block, thread, slot]

vars == <<program, emitted, nest, iters, leaving, index, uses>>

-----------------------------------------------------------------------------
(* What the handlers emit for loop i of a nest.                            *)

\* The nearest of some loops around a loop; 0 is the declaring loop, the only
\* one that has exclusiveInfo.declared.
Nearest(above) == IF above = {} THEN 0 ELSE Max(above)

AttributedParentOf(loops, i) == Nearest({j \in 1..(i - 1) : ~IsRegular(loops[j].type)})
OuterParentOf(loops, i)      == Nearest({j \in 1..(i - 1) : Has(loops[j].type, "Outer")})

\* Mutant: the deepest @inner loop of a nest resets the index.
ResetsAtBottom(loops, i) ==
    i = Len(loops) /\ Has(loops[i].type, "Inner")

\* Is the index reset before the first Inner level of the loop?
Resets(loops, i) ==
    Has(loops[i].type, "Inner") /\ AttributedParentOf(loops, i) = 0

\* Mutant: every @inner loop counts, not only the deepest.
CountsAlways(loops, i) ==
    IF Len(loops[i].type) = 1 THEN Has(loops[i].type, "Inner") ELSE i = Len(loops)

\* Does the loop count?  @inner asks whether the nearest loop with an Outer
\* declares the variable, @tile whether it is around a use of it.
Counts(loops, i) ==
    /\ i = Len(loops)
    /\ Len(loops[i].type) = 1 => Has(loops[i].type, "Inner") /\ OuterParentOf(loops, i) = 0

\* With a check, the end of the body of a tile with a Regular type is that of
\* its first loop; otherwise the bodies of the second loop are counted.
CountingLevel(loop) ==
    IF Len(loop.type) = 2 /\ (~loop.check \/ ~Has(loop.type, "Regular")) THEN 2 ELSE 1

\* Does getInnerSizes know the iterations of the n-th type of the loop?
SizeKnown(loop, n) ==
    IF Len(loop.type) = 1 THEN loop.literal ELSE loop.tileLiteral /\ (n = 1 => loop.literal)

LoopLevels(loops, i) ==
    LET loop == loops[i]
        level(n, count) ==
            [loop   |-> i,
             role   |-> loop.type[n],
             count  |-> count,
             known  |-> SizeKnown(loop, n),
             resets |-> /\ Resets(loops, i)
                        /\ n = Min({m \in DOMAIN loop.type : loop.type[m] = "Inner"}),
             counts |-> Counts(loops, i) /\ CountingLevel(loop) = n]
    IN  IF Len(loop.type) = 1 THEN <<level(1, loop.range)>>
        ELSE <<level(1, 1 + (loop.range - 1) \div loop.tileSize), level(2, loop.tileSize)>>

Levels(loops) == FlattenSeq([i \in DOMAIN loops |-> LoopLevels(loops, i)])

\* The levels of a role, and the n-th of them from the outside.
WithRole(levels, role) == {d \in DOMAIN levels : levels[d].role = role}
Nth(D, n)              == CHOOSE d \in D : Cardinality({e \in D : e <= d}) = n

\* The sizes of the block of threads that a nest is run by.
BlockOf(levels) ==
    LET inner == WithRole(levels, "Inner")
    IN  [n \in 1..Cardinality(inner) |-> levels[Nth(inner, n)].count]

\* The threads of the block.
Threads(levels) ==
    LET size[d \in 0..Len(levels)] ==
            IF d = 0 THEN 1
            ELSE IF levels[d].role = "Inner" THEN size[d - 1] * levels[d].count
            ELSE size[d - 1]
    IN  size[Len(levels)]

HasNullOpts(levels) == \E d \in WithRole(levels, "Inner") : ~levels[d].known

\* handleExclusiveDeclAttribute: elements of the array.
ArraySize ==
    IF \E k \in DOMAIN emitted : HasNullOpts(emitted[k]) THEN FixedSize
    ELSE Max({Threads(emitted[k]) : k \in DOMAIN emitted})

\* The nests for which the handlers count: the @inner loops are the deepest and
\* begin with the first loop that is attributed.  An @inner loop below a tile of
\* an @outer and an @inner loop is not counted; a tile of an @inner and a plain
\* loop is counted at the right level if it has a check; and where a tile that is
\* neither the first nor the last has one, the threads that it leaves out are not
\* counted, as they would be in a nest that does not check.
CountedNest(loops) ==
    LET last == Len(loops)
        type == [i \in 1..last |-> loops[i].type]
    IN  \E first \in 1..last :
           /\ \A i \in 1..first - 1 : IsRegular(type[i])
           /\ type[first] = <<"Outer", "Inner">> => first = last \/ type[last] # <<"Inner">>
           /\ \A i \in first..last :
                 \/ type[i] \in {<<"Inner">>, <<"Inner", "Inner">>}
                 \/ i = first /\ type[i] = <<"Outer", "Inner">>
                 \/ i = last /\ type[i] = <<"Inner", "Regular">> /\ loops[i].check
           /\ \A i \in first + 1..last - 1 : Len(type[i]) = 2 => ~loops[i].check

\* The nests of a kernel are run by the same block of threads.
ASSUME NestsAssumption ==
    \A p \in Programs :
        /\ \A loops \in ToSet(p) : CountedNest(loops)
        /\ \A m, n \in ToSet(p) : BlockOf(Levels(m)) = BlockOf(Levels(n))

-----------------------------------------------------------------------------
(* Execution.                                                              *)

Depth == Len(iters)
Here  == emitted[nest]

\* The check of the tile whose second loop the execution has just entered.
PassesCheck ==
    Depth >= 2 /\ Here[Depth].loop = Here[Depth - 1].loop =>
        LET loop == program[nest][Here[Depth].loop]
        IN  loop.check => iters[Depth - 1] * loop.tileSize + iters[Depth] < loop.range

Init ==
    /\ program \in Programs
    /\ emitted = [k \in DOMAIN program |-> Levels(program[k])]
    /\ nest = 1
    /\ iters = <<>>
    /\ leaving = FALSE
    /\ index = -1
    /\ uses = {}

Enter ==
    /\ nest <= Len(program)
    /\ ~leaving
    /\ Depth < Len(Here)
    /\ PassesCheck
    /\ iters' = Append(iters, 0)
    /\ index' = IF Here[Depth + 1].resets THEN 0 ELSE index
    /\ UNCHANGED <<program, emitted, nest, leaving, uses>>

\* The body is not run for values past the end of the range.
FailCheck ==
    /\ nest <= Len(program)
    /\ ~leaving
    /\ ~PassesCheck
    /\ leaving' = TRUE
    /\ UNCHANGED <<program, emitted, nest, iters, index, uses>>

ItersOf(role) ==
    LET levels == WithRole(Here, role)
    IN  [n \in 1..Cardinality(levels) |-> iters[Nth(levels, n)]]

Use ==
    /\ nest <= Len(program)
    /\ ~leaving
    /\ Depth = Len(Here)
    /\ PassesCheck
    /\ uses' = uses \cup {[block |-> ItersOf("Outer"), thread |-> ItersOf("Inner"),
                           slot |-> index]}
    /\ leaving' = TRUE
    /\ UNCHANGED <<program, emitted, nest, iters, index>>

EndOfBody ==
    /\ leaving
    /\ Depth > 0
    /\ index' = IF Here[Depth].counts THEN index + 1 ELSE index
    /\ IF iters[Depth] + 1 < Here[Depth].count
       THEN iters' = [iters EXCEPT ![Depth] = @ + 1] /\ leaving' = FALSE
       ELSE iters' = Front(iters) /\ leaving' = TRUE
    /\ UNCHANGED <<program, emitted, nest, uses>>

NextNest ==
    /\ leaving
    /\ Depth = 0
    /\ nest' = nest + 1
    /\ leaving' = FALSE
    /\ UNCHANGED <<program, emitted, iters, index, uses>>

Next == Enter \/ FailCheck \/ Use \/ EndOfBody \/ NextNest

Spec == Init /\ [][Next]_vars

-----------------------------------------------------------------------------
(* Properties.                                                             *)

\* The threads of a block have one element each, and the same one in every
\* nest: an element is never shared by two threads, and a thread finds in the
\* second nest what it left in the first, although each nest counts anew.
OwnSlotPerThread ==
    \A u, v \in uses : u.block = v.block => (u.thread = v.thread <=> u.slot = v.slot)

\* A block of unknown size has no more threads than the array has elements
\* then: nothing in the code sees to that.
UnknownBlocksFit ==
    \A k \in DOMAIN emitted : HasNullOpts(emitted[k]) => Threads(emitted[k]) <= FixedSize

\* The index stays inside an array whose size was computed elsewhere: from
\* the sizes of the @inner loops, or fixed when one of them is not known
\* before the program runs, in which case the block may be too large for it.
SlotsInArray == UnknownBlocksFit => \A u \in uses : u.slot \in 0..(ArraySize - 1)
=============================================================================
