------------------------------ MODULE LoopCode ------------------------------
(***************************************************************************)
(* The code that one attributed for-statement becomes, and its execution.  *)
(* For a device (CUDA, HIP) the loop variable is computed from the         *)
(* block or thread index (buildInnerOuterLoopIdxLine, and tile::...First   *)
(* and ...Second for the two loops of a tile), and the launcher computes   *)
(* from the same header how many blocks and threads there are              *)
(* (getLoopInfoStr, splitTileAttr).  For the host (Serial, OpenMP) a tile  *)
(* becomes two loops (buildFirstLoopString, buildSecondLoopString).        *)
(***************************************************************************)
EXTENDS LoopHeader, FiniteSets, Sequences

CONSTANT Cases      \* what is transpiled for what

\* One loop, or the two loops of a tile.
Types ==
    {<<"Outer">>, <<"Inner">>, <<"Regular", "Regular">>, <<"Outer", "Regular">>,
     <<"Outer", "Outer">>, <<"Outer", "Inner">>, <<"Inner", "Regular">>, <<"Inner", "Inner">>}

Loop == [type : Types, tileSize : Nat \ {0}, check : BOOLEAN,
         start : Int, end : Int, op : Comparisons, inc : Nat]

ASSUME CasesAssumption == Cases \subseteq [loop : Loop, backend : {"device", "host"}]

VARIABLES
    loop,       \* the for-statement
    backend,    \* "device" or "host"
    launched,   \* the threads exist
    threads,    \* those that have still to run, by their two indices
    ran         \* the bodies that ran: [by, tiled, i]

vars == <<loop, backend, launched, threads, ran>>

-----------------------------------------------------------------------------
(* The source loop.                                                        *)

\* The values of the variable of for (v = start; v op end; v += step).
Values(start, end, op, step) ==
    LET dir == IF op \in {"<", "<="} THEN 1 ELSE -1
        far == IF start < end THEN end - start ELSE start - end
    IN  {v \in {start + dir * step * k : k \in 0..far} : Compare(op, v, end)}

Iterations == Values(loop.start, loop.end, loop.op, Step(loop))

IsTile(l) == Len(l.type) = 2

-----------------------------------------------------------------------------
(* The launcher.                                                           *)

\* occa::dim is unsigned: a dimension below zero launches nothing.
Indices(h) == 0..(RunDim(h) - 1)

ForDevice(type, h) == IF type = "Regular" THEN {0} ELSE Indices(h)

Grid ==
    IF backend = "host" THEN {<<0, 0>>}
    ELSE IF IsTile(loop)
    THEN ForDevice(loop.type[1], FirstOfTile(loop, loop.tileSize))
            \X ForDevice(loop.type[2], SecondOfTile(loop, loop.tileSize))
    ELSE Indices(loop) \X {0}

-----------------------------------------------------------------------------
(* The body's loop variable, in thread t.                                  *)

OnDevice(n) == backend = "device" /\ loop.type[n] # "Regular"

\* The first loop of a tile, run by a thread of its own or as a loop.  The
\* host's loop steps by the increment too, the device's only by the tile.
TileStep == IF backend = "host" THEN loop.tileSize * Step(loop) ELSE loop.tileSize

FirstValues(t) ==
    IF OnDevice(1) THEN {loop.start + Direction(loop) * loop.tileSize * Step(loop) * t[1]}
    ELSE Values(loop.start, loop.end, loop.op, TileStep)

\* The second loop, from the value of the first.
SecondValues(t, tiled) ==
    IF OnDevice(2) THEN {tiled + Direction(loop) * Step(loop) * t[2]}
    ELSE Values(tiled, tiled + Direction(loop) * loop.tileSize,
                IF IsInc(loop) THEN "<" ELSE ">", Step(loop))

\* Mutant: no tile is checked.
NeverChecked(i) == TRUE

Checked(i) == loop.check => Compare(loop.op, i, loop.end)

Bodies(t) ==
    IF IsTile(loop) THEN
        UNION {{[by |-> t, tiled |-> tiled, i |-> i] :
                    i \in {i \in SecondValues(t, tiled) : Checked(i)}} : tiled \in FirstValues(t)}
    ELSE LET is == IF backend = "host" THEN Iterations
                   ELSE {loop.start + Direction(loop) * Step(loop) * t[1]}
         IN  {[by |-> t, tiled |-> i, i |-> i] : i \in is}

-----------------------------------------------------------------------------
Init ==
    /\ \E c \in Cases : loop = c.loop /\ backend = c.backend
    /\ launched = FALSE
    /\ threads = {}
    /\ ran = {}

Launch ==
    /\ ~launched
    /\ launched' = TRUE
    /\ threads' = Grid
    /\ UNCHANGED <<loop, backend, ran>>

\* The threads of a launch run in any order.
RunThread(t) ==
    /\ t \in threads
    /\ threads' = threads \ {t}
    /\ ran' = ran \cup Bodies(t)
    /\ UNCHANGED <<loop, backend, launched>>

Next == Launch \/ \E t \in threads : RunThread(t)

Spec == Init /\ [][Next]_vars

-----------------------------------------------------------------------------
(* Properties.                                                             *)

\* Loops that kernel and launcher agree on: every loop that is not tiled; a
\* tile with increment one, checked or a divisor of the range, that runs
\* upwards or whose second loop has no dimension of the launch.
Agreed(c) ==
    IsTile(c.loop) =>
        /\ Step(c.loop) = 1
        /\ \/ c.loop.check
           \/ Cardinality(Values(c.loop.start, c.loop.end, c.loop.op, 1)) % c.loop.tileSize = 0
        /\ IsInc(c.loop) \/ c.loop.type[2] = "Regular" \/ c.backend = "host"

Ran == {r.i : r \in ran}

\* How often each value ran; a value outside the loop makes this a function
\* that no state of ParallelFor has.
Runs == [i \in Iterations \cup Ran |-> Cardinality({r \in ran : r.i = i})]

\* For loops that are Agreed: the values that the threads of the launch, or
\* the loops of the host, come to are those of the source loop, and none comes
\* up twice, neither in two threads nor in two tiles.
Promise == INSTANCE ParallelFor WITH iterations <- Iterations, runs <- Runs
PromiseKept == Promise!Spec

\* When all threads of the launch have run, every iteration has: the size
\* that the launcher computes and the index that the kernel computes, two
\* texts made by two backends from one header, cover the loop together.
EveryIterationRuns ==
    Agreed([loop |-> loop, backend |-> backend]) /\ launched /\ threads = {} =>
        Iterations \subseteq Ran
=============================================================================
