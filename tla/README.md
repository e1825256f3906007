# Formal model of oklt

oklt translates OKL, C++ with attributes such as `@kernel`, `@outer`, `@inner`,
`@tile` and `@shared`, into the kernels of a backend (CUDA, HIP, DPC++, Serial,
OpenMP) and, for the device backends, a host program that launches them.  The
modules of this directory follow a source through the whole tool: the stages of
the pipeline and their errors, macros and attributes as text, the handlers of
attributes, the semantic walk, and the code that loops become.  TLC checks them
on small programs, and TLAPS proves some of the results for programs of any
size.

Contents: 1 inventory, 2 modules and code, 3 what the runs show, 4 bounds,
5 fairness and deadlock, 6 proofs, 7 disagreements between documents and code,
8 what is not modelled, 9 plan.

Paths are relative to the repository; `lib/` stands for `src/lib/`.

## 1. Inventory

A source passes through *stages* (`lib/pipeline`): OKL directives, macro
expansion, the two halves of the normalizer, the transpiler.  Each stage runs
clang anew over the files that the one before it has left.  The transpiler
parses the normalized source and then makes three walks
(`lib/pipeline/stages/transpiler/transpilation.cpp`):

1. the *semantic walk* of the AST, which fills `OklSemaCtx` and the list of
   attributed nodes, each with the kernel and the loop it stands in;
2. the *device pass* over that list, which calls a handler of the backend for
   every node and restores the recorded context before each call;
3. the *launcher pass* over the same list with the handlers of the launcher.

One thread does all of it.  What makes it hard is not concurrency but *state
that outlives the step it was computed for*: a handler gets no loop nest, it
gets a few mutable pointers; an edit is given by places in a text that other
edits have moved; a diagnostic is judged by a flag that the diagnostic before
it left; and the device code and its launcher are two texts made by separate
handlers that only work if they count the same things.  The one thing whose
*order* nobody decides is the registration of handlers by static constructors.

| Component | State | Operations | Interacts with | Status |
|---|---|---|---|---|
| Semantic analysis (`lib/core/sema`, the walk in `transpilation.cpp`) | `_parsingKernInfo`, `_parsedKernelList`; per kernel `currentLoop`, `loopMap`, `topLevelOuterLoops`; `OklLoopInfo` per for-statement; `TranspilationNodes` | pre and post handler of functions and for-statements, record a node | calls the loop tree; its list feeds the passes | modelled |
| Loop tree and verification (`okl_sema_info.cpp`, `kernel_utils.cpp`) | the forest of `OklLoopInfo` | parents and children with attributes, heights, automatic axes, `verifyLoops` | asked by the walk, by all handlers | modelled |
| Passes (`code_generator.cpp`, `transpilation.cpp`) | position in the list, `currentLoop` again, the rewriter, `programMetaData` | apply a node, switch to the launcher | restore the context, call handlers | partly |
| CUDA and HIP (`cuda_subset/`) | memory flags of loops, kernel metadata | `@kernel`, `@outer`, `@inner`, `@tile`, `@shared`, `@exclusive`, `@nobarrier` | read the loop tree and mark it | partly |
| Launcher (`backend/launcher.cpp`) | none of its own | collect loops, size every dimension, run every device kernel | must agree with the device pass | partly |
| Serial and OpenMP (`serial_subset/`) | `exclusiveInfo` of loops | loops of a tile, arrays and index of `@exclusive` | inner sizes | partly |
| DPC++ (`backend/dpcpp`) | as CUDA | as CUDA | as CUDA | partly |
| Inner sizes (`getInnerSizes`, `for_stmt_parser.cpp`) | `range.size`, `overridenInnerSizes` | parse a header, sizes of a block | launch bounds, exclusive arrays | partly |
| Handler manager (`lib/core/handler_manager`) | `_nodeHandlers`: handlers by type, backend, attribute and node kind | register, look up, check the attributes of a node | filled before `main`, asked by walk and passes | modelled |
| Attribute parsers (`attributes/utils/parser*`, `attributes/frontend`) | the token under the cursor, the argument under way, three counters of brackets | parse arguments, check them, attach the attribute | clang before, handlers after | modelled |
| `@dim`, `@dimOrder` (`backend/common`) | the order found for a variable | linear index of an access | attribute parsers | modelled |
| Normalizer (`stages/normalizer`, `okl_attribute_traverser.cpp`) | cursor, automaton state, attribute under way, parenthesis depth; the edited text | find OKL attributes among tokens, rewrite them | feeds the transpiler | partly |
| Preprocessing (`stages/preprocessor`) | what the callbacks have noted: uses, definitions, empty macros, conditions, comments; the rewriter | write directives, note, edit in five loops | feeds the normalizer | partly |
| Rewriter with delta trees (`core/rewriter`) | deltas by offset | replace, remove, size of a range | every stage edits through it | partly |
| Pipeline and session (`pipeline/core`, `transpiler_session`) | stage, staged source and headers, output, errors and warnings, result | run a stage, hand over its files, fuse headers, stop at an error | around everything | modelled |
| Diagnostics (`core/diag`) | `_includeDiag`; what clang counts | accept, record or drop a diagnostic | clang calls it, the stage runner asks it | partly |
| Virtual file system, intrinsics, command line tool | which text a name stands for; files written | stub for missing intrinsics, write the results | around the pipeline | partly |
| Text backends of single attributes (`@atomic`, `@barrier`, `@restrict`, `@simd_length`) | none | replace an attribute by fixed text | handler manager | partly |
| Metadata, type converter | data | conversion to JSON | results | not modelled |

What makes each of them correct:

* *Semantic analysis.*  At every moment `currentLoop` is the statement around
  the walk; parent pointers repeat the nesting of the source; what is recorded
  for a node is where the node stands; a loop does not change once it was left.
* *Loop tree.*  A kernel is accepted exactly when all ways down its nest meet
  the same types in the same order; automatic axes number each way from its
  deepest loop; the list of top level loops is complete and in order.
* *Passes.*  A handler sees the loop its node stands in, whatever was
  transpiled before it, in both passes.
* *CUDA/HIP.*  Uses of shared memory are followed by a barrier where the block
  goes on; variables are declared between `@outer` and `@inner`; the loop variable
  takes each value of the source loop once.
* *Launcher.*  It runs the device kernels one for one and in order, on a grid
  with the dimensions that the kernels index and with enough threads.
* *Serial/OpenMP.*  A tile runs the iterations of its loop; each thread of a
  block has an element of an exclusive array, inside the array if its size is
  known.
* *Inner sizes.*  The bounds of a kernel are those of the block launched.
* *Handler manager.*  Every registered handler is found, whatever order the
  linker chose; what a front end attaches a backend handles, with parameters
  of the type it takes; what the device pass accepts the launcher pass does.
* *Parsers.*  Arguments are taken apart as they were written, whatever
  brackets and nested attributes are in them.
* *@dim.*  The index is the offset of the element, in the order given.
* *Normalizer.*  It edits the attributes of the source and nothing else; every
  header is C++ afterwards, with its attributes before its own loop.
* *Preprocessing.*  The text that is handed over is the same program, no longer
  needs any macro, and keeps its lines.
* *Pipeline.*  Each stage works on all that the stages before it have left; the
  first error ends the run and is reported; kernel and launcher are made of the
  same files; the tool comes to an end.
* *Diagnostics.*  What is recorded, what clang counts and whether the stage
  fails agree.

`PROJECT.json` lists the places where these can go wrong as *hazards*, with the
properties for each.

## 2. Modules and code

```
Diagnostics ── Pipeline ──┬── MCPipeline                          TranspilerPromise (abstract)
                          └── PipelineProofs
Preprocessor ──┬── MacroExpansion ── MCMacroExpansion
TextRewriter ──┘
Handlers ── HandlerMap ───────────────┬── Attributes ──┬── MCAttributes
AttrParser, AttrFrontend, DimAccess ──┘                └── AttributesProofs
Normalizer ──┬── MCNormalizer
             └── NormalizerProofs
LoopTree ── OklSema ──┬── OklTree ── InnerSizes ── MCOklTree      LoopNesting  (abstract)
   │          │       └── OklApply ── MCOklApply                  ParallelFor  (abstract)
   │          └── MCOklSema
   └── SerialExclusive ──┬── MCSerialExclusive
                         └── SerialExclusiveProofs
LoopHeader ── LoopCode ──┬── MCLoopCode
     └── InnerSizes      └── LoopCodeProofs
InductionLemmas ── LoopTreeProofs ── OklProofs
   (also used by the    of LoopTree,    of OklSema, OklTree,
   proofs of Pipeline,  OklTree,        InnerSizes, OklApply
   Attributes,          InnerSizes
   Normalizer and
   SerialExclusive)
```

They come in the order in which a source meets the code.

**Diagnostics** is `DiagConsumer`, one operator per callback from the state of
the client to the next: `IncludeInDiagnosticCounts` and `HandleDiagnostic`
share the flag `_includeDiag`, and `Report` is the order in which clang calls
them, which is another one for errors than for warnings.

**Pipeline** is one run of the tool.  `phase` is the position within a stage;
`RejectEmptySource` and `StartStage` are `runStageAction` before clang runs,
`EditTokens` and `RejectTokens` the stages that do their work on tokens in
`BeginSourceFileAction`, `InstallConsumer` to `Transpile` those that work on the
AST, `FailStage`, `FinishStage` and `FinishPipeline` the rest of
`runStageAction` and the loop of `runPipeline`, `WriteFiles` is `main`.  A text
is the sequence of stages that edited it, so that a stage that works on an old
copy shows; `EndSourceFile`, `Fused`, `MergedHeaders` and `HeadersLeft` are the
merges, moves and clones of header maps between session, stage and output.
`reported` and `log` are histories.  **TranspilerPromise** is the promise to
the caller: stages are applied in order, the first trouble ends the run.

**Preprocessor** is the part of clang that the preprocessing stages lean on
(external); **TextRewriter** is a text under edits given by offsets of the
original, with the arithmetic of `DeltaTrees`.  **MacroExpansion** writes a
source line by line, as it stands or in `@directive` attributes (`Write`, with
the newlines of `replaceOklMacroAttribute`), reads it with one action per
callback (`ReadDefine` to `ReadOther`, what they note in `noted`), and then
runs the five loops of `preprocessMacros` over the text: `InlineUses`,
`RemoveDefinitions`, `RemoveEmptyMacros`, `ReplaceConditions`,
`ReplaceDefConditions`.  The reference is `intended`, the preprocessor over the
lines as they were meant.

**Normalizer** is the first stage of the normalizer: `Skip` to `Malformed` are
the branches of `processTokenByFsm`, one token each, with the cursor, the state,
the indices of the attribute under way and `parenDepth`; `AttrParsed` hands an
attribute to `replaceOklByGnuAttribute` (`Visit`), whose edits of the text are
modelled token by token.  The reference is `Attributes`, the grammar of
attributes without an automaton, and `Semis`, the semicolons of a header.

**Handlers** is the table of all registrations, one set for each static
function.  **HandlerMap** registers them in any order (`Insert`, the
`try_emplace` of the code) and looks them up by exact kind, then by clade.
**AttrParser** is the recursive parser of arguments as a stack machine, one
token per step (`ParserStep`), with the counters that decide where an argument
ends; **AttrFrontend** what each front end accepts as parameters and as a node;
**DimAccess** the index that replaces an access, as the expression that the
text *is*, precedence included, and `Offset`, the element that was meant.
**Attributes** composes them into the life of one attribute: written, attached
by clang (`Attach`), checked in the walk (`CheckAttrs`), parsed (`Parse`),
turned into parameters (`CheckParams`), handled at every node that has it
(`HandleNode`), and all again for the launcher (`LauncherPass`).

**LoopTree** holds the operations of `OklLoopInfo` and of `kernel_utils.cpp` as
operators over a sequence of loop records (a pointer to a loop is its index, 0
is `nullptr`): `IsLegalLoopLevel`, `AttributedParent`, `FirstAttributedChild`,
`HeightSameType`, `UpdatedAxes` and the level-wise `VerifyLoopStructure`.  The recursions of the code along parents and
children are functions over indices: a parent is always entered before its
children, so an index never depends on a smaller one from below.

**OklSema** is the semantic walk.  The program that is walked is chosen step by
step: `function` and `openFors` are the position in the source, all other
variables are state of the code.  One action per handler: `EnterLoop` is
`startParsingAttributedForLoop` with all it does (parent, `loopMap`,
`currentLoop`, `topLevelOuterLoops`); `ExitLoop` is the post handler (lookup in
`loopMap`, automatic axes, return to the parent, and the recording of the node,
which reads kernel and loop *before* the handler changes them); `EnterKernel`
and `ExitKernel` likewise; `RecordLeaf` is any other attributed node; one
`Reject...` action for each way the walk gives up.  An error ends the walk, as
`traverseNode` does.
**LoopNesting** is the promise: the loops around the walk are a stack.

**OklTree** adds the plain reading of a nest, the set of all ways down
(`PathsFrom`), and compares what the code computes from first children or from
levels with it; `CollectLoops` and `OfType` are what the launcher gathers on the
one way that it looks at.  **InnerSizes** gives the loops of such a tree a header and a
tile size and compares `getInnerSizes` (the device pass, for
`__launch_bounds__`) with the block that `getRootLoopBody` launches; for DPC++
the work-group that a kernel requires (`RequiredGroup`), the one it is launched
with and the dimension that indexes a loop, which count axes from different
ends.  That OCCA hands its dimensions to SYCL in reverse is an assumption about
a program outside of this repository (`LaunchedGroup`).

**OklApply** composes the walk with both passes: `next` is the position in
`nodes`, `SetContext` the restoring of kernel and loop, including that
`setLoopInfo(nullptr)` leaves the old loop in place; `ApplyDecl`, `ApplyUse`,
`ApplyLoop` and `ApplyKernel` are the CUDA/HIP handlers with the flags they
leave on loops (`used`, `declared`), of variables and of types (`Decls`,
`TypeDecls`); `Backend` decides which handler uses of `@exclusive` have
(`MarkedBy`, the one difference); `DeviceDone` the switch of passes, `LaunchKernel`
the launcher's only handler.  `output` holds the kernels named by either pass.

**LoopHeader** is the header of a for-statement with the two sizes computed
from it, `range.size` and the launcher's run dimension, which are different
formulas.  **LoopCode** executes the code that one loop becomes: `Launch`
creates the threads of the launcher's grid, `RunThread` runs one, in any order,
with the variable that `buildInnerOuterLoopIdxLine` or the two halves of a tile
compute; for the host it runs the loops of `buildFirstLoopString` and
`buildSecondLoopString`.  **ParallelFor** is the promise: the iterations of the
source loop, in any order, none twice, nothing else.

**SerialExclusive** executes, for one iteration of a declaring loop, the loops
that the host backends emit around a use of an `@exclusive` variable, with the
resets and increments of `_occa_exclusive_index` that the handlers of different
loops place, each on its own view of the ancestors.  `CountedNest` says which
nests these resets and increments are right for; the others are in section 7.
`SizeKnown` says which sizes `getInnerSizes` knows; if one is missing the array has
`FixedSize` elements, 1024 in the code, whatever the block is.

The `MC...` modules only give the constants values.  Operators marked *Mutant*
are plausible mistakes in a definition; the file `PROJECT.json` names, for every
property, one that breaks it.

Some choices of abstraction, common to all modules: names and error messages
are left out; a statement is the number of its loop; C++ pointers are indices;
expressions in headers are numbers and do not overflow; in OklSema, attribute
parsing is its outcome (`LoopKinds`: what `getLoopAxisType` can return), which
AttrParser and AttrFrontend model in full.  The header of a loop runs in the
direction of its comparison; `for (i = 0; i < n; --i)`, which the parser lets
pass, is excluded.

## 3. What the runs show

Runs that pass:

| Run | Question | Answer |
|---|---|---|
| `pipeline` | Through every order of edits, diagnostics and failures: is an error ever lost, a failure ever without a reason, an edit of an earlier stage undone, do kernel and launcher come of the same files, does the tool end? | `ErrorsAreRecorded`, `FailureExplained`, `EditsAccumulate`, `LauncherSeesKernelFiles`, `Terminates`, and `KeepsPromise`: Pipeline implements TranspilerPromise |
| `macro_expansion` | Is the text after five loops of edits the program that was written? | `SameProgram` (with the macros of the command line), `ContextFree` (without them), `LinesAreKept` |
| `normalizer` | Does the automaton find the attributes that the language has, are edits disjoint, is the result C++ again, is each attribute with its loop? | `AttributesFound`, `EditsNeverOverlap`, `HeadersBecomeLegal`, `MovedToOwnFor` (the last two for sources whose headers are OKL) |
| `attributes` | Is every handler found, whatever the order of registration? Are arguments parsed as written, and does every backend take what the front end lets pass? Is the index of `@dim` the offset? | `NoHandlerIsLost`, `ParsedAsWritten`, `ParametersFit`, `AttachedIsHandled` (but for `Gaps`, section 7), `LauncherFollowsDevice`, `IndexIsOffset` |
| `sema_walk` | Is the forest the source, is `currentLoop` the innermost loop, do recorded nodes know their loop, are left loops final, is it a stack? | `TypeOK`, `ParentIsEnclosingFor`, `CurrentLoopIsScope`, `NodesKnowTheirLoop`, `LeftLoopsAreFinal`, and `NestingSpec`: OklSema implements LoopNesting |
| `tree` | Does looking at levels and at first children decide the same as looking at the whole nest? | `LevelsDecidePaths`, `AutoAxesCountFromDeepest`, `TopLevelOutersInOrder`, `LaunchMatchesDevice`, `BoundsAreLaunched`, `RequiredGroupIsLaunched` (the work-group of DPC++, dimension by dimension) |
| `apply_sync` | Is every use of shared memory followed by a barrier, and none where `@nobarrier` turns it off? Are declarations placed? | `SharedUseIsSynced` (loops with `@inner` or tiled twice `@inner`, without `@nobarrier`; on CUDA uses of `@exclusive` too), `NobarrierIsKept` (loops that are not tiled, section 7), `DeclsInLoopsArePlaced` (variables between `@outer` and `@inner`, types only out of `@inner`) |
| `apply_program` | With two kernels: does each handler see its loop, do device pass and launcher name the same kernels? | `LauncherRunsDeviceKernels`, `HandlersSeeTheirLoop` |
| `loop_code` | Do kernel and launch together run the source loop? | `PromiseKept`: LoopCode implements ParallelFor, so nothing runs twice or out of range; `EveryIterationRuns`: nothing is missing |
| `serial_exclusive` | Do resets and increments add up to one element per thread? | `OwnSlotPerThread` in two sibling nests, `SlotsInArray` (for blocks of unknown size: if they have at most `FixedSize` threads) |

Two runs expect a violation, of a sentence of the repository that the code does
not keep (section 7): `diagnostics` and `dim_expressions`.

The passing properties say where they apply, and the limits are not arbitrary.
`ErrorsAreRecorded` speaks of errors that come first or after a diagnostic that
counts, since any other may be dropped (`diagnostics`); `FailureExplained`
excepts an error that the preprocessor reports to clang's own client, because
the stages that work on tokens install no other.  `IndexIsOffset` speaks of
arguments without operators below `+` and of dimensions that are no sums
(`dim_expressions` takes the others).  `SourcesAssumption` of MacroExpansion
keeps empty macros out of other macros, and macros of the command line out of
their own definitions (section 7 says what happens to them).
`LaunchMatchesDevice` needs automatic axes and no plain loops, and
`BoundsAreLaunched` nests whose branches have one size (section 7); `Agreed` in
LoopCode leaves out tiles with an increment above one, tiles without
check whose size does not divide the range (the documented contract of
`check=false`), and device tiles that run downwards with an attributed second
loop, whose dimension the launcher computes as `start - (start + tileSize)`.

## 4. Bounds

* `pipeline`: all three commands (four, five and one stages), device and host;
  one header, given by the caller or found by clang; the edits of a stage are
  one of the main file, one of the header, or both emptied; `MaxDiags`, three,
  diagnostics per stage.  The flag that one diagnostic leaves is read by the
  next and set again, so three show every effect of a history; two files are
  enough for a merge that takes the wrong side.  `MaxDiags` is a guard of
  `ReportDiagnostic`; nothing else is capped.  All safety results of this run
  are also proved for any headers, edits and number of diagnostics.
* `macro_expansion`: sources of at most `MaxLines`, five, lines (an open
  conditional counts as one, for its `#endif`), out of 16: a macro, an empty
  one, one with an argument, one of two lines, one that uses another, a header
  guard, every kind of condition, two lines of text, comments of one and of two
  lines; with and without a macro of the command line; lines or attributes.
  Five lines hold a definition, its redefinition, a condition around them with
  both branches and a use.  `MaxLines` is a guard of `Write`.
* `normalizer`: `MaxPieces`, four, pieces between two other tokens.  A piece is
  a token or a short run such as the beginning of a header, a whole header, or
  an attribute among the parameters of another, so that four pieces hold a loop
  after or inside another one, two attributes side by side, a nested list, and
  every way to break off.  `IsOkl` leaves out a loop inside the header of
  another (in a lambda) and `for (;; @outer)`, where the third semicolon is
  missing; sources end with a semicolon or another token (`SourcesAssumption`).
* `attributes`: the handlers of one attribute, all backends together, are
  registered in any order (a slice; handlers of different attributes have
  different keys).  Every attribute is written with good and with bad
  parameters, for every kind of node, in every backend; arguments hold calls,
  indices, nested attributes with arguments of their own, keywords twice, and
  texts that break off at each of their last tokens.  `@dim` has up to three
  dimensions and every kind of order: none, partial, permuted, out of range.
* `sema_walk`: 3 for-statements (plain, `@outer`, `@inner`) in 2 kernels, with
  helper functions before, between and after, and 1 more attributed node.  The
  walk only ever looks one loop up (`parent`) and at whole-forest data through
  `loopMap`; three loops give nesting of depth three, siblings after a nest
  and returns over two levels, and the second kernel what survives from the
  first.  All results of this run are also proved for any bounds (section 6).
* `tree`: every nest of 4 loops of 9 kinds (plain, `@outer`, `@inner`, all six
  combinations of `@tile`) with 4 headers.  Four loops make a tile between two
  loops, two branches of depth two and three branches, the cases in which first
  children and levels differ from the whole.  A tile stands for two levels, so
  nests reach height eight and pass `MAX_AXIS_SZ`.
* `apply_sync`: CUDA, 4 loops, 1 use or variable of shared memory or `@exclusive`
  type (with uses of `@exclusive` as well the run takes twice as long; they have the
  handler of the others, and the proofs are of any attributes); a highest
  `@inner` loop that has a nest inside it and another loop behind it takes four,
  as does a declaration below a tile, a plain loop and another nest.
* `apply_program`: HIP, 3 loops in 2 kernels, one kind a whole kernel in one loop
  (`@tile(..., @outer, @inner)`), 2 declarations or uses.  All results of this
  run and of `apply_sync` are also proved for any program.
* `loop_code`: starts 0 and 6, ends 1, 5 and 6, all comparisons, increments 0
  (`++`) to 3, tiles of 1 to 3, with and without check.  This includes empty
  ranges, ranges with a remainder for every step and tile, and both directions.
  Both results are also proved for all headers and tiles.
* `serial_exclusive`: every pair of nests, each of one or two loops besides a
  plain one outside of them, that run on the same block (one kernel has one
  block size); tiles whose size divides the range and tiles whose size does not,
  and ranges and tile sizes known or not.  `FixedSize` is 4, so that there are blocks
  of unknown size that fit the array and some that do not.
  Both results are also proved for nests of any depth, ranges and sizes of tiles.

`MaxLoops`, `MaxKernels` and `MaxLeaves` in OklSema are guards of `EnterLoop`,
`EnterKernel` and `RecordLeaf`.  The two runs that expect a violation use the
bounds of `pipeline` and `attributes`.

## 5. Fairness and deadlock

`PipelineSpec` assumes weak fairness of its next-state relation: one thread
runs the stages, waits for nobody, and clang comes to the end of every file.
Under it `Terminates` says that the tool comes to an end whatever clang reports
and whatever the stages do, and `KeepsPromise` that it does so with a result,
for the promise is fair too.  What could break it is the loop of `runPipeline`
and the number of stages, not a partner that does not answer: there is none.

The other specifications are safety only: a walk goes once over a finite tree
or list, without a retry.  What "all iterations run" means is a safety property
of the states in which no thread is left (`EveryIterationRuns`).  All runs set
`CHECK_DEADLOCK FALSE`, since a pipeline, a walk, a pass and an execution end.

## 6. Proofs

All proofs are checked by tlapm (SMT, Zenon and LS4).

**Induction over data.**  Trees and texts are defined by recursion, so
what they are for every input needs induction.  The induction theorems of the
library take a predicate as a parameter, which none of the provers can
instantiate; **InductionLemmas** states them with *sets* instead, from the
least element of a set of naturals that is not empty (`SetInduction`,
`StrongSetInduction`), from which the greatest and the least of a set follow
(`MaxIsGreatest`, `MinIsLeast`), and shows once that recursion along any earlier index
defines exactly one function (`RecursionExists`, `RecursionUnique`).  Children
come after their parents, so what is computed from children is recursion from the
end (`LaterInduction`, `RecursionFromLater`).
**LoopTreeProofs** gets from them that `Ancestors` is what its equation says,
induction over a tree (`TreeInduction`: what holds of a loop if it holds of the
one around it), and what the proofs below use of trees: ancestors are earlier,
transitive, a chain, and do not change when loops are added; that the ways down
(`PathsFrom`), levels and heights are what their equations say; and what relates
these three (below).

**OklProofs**, of the walk: `TypeCorrect`, `ParentsFollowSource`, `CurrentLoopCorrect`,
`RecordedContextCorrect` and `LeftLoopsStay` state `TypeOK`,
`ParentIsEnclosingFor`, `CurrentLoopIsScope`, `NodesKnowTheirLoop` and
`LeftLoopsAreFinal` of OklSema for any set of for-statements and attributes and
any bounds.  Assumed are `BoundsAssumption` (bounds are natural numbers),
`LoopKindsAssumption` (a for-statement has one or two types and as many axes, and
only a loop that is not attributed begins with Regular: the second argument of
`@tile` is `@outer` or `@inner`, or is not there, see `frontend/tile.cpp`)
and `LeafAttrsAssumption` (the other attributes are not called "kernel" or
"loop").

None of the three in the middle is inductive alone.
`stopParsingAttributedForLoop` restores `currentLoop` from the *parent pointer*
of the loop that `loopMap` finds for the statement, so `CurrentLoopIsScope`
after leaving a loop needs `ParentIsEnclosingFor` for the loop outside; a parent
pointer is in turn copied from `currentLoop` on entry; a recorded pair is right
because `currentLoop` was, and stays right because `loopMap` and the kernel of a
loop never change.  `SemaInv` is the conjunction of the four, `TypeOK` with the
forest condition `LoopOK` (a parent is an earlier loop of the same kernel, and
the kernel's `loopMap` finds the loop).  One lemma per action shows that it
preserves `SemaInv`; actions that leave kernels and loops alone share one.  The
action property follows from the same invariant: a new loop gets `currentLoop`
as its parent and a loop that is left is found through `loopMap`, and by
`SemaInv` both are loops around the walk, never one that was left.

`ImplementsNesting` states `NestingSpec`.  LoopNesting has a stack; the code has
parent pointers and a current loop, so the stack is the mapping `CurrentPath`, a
recursive function along the parents.  `PathIsOpenFors` shows by induction that
it is the sequence of open for-statements of the source, and `StepNests` that
each action is a push, a pop or a stutter.

`TopLevelListsComplete` states `TopLevelOutersInOrder` of OklTree.  While the walk
is on its way, the list of a kernel is complete and ascending for the loops
entered so far (`OrderInv`); that a loop entered later changes nothing about
those before it, that nesting is legal on every edge and that loops are numbered
in source order is the rest of the invariant.  The hard half is that *only*
outermost loops are listed: the code asks whether the attributed parent is
missing, and a loop that begins with an Outer below one that ends with an Inner
is excluded by the nesting rules, along any number of plain loops.

`LevelsAreEnough` states `LevelsDecidePaths` of OklTree: `verifyLoops` sees the
levels of a nest, and never a way down.  A way is a *walk* from node to node (a
node is a type of an attributed loop), and a level is the set of nodes that walks
reach in one place (`LevelsAreReached`).  If every level has one type, two walks
cannot differ in a type, and not in length either: a level with a node that goes on
and one that does not is the mixed level that `verifyLoops` refuses.  Conversely,
walks can be changed from any place on (`WalksBranch`), so two nodes of a level are
on two walks that agree before it, and if all walks have the same types these two
do (`LevelsCompareWalks`).

`AutoAxesCountEveryWay` states `AutoAxesCountFromDeepest`.  An axis is fixed when the
walk *leaves* a loop, along first children, while the loops outside are still
growing, and the property reads it at the end, on any way.  The invariant
`AxesFollowHeights` says that a loop around the walk has its written axes and that
one which was left has the height in the *current* tree.  It is inductive because a
height depends only on what is inside a loop (`InsideDecidesHeights`) and nothing
is added inside a loop that was left.  At the end, the height is the number of loops
of that type after a node on the way along first children; that every other way
counts the same is `LevelsAreEnough` (`HeightsAreMet`, `AxisHeightsAreMet`).  Hence
the property holds of accepted kernels only.

`LauncherReadsDevice` states `LaunchMatchesDevice`.  The loops that the launcher
gathers are one of the ways down when no plain loop is among them (`CollectIsAWay`):
with one, the first child may be plain and have nothing below it.  The list of the
nodes of one type is built from the front, axes count from the end: `CountsTo` says
of a beginning of the way that the list so far and what is still met add up to the
whole (`OfTypeCounts`).  With `AutoAxesCountEveryWay` the dimension of a loop is then
its axis.

`BoundsMatchBlocks` and `GroupsMatchLaunches` state `BoundsAreLaunched` and
`RequiredGroupIsLaunched` of InnerSizes.  The sizes that `getInnerSizes` returns are
merged from the whole tree, and which branch they come from depends on products of
neighbours.  `SizesDescribeAWay` shows, by induction from the last loop, that
whatever is chosen, the sizes belong to *one* way down: along each axis the size of
the loop of that axis on the way, or not known (0), or 1 if there is none
(`Describes`).  That needs two loops on a way never to share an axis
(`AxesTellLoops`, from `AutoAxesCountEveryWay`), otherwise the sizes of one would
hide the other's.  With branches of one shape (`SameDims`) the way that was chosen
and the way of first children then have the same dimensions (`SizesAreLaunched`),
counted from two ends.  There are at most three, because an axis of a loop that was
left is below three (`AxesAreSet`, an invariant of its own: automatic axes are
checked on leaving a loop, and written ones when they are parsed).  The hypothesis
is that headers are in `UpwardHeaders`: a header with a literal range or tile size
runs upwards in steps of one, and others are free.  It is a fact about sources that
the code does not check, and for others the property is false (`range.size` in
section 7); MCOklTree assumes it of the headers of the run, and TLC evaluates that.

**OklProofs**, of the passes: the five properties of OklApply, for any program.
While the walk lasts, `SemaInv` and `OrderInv` hold; the passes break them, for
they overwrite `currentLoop` and never reset it to `nullptr`.

* `HandlersSeeRecordedLoop` states `HandlersSeeTheirLoop`.  What the passes keep
  is `ApplyInv`: the recorded pairs, `loopMap` and the loops do not change,
  every node names a kernel that exists, and the current loop of a kernel,
  stale or not, is a loop of that kernel.  `WalkRecords` derives it from
  `SemaInv` when the walk is done.
* `UsesOfSharedAreSynced` and `NobarrierKept` state `SharedUseIsSynced` and
  `NobarrierIsKept`.  `SourceInv` carries the order of nodes into the passes: the
  node of a loop comes after all nodes inside it.  `SyncInv` says of the nodes
  handled so far that each use has marked the loops around it, and that a loop
  handled while marked has its barrier; both together are inductive because a
  loop is handled when every use inside it has been.
* `DeclarationsArePlaced` states `DeclsInLoopsArePlaced`.  The handler compares
  the nearest attributed loop (`DeclLoopIsNearest`) with its first attributed child,
  and for a type asks only that the former is not `@inner`.  That there is no
  plain `@inner` loop further out is a fact about all ancestors (`InnerIsCutOff`,
  by `TreeInduction`): an `@inner` around an `@outer` is legal only across a
  plain loop.
* `LauncherRunsAll` states `LauncherRunsDeviceKernels`.  Both passes number the
  kernels of a function on their own; `LaunchInv` relates the two lists node by
  node (`MadeBy`), and `FlattenIsJoined` of InductionLemmas that joining lists, one
  for each function, is the same as appending them one after the other.

**LoopCodeProofs**: `LoopsRunCompletely` and `KeepsThePromise` state
`EveryIterationRuns` and `PromiseKept` for all headers, increments, directions
and tile sizes, device and host: that nothing is missing, and that LoopCode
implements ParallelFor.  `Agreed` is a hypothesis of both; it is a fact about a
loop, not about a run (the loops that it leaves out are those of section 7).
The invariant `LoopInv` says that each body that ran is one of a thread that has
run, and that an iteration that has not run has a thread that waits.  It rests
on arithmetic about two texts that are generated apart.  For a plain loop,
`IndexBelowDim` and `IndexIsValue`: the indices below the dimension
`(range + inc - 1) / inc`, with the extra value of `<=` and `>=`, are exactly
those of the iterations.  For a tile, `TileBodies`: thread and loops together
run the values `start +- (tileSize * a + c)` with `c` below the tile size, each
pair `(a, c)` in one thread only; `TileCovers` and `TileDistinct` are the
existence and the uniqueness of quotient and remainder; `WholeTiles` shows that
without a check a tile does not reach beyond a range that it divides, which
needs the number of iterations (`RangeIsLength`).  `CasesAssumption` says which
loops exist.

**NormalizerProofs** covers all of Normalizer, for any source (`SourcesAssumption`
only).

* `EditsAreDisjoint` states `EditsNeverOverlap`.  The invariant adds what the automaton holds
  while it reads: the tokens of the attribute under way are those right before the
  cursor, as many as the state says, and all earlier attributes end before the
  first of them.  The one exception makes the property less than obvious: after a
  closing parenthesis the cursor is not advanced, so an attribute may end *on* the
  token that is looked at next; the machine is then searching for a marker, which a
  parenthesis is not.
* `MachineFindsAttributes` states `AttributesFound`.  The automaton has one counter
  and never looks ahead; the grammar finds the end of a list as the first place
  where as many parentheses were closed as opened, and leaves out a marker within
  the list of another attribute.  `Depth` is the difference of the two counts:
  `parenDepth` is the depth from the list's own parenthesis to the cursor, and has
  been positive ever since, so the parenthesis that brings it to zero is the one
  the grammar means (`EndIsClosing`), and a token that no list may hold before that
  makes the attribute malformed in both (`EndIsBroken`).  The invariant `FoundInv`
  adds that no attribute whose marker was passed reaches beyond the attribute that
  is begun next.  For the markers inside a list that needs `NestedEnd`: an attribute
  which begins within a list ends within it or is malformed, because the
  parentheses between two places of equal depth balance (`DepthSplits`,
  `ClosingWithin`).
* `AttributesGoToTheirFor` states `MovedToOwnFor`.  `findForKwLocBefore` takes the
  nearest `for` before the attribute and looks at no parenthesis; `MovedInv` says
  that every moved attribute stands between a semicolon and a parenthesis and was
  moved there.  In a source that is OKL the header it closes begins at a `for` with
  no other one inside, which is then the nearest.
* `HeadersAreLegal` states `HeadersBecomeLegal`.  `EditInv` says of every token what
  it became (`Became`): edits overlap in nothing, so each token has one fate.  From
  that the depth of parentheses of the text is found along the text (`AsDeep`, by
  induction): that of the source, but constant within an attribute, whose own
  parentheses match (`IsWhole`), and one less from the semicolon that became a
  parenthesis to the parenthesis that went.  In the header of a loop, only an
  attribute that ends the header can be moved (`OnlyLastMoves`, because a header has
  no other loop inside and two headers never overlap); so the text closes the header
  there, one semicolon earlier, or else where the source does with the two
  semicolons that it has.

**AttributesProofs** covers all of Attributes.

* *The map.*  `AllHandlersFound` states `NoHandlerIsLost` for any set of
  registrations in any order, if no two of them have the same key
  (`KeysDistinct`).  `try_emplace` keeps the first of two handlers with one key
  and drops the other silently, and the order of static constructors in
  different files is not defined, so without that assumption the property would
  depend on the linker.  The invariant `MapInv` says that what is registered and
  what is pending are the chosen slice, and that the map has exactly the keys of
  what is registered.
* *The table.*  The keys of all handlers of the program are distinct
  (`KeysAreDistinct`), so `HandlersAreFound` needs no such assumption.  Every
  node to which a frontend may attach an attribute, or that uses what it declares
  (`NodeKinds`), is served in every backend but for the gaps (`BackendCovers`),
  and in the launcher without exception (`LauncherCovers`, which needs that
  `@kernel` on a method has not come so far); a handler takes the parameters that
  the frontend of its attribute returns (`HandlerTakes`, `ParamTypes`).
* *The life.*  `AttrInv` carries these facts through the phases:
  `CastsSucceed`, `AcceptedAttributesAreHandled` and `LauncherNeverFails` state
  `ParametersFit`, `AttachedIsHandled` and `LauncherFollowsDevice`.  None of the
  three is inductive.  The launcher handles the same nodes with other handlers,
  and an access to a variable with `@dim` could be rejected there for the first
  time; `NodesOK` and `HandleOK` say that it was among the nodes of the device
  pass and has been accepted.
* *The index.*  `AccessIsOffset` states `IndexIsOffset` for any number of
  dimensions.  The code builds the text from the last dimension outwards and the
  offset counts from the first, so neither recursion is a step of the other.
  `TextIsSum` relates them at every dimension `k`: the sum of the offsets before
  `k`, plus the block before `k` times the text from `k` on, is the whole; by
  induction from the last dimension.  That `FitsDims` and `OrderFits` have been
  checked before the index is built is needed for every access of a list.
* *The parser.*  `TextIsParsed` states `ParsedAsWritten` for any list of arguments,
  with keywords and nested attributes, of any length.  The parser sees tokens, one
  ahead at most; the list is a structure whose text is joined with commas and put
  in parentheses by a recursion of its own.  `LaidOut` says where in a text each
  argument begins and what stands after it, and `ListIsLaidOut` that the text of
  every list has such a layout, by induction over the joined text
  (`FlattenIsJoined`); a list nested in an argument has one within it
  (`NestedLayout`).  The invariant `ParserAt` says that the topmost call is at one of
  eight places of its list (`OnLevel`), with the frame that the arguments before it
  make (`After`, `Keyed`), and that below it is nothing, or the call of the list
  around it waiting for this argument.  One lemma per place shows where the next
  token takes it.  The hard one is `ValueStep`: an argument goes on over commas and
  parentheses that are not its own as long as one is open, and must end with its last
  token and no earlier.  That a keyword replaces an earlier one of the same name is
  `KwargsGrow`.

Assumed are `AttributesAssumption` (what is registered is of this program, only
attributes of OKL are written, an index is an expression and `@dimOrder` counts
from zero) and `WrittenAssumption`, for `TextIsParsed`: what is written is a list of
arguments, before it breaks off.  An argument is an expression, or an attribute with
expressions.  An expression is not empty, is balanced, has no comma or closing
parenthesis outside of brackets, no `@` before a name after its first token, and no
name and `=` at its beginning; without these a text is not the text of one list only.
TLC evaluates it for the lists of the run.

**PipelineProofs**, for any headers, edits and number of diagnostics
(`StageEditsAssumption`: a stage changes only files that it has):

* `FailuresAreExplained` and `ErrorsAreNotLost` state `FailureExplained` and
  `ErrorsAreRecorded`.  Neither is inductive: whether an error is recorded
  depends on `_includeDiag`, which another callback set for the diagnostic
  before.  `ErrorInv` ties the flag to the last diagnostic accepted, what clang
  counts to what is recorded, and the client installed to the phase.
* `StepsKeepPromise`: the initial states of Pipeline are initial in
  TranspilerPromise and each step is one of its steps or a stutter, which is the
  safety half of `KeepsPromise`.  It needs `TextInv`: the text handed to a
  stage is not empty, and the output has a text as soon as a stage has ended
  without errors; otherwise a stage could succeed and the next one refuse its
  source, which the promise does not allow.

* `StagesSeeAllEdits` and `SameFilesForBothPasses` state `EditsAccumulate` and
  `LauncherSeesKernelFiles`.  Which edits a text must have is a recursive
  function of the log (`Computes`), which grows by one stage; `Before` says that
  an entry does not depend on later ones.

**SerialExclusiveProofs**: `ThreadsHaveSlots` and `SlotsAreInArray` state
`OwnSlotPerThread` and `SlotsInArray` for any number of nests of any depth, with any
ranges and sizes of tiles.  Neither is inductive: the slot of a use is a counter that
has run through all loops before it, and the array is sized by a product of loops.

* *What is emitted.*  `CountedLevels` shows from the handlers' own questions about
  ancestors that in a counted nest the `@inner` levels are those from `r` to `c`,
  without a gap, that the index is reset at `r` only and counted at `c` only
  (`Shape`), and that a tile between the two has no check (`Tiles`).  A loop is one
  or two levels, so this is about where the levels of a loop begin in the joined
  list (`LevelsArePlaced`, `LevelOfLoop`).
* *What is executed.*  The weight of a level (`Weights`) is the number of threads in
  one of its iterations; the iterations around the execution, read as digits in the
  base of the sizes of the block, are a number (`Ranks`).  The invariant
  `SerialInv` says that from level `r` inwards the index is that number times the
  weight of the level, with one more for an iteration whose body has ended
  (`Counted`).  It is not true after a check that fails: the values left out are
  never counted.  `PastEnd` names these places.  They are in the last iteration of
  the first `@inner` loop (`LastOfTile`), whatever follows in the nest fails as
  well (`AllPastEnd`), and the next nest resets.  `Entering`, `Ending`, `Again` and
  `Leave` are the four ways in which the place changes.
* *What follows.*  In the deepest body the weight is one and no check has failed
  (`AtBottom`), so the slot of a use is the number of its thread (`ThreadDigits`).
  That two threads have the same number only if they are the same is the uniqueness
  of digits (`SameDigits`, by induction from the last one), and that the number is
  below the product of the sizes is `ValueIsBelow`; the product is the size of the
  array, or at most that when the array has the fixed size (`ArraySizeIs`, where
  `UnknownBlocksFit` is used, the hypothesis in `SlotsInArray`).

Assumed are `ProgramsAssumption` (which loops exist), `FixedSizeAssumption` and `NestsAssumption` (all
nests of a kernel run on one block, and are nests that the handlers count right,
`CountedNest`).  The last conjunct of `CountedNest`, about a check in the middle of a
nest, was found by the proof: without it the step into `PastEnd` is not in the last
iteration, and TLC gives a counterexample with nests of three `@inner` loops (section
7).

**Only checked by TLC**: the three properties of MacroExpansion; `Terminates` and the
liveness half of `KeepsPromise`.  Liveness under fairness and ENABLED are out of the
prover's reach.  MacroExpansion and Preprocessor expand macros and evaluate conditions
by RECURSIVE operators over texts, for which the prover has no backend: what they
compute for every text is induction over data.

## 7. Disagreements between documents and code

Checked by a run that expects a violation:

1. `diagnostics`, property `AcceptedErrorsFailTheStage`.
   `HandleDiagnostic` (lib/core/diag/diag_consumer.cpp:29) goes by a flag that
   `IncludeInDiagnosticCounts` clears for a note or for an error that a handler
   takes over.  clang asks the second only after calling the first (for an error
   before it too), so a flag cleared for one diagnostic drops the next one: an
   error after a note is neither pushed nor counted, and the stage succeeds.  The
   comment at lib/core/diag/diag_consumer.cpp:45: "Accept only Warning, Error and
   Fatal".
2. `dim_expressions`, property `ExpressionsIndex`.  The texts of arguments and
   dimensions are put next to `+` and `*` without parentheses
   (lib/attributes/backend/common/dim.cpp:151), so `m(c ? p : q, j)` or a
   dimension `n + 1` indexes another element.  docs/oklt_specification.md:192 and
   :196.

Seen while modelling, without a run of their own.

*Loops and kernels*

* `collectLoops` follows first children; a plain loop as first child hides the
  attributed loops beside it from the launcher, which then sets no dimension for
  them (docs/oklt_specification.md:445).
* The launcher numbers dimensions by nesting and does not read written axes; the
  kernel does (docs/attributes/loops/loops.md:8).
* `getInnerSizes` compares neighbouring branches instead of finding the biggest;
  the launch bounds can be below the block (comment at
  lib/core/sema/okl_sema_info.cpp:11, code at :199).
* A tile of a loop with an increment above one skips iterations
  (docs/attributes/loops/tile.md:11).  The second loop of a device tile that
  runs downwards gets a dimension below zero (launcher.cpp:240).
* A plain loop in the body of an `@inner` loop makes all its iterations share
  one element of an exclusive variable (docs/oklt_specification.md:276).
* A `@shared` or `@exclusive` declaration outside of all loops is judged by the
  last loop, as `setLoopInfo(nullptr)` does not reset `currentLoop`.
* A type may be declared `@shared` or `@exclusive` anywhere in a kernel but in an
  `@inner` loop, with a warning, and nobody asks where a variable of that type is
  (comment at cuda_subset/shared.cpp:34).
* No barrier follows `@tile(n, @inner)`, whose second loop is plain, nor the
  second loop of `@tile(n, @outer, @inner)`: `shouldSync` takes only loops that
  are `@inner` or tiled twice `@inner` (docs/oklt_specification.md:446 makes no
  such difference).
* A use of an `@exclusive` variable alone causes a barrier, which
  docs/oklt_specification.md:446 promises, on CUDA, where the handler of shared uses
  is registered for it (backend/cuda/exclusive.cpp:16), but not on HIP
  (backend/hip/exclusive.cpp:21) and DPC++; an `@inner` loop in a plain loop in
  another `@inner` loop is followed by a barrier, as if it were a highest one.
* `verifyLoops` checks that branches are alike and that `@outer` and `@inner`
  both occur.  A nest in which a plain loop separates an `@inner` from an
  `@outer` inside it, or four `@outer` loops with written axes, passes.  In such
  a nest a declaration of shared memory below both is accepted, inside an
  `@inner` loop: neighbouring loops are all that is compared.
* `range.size` counts neither increments nor the last value of `<=` and `>=`,
  so `__launch_bounds__` and exclusive arrays can be too small or too large.
* When the size of an `@inner` loop is not known as the code is generated, an
  exclusive array of Serial or OpenMP has 1024 elements (serial_subset/exclusive.cpp:48).
  Nothing bounds the block on the host: with more threads the index leaves the array.
* With `check=false` in `@tile(n, @inner)`, or with `@inner` below
  `@tile(n, @outer, @inner)`, the exclusive index counts wrongly; on OpenMP and
  Serial only element 0 gets the initial value of a declaration.
* The threads that the check of `@tile(n, @inner, @inner)` leaves out are not
  counted.  When the tile stands between two `@inner` loops, the threads after them
  have lower elements than in a nest whose tile has no check, or one with another
  range (serial_subset/tile.cpp:209).
* The attributes of one for-statement are kept in a set of pointers, so whether
  `@nobarrier` is seen before `@tile` is left to the addresses; `@tile` asks
  `shouldSync` before it calls the handler of `@nobarrier` itself
  (cuda_subset/tile.cpp:113), so a loop tiled twice `@inner` may get the barrier
  that docs/Report.md:778 says is turned off.
* DPC++ indexes `@inner` loops with `item.get_local_id`
  (backend/dpcpp/common.cpp:24) while the parameter of the lambda is `item_`
  (backend/dpcpp/kernel.cpp:25); the references of the tests repeat it.

*Attributes*

* Some attributes are attached by the front end to a node for which a backend
  has no handler, listed as `Gaps` in Attributes: `@shared` on a type, a
  parameter or a record in DPC++, `@exclusive` on a type or a parameter and in
  uses of unusual form on the host, `@kernel` on methods.
* The comment at lib/core/handler_manager/handler_manager.cpp:36 says "take the
  last one"; the set it speaks of keeps all.
* An argument of `@outer` or `@inner` that is no integer is ignored silently.
* A call `m()` without arguments on a variable with `@dim` stays as it is;
  `@dimOrder` on a record or an alias, where `@dim` may stand, is dropped with a
  warning (attributes/frontend/dim_order.cpp:35).
* `@tile(16, check=` reads past the last token (attributes/utils/parser.cpp:348),
  and `@restrict` on a type other than a `typedef` is cast to a variable
  (attributes/frontend/restrict.cpp:48).

*Stages*

* When `replaceOklByGnuAttribute` finds no `for` it returns false, and
  `visitOklAttributes` returns success: the text is left half rewritten, and the
  error is the one clang finds in it.  An attribute that a source breaks off in
  is dropped without an error of this stage.
* A macro whose whole body is an empty macro keeps its uses while its definition
  goes (macro_expansion.cpp:366).  An empty macro in the argument of another
  makes the later removal erase a token of the expansion (:443).  A comment
  inside a `#define` or a replaced condition is erased at a shifted place
  (:435).  After a comment is erased the loop skips the next one and may step
  past the end of its list (:86).  Names of macros in `#include` and `#pragma`
  lines stay while the definitions go.  A macro of the command line that is
  defined in terms of itself is expanded once more by every stage.
* In okl_directive_expansion.cpp the left edge of an attribute looks at
  `back()` instead of `front()` (:84), and the guard of the right edge is always
  true (:73).
* A stage that empties the main file is ignored: the text before it comes back
  (session_stage.cpp:44).
* After `normalizeAndTranspile` the field `normalized.source` of the result is
  the text of the last stage (user_output.h).
* System includes are put back in reverse order (code_generator.cpp:169).
* The tool ends with status 0 when it fails, leaves a launcher file of an
  earlier run in place (tool/src/main.cpp:194), and `normalize` reads the `-I`
  of the other command (:111).

## 8. What is not modelled

* *Kernel metadata and the type converter*: data to JSON.
* *The text of loops and tiles in DPC++*: a copy of the CUDA handlers in files
  of its own.  LoopCode models the CUDA text; axes and work-groups of DPC++ are
  modelled.
* *Text backends* of `@atomic`, `@barrier`, `@restrict`, `@simd_length`,
  `@max_inner_dims`, and the printed parameter lists and pragmas: wording.  That
  they have handlers which take their parameters is modelled (Attributes).
* *Second half of the normalizer* (GNU to C++ attributes): one stage of Pipeline;
  its edits are a move of text.
* *Original source mapper and delta trees*: MacroExpansion uses offsets and sizes
  of a text under edits; insertions, and the columns of diagnostics, are left out.
* *Preprocessing*: included files and `#elifndef`; that the definition of a macro
  which clang takes for a header guard stays (macro_expansion.cpp:428; the guards of
  the model are told by the suffix of their names); what clang's preprocessor
  itself does is external (Preprocessor).
* *Errors without a text*, which `pushError` drops: no handler makes one.
* *Virtual file system, intrinsic headers, options of the command line*: I/O and
  data; Pipeline has the files that the tool writes.

## 9. Plan

Done, in this order: LoopTree, OklSema with LoopNesting and its proofs; OklTree
and InnerSizes; OklApply; LoopHeader and LoopCode with ParallelFor and its
proof; SerialExclusive; Normalizer and its proof; Diagnostics and Pipeline with
TranspilerPromise and its proofs; Handlers, HandlerMap, the
parsers and DimAccess, composed in Attributes, with its proof; Preprocessor, TextRewriter and
MacroExpansion; the work-group of DPC++ in InnerSizes.

What is left, most important first:

| Module | Code | Properties |
|---|---|---|
| SourceColumns | `original_source_mapper.cpp`, `delta_trees.cpp`, the calls in both normalizer stages | a column of the result maps to the attribute it was |
| LoopCode for DPC++ | `backend/dpcpp/tile.cpp` | as LoopCode |
| Conditions over `#elifndef` and included files | `macro_expansion.cpp` | `SameProgram` |

Next theorems: none that are in reach; every safety property outside of
MacroExpansion is proved.
