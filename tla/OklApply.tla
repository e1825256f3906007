------------------------------ MODULE OklApply ------------------------------
(***************************************************************************)
(* The passes after the walk, for the CUDA and HIP backends: the nodes     *)
(* that OklSema recorded are transpiled in the order they were recorded,   *)
(* first for the device, then again, over the same sema state, for the     *)
(* launcher.  Before each node the recorded kernel and loop are made       *)
(* current again (setParsedKernelInfo, setLoopInfo) and its handler runs.  *)
(*                                                                         *)
(* The generated text is left out, except for what the properties need of  *)
(* it: the loops that a __syncthreads() follows, and the kernels of the    *)
(* program metadata.                                                       *)
(***************************************************************************)
EXTENDS OklSema

CONSTANT Backend    \* whose handlers are registered

ASSUME BackendAssumption == Backend \in {"CUDA", "HIP"}

VARIABLES
    pass,       \* "sema", "device", "launcher", "done" or "failed" (an error was pushed)
    next,       \* the node to transpile next
    used,       \* per kind of memory, the loops with sharedInfo.used (exclusiveInfo.used)
    declared,   \* per kind of memory, the loops with sharedInfo.declared (...)
    barriers,   \* the loops whose closing brace is followed by __syncthreads()
    kernels,    \* ProgramMetaData::kernels
    output      \* the metadata of the device and of the launcher source, once generated

applyVars == <<pass, next, used, declared, barriers, kernels, output>>
allVars   == <<vars, applyVars>>

Memory == {"shared", "exclusive"}

ApplyInit ==
    /\ Init
    /\ pass = "sema"
    /\ next = 1
    /\ used = [m \in Memory |-> {}]
    /\ declared = [m \in Memory |-> {}]
    /\ barriers = {}
    /\ kernels = <<>>
    /\ output = [device |-> <<>>, launcher |-> <<>>]

Walk ==
    /\ pass = "sema"
    /\ Next
    /\ UNCHANGED applyVars

\* TraverseTranslationUnitDecl failed.
WalkFailed ==
    /\ pass = "sema"
    /\ status = "error"
    /\ pass' = "failed"
    /\ UNCHANGED <<vars, next, used, declared, barriers, kernels, output>>

WalkDone ==
    /\ pass = "sema"
    /\ status = "done"
    /\ pass' = "device"
    /\ kernels' = <<>>
    /\ UNCHANGED <<vars, next, used, declared, barriers, output>>

-----------------------------------------------------------------------------
(* One node: its context, then its handler.                                *)

TheNode == nodes[next]

AtNode(attrs) == next \in DOMAIN nodes /\ TheNode.attr \in attrs

\* setLoopInfo only takes a loop that the kernel's loopMap knows, so it
\* ignores nullptr, and the loop set for an earlier node stays current.
KnownLoop(k, l) == l # 0 /\ \E s \in 1..MaxLoops : parsedKernelList[k].loopMap[s] = l

SetLoop(k, l) == IF KnownLoop(k, l) THEN l ELSE parsedKernelList[k].currentLoop

\* getLoopInfo() as the handler of the node sees it.
ActiveLoop == IF TheNode.ki = 0 THEN 0 ELSE SetLoop(TheNode.ki, TheNode.li)

SetContext ==
    /\ parsingKernInfo' = TheNode.ki
    /\ parsedKernelList' =
          IF TheNode.ki = 0 THEN parsedKernelList
          ELSE [parsedKernelList EXCEPT ![TheNode.ki].currentLoop = ActiveLoop]
    /\ UNCHANGED <<walkVars, loops, nodes, status>>

Advance == next' = next + 1 /\ UNCHANGED <<pass, output>>

PassFails ==
    /\ pass' = "failed"
    /\ UNCHANGED <<next, used, declared, barriers, kernels, output>>

-----------------------------------------------------------------------------
(* @shared and @exclusive.                                                 *)

\* The declarations of variables ("... decl") and those of types ("... type").
TypeDecls == {"shared type", "exclusive type"}
Decls     == {"shared decl", "exclusive decl"} \cup TypeDecls

MemoryOf(attr) == IF attr \in {"shared decl", "shared type"} THEN "shared" ELSE "exclusive"

\* The attributed loop a declaration belongs to.
DeclLoop(l) == IF l # 0 /\ IsRegular(loops[l].type) THEN AttributedParent(loops, l) ELSE l

\* "Cannot define [@shared] variables inside an [@inner] loop".
OutOfInner(l) == l # 0 => ~Has(loops[l].type, "Inner")

\* "Must define [@shared] variables between [@outer] and [@inner] loops".
BetweenOuterAndInner(l) ==
    LET child == FirstAttributedChild(loops, l)
    IN  /\ l # 0
        /\ Has(loops[l].type, "Outer")
        /\ child # 0
        /\ Has(loops[child].type, "Inner")

\* Mutant: the loop that the declaration stands in is not looked at.
DeclNotInInner(attr, l) == attr \in TypeDecls \/ BetweenOuterAndInner(l)

\* A type has only to be out of the @inner loops, with a warning that the
\* place of its variables is not validated.
DeclAllowed(attr, l) == OutOfInner(l) /\ (attr \in TypeDecls \/ BetweenOuterAndInner(l))

ApplyDecl ==
    /\ pass = "device"
    /\ AtNode(Decls)
    /\ DeclAllowed(TheNode.attr, DeclLoop(ActiveLoop))
    /\ SetContext
    /\ declared' = IF DeclLoop(ActiveLoop) = 0 THEN declared
                   ELSE [declared EXCEPT ![MemoryOf(TheNode.attr)] = @ \cup {DeclLoop(ActiveLoop)}]
    /\ Advance
    /\ UNCHANGED <<used, barriers, kernels>>

RejectDecl ==
    /\ pass = "device"
    /\ AtNode(Decls)
    /\ ~DeclAllowed(TheNode.attr, DeclLoop(ActiveLoop))
    /\ SetContext
    /\ PassFails

\* Mutant: only the loops around it are marked.
MarkParents(l) == Ancestors(loops, l)

\* markSharedUsed, markExclusiveUsed: the loop and all loops around it.
MarkUsed(l) == {l} \cup Ancestors(loops, l)

\* The handlers registered for uses: CUDA has the one of @shared for both.
MarkedBy(attr) == IF attr = "shared use" \/ Backend = "CUDA" THEN "shared" ELSE "exclusive"

ApplyUse ==
    /\ pass = "device"
    /\ AtNode({"shared use", "exclusive use"})
    /\ SetContext
    /\ used' = IF ActiveLoop = 0 THEN used
               ELSE [used EXCEPT ![MarkedBy(TheNode.attr)] = @ \cup MarkUsed(ActiveLoop)]
    /\ Advance
    /\ UNCHANGED <<declared, barriers, kernels>>

-----------------------------------------------------------------------------
(* @outer, @inner, @tile, and the @nobarrier of the same statement.        *)

\* shouldSync: a highest @inner loop that uses shared memory and is not the
\* last loop of an @outer one.
ShouldSync(l, sharedUsed) ==
    LET p == loops[l].parent
    IN  /\ l \in sharedUsed
        /\ loops[l].type \in {<<"Inner">>, <<"Inner", "Inner">>}
        /\ p # 0
        /\ ~Has(loops[p].type, "Inner")
        /\ ~(Last(loops[p].type) = "Outer" /\ l = Max(Children(loops, p)))

\* Mutant: @inner calls the handler of @nobarrier where @tile does.
SeenIfFirst(l, nobarrierFirst) == nobarrierFirst

\* Whether shouldSync is asked after the handler of @nobarrier has run: the
\* attributes of a statement are a set of pointers, and @nobarrier is a node of
\* its own, before or after the loop's; the handlers of @inner and @tile call
\* its handler too, the one before and the other after they ask.
NobarrierSeen(l, nobarrierFirst) == nobarrierFirst \/ loops[l].type = <<"Inner">>

ApplyLoop ==
    LET l         == parsedKernelList[TheNode.ki].loopMap[TheNode.stmt]
        nobarrier == loops[l].attr.nobarrier
    IN  /\ pass = "device"
        /\ AtNode({"loop"})
        /\ SetContext
        /\ \E nobarrierFirst \in BOOLEAN :
              LET early  == nobarrier /\ NobarrierSeen(l, nobarrierFirst)
                  shared == used["shared"] \ (IF early THEN {l} ELSE {})
              IN  barriers' = IF ShouldSync(l, shared) THEN barriers \cup {l} ELSE barriers
        /\ used' = IF nobarrier THEN [used EXCEPT !["shared"] = @ \ {l}] ELSE used
        /\ Advance
        /\ UNCHANGED <<declared, kernels>>

-----------------------------------------------------------------------------
(* @kernel: a device kernel for every top level @outer loop, and in the    *)
(* launcher one host function that runs them.                              *)

TopLoops(k) == parsedKernelList[k].topLevelOuterLoops

\* Mutant: kernels are numbered through the program.
NumberedThroughProgram(k) ==
    [n \in DOMAIN TopLoops(k) |-> [kern |-> k, no |-> Len(kernels) + n - 1, loop |-> TopLoops(k)[n]]]

DeviceKernels(k) ==
    [n \in DOMAIN TopLoops(k) |-> [kern |-> k, no |-> n - 1, loop |-> TopLoops(k)[n]]]

\* deviceKernels[n] of the host function.
LaunchedKernels(k) ==
    [n \in DOMAIN TopLoops(k) |-> [kern |-> k, no |-> n - 1, loop |-> TopLoops(k)[n]]]

ApplyKernel ==
    /\ pass = "device"
    /\ AtNode({"kernel"})
    /\ VerifyLoops(loops, ToSet(TopLoops(TheNode.ki)))
    /\ SetContext
    /\ kernels' = kernels \o DeviceKernels(TheNode.ki)
    /\ Advance
    /\ UNCHANGED <<used, declared, barriers>>

RejectKernel ==
    /\ pass = "device"
    /\ AtNode({"kernel"})
    /\ ~VerifyLoops(loops, ToSet(TopLoops(TheNode.ki)))
    /\ SetContext
    /\ PassFails

\* In the launcher the loop and memory attributes have empty handlers, but
\* the handler of @nobarrier is common to all backends.
LaunchKernel ==
    /\ pass = "launcher"
    /\ AtNode({"kernel"})
    /\ SetContext
    /\ kernels' = Append(kernels, [kern |-> TheNode.ki, runs |-> LaunchedKernels(TheNode.ki)])
    /\ Advance
    /\ UNCHANGED <<used, declared, barriers>>

LaunchOther ==
    /\ pass = "launcher"
    /\ AtNode(LeafAttrs \cup {"loop"})
    /\ SetContext
    /\ used' = IF TheNode.attr = "loop" /\ loops[TheNode.stmt].attr.nobarrier
               THEN [used EXCEPT !["shared"] = @ \ {TheNode.stmt}] ELSE used
    /\ Advance
    /\ UNCHANGED <<declared, barriers, kernels>>

-----------------------------------------------------------------------------
(* The end of a pass.                                                      *)

ClearKernels == kernels' = <<>>

DeviceDone ==
    /\ pass = "device"
    /\ next > Len(nodes)
    /\ IF kernels = <<>> THEN PassFails     \* "No [@kernel] functions found"
       ELSE /\ output' = [output EXCEPT !.device = kernels]
            /\ pass' = "launcher"
            /\ next' = 1
            /\ ClearKernels
            /\ UNCHANGED <<used, declared, barriers>>
    /\ UNCHANGED vars

\* A failure here is not even reported.
LauncherDone ==
    /\ pass = "launcher"
    /\ next > Len(nodes)
    /\ output' = [output EXCEPT !.launcher = kernels]
    /\ pass' = "done"
    /\ UNCHANGED <<vars, next, used, declared, barriers, kernels>>

Apply ==
    \/ WalkFailed
    \/ WalkDone
    \/ ApplyDecl
    \/ RejectDecl
    \/ ApplyUse
    \/ ApplyLoop
    \/ ApplyKernel
    \/ RejectKernel
    \/ DeviceDone
    \/ LaunchKernel
    \/ LaunchOther
    \/ LauncherDone

ApplyNext == Walk \/ Apply

ApplySpec == ApplyInit /\ [][ApplyNext]_allVars

-----------------------------------------------------------------------------
(* What the passes have to produce, said of the source.                    *)

DevicePassed == pass \in {"launcher", "done"}

\* Loop l runs inside loop o, or is o.
Within(l, o) == l = o \/ o \in Ancestors(loops, l)

\* The uses that call for a barrier: of @shared variables, and on CUDA, though
\* not on HIP, also of @exclusive ones.
SyncedUses == {"shared use"} \cup IF Backend = "CUDA" THEN {"exclusive use"} ELSE {}

UsedInside(l) ==
    \E n \in DOMAIN nodes :
        nodes[n].attr \in SyncedUses /\ nodes[n].scope # 0 /\ Within(nodes[n].scope, l)

\* A highest @inner loop: it is not inside another one.
HighestInner(l) ==
    Has(loops[l].type, "Inner") /\ \A a \in Ancestors(loops, l) : ~Has(loops[a].type, "Inner")

\* After loop l the same block of threads runs another attributed loop of the
\* same @outer loop, or l again in the next iteration of a plain loop.
MoreToRun(l) ==
    LET o == AttributedParent(loops, l)
    IN  /\ o # 0
        /\ \/ loops[l].parent # o
           \/ Last(loops[o].type) # "Outer"
           \/ \E m \in DOMAIN loops : m > l /\ ~Within(m, l) /\ AttributedParent(loops, m) = o

NeedsSync(l) ==
    /\ HighestInner(l)
    /\ UsedInside(l)
    /\ ~loops[l].attr.nobarrier
    /\ MoreToRun(l)

\* The handler of a node sees the loop that the node stands in, in both
\* passes and whatever was transpiled before it: the walk's context is
\* restored from the recorded pair although currentLoop is one variable per
\* kernel that every node overwrites.
HandlersSeeTheirLoop ==
    pass \in {"device", "launcher"} /\ next \in DOMAIN nodes =>
        /\ TheNode.scope # 0 => ActiveLoop = TheNode.scope
        /\ TheNode.ki # 0 /\ ActiveLoop # 0 => loops[ActiveLoop].kern = TheNode.ki

\* Between the @inner loops of an @outer loop there is a barrier when the
\* first of them has a use that calls for one, however deep in it the use
\* stands: for loops that are @inner, or tiled twice @inner.
SharedUseIsSynced ==
    DevicePassed =>
        \A l \in DOMAIN loops :
            /\ NeedsSync(l)
            /\ loops[l].type \in {<<"Inner">>, <<"Inner", "Inner">>}
            => l \in barriers

\* "@nobarrier will turn off this synchronization after given for loop", in
\* whichever order the attributes of the statement are met and although uses
\* deeper inside have marked the loop before: for loops that are not tiled.
NobarrierIsKept ==
    \A l \in barriers : loops[l].attr.nobarrier => Len(loops[l].type) = 2

\* The attributed loops around node n, and the nearest of them.
AttributedAround(n) ==
    {a \in {nodes[n].scope} \cup Ancestors(loops, nodes[n].scope) : Attributed(loops, a)}

NearestAround(n) == Max(AttributedAround(n))

\* Node n is in no @inner loop, except that one further out may be cut off from
\* the nearest attributed loop by a plain loop, which is as far as the code
\* compares loops.
IsOutOfInner(n) ==
    \A a \in AttributedAround(n) : Has(loops[a].type, "Inner") =>
        \E r \in Ancestors(loops, NearestAround(n)) :
            ~Attributed(loops, r) /\ a \in Ancestors(loops, r)

\* The nearest attributed loop around node n is an @outer one and has an @inner
\* one inside.
IsBetweenLoops(n) ==
    LET nearest == NearestAround(n)
    IN  /\ AttributedAround(n) # {}
        /\ Has(loops[nearest].type, "Outer")
        /\ ~Has(loops[nearest].type, "Inner")
        /\ \E d \in Descendants(loops, nearest) : Has(loops[d].type, "Inner")

IsDecl(n) == nodes[n].attr \in Decls

IsPlaced(n) == IsOutOfInner(n) /\ (nodes[n].attr \notin TypeDecls => IsBetweenLoops(n))

\* A declaration in a loop is accepted only out of the @inner loops and, when it
\* declares a variable, between @outer and @inner, although the handler looks at
\* the nearest attributed loop and its first attributed child only, and at a
\* loop that earlier nodes may have changed.  Of a type the code does not ask
\* whether it, or a variable of it, is between them.
DeclsInLoopsArePlaced ==
    DevicePassed =>
        \A n \in DOMAIN nodes : IsDecl(n) /\ nodes[n].scope # 0 => IsPlaced(n)

\* The launcher runs every device kernel, by the number in its name and in
\* the order of the metadata, although the two lists are built by different
\* handlers in different passes.
LauncherRunsDeviceKernels ==
    pass = "done" =>
        FlattenSeq([f \in DOMAIN output.launcher |-> output.launcher[f].runs]) = output.device

=============================================================================
