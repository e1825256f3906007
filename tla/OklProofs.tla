----------------------------- MODULE OklProofs -----------------------------
(***************************************************************************)
(* Proofs about OklSema, the walk, and OklApply, the passes over what it   *)
(* recorded, for any set of for-statements and attributes, any program and *)
(* any bounds.                                                             *)
(***************************************************************************)
EXTENDS OklApply, LoopTreeProofs

-----------------------------------------------------------------------------
(* The walk.  The inductive invariant is the type invariant with the three *)
(* facts that depend on each other: the parent pointers repeat the nesting *)
(* of the source, currentLoop is the innermost statement, and the recorded *)
(* nodes know their loop.                                                  *)

SemaInv ==
    /\ TypeOK
    /\ ParentIsEnclosingFor
    /\ CurrentLoopIsScope
    /\ NodesKnowTheirLoop

\* The invariant holds of the empty walk.
LEMMA InitInv == Init => SemaInv
<1> SUFFICES ASSUME Init PROVE SemaInv
  OBVIOUS
<1>1. TypeOK
  BY BoundsAssumption DEF Init, TypeOK
<1>2. ParentIsEnclosingFor /\ CurrentLoopIsScope /\ NodesKnowTheirLoop
  BY DEF Init, ParentIsEnclosingFor, CurrentLoopIsScope, NodesKnowTheirLoop
<1> QED
  BY <1>1, <1>2 DEF SemaInv

\* Steps that leave the kernels and the loops alone.
LEMMA SameSema ==
    ASSUME SemaInv, UNCHANGED <<openFors, semaVars, nodes>>,
           function' \in {"none", "helper", "kernel"},
           function' = "kernel" <=> function = "kernel",
           status' \in {"walking", "error", "done"}
    PROVE  SemaInv'
<1>1. TypeOK'
  BY DEF SemaInv, TypeOK, semaVars, LoopOK
<1>2. ParentIsEnclosingFor'
  BY DEF SemaInv, ParentIsEnclosingFor, semaVars
<1>3. CurrentLoopIsScope'
  BY DEF SemaInv, CurrentLoopIsScope, semaVars, Scope
<1>4. NodesKnowTheirLoop'
  BY DEF SemaInv, NodesKnowTheirLoop, KnowsItsLoop, semaVars
<1> QED
  BY <1>1, <1>2, <1>3, <1>4 DEF SemaInv

\* A step that only appends a node recorded with the current context.
LEMMA RecordKeepsNodes ==
    ASSUME SemaInv, NEW attr \in LeafAttrs \cup {"kernel", "loop"}, NEW stmt \in Nat,
           Record(attr, stmt),
           attr = "loop" => stmt = Scope /\ stmt # 0 /\ function = "kernel"
    PROVE  /\ nodes' \in Seq(Node)
           /\ \A n \in DOMAIN nodes' : KnowsItsLoop(nodes'[n])
<1> DEFINE node == [ki |-> parsingKernInfo, li |-> CurrentLoop, attr |-> attr,
                    stmt |-> stmt, scope |-> Scope]
<1>1. Scope \in Nat /\ CurrentLoop = Scope
  BY DEF SemaInv, TypeOK, ParentIsEnclosingFor, CurrentLoopIsScope, CurrentLoop, Parsing,
         Scope, Last
<1>2. node \in Node
  BY <1>1 DEF SemaInv, TypeOK, Node
<1>3. nodes' = Append(nodes, node)
  BY DEF Record
<1>4. /\ nodes' \in Seq(Node)
      /\ DOMAIN nodes' = DOMAIN nodes \cup {Len(nodes) + 1}
      /\ \A n \in DOMAIN nodes : nodes'[n] = nodes[n]
      /\ nodes'[Len(nodes) + 1] = node
  <2> HIDE DEF node
  <2> QED BY <1>2, <1>3 DEF SemaInv, TypeOK
<1>5. Scope # 0 => /\ Scope \in DOMAIN loops
                   /\ parsingKernInfo = loops[Scope].kern
                   /\ parsingKernInfo \in DOMAIN parsedKernelList
                   /\ parsedKernelList[parsingKernInfo].loopMap[Scope] = Scope
  BY DEF SemaInv, TypeOK, ParentIsEnclosingFor, Scope, Last, LoopOK
<1>6. KnowsItsLoop(node)
  BY <1>1, <1>5 DEF KnowsItsLoop
<1>7. \A n \in DOMAIN nodes' : KnowsItsLoop(nodes'[n])
  <2> HIDE DEF node
  <2> QED BY <1>4, <1>6 DEF SemaInv, NodesKnowTheirLoop
<1> QED
  BY <1>4, <1>7

\* Recording a node that is neither a loop nor a kernel.
LEMMA RecordLeafKeepsInv ==
    ASSUME SemaInv, NEW attr \in LeafAttrs, RecordLeaf(attr)
    PROVE  SemaInv'
<1>1. /\ Record(attr, 0)
      /\ UNCHANGED <<walkVars, semaVars, status>>
  BY DEF RecordLeaf
<1>2. attr # "loop"
  BY LeafAttrsAssumption
<1>3. TypeOK'
  BY <1>1, <1>2, RecordKeepsNodes DEF SemaInv, TypeOK, walkVars, semaVars, LoopOK
<1>4. ParentIsEnclosingFor' /\ CurrentLoopIsScope'
  BY <1>1 DEF SemaInv, ParentIsEnclosingFor, CurrentLoopIsScope, walkVars, semaVars, Scope
<1>5. NodesKnowTheirLoop'
  <2>1. \A n \in DOMAIN nodes' : KnowsItsLoop(nodes'[n])
    BY <1>1, <1>2, RecordKeepsNodes
  <2> QED BY <1>1, <2>1 DEF NodesKnowTheirLoop, KnowsItsLoop, semaVars
<1> QED
  BY <1>3, <1>4, <1>5 DEF SemaInv

LEMMA EnterKernelKeepsInv ==
    ASSUME SemaInv, EnterKernel
    PROVE  SemaInv'
<1> DEFINE k == Len(parsedKernelList) + 1
<1>1. NoKernelInfo \in KernelInfo
  BY DEF NoKernelInfo, KernelInfo
<1>2. /\ parsedKernelList \in Seq(KernelInfo)
      /\ parsedKernelList' = Append(parsedKernelList, NoKernelInfo)
      /\ parsingKernInfo' = Len(parsedKernelList')
      /\ function = "none" /\ function' = "kernel"
      /\ UNCHANGED <<openFors, loops, nodes, status>>
  BY DEF SemaInv, TypeOK, EnterKernel
<1>3. /\ parsedKernelList' \in Seq(KernelInfo)
      /\ DOMAIN parsedKernelList' = DOMAIN parsedKernelList \cup {k}
      /\ \A i \in DOMAIN parsedKernelList : parsedKernelList'[i] = parsedKernelList[i]
      /\ parsedKernelList'[k] = NoKernelInfo
      /\ parsingKernInfo' = k
      /\ k \in Nat \ {0}
  <2> HIDE DEF NoKernelInfo
  <2> QED BY <1>1, <1>2
<1>4. TypeOK'
  <2>1. \A l \in DOMAIN loops : LoopOK(l)'
    BY <1>2, <1>3 DEF SemaInv, TypeOK, LoopOK
  <2> QED BY <1>2, <1>3, <2>1 DEF SemaInv, TypeOK
<1>5. ParentIsEnclosingFor'
  BY <1>2 DEF SemaInv, ParentIsEnclosingFor
<1>6. CurrentLoopIsScope'
  <2>1. openFors = <<>> /\ parsingKernInfo = 0
    BY <1>2 DEF SemaInv, TypeOK, ParentIsEnclosingFor
  <2>2. Scope' = 0
    BY <1>2, <2>1 DEF Scope
  <2>3. NoKernelInfo.currentLoop = 0
    BY DEF NoKernelInfo
  <2> QED BY <1>2, <1>3, <2>1, <2>2, <2>3 DEF SemaInv, CurrentLoopIsScope
<1>7. NodesKnowTheirLoop'
  BY <1>2, <1>3 DEF SemaInv, NodesKnowTheirLoop, KnowsItsLoop
<1> QED
  BY <1>4, <1>5, <1>6, <1>7 DEF SemaInv

LEMMA ExitKernelKeepsInv ==
    ASSUME SemaInv, ExitKernel
    PROVE  SemaInv'
<1>1. /\ Record("kernel", 0)
      /\ function = "kernel" /\ function' = "none"
      /\ openFors = <<>> /\ openFors' = <<>>
      /\ parsingKernInfo' = 0
      /\ UNCHANGED <<parsedKernelList, loops, status>>
  BY DEF ExitKernel, StopParsingKernelInfo
<1>2. TypeOK'
  <2>1. nodes' \in Seq(Node)
    BY <1>1, RecordKeepsNodes
  <2> QED BY <1>1, <2>1 DEF SemaInv, TypeOK, LoopOK
<1>3. ParentIsEnclosingFor'
  BY <1>1 DEF ParentIsEnclosingFor
<1>4. CurrentLoopIsScope'
  BY <1>1 DEF SemaInv, TypeOK, CurrentLoopIsScope, Scope
<1>5. NodesKnowTheirLoop'
  <2>1. \A n \in DOMAIN nodes' : KnowsItsLoop(nodes'[n])
    BY <1>1, RecordKeepsNodes
  <2> QED BY <1>1, <2>1 DEF NodesKnowTheirLoop, KnowsItsLoop
<1> QED
  BY <1>2, <1>3, <1>4, <1>5 DEF SemaInv

\* The fields of a loop, of a kernel.
LEMMA LoopFields ==
    ASSUME NEW T \in Seq(Loop), NEW l \in DOMAIN T
    PROVE  /\ T[l] \in Loop
           /\ T[l].kern \in Nat \ {0}
           /\ T[l].type \in Seq(LoopType)
           /\ T[l].axis \in Seq(Axis)
           /\ T[l].attr \in LoopKinds
           /\ T[l].parent \in Nat
<1>1. T[l] \in Loop
  OBVIOUS
<1> QED
  BY <1>1 DEF Loop

LEMMA KernelFields ==
    ASSUME NEW K \in Seq(KernelInfo), NEW k \in DOMAIN K
    PROVE  /\ K[k] \in KernelInfo
           /\ K[k].currentLoop \in Nat
           /\ K[k].loopMap \in [1..MaxLoops -> Nat]
           /\ K[k].topLevelOuterLoops \in Seq(Nat \ {0})
<1>1. K[k] \in KernelInfo
  OBVIOUS
<1> QED
  BY <1>1 DEF KernelInfo

\* What the invariant says of the sequences, as the steps below use it.
LEMMA SemaFacts ==
    ASSUME SemaInv
    PROVE  /\ MaxLoops \in Nat
           /\ loops \in Seq(Loop)
           /\ Len(loops) \in Nat
           /\ Len(loops) <= MaxLoops
           /\ DOMAIN loops = 1..Len(loops)
           /\ \A l \in DOMAIN loops : LoopOK(l) /\ loops[l].parent \in 0..(l - 1)
           /\ openFors \in Seq(DOMAIN loops)
           /\ Len(openFors) \in Nat
           /\ DOMAIN openFors = 1..Len(openFors)
           /\ \A i \in DOMAIN openFors : openFors[i] \in DOMAIN loops
           /\ Scope = IF Len(openFors) = 0 THEN 0 ELSE openFors[Len(openFors)]
           /\ parsedKernelList \in Seq(KernelInfo)
           /\ \A k \in DOMAIN parsedKernelList :
                 parsedKernelList[k].loopMap \in [1..MaxLoops -> Nat]
<1>1. \A l \in DOMAIN loops : LoopOK(l) /\ loops[l].parent \in 0..(l - 1)
  BY LoopFields DEF SemaInv, TypeOK, LoopOK
<1>2. \A k \in DOMAIN parsedKernelList : parsedKernelList[k].loopMap \in [1..MaxLoops -> Nat]
  BY KernelFields DEF SemaInv, TypeOK
<1>3. Scope = IF Len(openFors) = 0 THEN 0 ELSE openFors[Len(openFors)]
  BY DEF SemaInv, TypeOK, Scope, Last
<1> QED
  BY <1>1, <1>2, <1>3, BoundsAssumption DEF SemaInv, TypeOK

LEMMA EnterLoopKeepsInv ==
    ASSUME SemaInv, NEW kind \in LoopKinds, EnterLoop(kind)
    PROVE  SemaInv'
<1>a. PICK new : new = Len(loops) + 1
  OBVIOUS
<1> DEFINE loop == [kern |-> parsingKernInfo, type |-> kind.type, axis |-> kind.axis,
                    attr |-> kind, parent |-> CurrentLoop]
           old  == parsedKernelList[parsingKernInfo]
           info == [currentLoop |-> new,
                    loopMap     |-> [old.loopMap EXCEPT ![new] = new],
                    topLevelOuterLoops |->
                        IF IsTopLevelOuter(kind) THEN Append(old.topLevelOuterLoops, new)
                        ELSE old.topLevelOuterLoops]
<1>0. /\ MaxLoops \in Nat
      /\ Len(loops) \in Nat
      /\ DOMAIN loops = 1..Len(loops)
      /\ \A l \in DOMAIN loops : LoopOK(l) /\ loops[l].parent \in 0..(l - 1)
      /\ openFors \in Seq(DOMAIN loops)
      /\ Len(openFors) \in Nat
      /\ DOMAIN openFors = 1..Len(openFors)
      /\ \A i \in DOMAIN openFors : openFors[i] \in DOMAIN loops
      /\ Scope = IF Len(openFors) = 0 THEN 0 ELSE openFors[Len(openFors)]
  BY SemaFacts
<1>1. /\ function = "kernel"
      /\ new \in 1..MaxLoops
      /\ loops' = Append(loops, loop)
      /\ parsedKernelList' = [parsedKernelList EXCEPT ![parsingKernInfo] = info]
      /\ openFors' = Append(openFors, new)
      /\ UNCHANGED <<function, parsingKernInfo, nodes, status>>
  BY <1>0, <1>a DEF EnterLoop
<1>2. /\ parsingKernInfo \in DOMAIN parsedKernelList
      /\ parsingKernInfo \in Nat \ {0}
      /\ old \in KernelInfo
  BY <1>1 DEF SemaInv, TypeOK
<1>3. /\ CurrentLoop = Scope
      /\ CurrentLoop \in 0..Len(loops)
      /\ CurrentLoop # 0 => loops[CurrentLoop].kern = parsingKernInfo
  <2>1. CurrentLoop = Scope
    BY <1>2 DEF SemaInv, CurrentLoopIsScope, CurrentLoop, Parsing
  <2>2. Len(openFors) # 0 => Len(openFors) \in DOMAIN openFors
    BY <1>0
  <2>3. Scope # 0 => Scope \in DOMAIN loops /\ loops[Scope].kern = parsingKernInfo
    BY <1>0, <2>2 DEF SemaInv, ParentIsEnclosingFor
  <2> QED BY <1>0, <2>1, <2>3
<1>4. loop \in Loop /\ Len(loop.axis) = Len(loop.type)
  BY <1>2, <1>3, LoopKindsAssumption DEF Loop, LoopKind
<1>5. info \in KernelInfo
  <2>1. /\ old.loopMap \in [1..MaxLoops -> Nat]
        /\ old.topLevelOuterLoops \in Seq(Nat \ {0})
    BY <1>2, KernelFields DEF SemaInv, TypeOK
  <2>2. [old.loopMap EXCEPT ![new] = new] \in [1..MaxLoops -> Nat]
    BY <1>1, <2>1
  <2>3. Append(old.topLevelOuterLoops, new) \in Seq(Nat \ {0})
    BY <1>1, <2>1
  <2> HIDE DEF old
  <2> QED BY <1>1, <2>1, <2>2, <2>3 DEF KernelInfo
<1>5a. /\ loop.kern = parsingKernInfo
       /\ loop.parent = CurrentLoop
       /\ info.currentLoop = new
       /\ info.loopMap = [old.loopMap EXCEPT ![new] = new]
       /\ new = Len(loops) + 1
       /\ new <= MaxLoops
  BY <1>0, <1>1, <1>a
<1> HIDE DEF loop, old, info
<1>6. /\ loops' \in Seq(Loop)
      /\ DOMAIN loops' = DOMAIN loops \cup {new}
      /\ Len(loops') = new
      /\ \A l \in DOMAIN loops : loops'[l] = loops[l]
      /\ loops'[new] = loop
      /\ new \notin DOMAIN loops
  BY <1>0, <1>1, <1>4, <1>a DEF SemaInv, TypeOK
<1>7. /\ parsedKernelList' \in Seq(KernelInfo)
      /\ DOMAIN parsedKernelList' = DOMAIN parsedKernelList
      /\ Len(parsedKernelList') = Len(parsedKernelList)
      /\ \A k \in DOMAIN parsedKernelList :
            parsedKernelList'[k] = IF k = parsingKernInfo THEN info ELSE parsedKernelList[k]
  BY <1>1, <1>2, <1>5 DEF SemaInv, TypeOK
<1>8. \A k \in DOMAIN parsedKernelList : \A l \in DOMAIN loops :
          parsedKernelList'[k].loopMap[l] = parsedKernelList[k].loopMap[l]
  <2>1. old.loopMap \in [1..MaxLoops -> Nat]
    BY <1>2 DEF KernelInfo
  <2>2. DOMAIN loops \subseteq (1..MaxLoops) \ {new}
    BY <1>0, <1>5a
  <2>3. \A l \in DOMAIN loops : info.loopMap[l] = old.loopMap[l]
    BY <1>5a, <2>1, <2>2
  <2> QED BY <1>7, <2>3 DEF old
<1>9. parsedKernelList'[parsingKernInfo].loopMap[new] = new
  <2>1. old.loopMap \in [1..MaxLoops -> Nat]
    BY <1>2 DEF KernelInfo
  <2> QED BY <1>1, <1>2, <1>5a, <1>7, <2>1
<1>10. /\ openFors' \in Seq(DOMAIN loops')
       /\ Len(openFors') = Len(openFors) + 1
       /\ DOMAIN openFors' = 1..(Len(openFors) + 1)
       /\ \A i \in DOMAIN openFors : openFors'[i] = openFors[i]
       /\ openFors'[Len(openFors) + 1] = new
       /\ Scope' = new
  <2>1. openFors \in Seq(DOMAIN loops') /\ new \in DOMAIN loops'
    BY <1>0, <1>6
  <2>2. /\ openFors' \in Seq(DOMAIN loops')
        /\ Len(openFors') = Len(openFors) + 1
        /\ DOMAIN openFors' = 1..(Len(openFors) + 1)
        /\ \A i \in DOMAIN openFors : openFors'[i] = openFors[i]
        /\ openFors'[Len(openFors) + 1] = new
    BY <1>0, <1>1, <2>1
  <2> QED BY <1>0, <2>2 DEF Scope, Last
<1>11. TypeOK'
  <2>1. \A l \in DOMAIN loops : LoopOK(l)'
    <3> SUFFICES ASSUME NEW l \in DOMAIN loops PROVE LoopOK(l)'
      OBVIOUS
    <3>1. LoopOK(l) /\ loops[l].parent \in 0..(l - 1)
      BY <1>0
    <3>2. loops[l].parent # 0 => loops[l].parent \in DOMAIN loops
      BY <1>0, <3>1
    <3> QED BY <1>6, <1>7, <1>8, <3>1, <3>2 DEF LoopOK
  <2>2. LoopOK(new)'
    <3>1. CurrentLoop # 0 => loops'[CurrentLoop].kern = parsingKernInfo
      BY <1>0, <1>3, <1>6
    <3>2. CurrentLoop < new
      BY <1>0, <1>3, <1>5a
    <3>3. /\ loops'[new].kern = parsingKernInfo
          /\ loops'[new].parent = CurrentLoop
          /\ Len(loops'[new].axis) = Len(loops'[new].type)
          /\ parsingKernInfo \in DOMAIN parsedKernelList'
      BY <1>2, <1>4, <1>5a, <1>6, <1>7
    <3> QED BY <1>9, <3>1, <3>2, <3>3 DEF LoopOK
  <2>3. \A l \in DOMAIN loops' : LoopOK(l)'
    <3> SUFFICES ASSUME NEW l \in DOMAIN loops' PROVE LoopOK(l)'
      OBVIOUS
    <3>1. CASE l \in DOMAIN loops
      BY <2>1, <3>1
    <3>2. CASE l = new
      BY <2>2, <3>2 DEF LoopOK
    <3> QED BY <1>6, <3>1, <3>2
  <2>4. Len(loops') <= MaxLoops
    BY <1>1, <1>6
  <2> QED BY <1>1, <1>6, <1>7, <1>10, <2>3, <2>4 DEF SemaInv, TypeOK
<1>12. ParentIsEnclosingFor'
  <2>1. \A i \in DOMAIN openFors :
           /\ loops'[openFors'[i]].kern = parsingKernInfo
           /\ loops'[openFors'[i]].parent = IF i = 1 THEN 0 ELSE openFors'[i - 1]
    <3> SUFFICES ASSUME NEW i \in DOMAIN openFors
                 PROVE  /\ loops'[openFors'[i]].kern = parsingKernInfo
                        /\ loops'[openFors'[i]].parent = IF i = 1 THEN 0 ELSE openFors'[i - 1]
      OBVIOUS
    <3>1. /\ loops[openFors[i]].kern = parsingKernInfo
          /\ loops[openFors[i]].parent = IF i = 1 THEN 0 ELSE openFors[i - 1]
      BY DEF SemaInv, ParentIsEnclosingFor
    <3>2. loops'[openFors'[i]] = loops[openFors[i]]
      BY <1>0, <1>6, <1>10
    <3>3. i # 1 => openFors'[i - 1] = openFors[i - 1]
      BY <1>0, <1>10
    <3> QED BY <3>1, <3>2, <3>3
  <2>2. loops'[new].parent = IF Len(openFors) + 1 = 1 THEN 0 ELSE openFors'[Len(openFors)]
    <3>1. loops'[new].parent = Scope
      BY <1>3, <1>5a, <1>6
    <3>2. Len(openFors) # 0 => openFors'[Len(openFors)] = openFors[Len(openFors)]
      BY <1>0, <1>10
    <3> QED BY <1>0, <3>1, <3>2
  <2>3. loops'[new].kern = parsingKernInfo
    BY <1>5a, <1>6
  <2> SUFFICES ASSUME NEW i \in DOMAIN openFors'
               PROVE  /\ loops'[openFors'[i]].kern = parsingKernInfo
                      /\ loops'[openFors'[i]].parent = IF i = 1 THEN 0 ELSE openFors'[i - 1]
    BY <1>1 DEF ParentIsEnclosingFor
  <2>4. CASE i \in DOMAIN openFors
    BY <2>1, <2>4
  <2>5. CASE i = Len(openFors) + 1
    BY <1>0, <1>10, <2>2, <2>3, <2>5
  <2> QED BY <1>0, <1>10, <2>4, <2>5
<1>13. CurrentLoopIsScope'
  BY <1>1, <1>5a, <1>7, <1>10 DEF SemaInv, CurrentLoopIsScope
<1>14. NodesKnowTheirLoop'
  BY <1>1, <1>6, <1>7, <1>8 DEF SemaInv, NodesKnowTheirLoop, KnowsItsLoop
<1> QED
  BY <1>11, <1>12, <1>13, <1>14 DEF SemaInv

\* The axes a loop is left with have the type of axes, as many as its types.
LEMMA UpdatedAxesType ==
    ASSUME NEW T \in Seq(Loop), NEW l \in DOMAIN T,
           Len(T[l].axis) = Len(T[l].type), AutoAxisFits(T, l)
    PROVE  UpdatedAxes(T, l) \in Seq(Axis) /\ Len(UpdatedAxes(T, l)) = Len(T[l].axis)
<1>1. T[l].axis \in Seq(Axis) /\ T[l].type \in Seq(LoopType)
  BY LoopFields
<1>4. DOMAIN T[l].type = 1..Len(T[l].axis)
  BY <1>1
<1>2. \A n \in 1..Len(T[l].axis) : AxisHeight(T, l, n) \in Axis
  BY <1>4 DEF AutoAxisFits, Axis, MaxAxis, AutoAxis
<1>3. UpdatedAxes(T, l) \in [1..Len(T[l].axis) -> Axis]
  BY <1>1, <1>2 DEF UpdatedAxes
<1> QED
  BY <1>1, <1>3

LEMMA ExitLoopKeepsInv ==
    ASSUME SemaInv, ExitLoop
    PROVE  SemaInv'
<1> DEFINE l    == ClosingLoop
           auto == HasAuto(loops[l].axis)
<1>0. /\ Len(loops) \in Nat
      /\ DOMAIN loops = 1..Len(loops)
      /\ \A i \in DOMAIN loops : LoopOK(i) /\ loops[i].parent \in 0..(i - 1)
      /\ openFors \in Seq(DOMAIN loops)
      /\ Len(openFors) \in Nat
      /\ DOMAIN openFors = 1..Len(openFors)
      /\ \A i \in DOMAIN openFors : openFors[i] \in DOMAIN loops
      /\ Scope = IF Len(openFors) = 0 THEN 0 ELSE openFors[Len(openFors)]
  BY SemaFacts
<1>1. /\ function = "kernel"
      /\ openFors # <<>>
      /\ auto => AutoAxisFits(loops, l)
      /\ loops' = IF auto THEN [loops EXCEPT ![l].axis = UpdatedAxes(loops, l)] ELSE loops
      /\ parsedKernelList' =
            [parsedKernelList EXCEPT ![parsingKernInfo].currentLoop = EnclosingLoop(l)]
      /\ nodes' = nodes \/ Record("loop", Scope)
      /\ openFors' = Front(openFors)
      /\ UNCHANGED <<function, parsingKernInfo, status>>
  BY DEF ExitLoop
<1>2. /\ Scope = openFors[Len(openFors)]
      /\ Len(openFors) \in Nat \ {0}
      /\ Scope \in DOMAIN loops
      /\ Scope \in Nat \ {0}
      /\ parsingKernInfo \in DOMAIN parsedKernelList
  BY <1>1 DEF SemaInv, TypeOK, Scope, Last
<1>3. l = Scope
  BY <1>2 DEF ClosingLoop, Parsing, SemaInv, TypeOK, ParentIsEnclosingFor, LoopOK
<1>4. /\ nodes' \in Seq(Node)
      /\ \A n \in DOMAIN nodes' : KnowsItsLoop(nodes'[n])
  BY <1>1, <1>2, RecordKeepsNodes DEF SemaInv, TypeOK, NodesKnowTheirLoop
<1>5. /\ loops' \in Seq(Loop)
      /\ DOMAIN loops' = DOMAIN loops
      /\ Len(loops') = Len(loops)
      /\ \A i \in DOMAIN loops : /\ loops'[i].kern = loops[i].kern
                                 /\ loops'[i].parent = loops[i].parent
                                 /\ Len(loops'[i].axis) = Len(loops'[i].type)
  <2>1. loops \in Seq(Loop) /\ \A i \in DOMAIN loops : Len(loops[i].axis) = Len(loops[i].type)
    BY DEF SemaInv, TypeOK, LoopOK
  <2>2. CASE ~auto
    BY <1>1, <2>1, <2>2
  <2>3. CASE auto
    <3> DEFINE axes == UpdatedAxes(loops, l)
               done == [loops[l] EXCEPT !.axis = axes]
    <3>1. axes \in Seq(Axis) /\ Len(axes) = Len(loops[l].axis)
      BY <1>1, <1>2, <1>3, <2>1, <2>3, UpdatedAxesType
    <3>2. /\ done \in Loop
          /\ done.kern = loops[l].kern
          /\ done.parent = loops[l].parent
          /\ Len(done.axis) = Len(done.type)
      <4> HIDE DEF axes, l
      <4>1. loops[l] \in Loop /\ Len(loops[l].axis) = Len(loops[l].type)
        BY <1>2, <1>3, <2>1
      <4> QED BY <3>1, <4>1 DEF Loop
    <3>3. loops' = [loops EXCEPT ![l] = done]
      BY <1>1, <2>3
    <3> HIDE DEF done, l
    <3> QED BY <1>2, <1>3, <2>1, <3>2, <3>3
  <2> QED BY <2>2, <2>3
<1>6. /\ EnclosingLoop(l) \in Nat
      /\ EnclosingLoop(l) = IF Len(openFors) = 1 THEN 0 ELSE openFors[Len(openFors) - 1]
  <2>1. EnclosingLoop(l) = loops[openFors[Len(openFors)]].parent
    BY <1>2, <1>3 DEF EnclosingLoop
  <2>2. loops[openFors[Len(openFors)]].parent =
            IF Len(openFors) = 1 THEN 0 ELSE openFors[Len(openFors) - 1]
    <3>1. Len(openFors) \in DOMAIN openFors
      BY <1>0, <1>2
    <3> QED BY <3>1 DEF SemaInv, ParentIsEnclosingFor
  <2>3. Len(openFors) # 1 => openFors[Len(openFors) - 1] \in Nat
    BY <1>0, <1>2
  <2> QED BY <2>1, <2>2, <2>3
<1>7. /\ parsedKernelList' \in Seq(KernelInfo)
      /\ DOMAIN parsedKernelList' = DOMAIN parsedKernelList
      /\ Len(parsedKernelList') = Len(parsedKernelList)
      /\ \A k \in DOMAIN parsedKernelList :
            /\ parsedKernelList'[k].loopMap = parsedKernelList[k].loopMap
            /\ parsedKernelList'[k].currentLoop =
                  IF k = parsingKernInfo THEN EnclosingLoop(l)
                  ELSE parsedKernelList[k].currentLoop
  <2> HIDE DEF l
  <2>1. parsedKernelList \in Seq(KernelInfo)
    BY DEF SemaInv, TypeOK
  <2>2. [parsedKernelList[parsingKernInfo] EXCEPT !.currentLoop = EnclosingLoop(l)]
            \in KernelInfo
    <3>1. parsedKernelList[parsingKernInfo] \in KernelInfo
      BY <1>2, <2>1
    <3> QED BY <1>6, <3>1 DEF KernelInfo
  <2>3. parsedKernelList' = [parsedKernelList EXCEPT ![parsingKernInfo] =
            [parsedKernelList[parsingKernInfo] EXCEPT !.currentLoop = EnclosingLoop(l)]]
    BY <1>1
  <2>4. parsedKernelList[parsingKernInfo] \in KernelInfo
    BY <1>2, <2>1
  <2>5. parsedKernelList' \in Seq(KernelInfo)
    BY <1>2, <2>1, <2>2, <2>3
  <2>6. \A k \in DOMAIN parsedKernelList :
            parsedKernelList'[k] =
                IF k = parsingKernInfo
                THEN [parsedKernelList[parsingKernInfo] EXCEPT !.currentLoop = EnclosingLoop(l)]
                ELSE parsedKernelList[k]
    BY <1>2, <2>1, <2>3
  <2>7. \A k \in DOMAIN parsedKernelList :
            /\ parsedKernelList'[k].loopMap = parsedKernelList[k].loopMap
            /\ parsedKernelList'[k].currentLoop =
                  IF k = parsingKernInfo THEN EnclosingLoop(l)
                  ELSE parsedKernelList[k].currentLoop
    BY <2>4, <2>6 DEF KernelInfo
  <2> QED BY <2>1, <2>3, <2>5, <2>7
<1>8. /\ openFors' \in Seq(DOMAIN loops')
      /\ Len(openFors') = Len(openFors) - 1
      /\ \A i \in DOMAIN openFors' : i \in DOMAIN openFors /\ openFors'[i] = openFors[i]
      /\ Scope' = EnclosingLoop(l)
  <2>1. openFors \in Seq(DOMAIN loops')
    BY <1>0, <1>5
  <2>2. /\ openFors' \in Seq(DOMAIN loops')
        /\ Len(openFors') = Len(openFors) - 1
        /\ \A i \in DOMAIN openFors' : i \in DOMAIN openFors /\ openFors'[i] = openFors[i]
    BY <1>0, <1>1, <1>2, <2>1 DEF Front
  <2>3. Scope' = IF Len(openFors) = 1 THEN 0 ELSE openFors[Len(openFors) - 1]
    BY <1>2, <2>1, <2>2 DEF Scope, Last
  <2> QED BY <1>6, <2>2, <2>3
<1>9. TypeOK'
  <2>1. \A i \in DOMAIN loops : LoopOK(i)'
    <3> SUFFICES ASSUME NEW i \in DOMAIN loops PROVE LoopOK(i)'
      OBVIOUS
    <3>1. LoopOK(i) /\ loops[i].parent \in 0..(i - 1)
      BY <1>0
    <3>2. loops[i].parent # 0 => loops[i].parent \in DOMAIN loops
      BY <1>0, <3>1
    <3> QED BY <1>5, <1>7, <3>1, <3>2 DEF LoopOK
  <2> QED BY <1>1, <1>4, <1>5, <1>7, <1>8, <2>1 DEF SemaInv, TypeOK
<1>10. ParentIsEnclosingFor'
  <2> SUFFICES ASSUME NEW i \in DOMAIN openFors'
               PROVE  /\ loops'[openFors'[i]].kern = parsingKernInfo
                      /\ loops'[openFors'[i]].parent = IF i = 1 THEN 0 ELSE openFors'[i - 1]
    BY <1>1 DEF ParentIsEnclosingFor
  <2>1. i \in DOMAIN openFors /\ openFors'[i] = openFors[i]
    BY <1>8
  <2>2. i # 1 => openFors'[i - 1] = openFors[i - 1]
    BY <1>0, <1>8, <2>1
  <2>3. /\ loops[openFors[i]].kern = parsingKernInfo
        /\ loops[openFors[i]].parent = IF i = 1 THEN 0 ELSE openFors[i - 1]
    BY <2>1 DEF SemaInv, ParentIsEnclosingFor
  <2> QED BY <1>0, <1>5, <2>1, <2>2, <2>3
<1>11. CurrentLoopIsScope'
  BY <1>1, <1>7, <1>8 DEF SemaInv, CurrentLoopIsScope
<1>12. NodesKnowTheirLoop'
  BY <1>4, <1>5, <1>7 DEF NodesKnowTheirLoop, KnowsItsLoop
<1> QED
  BY <1>9, <1>10, <1>11, <1>12 DEF SemaInv

-----------------------------------------------------------------------------
(* The invariant of the whole walk, and the theorems that follow from it.  *)

\* An error, the end of the walk, and a helper function change no loop.
LEMMA OtherStepsKeepInv ==
    ASSUME SemaInv, EnterHelper \/ ExitHelper \/ FinishWalk \/ Reject
    PROVE  SemaInv'
<1>1. /\ UNCHANGED <<openFors, semaVars, nodes>>
      /\ function' = function \/ {function, function'} \subseteq {"none", "helper"}
      /\ status' \in {status, "error", "done"}
  BY DEF EnterHelper, ExitHelper, FinishWalk, Reject, EnterNestedKernel, RejectLoop,
         RejectUnreadableLoop, RejectSecondLoopAttribute, RejectLoopOutsideKernel,
         RejectDeepLoop, Fail, walkVars
<1>2. /\ function' \in {"none", "helper", "kernel"}
      /\ function' = "kernel" <=> function = "kernel"
      /\ status' \in {"walking", "error", "done"}
  BY <1>1 DEF SemaInv, TypeOK
<1> QED
  BY <1>1, <1>2, SameSema

\* Every step of the walk keeps the invariant.
LEMMA NextKeepsInv == SemaInv /\ [Next]_vars => SemaInv'
<1> SUFFICES ASSUME SemaInv, [Next]_vars PROVE SemaInv'
  OBVIOUS
<1>1. CASE EnterKernel
  BY <1>1, EnterKernelKeepsInv
<1>2. CASE ExitKernel
  BY <1>2, ExitKernelKeepsInv
<1>3. CASE \E kind \in LoopKinds : EnterLoop(kind)
  BY <1>3, EnterLoopKeepsInv
<1>4. CASE ExitLoop
  BY <1>4, ExitLoopKeepsInv
<1>5. CASE \E attr \in LeafAttrs : RecordLeaf(attr)
  BY <1>5, RecordLeafKeepsInv
<1>6. CASE EnterHelper \/ ExitHelper \/ FinishWalk \/ Reject
  BY <1>6, OtherStepsKeepInv
<1>7. CASE UNCHANGED vars
  <2>1. UNCHANGED <<openFors, semaVars, nodes, function, status>>
    BY <1>7 DEF vars, walkVars
  <2>2. function \in {"none", "helper", "kernel"} /\ status \in {"walking", "error", "done"}
    BY DEF SemaInv, TypeOK
  <2> QED BY <2>1, <2>2, SameSema
<1> QED
  BY <1>1, <1>2, <1>3, <1>4, <1>5, <1>6, <1>7 DEF Next

LEMMA Invariance == Spec => []SemaInv
<1> QED
  BY InitInv, NextKeepsInv, PTL DEF Spec

\* The walk never leaves its types, and the loops of all kernels stay a
\* forest: whatever the source, setLoopInfo finds a loop in the loopMap of the
\* kernel it belongs to.
THEOREM TypeCorrect == Spec => []TypeOK
<1>1. SemaInv => TypeOK
  BY DEF SemaInv
<1> QED
  BY <1>1, Invariance, PTL

\* For every source: the parent pointers, copied from currentLoop when a loop
\* is entered, repeat the nesting of the source.
THEOREM ParentsFollowSource == Spec => []ParentIsEnclosingFor
<1>1. SemaInv => ParentIsEnclosingFor
  BY DEF SemaInv
<1> QED
  BY <1>1, Invariance, PTL

\* For every source: currentLoop is the innermost for-statement around the
\* walk, and no kernel keeps a current loop once it has been walked.
THEOREM CurrentLoopCorrect == Spec => []CurrentLoopIsScope
<1>1. SemaInv => CurrentLoopIsScope
  BY DEF SemaInv
<1> QED
  BY <1>1, Invariance, PTL

\* For every source: a node is transpiled with the kernel and the loop it
\* stands in.
THEOREM RecordedContextCorrect == Spec => []NodesKnowTheirLoop
<1>1. SemaInv => NodesKnowTheirLoop
  BY DEF SemaInv
<1> QED
  BY <1>1, Invariance, PTL

-----------------------------------------------------------------------------
(* What a step may not touch: the loops that the walk has left.            *)

\* A loop around the walk, unless the walk is outside of all loops.
LEMMA ScopeIsOpen ==
    ASSUME SemaInv
    PROVE  /\ Scope # 0 => Scope \in ToSet(openFors)
           /\ openFors # <<>> => Scope \in ToSet(openFors)
<1>1. /\ Len(openFors) \in Nat
      /\ DOMAIN openFors = 1..Len(openFors)
      /\ openFors \in Seq(DOMAIN loops)
      /\ Scope = IF Len(openFors) = 0 THEN 0 ELSE openFors[Len(openFors)]
  BY SemaFacts
<1>2. Len(openFors) # 0 => Len(openFors) \in DOMAIN openFors
  BY <1>1
<1>3. openFors # <<>> => Len(openFors) # 0
  BY <1>1
<1> QED
  BY <1>1, <1>2, <1>3 DEF ToSet

\* A loop that is entered becomes a child of a loop around the walk.
LEMMA EnterLoopKeepsLeftLoops ==
    ASSUME SemaInv, NEW kind \in LoopKinds, EnterLoop(kind),
           NEW l \in DOMAIN loops \ ToSet(openFors)
    PROVE  loops'[l] = loops[l] /\ Children(loops', l) = Children(loops, l)
<1> DEFINE loop == [kern |-> parsingKernInfo, type |-> kind.type, axis |-> kind.axis,
                    attr |-> kind, parent |-> CurrentLoop]
<1>1. /\ loops \in Seq(Loop)
      /\ Len(loops) \in Nat
      /\ DOMAIN loops = 1..Len(loops)
  BY SemaFacts
<1>2. loops' = Append(loops, loop) /\ function = "kernel"
  BY DEF EnterLoop
<1>3. loop.parent = CurrentLoop
  OBVIOUS
<1>4. CurrentLoop = Scope
  BY <1>2 DEF SemaInv, TypeOK, CurrentLoopIsScope, CurrentLoop, Parsing
<1>5. loop.parent # l
  BY <1>1, <1>3, <1>4, ScopeIsOpen
<1> HIDE DEF loop
<1>6. /\ DOMAIN loops' = DOMAIN loops \cup {Len(loops) + 1}
      /\ \A i \in DOMAIN loops : loops'[i] = loops[i]
      /\ loops'[Len(loops) + 1] = loop
  BY <1>1, <1>2
<1> QED
  BY <1>5, <1>6 DEF Children

\* Leaving a loop changes its own axes only, and no parent.
LEMMA ExitLoopKeepsLeftLoops ==
    ASSUME SemaInv, ExitLoop, NEW l \in DOMAIN loops \ ToSet(openFors)
    PROVE  loops'[l] = loops[l] /\ Children(loops', l) = Children(loops, l)
<1>1. /\ loops \in Seq(Loop)
      /\ \A i \in DOMAIN loops : LoopOK(i)
      /\ \A i \in DOMAIN openFors : openFors[i] \in DOMAIN loops
      /\ Len(openFors) \in Nat
      /\ DOMAIN openFors = 1..Len(openFors)
      /\ Scope = IF Len(openFors) = 0 THEN 0 ELSE openFors[Len(openFors)]
  BY SemaFacts
<1>2. /\ openFors # <<>>
      /\ \/ loops' = loops
         \/ loops' = [loops EXCEPT ![ClosingLoop].axis = UpdatedAxes(loops, ClosingLoop)]
  BY DEF ExitLoop
<1>3. /\ Scope \in ToSet(openFors)
      /\ Scope \in DOMAIN loops
      /\ loops[Scope].kern = parsingKernInfo
  <2>1. Len(openFors) \in DOMAIN openFors
    BY <1>1, <1>2
  <2> QED BY <1>1, <1>2, <2>1, ScopeIsOpen DEF SemaInv, ParentIsEnclosingFor
<1>4. ClosingLoop = Scope
  BY <1>1, <1>3 DEF ClosingLoop, Parsing, LoopOK
<1>5. /\ DOMAIN loops' = DOMAIN loops
      /\ \A i \in DOMAIN loops : i # Scope => loops'[i] = loops[i]
      /\ loops'[Scope].parent = loops[Scope].parent
  <2>1. loops[Scope] \in Loop
    BY <1>1, <1>3
  <2>2. [loops[Scope] EXCEPT !.axis = UpdatedAxes(loops, Scope)].parent = loops[Scope].parent
    BY <2>1 DEF Loop
  <2> QED BY <1>1, <1>2, <1>3, <1>4, <2>2
<1> QED
  BY <1>3, <1>5 DEF Children

\* For every source: a loop whose axes were worked out when the walk left it
\* keeps them, and the children they were counted from.
THEOREM LeftLoopsStay == Spec => LeftLoopsAreFinal
<1> DEFINE Final == \A l \in DOMAIN loops \ ToSet(openFors) :
                        /\ loops'[l] = loops[l]
                        /\ Children(loops', l) = Children(loops, l)
<1>1. SemaInv /\ [Next]_vars => [Final]_vars
  <2> SUFFICES ASSUME SemaInv, [Next]_vars PROVE [Final]_vars
    OBVIOUS
  <2>1. CASE \E kind \in LoopKinds : EnterLoop(kind)
    BY <2>1, EnterLoopKeepsLeftLoops
  <2>2. CASE ExitLoop
    BY <2>2, ExitLoopKeepsLeftLoops
  <2>3. CASE UNCHANGED loops
    BY <2>3 DEF Children
  <2>4. EnterKernel \/ ExitKernel \/ (\E attr \in LeafAttrs : RecordLeaf(attr)) => UNCHANGED loops
    BY DEF EnterKernel, ExitKernel, RecordLeaf, semaVars
  <2>5. EnterHelper \/ ExitHelper \/ FinishWalk \/ Reject => UNCHANGED loops
    BY DEF EnterHelper, ExitHelper, FinishWalk, Reject, EnterNestedKernel, RejectLoop,
           RejectUnreadableLoop, RejectSecondLoopAttribute, RejectLoopOutsideKernel,
           RejectDeepLoop, Fail, semaVars
  <2> QED BY <2>1, <2>2, <2>3, <2>4, <2>5 DEF Next
<1>2. LeftLoopsAreFinal <=> [][Final]_vars
  BY DEF LeftLoopsAreFinal
<1> QED
  BY <1>1, <1>2, Invariance, PTL DEF Spec

-----------------------------------------------------------------------------
(* The refinement of LoopNesting.                                          *)

LEMMA LoopsAreATree == SemaInv => IsTree(loops)
BY SemaFacts DEF IsTree

\* The chains of parents of a tree.
Paths(T) == LET path[l \in 0..Len(T)] == IF l = 0 THEN <<>> ELSE Append(path[T[l].parent], l)
            IN  path

LEMMA PathsAreDefined ==
    ASSUME NEW T, IsTree(T)
    PROVE  /\ Paths(T)[0] = <<>>
           /\ \A l \in DOMAIN T : Paths(T)[l] = Append(Paths(T)[T[l].parent], l)
<1> DEFINE n         == Len(T)
           step      == [i \in 1..n |-> [s \in Seq(Nat) |-> Append(s, i)]]
           from      == [i \in 1..n |-> T[i].parent]
           Longer(g) == [i \in 0..n |-> IF i = 0 THEN <<>> ELSE Append(g[T[i].parent], i)]
           path      == CHOOSE g : g = Longer(g)
<1>1. n \in Nat /\ DOMAIN T = 1..n /\ \A i \in 1..n : T[i].parent \in Nat /\ T[i].parent < i
  BY DEF IsTree
<1>2. step \in StepsOn(Seq(Nat), n) /\ from \in EarlierThan(n) /\ <<>> \in Seq(Nat)
  <2>1. \A i \in 1..n, s \in Seq(Nat) : Append(s, i) \in Seq(Nat)
    OBVIOUS
  <2>2. QED
    BY <1>1, <2>1 DEF StepsOn, EarlierThan
<1>3. PICK g \in [0..n -> Seq(Nat)] : Computes(g, <<>>, step, from, n)
  <2> HIDE DEF step, from, n
  <2> QED
    BY <1>1, <1>2, RecursionExists
<1>4. g = Longer(g)
  <2>1. ASSUME NEW i \in 0..n PROVE g[i] = Longer(g)[i]
    <3>1. Longer(g)[i] = IF i = 0 THEN <<>> ELSE Append(g[T[i].parent], i)
      OBVIOUS
    <3> HIDE DEF Longer
    <3>2. CASE i = 0
      BY <1>3, <3>1, <3>2 DEF Computes
    <3>3. CASE i # 0
      <4>1. i \in 1..n /\ T[i].parent \in 0..n /\ g[T[i].parent] \in Seq(Nat)
        BY <1>1, <3>3
      <4>2. g[i] = step[i][g[from[i]]] /\ from[i] = T[i].parent
        BY <1>3, <4>1 DEF Computes
      <4>3. g[i] = Append(g[T[i].parent], i)
        BY <4>1, <4>2
      <4>4. QED
        BY <3>1, <3>3, <4>3
    <3>4. QED
      BY <3>2, <3>3
  <2>2. QED
    BY <2>1
<1>5. path = Longer(path)
  <2> HIDE DEF Longer
  <2> QED
    BY <1>4
<1>6. Paths(T) = path
  BY DEF Paths
<1> HIDE DEF path
<1>7. \A l \in 0..n : path[l] = IF l = 0 THEN <<>> ELSE Append(path[T[l].parent], l)
  BY <1>5
<1>8. ASSUME NEW l \in DOMAIN T PROVE path[l] = Append(path[T[l].parent], l)
  <2>1. l \in 0..n /\ l # 0
    BY <1>1
  <2>2. QED
    BY <1>7, <2>1
<1>9. path[0] = <<>>
  BY <1>1, <1>7
<1>10. QED
  BY <1>6, <1>8, <1>9

\* The chain of the current loop is the for-statements around the walk.
PathIsOpen == CurrentPath = openFors

LEMMA PathIsOpenFors == SemaInv => PathIsOpen
<1> SUFFICES ASSUME SemaInv PROVE CurrentPath = openFors
  BY DEF PathIsOpen
<1> DEFINE P    == Paths(loops)
           m    == Len(openFors)
           S    == {i \in Nat : i <= m => P[IF i = 0 THEN 0 ELSE openFors[i]] = SubSeq(openFors, 1, i)}
<1>1. /\ openFors \in Seq(DOMAIN loops) /\ m \in Nat
      /\ \A i \in 1..m : openFors[i] \in DOMAIN loops /\ openFors[i] # 0
      /\ Scope = IF m = 0 THEN 0 ELSE openFors[m]
  BY SemaFacts
<1>2. /\ P[0] = <<>>
      /\ \A l \in DOMAIN loops : P[l] = Append(P[loops[l].parent], l)
  BY LoopsAreATree, PathsAreDefined
<1>3. \A i \in 1..m : loops[openFors[i]].parent = IF i = 1 THEN 0 ELSE openFors[i - 1]
  BY <1>1 DEF SemaInv, ParentIsEnclosingFor
<1>4. CurrentLoop = Scope
  BY DEF SemaInv, CurrentLoopIsScope, CurrentLoop, Parsing, ParentIsEnclosingFor, TypeOK, Scope
<1> HIDE DEF P
<1>5. 0 \in S
  <2>1. SubSeq(openFors, 1, 0) = <<>>
    BY <1>1
  <2>2. QED
    BY <1>2, <2>1
<1>6. ASSUME NEW i \in Nat, i \in S PROVE i + 1 \in S
  <2> SUFFICES ASSUME i + 1 <= m PROVE P[openFors[i + 1]] = SubSeq(openFors, 1, i + 1)
    OBVIOUS
  <2> DEFINE l == openFors[i + 1]
  <2>1. i + 1 \in 1..m /\ i <= m
    BY <1>1
  <2>2. l \in DOMAIN loops /\ loops[l].parent = IF i = 0 THEN 0 ELSE openFors[i]
    BY <1>1, <1>3, <2>1
  <2>3. P[l] = Append(SubSeq(openFors, 1, i), l)
    BY <1>2, <1>6, <2>1, <2>2
  <2>4. SubSeq(openFors, 1, i + 1) = Append(SubSeq(openFors, 1, i), openFors[i + 1])
    BY <1>1, <2>1
  <2>5. QED
    BY <2>3, <2>4
<1>7. m \in S
  <2> HIDE DEF S
  <2> QED
    BY <1>1, <1>5, <1>6, SetInduction
<1>8. P[Scope] = SubSeq(openFors, 1, m)
  BY <1>1, <1>7
<1>9. SubSeq(openFors, 1, m) = openFors
  BY <1>1
<1>10. CurrentPath = P[CurrentLoop]
  BY DEF CurrentPath, Paths, P
<1>11. QED
  BY <1>4, <1>8, <1>9, <1>10

LEMMA StepNests ==
    SemaInv /\ SemaInv' /\ PathIsOpen' /\ [Next]_vars => [Nesting!Next]_(Nesting!vars)
<1> SUFFICES ASSUME SemaInv, SemaInv', PathIsOpen', [Next]_vars
             PROVE  [Nesting!Next]_(Nesting!vars)
  OBVIOUS
<1>0. /\ loops \in Seq(Loop) /\ Len(loops) \in Nat /\ DOMAIN loops = 1..Len(loops)
  BY SemaFacts
<1>a. CurrentPath = openFors /\ CurrentPath' = openFors'
  BY PathIsOpenFors DEF PathIsOpen
<1>1. ASSUME NEW kind \in LoopKinds, EnterLoop(kind) PROVE Nesting!Enter
  <2>1. Len(loops') = Len(loops) + 1
    BY <1>0, <1>1 DEF EnterLoop
  <2>2. openFors' = Append(openFors, Len(loops'))
    BY <1>1, <2>1 DEF EnterLoop
  <2>3. QED
    BY <1>a, <2>1, <2>2 DEF Nesting!Enter
<1>2. ASSUME ExitLoop PROVE Nesting!Leave
  <2>1. Len(loops') = Len(loops)
    <3>1. loops' = loops \/ loops' = [loops EXCEPT ![ClosingLoop].axis = UpdatedAxes(loops, ClosingLoop)]
      BY <1>2 DEF ExitLoop
    <3>2. DOMAIN loops' = 1..Len(loops)
      BY <1>0, <3>1
    <3>3. loops' \in Seq(Loop)
      BY DEF SemaInv, TypeOK
    <3>4. DOMAIN loops' = 1..Len(loops') /\ Len(loops') \in Nat
      BY SemaFacts, <3>3
    <3>5. QED
      BY <1>0, <3>2, <3>4
  <2>2. openFors # <<>> /\ openFors' = Front(openFors)
    BY <1>2 DEF ExitLoop
  <2>3. Front(openFors) = SubSeq(openFors, 1, Len(openFors) - 1)
    BY DEF Front
  <2>4. QED
    BY <1>a, <2>1, <2>2, <2>3 DEF Nesting!Leave, Nesting!Front
<1>3. ASSUME UNCHANGED <<openFors, loops>> PROVE UNCHANGED Nesting!vars
  BY <1>a, <1>3 DEF Nesting!vars
<1>4. ASSUME \/ UNCHANGED vars \/ EnterKernel \/ ExitKernel \/ EnterHelper \/ ExitHelper
             \/ FinishWalk \/ Reject \/ \E attr \in LeafAttrs : RecordLeaf(attr)
      PROVE  UNCHANGED <<openFors, loops>>
  BY <1>4 DEF vars, walkVars, semaVars, EnterKernel, ExitKernel, EnterHelper, ExitHelper, FinishWalk,
         RecordLeaf, Reject, EnterNestedKernel, RejectLoop, RejectUnreadableLoop,
         RejectSecondLoopAttribute, RejectLoopOutsideKernel, RejectDeepLoop, Fail
<1>5. QED
  BY <1>1, <1>2, <1>3, <1>4 DEF Next, Nesting!Next

\* For every source: the loops around the walk, which the code keeps as parent
\* pointers and a current loop, are a stack of the loops entered so far.
THEOREM ImplementsNesting == Spec => NestingSpec
<1>1. Init => Nesting!Init
  <2> SUFFICES ASSUME Init PROVE Nesting!Init
    OBVIOUS
  <2>1. CurrentPath = openFors /\ openFors = <<>> /\ loops = <<>>
    BY InitInv, PathIsOpenFors DEF Init, PathIsOpen
  <2>2. QED
    BY <2>1 DEF Nesting!Init
<1>2. QED
  BY <1>1, StepNests, PathIsOpenFors, InitInv, NextKeepsInv, PTL DEF Spec, NestingSpec, Nesting!Spec
-----------------------------------------------------------------------------
(* What the walk leaves behind: the order of the loops and of the nodes.   *)

Open == ToSet(openFors)

\* A loop keeps the types it was written with, and nests in its parent.
LoopsAreLegal ==
    \A l \in DOMAIN loops :
        /\ loops[l].type = loops[l].attr.type
        /\ loops[l].parent # 0 => IsLegalLoopLevel(loops[l].type, loops[loops[l].parent].type)

\* Loops are numbered in source order: what is inside a loop comes right after
\* it, so a loop around a later one is also around those in between.
LoopsInSourceOrder ==
    /\ \A c, l, m \in DOMAIN loops :
          c < l /\ l < m /\ c \in Ancestors(loops, m) => c \in Ancestors(loops, l)
    /\ \A c \in Open : \A l \in DOMAIN loops : c < l => c \in Ancestors(loops, l)

TopOuters(k) ==
    {l \in DOMAIN loops : /\ loops[l].kern = k
                          /\ IsTopLevelAttributed(loops, l)
                          /\ loops[l].type[1] = "Outer"}

Ascending(list) == \A i, j \in DOMAIN list : i < j => list[i] < list[j]

ListsAreComplete ==
    \A k \in DOMAIN parsedKernelList :
        LET list == parsedKernelList[k].topLevelOuterLoops
        IN  ToSet(list) = TopOuters(k) /\ Ascending(list)

IsLoopNode(n, l) == nodes[n].attr = "loop" /\ nodes[n].stmt = l

\* The loop l is around node n.
StandsIn(n, l) == nodes[n].scope # 0 /\ l \in {nodes[n].scope} \cup Ancestors(loops, nodes[n].scope)

\* The node of a loop is recorded when the walk leaves it, after all nodes in it.
LoopNodesFollow ==
    /\ \A n \in DOMAIN nodes : nodes[n].attr = "loop" => nodes[n].stmt \in DOMAIN loops \ Open
    /\ \A l \in DOMAIN loops \ Open : ~IsPlain(l) => \E n \in DOMAIN nodes : IsLoopNode(n, l)
    /\ \A m, n \in DOMAIN nodes : \A l \in DOMAIN loops :
          IsLoopNode(m, l) /\ nodes[n].attr # "loop" /\ StandsIn(n, l) => n < m

DoneIsOutside == status = "done" => openFors = <<>>

OrderInv ==
    /\ SemaInv
    /\ LoopsAreLegal
    /\ LoopsInSourceOrder
    /\ ListsAreComplete
    /\ LoopNodesFollow
    /\ DoneIsOutside

\* The loops around a for-statement that the walk is in.
OpenLoopsNest ==
    /\ IsTree(loops)
    /\ \A i \in DOMAIN openFors : Ancestors(loops, openFors[i]) = {openFors[j] : j \in 1..i - 1}

LEMMA OpenAncestors == SemaInv => OpenLoopsNest
<1> SUFFICES ASSUME SemaInv PROVE OpenLoopsNest
  OBVIOUS
<1> DEFINE m        == Len(openFors)
           above(i) == {openFors[j] : j \in 1..i - 1}
           S        == {i \in Nat : i + 1 <= m => Ancestors(loops, openFors[i + 1]) = above(i + 1)}
<1>1. /\ m \in Nat /\ DOMAIN openFors = 1..m
      /\ \A i \in 1..m : openFors[i] \in DOMAIN loops /\ openFors[i] # 0
  BY SemaFacts
<1>2. \A i \in 1..m : loops[openFors[i]].parent = IF i = 1 THEN 0 ELSE openFors[i - 1]
  BY <1>1 DEF SemaInv, ParentIsEnclosingFor
<1>3. \A l \in DOMAIN loops : Ancestors(loops, l) = IF loops[l].parent = 0 THEN {}
                              ELSE {loops[l].parent} \cup Ancestors(loops, loops[l].parent)
  BY LoopsAreATree, AncestorsAreDefined
<1>4. 0 \in S
  <2> SUFFICES ASSUME 1 <= m PROVE Ancestors(loops, openFors[1]) = above(1)
    OBVIOUS
  <2>1. openFors[1] \in DOMAIN loops /\ loops[openFors[1]].parent = 0
    BY <1>1, <1>2
  <2>2. QED
    BY <1>3, <2>1
<1>5. ASSUME NEW i \in Nat, i \in S PROVE i + 1 \in S
  <2> SUFFICES ASSUME i + 2 <= m PROVE Ancestors(loops, openFors[i + 2]) = above(i + 2)
    <3>1. i + 1 \in Nat /\ (i + 1) + 1 = i + 2
      OBVIOUS
    <3> HIDE DEF above
    <3>2. QED
      BY <3>1
  <2>1. i + 2 \in 1..m /\ i + 1 \in 1..m /\ (i + 2) - 1 = i + 1 /\ i + 2 # 1
    BY <1>1
  <2>2. /\ openFors[i + 2] \in DOMAIN loops
        /\ loops[openFors[i + 2]].parent = openFors[i + 1]
        /\ openFors[i + 1] # 0
    BY <1>1, <1>2, <2>1
  <2>3. Ancestors(loops, openFors[i + 2]) = {openFors[i + 1]} \cup above(i + 1)
    BY <1>3, <1>5, <2>1, <2>2
  <2>4. above(i + 2) = {openFors[i + 1]} \cup above(i + 1)
    OBVIOUS
  <2>5. QED
    BY <2>3, <2>4
<1>6. Nat \subseteq S
  <2> HIDE DEF S
  <2> QED
    BY <1>4, <1>5, SetInduction
<1>7. ASSUME NEW i \in 1..m PROVE Ancestors(loops, openFors[i]) = above(i)
  <2>1. i - 1 \in Nat /\ (i - 1) + 1 = i /\ i <= m
    BY <1>1
  <2>2. i - 1 \in S
    <3> HIDE DEF S
    <3>1. QED
      BY <1>6, <2>1
  <2> HIDE DEF above
  <2>3. QED
    BY <2>1, <2>2
<1>8. QED
  BY <1>1, <1>7, LoopsAreATree DEF OpenLoopsNest

\* A loop that is entered is inside all loops that the walk is in.
LEMMA EnteredLoop ==
    ASSUME SemaInv, SemaInv', NEW kind \in LoopKinds, EnterLoop(kind)
    PROVE  LET new == Len(loops) + 1
           IN  /\ new \notin DOMAIN loops
               /\ DOMAIN loops' = DOMAIN loops \cup {new}
               /\ \A l \in DOMAIN loops : loops'[l] = loops[l] /\ l < new
               /\ loops'[new].kern = parsingKernInfo
               /\ loops'[new].type = kind.type
               /\ loops'[new].attr = kind
               /\ loops'[new].parent = CurrentLoop
               /\ \A l \in DOMAIN loops : Ancestors(loops', l) = Ancestors(loops, l)
               /\ Ancestors(loops', new) = Open
               /\ Open' = Open \cup {new}
<1> DEFINE new  == Len(loops) + 1
           loop == [kern |-> parsingKernInfo, type |-> kind.type, axis |-> kind.axis,
                    attr |-> kind, parent |-> CurrentLoop]
           m    == Len(openFors)
<1>1. /\ loops \in Seq(Loop) /\ Len(loops) \in Nat /\ DOMAIN loops = 1..Len(loops)
      /\ openFors \in Seq(DOMAIN loops) /\ m \in Nat /\ DOMAIN openFors = 1..m
  BY SemaFacts
<1>2. loops' = Append(loops, loop) /\ openFors' = Append(openFors, new)
  BY DEF EnterLoop
<1>3. /\ loop.kern = parsingKernInfo /\ loop.type = kind.type /\ loop.attr = kind
      /\ loop.parent = CurrentLoop
  OBVIOUS
<1> HIDE DEF loop
<1>4. /\ DOMAIN loops' = DOMAIN loops \cup {new}
      /\ \A l \in DOMAIN loops : loops'[l] = loops[l] /\ l < new
      /\ loops'[new] = loop
      /\ new \notin DOMAIN loops
  BY <1>1, <1>2
<1>0. OpenLoopsNest /\ OpenLoopsNest'
  BY OpenAncestors, PTL
<1>5. IsTree(loops) /\ IsTree(loops')
  BY <1>0 DEF OpenLoopsNest
<1>6. \A l \in DOMAIN loops : Ancestors(loops', l) = Ancestors(loops, l)
  BY <1>4, <1>5, SameParentsSameAncestors
<1>7. /\ DOMAIN openFors' = 1..m + 1 /\ openFors'[m + 1] = new
      /\ \A i \in 1..m : openFors'[i] = openFors[i]
  BY <1>1, <1>2
<1>8. Open' = Open \cup {new}
  BY <1>1, <1>7 DEF Open, ToSet
<1>9. Ancestors(loops', new) = Open
  <2>1. \A i \in DOMAIN openFors' : Ancestors(loops', openFors'[i]) = {openFors'[j] : j \in 1..i - 1}
    BY <1>0 DEF OpenLoopsNest
  <2>2. Ancestors(loops', new) = {openFors'[j] : j \in 1..m}
    BY <1>1, <1>7, <2>1
  <2>3. QED
    BY <1>1, <1>7, <2>2 DEF Open, ToSet
<1>10. QED
  BY <1>3, <1>4, <1>6, <1>8, <1>9

\* A loop that is left is the innermost one, and only its axes change.
LEMMA LeftLoop ==
    ASSUME SemaInv, SemaInv', ExitLoop
    PROVE  /\ Scope \in Open
           /\ Scope \in DOMAIN loops
           /\ ClosingLoop = Scope
           /\ DOMAIN loops' = DOMAIN loops
           /\ \A l \in DOMAIN loops : /\ loops'[l].kern = loops[l].kern
                                      /\ loops'[l].type = loops[l].type
                                      /\ loops'[l].attr = loops[l].attr
                                      /\ loops'[l].parent = loops[l].parent
                                      /\ Ancestors(loops', l) = Ancestors(loops, l)
           /\ Open' = Open \ {Scope}
           /\ DOMAIN parsedKernelList' = DOMAIN parsedKernelList
           /\ \A k \in DOMAIN parsedKernelList :
                 parsedKernelList'[k].topLevelOuterLoops = parsedKernelList[k].topLevelOuterLoops
<1> DEFINE m == Len(openFors)
<1>0. OpenLoopsNest /\ OpenLoopsNest'
  BY OpenAncestors, PTL
<1>1. /\ loops \in Seq(Loop)
      /\ \A i \in DOMAIN loops : LoopOK(i)
      /\ openFors \in Seq(DOMAIN loops)
      /\ m \in Nat
      /\ DOMAIN openFors = 1..m
      /\ \A i \in DOMAIN openFors : openFors[i] \in DOMAIN loops
      /\ Scope = IF m = 0 THEN 0 ELSE openFors[m]
      /\ parsedKernelList \in Seq(KernelInfo)
  BY SemaFacts
<1>2. /\ openFors # <<>>
      /\ openFors' = Front(openFors)
      /\ \/ loops' = loops
         \/ loops' = [loops EXCEPT ![ClosingLoop].axis = UpdatedAxes(loops, ClosingLoop)]
      /\ parsedKernelList' = [parsedKernelList EXCEPT ![parsingKernInfo].currentLoop = EnclosingLoop(ClosingLoop)]
  BY DEF ExitLoop
<1>3. m \in 1..m /\ Scope = openFors[m] /\ Scope \in Open /\ Scope \in DOMAIN loops
  <2>1. m # 0
    BY <1>1, <1>2
  <2>2. m \in 1..m
    BY <1>1, <2>1
  <2>3. QED
    BY <1>1, <2>1, <2>2 DEF Open, ToSet
<1>4. ClosingLoop = Scope
  BY <1>1, <1>3 DEF ClosingLoop, Parsing, LoopOK, SemaInv, ParentIsEnclosingFor
<1>5. /\ DOMAIN loops' = DOMAIN loops
      /\ \A l \in DOMAIN loops : /\ loops'[l].kern = loops[l].kern
                                 /\ loops'[l].type = loops[l].type
                                 /\ loops'[l].attr = loops[l].attr
                                 /\ loops'[l].parent = loops[l].parent
  <2> DEFINE axes == UpdatedAxes(loops, Scope)
             left == [loops[Scope] EXCEPT !.axis = axes]
  <2>1. loops[Scope] \in Loop
    BY <1>1, <1>3
  <2> HIDE DEF axes
  <2>2. /\ left.kern = loops[Scope].kern /\ left.type = loops[Scope].type
        /\ left.attr = loops[Scope].attr /\ left.parent = loops[Scope].parent
    BY <2>1 DEF Loop
  <2>3. loops' = loops \/ loops' = [loops EXCEPT ![Scope] = left]
    BY <1>2, <1>4 DEF axes
  <2> HIDE DEF left
  <2>4. QED
    BY <1>1, <1>3, <2>2, <2>3
<1>6. \A l \in DOMAIN loops : Ancestors(loops', l) = Ancestors(loops, l)
  BY <1>0, <1>5, SameParentsSameAncestors DEF OpenLoopsNest
<1>7. /\ DOMAIN openFors' = 1..m - 1
      /\ \A i \in 1..m - 1 : openFors'[i] = openFors[i]
  BY <1>1, <1>2, <1>3 DEF Front
<1>8. Open = Open' \cup {Scope}
  <2>1. 1..m = (1..m - 1) \cup {m}
    BY <1>1, <1>3
  <2>2. QED
    BY <1>1, <1>3, <1>7, <2>1 DEF Open, ToSet
<1>9. Scope \notin Open'
  <2>1. Ancestors(loops, Scope) = {openFors[j] : j \in 1..m - 1}
    BY <1>0, <1>1, <1>3 DEF OpenLoopsNest
  <2>2. Open' = Ancestors(loops, Scope)
    BY <1>7, <2>1 DEF Open, ToSet
  <2>3. Ancestors(loops, Scope) \subseteq 1..Scope - 1 /\ Scope \in Nat
    BY <1>0, <1>1, <1>3, AncestorsAreEarlier DEF OpenLoopsNest
  <2>4. QED
    BY <2>2, <2>3
<1>10. /\ DOMAIN parsedKernelList' = DOMAIN parsedKernelList
       /\ \A k \in DOMAIN parsedKernelList :
             parsedKernelList'[k].topLevelOuterLoops = parsedKernelList[k].topLevelOuterLoops
  <2> DEFINE k == parsingKernInfo
             closed == [parsedKernelList[k] EXCEPT !.currentLoop = EnclosingLoop(ClosingLoop)]
  <2>1. parsedKernelList' = [parsedKernelList EXCEPT ![k] = closed]
    BY <1>2
  <2>2. k \in DOMAIN parsedKernelList => closed.topLevelOuterLoops = parsedKernelList[k].topLevelOuterLoops
    <3>1. k \in DOMAIN parsedKernelList => parsedKernelList[k] \in KernelInfo
      BY <1>1
    <3>2. QED
      BY <3>1 DEF KernelInfo
  <2> HIDE DEF closed, k
  <2>3. QED
    BY <1>1, <2>1, <2>2
<1>11. QED
  BY <1>3, <1>4, <1>5, <1>6, <1>8, <1>9, <1>10

\* The loops that the walk is in are the innermost one and those around it.
LEMMA OpenIsAroundScope ==
    ASSUME SemaInv
    PROVE  /\ Scope = 0 => Open = {}
           /\ Scope # 0 => Open = {Scope} \cup Ancestors(loops, Scope)
           /\ Open \subseteq DOMAIN loops
<1> DEFINE m == Len(openFors)
<1>1. /\ m \in Nat /\ DOMAIN openFors = 1..m /\ OpenLoopsNest
      /\ \A i \in 1..m : openFors[i] \in DOMAIN loops /\ openFors[i] # 0
      /\ Scope = IF m = 0 THEN 0 ELSE openFors[m]
  BY SemaFacts, OpenAncestors
<1>2. Open = {openFors[j] : j \in 1..m}
  BY <1>1 DEF Open, ToSet
<1>3. ASSUME m # 0 PROVE Scope # 0 /\ Open = {Scope} \cup Ancestors(loops, Scope)
  <2>1. m \in 1..m /\ 1..m = (1..m - 1) \cup {m}
    BY <1>1, <1>3
  <2>2. Scope = openFors[m] /\ Scope # 0 /\ Ancestors(loops, Scope) = {openFors[j] : j \in 1..m - 1}
    BY <1>1, <1>3, <2>1 DEF OpenLoopsNest
  <2>3. QED
    BY <1>2, <2>1, <2>2
<1>4. QED
  BY <1>1, <1>2, <1>3

LEMMA CurrentIsScope ==
    ASSUME SemaInv, function = "kernel"
    PROVE  CurrentLoop = Scope /\ parsingKernInfo \in DOMAIN parsedKernelList
BY DEF SemaInv, TypeOK, CurrentLoopIsScope, CurrentLoop, Parsing

\* Entering a loop keeps the order of the loops, and their list.
LEMMA EnterLoopKeepsOrder ==
    ASSUME OrderInv, SemaInv', NEW kind \in LoopKinds, EnterLoop(kind)
    PROVE  LoopsAreLegal' /\ LoopsInSourceOrder' /\ LoopNodesFollow'
<1>0. SemaInv /\ LoopsAreLegal /\ LoopsInSourceOrder /\ LoopNodesFollow
  BY DEF OrderInv
<1>a. PICK new : new = Len(loops) + 1
  OBVIOUS
<1>1. /\ new \notin DOMAIN loops
      /\ DOMAIN loops' = DOMAIN loops \cup {new}
      /\ \A l \in DOMAIN loops : loops'[l] = loops[l] /\ l < new
      /\ loops'[new].type = kind.type
      /\ loops'[new].attr = kind
      /\ loops'[new].parent = CurrentLoop
      /\ \A l \in DOMAIN loops : Ancestors(loops', l) = Ancestors(loops, l)
      /\ Ancestors(loops', new) = Open
      /\ Open' = Open \cup {new}
  BY <1>0, <1>a, EnteredLoop
<1>2. DOMAIN loops = 1..Len(loops) /\ Len(loops) \in Nat /\ new \in Nat
  BY <1>0, <1>a, SemaFacts
<1>3. Open \subseteq DOMAIN loops
  BY <1>0, OpenIsAroundScope
<1>4. LoopsAreLegal'
  <2>1. IsLegalLoopLevel(kind.type, ParentTypes)
    BY DEF EnterLoop
  <2>2. CurrentLoop # 0 => CurrentLoop \in DOMAIN loops
    BY <1>0, <1>3, CurrentIsScope, OpenIsAroundScope DEF EnterLoop
  <2>3. \A l \in DOMAIN loops : loops[l].parent # 0 => loops[l].parent \in DOMAIN loops
    BY <1>0, SemaFacts
  <2>4. QED
    BY <1>0, <1>1, <2>1, <2>2, <2>3 DEF LoopsAreLegal, ParentTypes
<1>5. LoopsInSourceOrder'
  <2>1. ASSUME NEW c \in DOMAIN loops', NEW l \in DOMAIN loops', NEW m \in DOMAIN loops',
               c < l, l < m, c \in Ancestors(loops', m)
        PROVE  c \in Ancestors(loops', l)
    <3>1. c \in DOMAIN loops /\ l \in DOMAIN loops
      BY <1>1, <1>2, <1>a, <2>1
    <3>2. CASE m = new
      BY <1>0, <1>1, <2>1, <3>1, <3>2 DEF LoopsInSourceOrder
    <3>3. CASE m \in DOMAIN loops
      BY <1>0, <1>1, <2>1, <3>1, <3>3 DEF LoopsInSourceOrder
    <3>4. QED
      BY <1>1, <3>2, <3>3
  <2>2. ASSUME NEW c \in Open', NEW l \in DOMAIN loops', c < l PROVE c \in Ancestors(loops', l)
    <3>1. c # new
      BY <1>1, <1>2, <1>a, <2>2
    <3>2. c \in Open
      BY <1>1, <3>1
    <3>3. CASE l = new
      BY <1>1, <3>2, <3>3
    <3>4. CASE l \in DOMAIN loops
      BY <1>0, <1>1, <2>2, <3>2, <3>4 DEF LoopsInSourceOrder
    <3>5. QED
      BY <1>1, <3>3, <3>4
  <2>3. QED
    BY <2>1, <2>2 DEF LoopsInSourceOrder
<1>6. LoopNodesFollow'
  <2>0. UNCHANGED nodes
    BY DEF EnterLoop
  <2>1. \A n \in DOMAIN nodes : nodes[n].scope # 0 => nodes[n].scope \in DOMAIN loops
    BY <1>0 DEF SemaInv, NodesKnowTheirLoop, KnowsItsLoop
  <2>2. \A n \in DOMAIN nodes : nodes[n].attr = "loop" => nodes'[n].stmt \in DOMAIN loops' \ Open'
    BY <1>0, <1>1, <2>0 DEF LoopNodesFollow
  <2>3. ASSUME NEW l \in DOMAIN loops' \ Open', ~IsPlain(l)'
        PROVE  \E n \in DOMAIN nodes : IsLoopNode(n, l)
    <3>1. l \in DOMAIN loops \ Open /\ ~IsPlain(l)
      BY <1>1, <2>3 DEF IsPlain
    <3>2. QED
      BY <1>0, <3>1 DEF LoopNodesFollow
  <2>4. ASSUME NEW m \in DOMAIN nodes, NEW n \in DOMAIN nodes, NEW l \in DOMAIN loops',
               IsLoopNode(m, l), nodes[n].attr # "loop", StandsIn(n, l)'
        PROVE  n < m
    <3>1. l \in DOMAIN loops
      BY <1>0, <2>4 DEF LoopNodesFollow, IsLoopNode
    <3>2. StandsIn(n, l)
      BY <1>1, <2>0, <2>1, <2>4 DEF StandsIn
    <3>3. QED
      BY <1>0, <2>4, <3>1, <3>2 DEF LoopNodesFollow
  <2>5. QED
    BY <2>0, <2>2, <2>3, <2>4 DEF LoopNodesFollow, IsLoopNode
<1>7. QED
  BY <1>4, <1>5, <1>6

\* ... and the list of the kernel gets the loop exactly when it is one for it.
LEMMA EnterLoopKeepsLists ==
    ASSUME OrderInv, SemaInv', NEW kind \in LoopKinds, EnterLoop(kind)
    PROVE  ListsAreComplete'
<1>0. SemaInv /\ ListsAreComplete
  BY DEF OrderInv
<1>a. PICK new : new = Len(loops) + 1
  OBVIOUS
<1> DEFINE kern == parsingKernInfo
           old  == parsedKernelList[kern].topLevelOuterLoops
<1>1. /\ new \notin DOMAIN loops
      /\ DOMAIN loops' = DOMAIN loops \cup {new}
      /\ \A l \in DOMAIN loops : loops'[l] = loops[l] /\ l < new
      /\ loops'[new].kern = kern
      /\ loops'[new].type = kind.type
      /\ \A l \in DOMAIN loops : Ancestors(loops', l) = Ancestors(loops, l)
      /\ Ancestors(loops', new) = Open
  BY <1>0, <1>a, EnteredLoop
<1>2. kern \in DOMAIN parsedKernelList /\ CurrentLoop = Scope
  BY <1>0, CurrentIsScope DEF EnterLoop
<1>3. /\ parsedKernelList \in Seq(KernelInfo)
      /\ \A k \in DOMAIN parsedKernelList : parsedKernelList[k].topLevelOuterLoops \in Seq(Nat \ {0})
  BY <1>0, SemaFacts, KernelFields
<1>4. /\ DOMAIN parsedKernelList' = DOMAIN parsedKernelList
      /\ \A k \in DOMAIN parsedKernelList :
            parsedKernelList'[k].topLevelOuterLoops =
                IF k = kern /\ IsTopLevelOuter(kind) THEN Append(old, new)
                ELSE parsedKernelList[k].topLevelOuterLoops
  <2> DEFINE info == [currentLoop |-> new,
                      loopMap     |-> [parsedKernelList[kern].loopMap EXCEPT ![new] = new],
                      topLevelOuterLoops |-> IF IsTopLevelOuter(kind) THEN Append(old, new) ELSE old]
  <2>1. parsedKernelList' = [parsedKernelList EXCEPT ![kern] = info]
    BY <1>a DEF EnterLoop
  <2>2. info.topLevelOuterLoops = IF IsTopLevelOuter(kind) THEN Append(old, new) ELSE old
    OBVIOUS
  <2> HIDE DEF info
  <2>3. QED
    BY <1>2, <1>3, <2>1, <2>2
<1>5. IsTopLevelOuter(kind) <=> IsTopLevelAttributed(loops', new) /\ loops'[new].type[1] = "Outer"
  <2>1. kind.type[1] = "Outer" => Attributed(loops', new)
    <3>1. 1 \in DOMAIN kind.type
      BY LoopKindsAssumption DEF LoopKind
    <3>2. QED
      BY <1>1, <3>1 DEF Attributed, IsRegular
  <2>2. (CurrentLoop # 0 => \A a \in Ancestors(loops, CurrentLoop) \cup {CurrentLoop} : ~Attributed(loops, a))
        <=> \A a \in Open : ~Attributed(loops, a)
    BY <1>0, <1>2, OpenIsAroundScope
  <2>3. \A a \in Open : Attributed(loops', a) = Attributed(loops, a)
    BY <1>0, <1>1, OpenIsAroundScope DEF Attributed
  <2>4. QED
    BY <1>1, <2>1, <2>2, <2>3 DEF IsTopLevelOuter, IsTopLevelAttributed
<1>6. \A l \in DOMAIN loops : IsTopLevelAttributed(loops', l) <=> IsTopLevelAttributed(loops, l)
  <2>1. \A l \in DOMAIN loops : Ancestors(loops, l) \subseteq DOMAIN loops
    BY <1>0, LoopsAreATree, AncestorsAreTransitive
  <2>2. QED
    BY <1>1, <2>1 DEF IsTopLevelAttributed, Attributed
<1>7. \A k \in DOMAIN parsedKernelList :
          TopOuters(k)' = TopOuters(k) \cup (IF k = kern /\ IsTopLevelOuter(kind) THEN {new} ELSE {})
  BY <1>1, <1>5, <1>6 DEF TopOuters
<1>8. ASSUME NEW k \in DOMAIN parsedKernelList
      PROVE  /\ ToSet(parsedKernelList'[k].topLevelOuterLoops) = TopOuters(k)'
             /\ Ascending(parsedKernelList'[k].topLevelOuterLoops)
  <2> DEFINE list == parsedKernelList[k].topLevelOuterLoops
  <2>1. ToSet(list) = TopOuters(k) /\ Ascending(list) /\ list \in Seq(Nat \ {0})
    BY <1>0, <1>3 DEF ListsAreComplete
  <2>2. CASE ~(k = kern /\ IsTopLevelOuter(kind))
    BY <1>4, <1>7, <2>1, <2>2
  <2>3. CASE k = kern /\ IsTopLevelOuter(kind)
    <3>1. parsedKernelList'[k].topLevelOuterLoops = Append(list, new) /\ TopOuters(k)' = TopOuters(k) \cup {new}
      BY <1>4, <1>7, <2>3
    <3> HIDE DEF list
    <3>2. /\ DOMAIN list = 1..Len(list) /\ Len(list) \in Nat
          /\ DOMAIN Append(list, new) = 1..Len(list) + 1
          /\ Append(list, new)[Len(list) + 1] = new
          /\ \A i \in 1..Len(list) : Append(list, new)[i] = list[i]
      BY <2>1
    <3>3. ToSet(Append(list, new)) = ToSet(list) \cup {new}
      BY <3>2 DEF ToSet
    <3>4. \A i \in 1..Len(list) : list[i] < new
      <4>1. \A i \in 1..Len(list) : list[i] \in ToSet(list)
        BY <3>2 DEF ToSet
      <4>2. QED
        BY <1>1, <2>1, <4>1 DEF TopOuters
    <3>5. Ascending(Append(list, new))
      BY <2>1, <3>2, <3>4 DEF Ascending
    <3>6. QED
      BY <2>1, <3>1, <3>3, <3>5
  <2>4. QED
    BY <2>2, <2>3
<1>9. QED
  BY <1>4, <1>8 DEF ListsAreComplete

\* A node that is recorded becomes the last one.
LEMMA RecordedLast ==
    ASSUME SemaInv, NEW attr, NEW stmt, Record(attr, stmt)
    PROVE  LET last == Len(nodes) + 1
           IN  /\ DOMAIN nodes' = DOMAIN nodes \cup {last}
               /\ last \notin DOMAIN nodes
               /\ \A n \in DOMAIN nodes : nodes'[n] = nodes[n] /\ n < last
               /\ nodes'[last].attr = attr
               /\ nodes'[last].stmt = stmt
               /\ nodes'[last].scope = Scope
<1> DEFINE node == [ki |-> parsingKernInfo, li |-> CurrentLoop, attr |-> attr,
                    stmt |-> stmt, scope |-> Scope]
<1>1. nodes \in Seq(Node) /\ nodes' = Append(nodes, node)
  BY DEF SemaInv, TypeOK, Record
<1>2. node.attr = attr /\ node.stmt = stmt /\ node.scope = Scope
  OBVIOUS
<1> HIDE DEF node
<1>3. Len(nodes) \in Nat /\ DOMAIN nodes = 1..Len(nodes)
  BY <1>1
<1>4. QED
  BY <1>1, <1>2, <1>3

\* Leaving a loop records its node after those of everything inside it.
LEMMA ExitLoopKeepsOrder ==
    ASSUME OrderInv, SemaInv', ExitLoop
    PROVE  LoopsAreLegal' /\ LoopsInSourceOrder' /\ ListsAreComplete' /\ LoopNodesFollow'
<1>0. SemaInv /\ LoopsAreLegal /\ LoopsInSourceOrder /\ ListsAreComplete /\ LoopNodesFollow
  BY DEF OrderInv
<1>1. /\ Scope \in Open
      /\ Scope \in DOMAIN loops
      /\ ClosingLoop = Scope
      /\ DOMAIN loops' = DOMAIN loops
      /\ \A l \in DOMAIN loops : /\ loops'[l].kern = loops[l].kern
                                 /\ loops'[l].type = loops[l].type
                                 /\ loops'[l].attr = loops[l].attr
                                 /\ loops'[l].parent = loops[l].parent
                                 /\ Ancestors(loops', l) = Ancestors(loops, l)
      /\ Open' = Open \ {Scope}
      /\ DOMAIN parsedKernelList' = DOMAIN parsedKernelList
      /\ \A k \in DOMAIN parsedKernelList :
            parsedKernelList'[k].topLevelOuterLoops = parsedKernelList[k].topLevelOuterLoops
  BY <1>0, LeftLoop
<1>2. LoopsAreLegal'
  <2>1. \A l \in DOMAIN loops : loops[l].parent # 0 => loops[l].parent \in DOMAIN loops
    BY <1>0, SemaFacts
  <2>2. QED
    BY <1>0, <1>1, <2>1 DEF LoopsAreLegal
<1>3. LoopsInSourceOrder'
  BY <1>0, <1>1 DEF LoopsInSourceOrder
<1>4. ListsAreComplete'
  <2>1. \A l \in DOMAIN loops : Ancestors(loops, l) \subseteq DOMAIN loops
    BY <1>0, LoopsAreATree, AncestorsAreTransitive
  <2>2. \A l \in DOMAIN loops : IsTopLevelAttributed(loops', l) <=> IsTopLevelAttributed(loops, l)
    BY <1>1, <2>1 DEF IsTopLevelAttributed, Attributed
  <2>3. \A k : TopOuters(k)' = TopOuters(k)
    BY <1>1, <2>2 DEF TopOuters
  <2>4. QED
    BY <1>0, <1>1, <2>3 DEF ListsAreComplete
<1>5. LoopNodesFollow'
  <2>1. \A n \in DOMAIN nodes : nodes[n].scope # 0 => nodes[n].scope \in DOMAIN loops
    BY <1>0 DEF SemaInv, NodesKnowTheirLoop, KnowsItsLoop
  <2>2. \A l \in DOMAIN loops : IsPlain(l)' <=> IsPlain(l)
    BY <1>1 DEF IsPlain
  <2>3. CASE IsPlain(Scope) /\ UNCHANGED nodes
    <3>1. \A n \in DOMAIN nodes, l \in DOMAIN loops : StandsIn(n, l)' <=> StandsIn(n, l)
      BY <1>1, <2>1, <2>3 DEF StandsIn
    <3>2. QED
      BY <1>0, <1>1, <2>2, <2>3, <3>1 DEF LoopNodesFollow, IsLoopNode
  <2>4. CASE Record("loop", Scope)
    <3>1. PICK last : last = Len(nodes) + 1
      OBVIOUS
    <3>2. /\ DOMAIN nodes' = DOMAIN nodes \cup {last}
          /\ last \notin DOMAIN nodes
          /\ \A n \in DOMAIN nodes : nodes'[n] = nodes[n] /\ n < last
          /\ nodes'[last].attr = "loop"
          /\ nodes'[last].stmt = Scope
      BY <1>0, <2>4, <3>1, RecordedLast
    <3>3. \A n \in DOMAIN nodes, l \in DOMAIN loops : /\ StandsIn(n, l)' <=> StandsIn(n, l)
                                                      /\ IsLoopNode(n, l)' <=> IsLoopNode(n, l)
      BY <1>1, <2>1, <3>2 DEF StandsIn, IsLoopNode
    <3>4. \A n \in DOMAIN nodes' : nodes'[n].attr = "loop" => nodes'[n].stmt \in DOMAIN loops' \ Open'
      BY <1>0, <1>1, <3>2 DEF LoopNodesFollow
    <3>5. ASSUME NEW l \in DOMAIN loops' \ Open', ~IsPlain(l)'
          PROVE  \E n \in DOMAIN nodes' : IsLoopNode(n, l)'
      <4>1. CASE l = Scope
        BY <3>2, <4>1 DEF IsLoopNode
      <4>2. CASE l \in DOMAIN loops \ Open
        BY <1>0, <2>2, <3>2, <3>3, <3>5, <4>2 DEF LoopNodesFollow
      <4>3. QED
        BY <1>1, <4>1, <4>2
    <3>6. ASSUME NEW m \in DOMAIN nodes', NEW n \in DOMAIN nodes', NEW l \in DOMAIN loops',
                 IsLoopNode(m, l)', nodes'[n].attr # "loop", StandsIn(n, l)'
          PROVE  n < m
      <4>1. n \in DOMAIN nodes
        BY <3>2, <3>6
      <4>2. CASE m = last
        BY <3>2, <4>1, <4>2
      <4>3. CASE m \in DOMAIN nodes
        BY <1>0, <1>1, <3>2, <3>3, <3>6, <4>1, <4>3 DEF LoopNodesFollow
      <4>4. QED
        BY <3>2, <4>2, <4>3
    <3>7. QED
      BY <3>4, <3>5, <3>6 DEF LoopNodesFollow
  <2>5. QED
    BY <1>1, <2>3, <2>4 DEF ExitLoop
<1>6. QED
  BY <1>2, <1>3, <1>4, <1>5

\* Any other node is recorded before the loops around it are left.
LEMMA RecordKeepsOrder ==
    ASSUME OrderInv, NEW attr, NEW stmt, attr # "loop", Record(attr, stmt), UNCHANGED <<loops, openFors>>
    PROVE  LoopNodesFollow'
<1>0. SemaInv /\ LoopNodesFollow
  BY DEF OrderInv
<1>1. PICK last : last = Len(nodes) + 1
  OBVIOUS
<1>2. /\ DOMAIN nodes' = DOMAIN nodes \cup {last}
      /\ \A n \in DOMAIN nodes : nodes'[n] = nodes[n] /\ n < last
      /\ nodes'[last].attr = attr
      /\ nodes'[last].scope = Scope
  BY <1>0, <1>1, RecordedLast
<1>3. UNCHANGED Open /\ \A l : IsPlain(l)' <=> IsPlain(l)
  BY DEF Open, IsPlain
<1>4. \A n \in DOMAIN nodes, l \in DOMAIN loops : /\ StandsIn(n, l)' <=> StandsIn(n, l)
                                                  /\ IsLoopNode(n, l)' <=> IsLoopNode(n, l)
  BY <1>2 DEF StandsIn, IsLoopNode
<1>5. \A l : StandsIn(last, l)' => l \in Open
  BY <1>0, <1>2, OpenIsAroundScope DEF StandsIn
<1>6. ASSUME NEW m \in DOMAIN nodes', NEW n \in DOMAIN nodes', NEW l \in DOMAIN loops,
             IsLoopNode(m, l)', nodes'[n].attr # "loop", StandsIn(n, l)'
      PROVE  n < m
  <2>1. m \in DOMAIN nodes
    BY <1>2, <1>6 DEF IsLoopNode
  <2>2. l \notin Open
    BY <1>0, <1>4, <1>6, <2>1 DEF LoopNodesFollow, IsLoopNode
  <2>3. n \in DOMAIN nodes
    BY <1>2, <1>5, <1>6, <2>2
  <2>4. QED
    BY <1>0, <1>2, <1>4, <1>6, <2>1, <2>3 DEF LoopNodesFollow
<1>7. \A n \in DOMAIN nodes' : nodes'[n].attr = "loop" => nodes'[n].stmt \in DOMAIN loops \ Open
  BY <1>0, <1>2 DEF LoopNodesFollow
<1>8. \A l \in DOMAIN loops \ Open : ~IsPlain(l) => \E n \in DOMAIN nodes' : IsLoopNode(n, l)'
  BY <1>0, <1>2, <1>4 DEF LoopNodesFollow
<1>9. QED
  BY <1>3, <1>6, <1>7, <1>8 DEF LoopNodesFollow

LEMMA OrderStart == Init => OrderInv
<1> SUFFICES ASSUME Init PROVE OrderInv
  OBVIOUS
<1>1. SemaInv
  BY InitInv
<1>2. Open = {}
  BY DEF Init, Open, ToSet
<1>3. QED
  BY <1>1, <1>2 DEF Init, OrderInv, LoopsAreLegal, LoopsInSourceOrder, ListsAreComplete,
                    LoopNodesFollow, DoneIsOutside

LEMMA OrderStep == OrderInv /\ SemaInv' /\ [Next]_vars => OrderInv'
<1> SUFFICES ASSUME OrderInv, SemaInv', [Next]_vars PROVE OrderInv'
  OBVIOUS
<1>1. SemaInv
  BY DEF OrderInv
<1>2. LoopsAreLegal /\ LoopsInSourceOrder /\ ListsAreComplete /\ LoopNodesFollow
  BY DEF OrderInv
<1>3. ASSUME NEW attr, NEW stmt, attr # "loop", Record(attr, stmt),
             UNCHANGED <<loops, openFors, parsedKernelList>>
      PROVE  LoopsAreLegal' /\ LoopsInSourceOrder' /\ ListsAreComplete' /\ LoopNodesFollow'
  <2>1. LoopNodesFollow'
    BY <1>3, RecordKeepsOrder
  <2>2. QED
    BY <1>2, <1>3, <2>1 DEF LoopsAreLegal, LoopsInSourceOrder, ListsAreComplete, TopOuters, Open
<1>4. ASSUME EnterKernel
      PROVE  LoopsAreLegal' /\ LoopsInSourceOrder' /\ ListsAreComplete' /\ LoopNodesFollow'
  <2>1. /\ UNCHANGED <<loops, openFors, nodes>>
        /\ parsedKernelList' = Append(parsedKernelList, NoKernelInfo)
    BY <1>4 DEF EnterKernel
  <2>2. parsedKernelList \in Seq(KernelInfo) /\ \A l \in DOMAIN loops : loops[l].kern \in DOMAIN parsedKernelList
    BY <1>1, SemaFacts DEF LoopOK
  <2>3. NoKernelInfo.topLevelOuterLoops = <<>>
    BY DEF NoKernelInfo
  <2> DEFINE new == Len(parsedKernelList) + 1
  <2>4. /\ DOMAIN parsedKernelList' = DOMAIN parsedKernelList \cup {new}
        /\ new \notin DOMAIN parsedKernelList
        /\ \A k \in DOMAIN parsedKernelList : parsedKernelList'[k] = parsedKernelList[k]
        /\ parsedKernelList'[new] = NoKernelInfo
    BY <2>1, <2>2
  <2> HIDE DEF new
  <2>5. \A k : TopOuters(k)' = TopOuters(k)
    BY <2>1 DEF TopOuters
  <2>6. TopOuters(new) = {}
    BY <2>2, <2>4 DEF TopOuters
  <2>7. ListsAreComplete'
    <3>1. ToSet(<<>>) = {} /\ Ascending(<<>>)
      BY DEF ToSet, Ascending
    <3>2. QED
      BY <1>2, <2>3, <2>4, <2>5, <2>6, <3>1 DEF ListsAreComplete
  <2>8. QED
    BY <1>2, <2>1, <2>7 DEF LoopsAreLegal, LoopsInSourceOrder, LoopNodesFollow, IsLoopNode, StandsIn,
                            Open, IsPlain
<1>5. EnterHelper \/ ExitHelper \/ FinishWalk \/ Reject \/ UNCHANGED vars
          => UNCHANGED <<loops, openFors, nodes, parsedKernelList>>
  BY DEF EnterHelper, ExitHelper, FinishWalk, Reject, EnterNestedKernel, RejectLoop,
         RejectUnreadableLoop, RejectSecondLoopAttribute, RejectLoopOutsideKernel,
         RejectDeepLoop, Fail, semaVars, walkVars, vars
<1>6. LoopsAreLegal' /\ LoopsInSourceOrder' /\ ListsAreComplete' /\ LoopNodesFollow'
  <2>1. CASE UNCHANGED <<loops, openFors, nodes, parsedKernelList>>
    BY <1>2, <2>1 DEF LoopsAreLegal, LoopsInSourceOrder, ListsAreComplete, TopOuters,
                      LoopNodesFollow, IsLoopNode, StandsIn, Open, IsPlain
  <2>2. CASE \E kind \in LoopKinds : EnterLoop(kind)
    BY <2>2, EnterLoopKeepsOrder, EnterLoopKeepsLists
  <2>3. CASE ExitLoop
    BY <2>3, ExitLoopKeepsOrder
  <2>4. CASE \E attr \in LeafAttrs : RecordLeaf(attr)
    BY <1>3, <2>4, LeafAttrsAssumption DEF RecordLeaf, walkVars, semaVars
  <2>5. CASE ExitKernel
    BY <1>3, <2>5 DEF ExitKernel
  <2>6. QED
    BY <1>4, <1>5, <2>1, <2>2, <2>3, <2>4, <2>5 DEF Next
<1>7. DoneIsOutside'
  <2>1. DoneIsOutside
    BY DEF OrderInv
  <2>2. FinishWalk => openFors = <<>>
    BY <1>1 DEF FinishWalk, SemaInv, ParentIsEnclosingFor
  <2>3. CASE UNCHANGED <<status, openFors>>
    BY <2>1, <2>3 DEF DoneIsOutside
  <2>4. CASE FinishWalk
    BY <2>2, <2>4 DEF FinishWalk, DoneIsOutside, walkVars
  <2>5. CASE status' # "done"
    BY <2>5 DEF DoneIsOutside
  <2>6. Reject => status' = "error"
    BY DEF Reject, EnterNestedKernel, RejectLoop, RejectUnreadableLoop, RejectSecondLoopAttribute,
           RejectLoopOutsideKernel, RejectDeepLoop, Fail
  <2>7. EnterHelper \/ ExitHelper \/ EnterKernel \/ ExitKernel \/ ExitLoop
          \/ (\E kind \in LoopKinds : EnterLoop(kind)) \/ (\E attr \in LeafAttrs : RecordLeaf(attr))
          => status' # "done"
    BY DEF EnterHelper, ExitHelper, EnterKernel, ExitKernel, ExitLoop, EnterLoop, RecordLeaf, Walking
  <2>8. QED
    BY <2>3, <2>4, <2>5, <2>6, <2>7 DEF Next, vars, walkVars
<1>8. QED
  BY <1>6, <1>7 DEF OrderInv

LEMMA OrderInvariance == Spec => []OrderInv
BY OrderStart, OrderStep, Invariance, PTL DEF Spec

\* For every source: the list of a kernel's top level @outer loops, which
\* numbers its device kernels, has them all, each once and in source order.
THEOREM TopLevelListsComplete == Spec => []TopLevelOutersInOrder
<1>1. OrderInv => TopLevelOutersInOrder
  BY DEF OrderInv, ListsAreComplete, TopOuters, Ascending, TopLevelOutersInOrder, Analysed
<1>2. QED
  BY <1>1, OrderInvariance, PTL

-----------------------------------------------------------------------------
(* The levels of verifyLoops.                                              *)

LoopsAreTyped == IsTree(loops) /\ TypesOK(loops)

\* A plain loop may be written inside a tile, but its type comes last.
LEMMA LoopsHaveTypes == OrderInv => LoopsAreTyped
<1> SUFFICES ASSUME OrderInv PROVE IsTree(loops) /\ TypesOK(loops)
  BY DEF LoopsAreTyped
<1>1. SemaInv /\ LoopsAreLegal
  BY DEF OrderInv
<1>2. ASSUME NEW l \in DOMAIN loops
      PROVE  /\ loops[l].type \in Seq(LoopType) /\ Len(loops[l].type) \in 1..2
             /\ loops[l].type[1] = "Regular" => IsRegular(loops[l].type)
  <2>1. loops[l].attr \in LoopKinds /\ loops[l].type = loops[l].attr.type /\ loops[l].type \in Seq(LoopType)
    BY <1>1, SemaFacts, LoopFields DEF LoopsAreLegal
  <2>2. QED
    BY <2>1, LoopKindsAssumption
<1>3. QED
  BY <1>1, <1>2, LoopsAreATree DEF TypesOK

LEMMA TopLevelOutersAre ==
    ASSUME OrderInv, NEW k \in Analysed
    PROVE  /\ TopOK(loops, TopLevelOuters(k))
           /\ KernelPaths(k) = WalksDown(loops, TopLevelOuters(k))
<1>1. IsTree(loops) /\ TypesOK(loops)
  BY LoopsHaveTypes DEF LoopsAreTyped
<1>2. TopLevelOuters(k) = TopOuters(k)
  BY DEF OrderInv, ListsAreComplete, Analysed, TopLevelOuters
<1>3. \A l \in TopLevelOuters(k) : l \in DOMAIN loops /\ Attributed(loops, l)
  BY <1>2 DEF TopOuters, IsTopLevelAttributed
<1>4. \A l \in TopLevelOuters(k) : PathsFrom(loops, l) = Walks(loops, <<l, 1>>)
  BY <1>1, <1>3, WaysAreWalks
<1>5. QED
  BY <1>3, <1>4 DEF TopOK, KernelPaths, WalksDown

\* For every source: verifyLoops, which compares loops level by level, lets a
\* kernel pass exactly when every way down its loops meets the same types.
THEOREM LevelsAreEnough == Spec => []LevelsDecidePaths
<1>1. OrderInv => LevelsDecidePaths
  <2> SUFFICES ASSUME OrderInv, NEW k \in Analysed
               PROVE  VerifyLoopStructure(loops, TopLevelOuters(k))
                         <=> \A p, q \in KernelPaths(k) : TypesOf(loops, p) = TypesOf(loops, q)
    BY DEF LevelsDecidePaths
  <2>1. TopOK(loops, TopLevelOuters(k)) /\ KernelPaths(k) = WalksDown(loops, TopLevelOuters(k))
    BY TopLevelOutersAre
  <2>2. QED
    BY <2>1, LoopsHaveTypes, LevelsCompareWalks DEF LoopsAreTyped
<1>2. QED
  BY <1>1, OrderInvariance, PTL

-----------------------------------------------------------------------------
(* The axes left to the transpiler.                                        *)

\* A loop has the axes it was written with until the walk leaves it; from then
\* on an axis left to the transpiler is the height of the loop, in the tree as
\* it has grown since.
AxesFollowHeights ==
    \A l \in DOMAIN loops :
        /\ l \in Open => loops[l].axis = loops[l].attr.axis
        /\ l \notin Open =>
              \A n \in DOMAIN loops[l].axis :
                  loops[l].attr.axis[n] = AutoAxis /\ loops[l].type[n] \in {"Outer", "Inner"}
                      => loops[l].axis[n] = AxisHeight(loops, l, n)

AxesInv == OrderInv /\ AxesFollowHeights

LEMMA EnteredAxes ==
    ASSUME OrderInv, OrderInv', AxesFollowHeights, NEW kind \in LoopKinds, EnterLoop(kind)
    PROVE  AxesFollowHeights'
<1> DEFINE new == Len(loops) + 1
           D   == DOMAIN loops \ Open
<1>0. SemaInv /\ SemaInv' /\ OpenLoopsNest /\ IsTree(loops) /\ TypesOK(loops)
  BY OpenAncestors, LoopsHaveTypes DEF OrderInv, LoopsAreTyped
<1>1. IsTree(loops') /\ TypesOK(loops')
  <2>1. LoopsAreTyped'
    BY LoopsHaveTypes, PTL
  <2>2. QED
    BY <2>1 DEF LoopsAreTyped
<1>2. /\ new \notin DOMAIN loops
      /\ DOMAIN loops' = DOMAIN loops \cup {new}
      /\ \A l \in DOMAIN loops : loops'[l] = loops[l]
      /\ loops'[new].attr = kind
      /\ \A l \in DOMAIN loops : Ancestors(loops', l) = Ancestors(loops, l)
      /\ Ancestors(loops', new) = Open
      /\ Open' = Open \cup {new}
  BY <1>0, EnteredLoop
<1>3. loops'[new].axis = kind.axis
  <2> DEFINE loop == [kern |-> parsingKernInfo, type |-> kind.type, axis |-> kind.axis,
                      attr |-> kind, parent |-> CurrentLoop]
  <2>1. loops' = Append(loops, loop) /\ loops \in Seq(Loop)
    BY <1>0, SemaFacts DEF EnterLoop
  <2> HIDE DEF loop
  <2>2. loops'[new] = loop
    BY <2>1
  <2>3. QED
    BY <2>2 DEF loop
<1> HIDE DEF new
<1>4. ASSUME NEW l \in D
      PROVE  Descendants(loops', l) \subseteq DOMAIN loops /\ Descendants(loops, l) \subseteq D
  <2>1. l \in DOMAIN loops /\ l \notin Open
    OBVIOUS
  <2>2. new \notin Descendants(loops', l)
    BY <1>2, <2>1 DEF Descendants
  <2>3. ASSUME NEW d \in Descendants(loops, l), d \in Open PROVE FALSE
    <3>1. l \in Ancestors(loops, d)
      BY DEF Descendants
    <3>2. PICK i \in DOMAIN openFors : d = openFors[i]
      BY <2>3 DEF Open, ToSet
    <3>3. Ancestors(loops, d) = {openFors[j] : j \in 1..i - 1}
      BY <1>0, <3>2 DEF OpenLoopsNest
    <3>4. PICK j \in 1..i - 1 : l = openFors[j]
      BY <3>1, <3>3
    <3>5. DOMAIN openFors = 1..Len(openFors) /\ Len(openFors) \in Nat
      BY <1>0, SemaFacts
    <3>6. j \in DOMAIN openFors
      BY <3>4, <3>5
    <3>7. l \in Open
      BY <3>4, <3>6 DEF Open, ToSet
    <3>8. QED
      BY <2>1, <3>7
  <2>4. QED
    BY <1>2, <2>2, <2>3 DEF Descendants
<1>5. ASSUME NEW l \in D, NEW t \in {"Outer", "Inner"}
      PROVE  HeightSameType(loops', l, t) = HeightSameType(loops, l, t)
  <2>1. D \in SUBSET DOMAIN loops /\ DOMAIN loops \subseteq DOMAIN loops'
    BY <1>2
  <2>2. \A i \in DOMAIN loops : loops'[i].parent = loops[i].parent /\ loops'[i].type = loops[i].type
    BY <1>2
  <2> HIDE DEF D
  <2>3. QED
    BY <1>0, <1>1, <1>4, <2>1, <2>2, InsideDecidesHeights
<1>6. ASSUME NEW l \in DOMAIN loops'
      PROVE  /\ l \in Open' => loops'[l].axis = loops'[l].attr.axis
             /\ l \notin Open' =>
                   \A n \in DOMAIN loops'[l].axis :
                       loops'[l].attr.axis[n] = AutoAxis /\ loops'[l].type[n] \in {"Outer", "Inner"}
                           => loops'[l].axis[n] = AxisHeight(loops', l, n)
  <2>1. CASE l = new
    BY <1>2, <1>3, <2>1
  <2>2. CASE l \in Open /\ l # new
    BY <1>2, <2>2 DEF AxesFollowHeights
  <2>3. CASE l \notin Open /\ l # new
    <3>1. l \in D /\ loops'[l] = loops[l]
      BY <1>2, <2>3
    <3>2. ASSUME NEW n \in DOMAIN loops[l].axis, loops[l].attr.axis[n] = AutoAxis,
                 loops[l].type[n] \in {"Outer", "Inner"}
          PROVE  loops[l].axis[n] = AxisHeight(loops', l, n)
      <4>1. HeightSameType(loops', l, loops[l].type[n]) = HeightSameType(loops, l, loops[l].type[n])
        BY <1>5, <3>1, <3>2
      <4>2. AxisHeight(loops', l, n) = AxisHeight(loops, l, n)
        BY <3>1, <4>1 DEF AxisHeight
      <4>3. QED
        BY <2>3, <3>1, <3>2, <4>2 DEF AxesFollowHeights
    <3>3. QED
      BY <1>2, <2>3, <3>1, <3>2
  <2>4. QED
    BY <2>1, <2>2, <2>3
<1>7. QED
  BY <1>6 DEF AxesFollowHeights

LEMMA LeftAxes ==
    ASSUME OrderInv, OrderInv', AxesFollowHeights, ExitLoop
    PROVE  AxesFollowHeights'
<1> DEFINE axes == UpdatedAxes(loops, Scope)
<1>0. SemaInv /\ SemaInv' /\ IsTree(loops) /\ TypesOK(loops)
  BY LoopsHaveTypes DEF OrderInv, LoopsAreTyped
<1>1. IsTree(loops') /\ TypesOK(loops')
  <2>1. LoopsAreTyped'
    BY LoopsHaveTypes, PTL
  <2>2. QED
    BY <2>1 DEF LoopsAreTyped
<1>2. /\ Scope \in Open
      /\ Scope \in DOMAIN loops
      /\ ClosingLoop = Scope
      /\ DOMAIN loops' = DOMAIN loops
      /\ \A l \in DOMAIN loops : /\ loops'[l].type = loops[l].type
                                 /\ loops'[l].attr = loops[l].attr
                                 /\ loops'[l].parent = loops[l].parent
      /\ Open' = Open \ {Scope}
  BY <1>0, LeftLoop
<1>3. ASSUME NEW l \in DOMAIN loops, NEW n, loops[l].type[n] \in {"Outer", "Inner"}
      PROVE  AxisHeight(loops', l, n) = AxisHeight(loops, l, n)
  <2> DEFINE D == DOMAIN loops
  <2>1. /\ D \in SUBSET DOMAIN loops /\ DOMAIN loops \subseteq DOMAIN loops'
        /\ \A i \in D : Descendants(loops', i) \subseteq DOMAIN loops /\ Descendants(loops, i) \subseteq D
        /\ l \in D
    BY <1>2 DEF Descendants
  <2>2. \A i \in DOMAIN loops : loops'[i].parent = loops[i].parent /\ loops'[i].type = loops[i].type
    BY <1>2
  <2> HIDE DEF D
  <2>3. HeightSameType(loops', l, loops[l].type[n]) = HeightSameType(loops, l, loops[l].type[n])
    BY <1>0, <1>1, <1>3, <2>1, <2>2, InsideDecidesHeights
  <2>4. QED
    BY <1>2, <2>3 DEF AxisHeight
<1>4. /\ loops \in Seq(Loop) /\ loops[Scope] \in Loop
      /\ HasAuto(loops[Scope].axis) => loops' = [loops EXCEPT ![Scope].axis = axes]
      /\ ~HasAuto(loops[Scope].axis) => loops' = loops
  <2>1. loops \in Seq(Loop)
    BY <1>0, SemaFacts
  <2>2. loops[Scope] \in Loop
    BY <1>2, <2>1
  <2>3. /\ HasAuto(loops[Scope].axis) => loops' = [loops EXCEPT ![Scope].axis = axes]
        /\ ~HasAuto(loops[Scope].axis) => loops' = loops
    BY <1>2 DEF ExitLoop
  <2>4. QED
    BY <2>1, <2>2, <2>3
<1>5. /\ \A l \in DOMAIN loops : l # Scope => loops'[l] = loops[l]
      /\ HasAuto(loops[Scope].axis) => loops'[Scope].axis = axes
  <2> DEFINE left == [loops[Scope] EXCEPT !.axis = axes]
  <2>1. left.axis = axes
    BY <1>4 DEF Loop
  <2>2. HasAuto(loops[Scope].axis) => loops' = [loops EXCEPT ![Scope] = left]
    BY <1>4
  <2> HIDE DEF left, axes
  <2>3. QED
    BY <1>2, <1>4, <2>1, <2>2
<1>6. ASSUME NEW n \in DOMAIN loops'[Scope].axis,
             loops[Scope].attr.axis[n] = AutoAxis, loops[Scope].type[n] \in {"Outer", "Inner"}
      PROVE  loops'[Scope].axis[n] = AxisHeight(loops, Scope, n)
  <2>1. loops[Scope].axis = loops[Scope].attr.axis
    BY <1>2 DEF AxesFollowHeights
  <2>2. CASE HasAuto(loops[Scope].axis)
    <3>1. loops'[Scope].axis = axes
      BY <1>5, <2>2
    <3>2. n \in DOMAIN loops[Scope].axis
      BY <1>6, <3>1 DEF UpdatedAxes
    <3>3. axes[n] = AxisHeight(loops, Scope, n)
      BY <1>6, <2>1, <3>2 DEF UpdatedAxes
    <3> HIDE DEF axes
    <3>4. QED
      BY <3>1, <3>3
  <2>3. CASE ~HasAuto(loops[Scope].axis)
    <3>1. loops' = loops
      BY <1>4, <2>3
    <3>2. HasAuto(loops[Scope].axis)
      BY <1>6, <2>1, <3>1 DEF HasAuto
    <3>3. QED
      BY <2>3, <3>2
  <2>4. QED
    BY <2>2, <2>3
<1>7. ASSUME NEW l \in DOMAIN loops'
      PROVE  /\ l \in Open' => loops'[l].axis = loops'[l].attr.axis
             /\ l \notin Open' =>
                   \A n \in DOMAIN loops'[l].axis :
                       loops'[l].attr.axis[n] = AutoAxis /\ loops'[l].type[n] \in {"Outer", "Inner"}
                           => loops'[l].axis[n] = AxisHeight(loops', l, n)
  <2>0. l \in DOMAIN loops
    BY <1>2
  <2>1. CASE l = Scope
    BY <1>2, <1>3, <1>6, <2>0, <2>1
  <2>2. CASE l # Scope
    <3>1. loops'[l] = loops[l] /\ (l \in Open' <=> l \in Open)
      BY <1>2, <1>5, <2>0, <2>2
    <3>2. ASSUME NEW n \in DOMAIN loops[l].axis, l \notin Open, loops[l].attr.axis[n] = AutoAxis,
                 loops[l].type[n] \in {"Outer", "Inner"}
          PROVE  loops[l].axis[n] = AxisHeight(loops', l, n)
      BY <1>3, <2>0, <3>2 DEF AxesFollowHeights
    <3>3. l \in Open => loops[l].axis = loops[l].attr.axis
      BY <2>0 DEF AxesFollowHeights
    <3>4. QED
      BY <3>1, <3>2, <3>3
  <2>3. QED
    BY <2>1, <2>2
<1>8. QED
  BY <1>7 DEF AxesFollowHeights

LEMMA AxesStep == OrderInv /\ OrderInv' /\ AxesFollowHeights /\ [Next]_vars => AxesFollowHeights'
<1> SUFFICES ASSUME OrderInv, OrderInv', AxesFollowHeights, [Next]_vars PROVE AxesFollowHeights'
  OBVIOUS
<1>1. CASE \E kind \in LoopKinds : EnterLoop(kind)
  BY <1>1, EnteredAxes
<1>2. CASE ExitLoop
  BY <1>2, LeftAxes
<1>3. CASE UNCHANGED <<loops, openFors>>
  BY <1>3 DEF AxesFollowHeights, Open
<1>4. EnterHelper \/ ExitHelper \/ EnterKernel \/ ExitKernel \/ FinishWalk \/ Reject \/ UNCHANGED vars
        \/ (\E attr \in LeafAttrs : RecordLeaf(attr)) => UNCHANGED <<loops, openFors>>
  BY DEF EnterHelper, ExitHelper, EnterKernel, ExitKernel, FinishWalk, RecordLeaf, Reject, EnterNestedKernel,
         RejectLoop, RejectUnreadableLoop, RejectSecondLoopAttribute, RejectLoopOutsideKernel,
         RejectDeepLoop, Fail, semaVars, walkVars, vars
<1>5. QED
  BY <1>1, <1>2, <1>3, <1>4 DEF Next

LEMMA AxesInvariance == Spec => []AxesInv
<1>1. Init => AxesFollowHeights
  BY DEF Init, AxesFollowHeights
<1>2. QED
  BY <1>1, AxesStep, OrderInvariance, PTL DEF Spec, AxesInv

\* For every source: in a kernel that verifyLoops lets pass, the axes left to
\* the transpiler, which it counts along first children at the moment the walk
\* leaves a loop, are counted from the deepest loop on every way down.
THEOREM AutoAxesCountEveryWay == Spec => []AutoAxesCountFromDeepest
<1>1. AxesInv => AutoAxesCountFromDeepest
  <2> SUFFICES ASSUME AxesInv, NEW k \in Accepted, NEW p \in KernelPaths(k), NEW j \in DOMAIN p,
                      WrittenAxis(loops, p[j]) = AutoAxis
               PROVE  AxisAt(loops, p[j]) = Met(loops, p, j, NodeType(loops, p[j]))
    BY DEF AutoAxesCountFromDeepest, Met, After
  <2> DEFINE top == TopLevelOuters(k)
             l   == p[j][1]
             n   == p[j][2]
  <2>0. OrderInv /\ AxesFollowHeights /\ SemaInv /\ k \in Analysed /\ status = "done"
    BY DEF AxesInv, OrderInv, Accepted, Analysed
  <2>1. IsTree(loops) /\ TypesOK(loops)
    BY <2>0, LoopsHaveTypes DEF LoopsAreTyped
  <2>2. TopOK(loops, top) /\ KernelPaths(k) = WalksDown(loops, top)
    BY <2>0, TopLevelOutersAre
  <2>3. VerifyLoopStructure(loops, top)
    BY DEF Accepted, VerifyLoops
  <2>4. \A q, r \in WalksDown(loops, top) : TypesOf(loops, q) = TypesOf(loops, r)
    BY <2>1, <2>2, <2>3, LevelsCompareWalks
  <2>5. p \in WalksDown(loops, top) /\ p \in Seq(Nodes(loops)) /\ j \in 1..Len(p)
    BY <2>1, <2>2, WalksDownAre
  <2>6. AxisHeight(loops, l, n) = Met(loops, p, j, NodeType(loops, p[j]))
    <3> HIDE DEF top
    <3> QED
      BY <2>1, <2>2, <2>4, <2>5, AxisHeightsAreMet
  <2>7. l \in DOMAIN loops /\ n \in DOMAIN loops[l].type /\ loops[l].type[n] \in {"Outer", "Inner"}
    <3>1. p[j] \in Nodes(loops)
      BY <2>5
    <3>2. l \in DOMAIN loops /\ n \in AttributedIdxs(loops[l].type)
      BY <3>1 DEF Nodes
    <3>3. loops[l].type \in Seq(LoopType)
      BY <2>1, <3>2 DEF TypesOK
    <3>4. QED
      BY <3>2, <3>3 DEF AttributedIdxs, LoopType
  <2>8. Open = {}
    BY <2>0 DEF OrderInv, DoneIsOutside, Open, ToSet
  <2>9. n \in DOMAIN loops[l].axis
    <3>1. Len(loops[l].axis) = Len(loops[l].type) /\ loops[l].axis \in Seq(Axis) /\ loops[l].type \in Seq(LoopType)
      BY <2>0, <2>7, SemaFacts, LoopFields DEF LoopOK
    <3>2. QED
      BY <2>7, <3>1
  <2>10. loops[l].attr.axis[n] = AutoAxis
    BY DEF WrittenAxis
  <2>11. loops[l].axis[n] = AxisHeight(loops, l, n)
    BY <2>0, <2>7, <2>8, <2>9, <2>10 DEF AxesFollowHeights
  <2>12. QED
    BY <2>6, <2>11 DEF AxisAt
<1>2. QED
  BY <1>1, AxesInvariance, PTL

-----------------------------------------------------------------------------
(* The two views of a kernel.                                              *)

LEMMA NodesHaveAxes ==
    ASSUME OrderInv, NEW x \in Nodes(loops)
    PROVE  x[2] \in DOMAIN loops[x[1]].axis /\ x[2] \in DOMAIN loops[x[1]].attr.axis
<1> DEFINE l == x[1]
           n == x[2]
<1>0. SemaInv /\ LoopsAreLegal
  BY DEF OrderInv
<1>1. l \in DOMAIN loops /\ n \in DOMAIN loops[l].type
  BY DEF Nodes, AttributedIdxs
<1>2. Len(loops[l].axis) = Len(loops[l].type) /\ loops[l].axis \in Seq(Axis) /\ loops[l].type \in Seq(LoopType)
  BY <1>0, <1>1, SemaFacts, LoopFields DEF LoopOK
<1>3. loops[l].attr \in LoopKinds /\ loops[l].type = loops[l].attr.type
  BY <1>0, <1>1, SemaFacts, LoopFields DEF LoopsAreLegal
<1>4. loops[l].attr.axis \in Seq(Axis) /\ Len(loops[l].attr.axis) = Len(loops[l].attr.type)
  BY <1>3, LoopKindsAssumption DEF LoopKind
<1>5. QED
  BY <1>1, <1>2, <1>3, <1>4

\* For every source: in a kernel that verifyLoops lets pass and that has only
\* attributed loops and automatic axes, the loops that the launcher collects
\* along first children are those of the device kernel, and the dimension that
\* it gives each, counted from the last collected, is the axis that semantic
\* analysis gave it, counted from the deepest loop.
THEOREM LauncherReadsDevice == Spec => []LaunchMatchesDevice
<1>1. AxesInv /\ AutoAxesCountFromDeepest => LaunchMatchesDevice
  <2> SUFFICES ASSUME AxesInv, AutoAxesCountFromDeepest, NEW k \in Accepted, NEW l \in TopLevelOuters(k),
                      AllAuto(l), \A d \in Descendants(loops, l) : Attributed(loops, d)
               PROVE  LaunchFindsLoops(l) /\ LaunchMatchesAxes(l)
    BY DEF LaunchMatchesDevice
  <2> DEFINE path == CollectLoops(loops, l)
  <2>0. OrderInv /\ SemaInv /\ k \in Analysed
    BY DEF AxesInv, OrderInv, Accepted
  <2>1. IsTree(loops) /\ TypesOK(loops)
    BY <2>0, LoopsHaveTypes DEF LoopsAreTyped
  <2>2. TopOK(loops, TopLevelOuters(k)) /\ KernelPaths(k) = WalksDown(loops, TopLevelOuters(k))
    BY <2>0, TopLevelOutersAre
  <2>3. l \in DOMAIN loops
    BY <2>2 DEF TopOK
  <2>4. path \in PathsFrom(loops, l)
    BY <2>1, <2>3, CollectIsAWay DEF AllAttributed
  <2>5. path \in KernelPaths(k)
    BY <2>4 DEF KernelPaths
  <2>6. path \in Seq(Nodes(loops))
    BY <2>1, <2>2, <2>5, WalksDownAre
  <2>9. path \in Walks(loops, <<l, 1>>)
    <3>1. PathsFrom(loops, l) = Walks(loops, <<l, 1>>)
      BY <2>1, <2>2, <2>3, WaysAreWalks DEF TopOK
    <3>2. QED
      BY <2>4, <3>1
  <2>7. LaunchFindsLoops(l)
    BY <2>4 DEF LaunchFindsLoops, LaunchLoops, DeviceLoops
  <2>8. ASSUME NEW t \in {"Outer", "Inner"}, NEW j \in DOMAIN LaunchLoops(l, t)
        PROVE  AxisAt(loops, LaunchLoops(l, t)[j]) = LaunchAxis(l, t, j)
    <3> DEFINE list == LaunchLoops(l, t)
    <3>1. list \in Seq(Nodes(loops)) /\ CountsMet(loops, path, t, list)
      BY <2>6, OfTypeCounts DEF LaunchLoops
    <3> HIDE DEF list
    <3>2. j \in 1..Len(list)
      BY <2>8, <3>1 DEF list
    <3>3. PICK a \in 1..Len(path) : /\ list[j] = path[a]
                                    /\ NodeType(loops, path[a]) = t
                                    /\ Met(loops, path, a, t) = Len(list) - j
      BY <3>1, <3>2 DEF CountsMet
    <3>4. a \in DOMAIN path
      BY <2>6
    <3>5. WrittenAxis(loops, path[a]) = AutoAxis
      <4>1. path[a] \in Nodes(loops)
        BY <2>6
      <4>2. path[a][1] \in Descendants(loops, l) \cup {l}
        BY <2>1, <2>3, <2>9, WalksStayInside
      <4>3. path[a][2] \in DOMAIN loops[path[a][1]].attr.axis
        BY <2>0, <4>1, NodesHaveAxes
      <4>4. QED
        BY <4>2, <4>3 DEF AllAuto, WrittenAxis
    <3>6. AxisAt(loops, path[a]) = Met(loops, path, a, t)
      BY <2>5, <3>3, <3>4, <3>5 DEF AutoAxesCountFromDeepest, Met, After
    <3>7. QED
      BY <3>3, <3>6 DEF LaunchAxis, list
  <2>10. QED
    BY <2>7, <2>8 DEF LaunchMatchesAxes
<1>2. QED
  BY <1>1, AxesInvariance, AutoAxesCountEveryWay, PTL

-----------------------------------------------------------------------------
(* Bounds of launches.                                                     *)

\* A loop that the walk has left has an axis of the grid.
AxesAreSet ==
    \A l \in DOMAIN loops : l \notin Open =>
        \A n \in DOMAIN loops[l].axis : loops[l].axis[n] \in 0..MaxAxis

LEMMA LeftAxesAreSet ==
    ASSUME SemaInv, SemaInv', AxesAreSet, ExitLoop
    PROVE  AxesAreSet'
<1> DEFINE old  == loops[Scope]
           axes == UpdatedAxes(loops, Scope)
<1>1. /\ Scope \in DOMAIN loops
      /\ ClosingLoop = Scope
      /\ DOMAIN loops' = DOMAIN loops
      /\ Open' = Open \ {Scope}
  BY LeftLoop
<1>2. /\ loops \in Seq(Loop) /\ old \in Loop /\ old.axis \in Seq(Axis)
      /\ old.type \in Seq(LoopType) /\ Len(old.axis) = Len(old.type)
  BY <1>1, SemaFacts, LoopFields DEF LoopOK
<1>3. CASE HasAuto(old.axis)
  <2>1. AutoAxisFits(loops, Scope) /\ loops' = [loops EXCEPT ![Scope].axis = axes]
    BY <1>1, <1>3 DEF ExitLoop
  <2> DEFINE left == [old EXCEPT !.axis = axes]
  <2>2. left.axis = axes
    BY <1>2 DEF Loop
  <2>3. loops' = [loops EXCEPT ![Scope] = left]
    BY <2>1
  <2>4. ASSUME NEW n \in DOMAIN axes PROVE axes[n] \in 0..MaxAxis
    <3>1. n \in DOMAIN old.axis
      BY DEF UpdatedAxes
    <3>2. n \in DOMAIN old.type /\ old.axis[n] \in Axis
      BY <1>2, <3>1
    <3>3. AxisHeight(loops, Scope, n) \in 0..MaxAxis
      BY <2>1, <3>2 DEF AutoAxisFits
    <3>4. axes[n] = IF old.axis[n] = AutoAxis THEN AxisHeight(loops, Scope, n) ELSE old.axis[n]
      BY <3>1 DEF UpdatedAxes
    <3>5. old.axis[n] = AutoAxis \/ old.axis[n] \in 0..MaxAxis
      BY <3>2 DEF Axis, AutoAxis, MaxAxis
    <3> HIDE DEF axes, old
    <3>6. QED
      BY <3>3, <3>4, <3>5
  <2> HIDE DEF left, axes
  <2>5. \A l \in DOMAIN loops : loops'[l] = IF l = Scope THEN left ELSE loops[l]
    BY <1>2, <2>3
  <2>6. QED
    BY <1>1, <2>2, <2>4, <2>5 DEF AxesAreSet
<1>4. CASE ~HasAuto(old.axis)
  <2>1. loops' = loops
    BY <1>1, <1>4 DEF ExitLoop
  <2>2. ASSUME NEW n \in DOMAIN old.axis PROVE old.axis[n] \in 0..MaxAxis
    <3>1. old.axis[n] \in Axis /\ old.axis[n] # AutoAxis
      BY <1>2, <1>4 DEF HasAuto
    <3>2. QED
      BY <3>1 DEF Axis, AutoAxis, MaxAxis
  <2>3. QED
    BY <1>1, <2>1, <2>2 DEF AxesAreSet
<1>5. QED
  BY <1>3, <1>4

LEMMA SetAxesStep == SemaInv /\ SemaInv' /\ AxesAreSet /\ [Next]_vars => AxesAreSet'
<1> SUFFICES ASSUME SemaInv, SemaInv', AxesAreSet, [Next]_vars PROVE AxesAreSet'
  OBVIOUS
<1>1. ASSUME NEW kind \in LoopKinds, EnterLoop(kind) PROVE AxesAreSet'
  <2> DEFINE new == Len(loops) + 1
  <2>1. /\ DOMAIN loops' = DOMAIN loops \cup {new}
        /\ \A l \in DOMAIN loops : loops'[l] = loops[l]
        /\ Open' = Open \cup {new}
    BY <1>1, EnteredLoop
  <2>2. QED
    BY <2>1 DEF AxesAreSet
<1>2. CASE ExitLoop
  BY <1>2, LeftAxesAreSet
<1>3. CASE UNCHANGED <<loops, openFors>>
  BY <1>3 DEF AxesAreSet, Open
<1>4. EnterHelper \/ ExitHelper \/ EnterKernel \/ ExitKernel \/ FinishWalk \/ Reject \/ UNCHANGED vars
        \/ (\E attr \in LeafAttrs : RecordLeaf(attr)) => UNCHANGED <<loops, openFors>>
  BY DEF EnterHelper, ExitHelper, EnterKernel, ExitKernel, FinishWalk, RecordLeaf, Reject, EnterNestedKernel,
         RejectLoop, RejectUnreadableLoop, RejectSecondLoopAttribute, RejectLoopOutsideKernel,
         RejectDeepLoop, Fail, semaVars, walkVars, vars
<1>5. QED
  BY <1>1, <1>2, <1>3, <1>4 DEF Next

LEMMA SetAxesInvariance == Spec => []AxesAreSet
<1>1. Init => AxesAreSet
  BY DEF Init, AxesAreSet
<1>2. QED
  BY <1>1, SetAxesStep, Invariance, PTL DEF Spec

LEMMA ReadableKernels ==
    ASSUME AxesInv, AxesAreSet, AutoAxesCountFromDeepest, NEW k \in Accepted, NEW l \in TopLevelOuters(k),
           Readable(l)
    PROVE  KernelIsReadable(l)
<1>0. OrderInv /\ SemaInv /\ k \in Analysed /\ status = "done" /\ Open = {}
  BY DEF AxesInv, OrderInv, Accepted, Analysed, DoneIsOutside, Open, ToSet
<1>1. IsTree(loops) /\ TypesOK(loops)
  BY <1>0, LoopsHaveTypes DEF LoopsAreTyped
<1>2. TopOK(loops, TopLevelOuters(k)) /\ KernelPaths(k) = WalksDown(loops, TopLevelOuters(k))
  BY <1>0, TopLevelOutersAre
<1>3. l \in DOMAIN loops /\ Attributed(loops, l) /\ AllAttributed(loops, l) /\ AllAuto(l)
  BY <1>2 DEF TopOK, Readable, AllAttributed
<1>4. ASSUME NEW f \in PathsFrom(loops, l)
      PROVE  /\ f \in Seq(Nodes(loops))
             /\ \A b \in 1..Len(f) :
                   /\ f[b][1] \in Descendants(loops, l) \cup {l}
                   /\ AxisAt(loops, f[b]) = Met(loops, f, b, NodeType(loops, f[b]))
                   /\ AxisAt(loops, f[b]) \in 0..MaxAxis
  <2>1. f \in KernelPaths(k)
    BY DEF KernelPaths
  <2>2. f \in Seq(Nodes(loops))
    BY <1>1, <1>2, <2>1, WalksDownAre
  <2>3. f \in Walks(loops, <<l, 1>>)
    BY <1>1, <1>3, WaysAreWalks
  <2>4. ASSUME NEW b \in 1..Len(f)
        PROVE  /\ f[b][1] \in Descendants(loops, l) \cup {l}
               /\ AxisAt(loops, f[b]) = Met(loops, f, b, NodeType(loops, f[b]))
               /\ AxisAt(loops, f[b]) \in 0..MaxAxis
    <3>1. f[b] \in Nodes(loops) /\ b \in DOMAIN f
      BY <2>2
    <3>2. f[b][1] \in Descendants(loops, l) \cup {l}
      BY <1>1, <1>3, <2>3, WalksStayInside
    <3>3. f[b][2] \in DOMAIN loops[f[b][1]].attr.axis /\ f[b][2] \in DOMAIN loops[f[b][1]].axis
      BY <1>0, <3>1, NodesHaveAxes
    <3>4. WrittenAxis(loops, f[b]) = AutoAxis
      BY <1>3, <3>2, <3>3 DEF AllAuto, WrittenAxis
    <3>5. AxisAt(loops, f[b]) = Met(loops, f, b, NodeType(loops, f[b]))
      BY <2>1, <3>1, <3>4 DEF AutoAxesCountFromDeepest, Met, After
    <3>6. f[b][1] \in DOMAIN loops
      BY <1>3, <3>2 DEF Descendants
    <3>7. AxisAt(loops, f[b]) \in 0..MaxAxis
      BY <1>0, <3>3, <3>6 DEF AxesAreSet, AxisAt
    <3>8. QED
      BY <3>2, <3>5, <3>7
  <2>5. QED
    BY <2>2, <2>4
<1>5. QED
  BY <1>3, <1>4 DEF KernelIsReadable

\* What the two theorems about launches have in common.
SizesInv == AxesInv /\ AxesAreSet /\ AutoAxesCountFromDeepest

LEMMA SizesInvariance == Spec => []SizesInv
  BY AxesInvariance, SetAxesInvariance, AutoAxesCountEveryWay, PTL DEF SizesInv

LEMMA LaunchIsAWay ==
    ASSUME SizesInv, LoopTexts \subseteq UpwardHeaders, NEW k \in Accepted,
           NEW l \in TopLevelOuters(k), Readable(l),
           NEW texts \in TextsOf(l), SameDims(texts, l), LaunchBounds(texts, l) # 0
    PROVE  LET s == GetInnerSizes(loops, texts, l)
           IN  /\ KernelIsReadable(l)
               /\ LaunchBounds(texts, l) = Product(s)
               /\ \A f \in PathsFrom(loops, l) : SizesOf(texts, OfType(loops, f, "Inner"), s)
               /\ SizesOf(texts, LaunchLoops(l, "Inner"), s)
               /\ DOMAIN LaunchLoops(l, "Inner") = 1..Len(LaunchLoops(l, "Inner"))
<1> DEFINE path == CollectLoops(loops, l)
<1>1. IsTree(loops) /\ TypesOK(loops)
  BY LoopsHaveTypes DEF LoopsAreTyped, SizesInv, AxesInv
<1>2. KernelIsReadable(l)
  BY ReadableKernels DEF SizesInv
<1>3. path \in PathsFrom(loops, l)
  BY <1>1, <1>2, CollectIsAWay DEF KernelIsReadable
<1>4. path \in Seq(Nodes(loops))
  BY <1>2, <1>3 DEF KernelIsReadable
<1> HIDE DEF path
<1>5. OfType(loops, path, "Inner") \in Seq(Nodes(loops))
  BY <1>4, OfTypeCounts
<1>6. LaunchLoops(l, "Inner") = OfType(loops, path, "Inner")
  BY DEF LaunchLoops, path
<1>7. DOMAIN LaunchLoops(l, "Inner") = 1..Len(LaunchLoops(l, "Inner"))
  BY <1>5, <1>6
<1>8. QED
  BY <1>1, <1>2, <1>3, <1>6, <1>7, SizesAreLaunched

\* For every source whose for-statements run upwards in steps of one: the
\* bound of a device kernel is the size of the blocks it is launched with.
THEOREM BoundsMatchBlocks ==
    ASSUME LoopTexts \subseteq UpwardHeaders
    PROVE  Spec => []BoundsAreLaunched
<1>1. SizesInv => BoundsAreLaunched
  <2> SUFFICES ASSUME SizesInv, NEW k \in Accepted, NEW l \in TopLevelOuters(k), Readable(l),
                      NEW texts \in TextsOf(l), SameDims(texts, l), LaunchBounds(texts, l) # 0
               PROVE  LaunchBounds(texts, l) = BlockSize(texts, l)
    BY DEF BoundsAreLaunched
  <2> DEFINE s == GetInnerSizes(loops, texts, l)
  <2>1. LaunchBounds(texts, l) = Product(s) /\ SizesOf(texts, LaunchLoops(l, "Inner"), s)
    BY LaunchIsAWay
  <2> HIDE DEF s
  <2>2. QED
    BY <2>1, ProductIsBlockSize
<1>2. QED
  BY <1>1, SizesInvariance, PTL

\* For every source whose for-statements run upwards in steps of one: a kernel
\* that requires a work-group is launched with it, dimension by dimension, and
\* indexes each loop by the dimension that has the loop's size.
THEOREM GroupsMatchLaunches ==
    ASSUME LoopTexts \subseteq UpwardHeaders
    PROVE  Spec => []RequiredGroupIsLaunched
<1>1. SizesInv => RequiredGroupIsLaunched
  <2> SUFFICES ASSUME SizesInv, NEW k \in Accepted, NEW l \in TopLevelOuters(k), Readable(l),
                      NEW texts \in TextsOf(l), SameDims(texts, l), LaunchBounds(texts, l) # 0
               PROVE  /\ RequiredGroup(texts, l) = LaunchedGroup(texts, l)
                      /\ \A path \in PathsFrom(loops, l) : \A j \in DOMAIN path :
                            NodeType(loops, path[j]) = "Inner" =>
                                RequiredGroup(texts, l)[DpcppDimension(AxisAt(loops, path[j]))]
                                    = LoopDim(texts, path[j])
    BY DEF RequiredGroupIsLaunched
  <2> DEFINE s     == GetInnerSizes(loops, texts, l)
             inner == LaunchLoops(l, "Inner")
             n     == Len(inner)
  <2>1. /\ KernelIsReadable(l)
        /\ \A f \in PathsFrom(loops, l) : SizesOf(texts, OfType(loops, f, "Inner"), s)
        /\ SizesOf(texts, inner, s)
        /\ DOMAIN inner = 1..n
    BY LaunchIsAWay
  <2>2. RequiredGroup(texts, l) = Group(s)
    BY DEF RequiredGroup
  <2> HIDE DEF s
  <2>3. DOMAIN s = 0..MaxAxis
    BY <2>1 DEF SizesOf
  <2>4. Group(s) = [d \in 0..MaxAxis |-> s[MaxAxis - d]]
    BY <2>3 DEF Group
  <2>5. LaunchedGroup(texts, l) =
          [d \in 0..MaxAxis |-> IF n - (MaxAxis - d) \in 1..n
                                THEN LoopDim(texts, inner[n - (MaxAxis - d)]) ELSE 1]
    BY <2>1 DEF LaunchedGroup
  <2>6. \A d \in 0..MaxAxis : s[MaxAxis - d] = IF n - (MaxAxis - d) \in 1..n
                                               THEN LoopDim(texts, inner[n - (MaxAxis - d)]) ELSE 1
    <3>1. \A d \in 0..MaxAxis : MaxAxis - d \in 0..MaxAxis
      BY DEF MaxAxis
    <3>2. \A a \in 0..MaxAxis : s[a] = IF n - a \in 1..n THEN LoopDim(texts, inner[n - a]) ELSE 1
      BY <2>1 DEF SizesOf
    <3> HIDE DEF n, inner
    <3>3. QED
      BY <3>1, <3>2
  <2>7. RequiredGroup(texts, l) = LaunchedGroup(texts, l)
    <3> HIDE DEF n, inner
    <3> QED
      BY <2>2, <2>4, <2>5, <2>6
  <2>8. ASSUME NEW path \in PathsFrom(loops, l), NEW j \in DOMAIN path, NodeType(loops, path[j]) = "Inner"
        PROVE  RequiredGroup(texts, l)[DpcppDimension(AxisAt(loops, path[j]))] = LoopDim(texts, path[j])
    <3> DEFINE a    == AxisAt(loops, path[j])
               list == OfType(loops, path, "Inner")
    <3>1. path \in Seq(Nodes(loops))
      BY <2>1 DEF KernelIsReadable
    <3>2. j \in 1..Len(path)
      BY <3>1
    <3>3. a \in 0..MaxAxis /\ InnerAlong(path[j], a)
      BY <2>1, <2>8, <3>2 DEF KernelIsReadable, InnerAlong
    <3>4. Len(list) - a \in 1..Len(list) /\ list[Len(list) - a] = path[j]
      BY <2>1, <3>2, <3>3, InnerLoopsAre
    <3>5. s[a] = LoopDim(texts, path[j])
      BY <2>1, <3>3, <3>4 DEF SizesOf
    <3>6. MaxAxis - a \in 0..MaxAxis /\ MaxAxis - (MaxAxis - a) = a
      BY <3>3 DEF MaxAxis
    <3> HIDE DEF a
    <3>7. RequiredGroup(texts, l)[MaxAxis - a] = s[a]
      BY <2>2, <2>4, <3>6
    <3>8. QED
      BY <3>5, <3>7 DEF DpcppDimension, a
  <2>9. QED
    BY <2>7, <2>8
<1>2. QED
  BY <1>1, SizesInvariance, PTL

-----------------------------------------------------------------------------
(* The passes.  The handlers of both see the loop that their node stands   *)
(* in.  The invariant adds to that of the walk what the passes keep of it  *)
(* while they overwrite currentLoop: a kernel's current loop is a loop of  *)
(* that kernel.                                                            *)

\* A node is recorded with a kernel that the program has, or with none.
NodesOfKernels == \A n \in DOMAIN nodes : nodes[n].ki <= Len(parsedKernelList)

OwnLoop(k, l) == l # 0 => l \in DOMAIN loops /\ loops[l].kern = k

CurrentLoopsOwn == \A k \in DOMAIN parsedKernelList : OwnLoop(k, parsedKernelList[k].currentLoop)

\* What nodes, loops and kernels are after the walk.
Recorded ==
    /\ nodes \in Seq(Node)
    /\ loops \in Seq(Loop)
    /\ Len(loops) <= MaxLoops
    /\ parsedKernelList \in Seq(KernelInfo)
    /\ NodesKnowTheirLoop
    /\ CurrentLoopsOwn

ApplyInv ==
    /\ Recorded
    /\ NodesOfKernels
    /\ pass = "sema" => SemaInv

\* The fields of a recorded node.
LEMMA NodeFields ==
    ASSUME NEW N \in Seq(Node), NEW n \in DOMAIN N
    PROVE  N[n] \in Node /\ N[n].ki \in Nat /\ N[n].li \in Nat
<1>1. N[n] \in Node
  OBVIOUS
<1> QED
  BY <1>1 DEF Node

-----------------------------------------------------------------------------
(* The walk keeps the invariant of the passes.                             *)

\* In the walk a current loop is the innermost one around it.
LEMMA WalkRecords == SemaInv => Recorded
<1> SUFFICES ASSUME SemaInv PROVE Recorded
  OBVIOUS
<1>1. /\ Len(openFors) \in Nat
      /\ DOMAIN openFors = 1..Len(openFors)
      /\ \A i \in DOMAIN openFors : openFors[i] \in DOMAIN loops
      /\ Scope = IF Len(openFors) = 0 THEN 0 ELSE openFors[Len(openFors)]
  BY SemaFacts
<1>2. Scope # 0 => Scope \in DOMAIN loops /\ loops[Scope].kern = parsingKernInfo
  <2>1. Scope # 0 => Len(openFors) \in DOMAIN openFors
    BY <1>1
  <2> QED
    BY <1>1, <2>1 DEF SemaInv, ParentIsEnclosingFor
<1>3. CurrentLoopsOwn
  BY <1>2 DEF SemaInv, CurrentLoopIsScope, CurrentLoopsOwn, OwnLoop
<1> QED
  BY <1>3 DEF SemaInv, TypeOK, Recorded

LEMMA WalkKeepsNodesOfKernels ==
    ASSUME SemaInv, NodesOfKernels, Next
    PROVE  NodesOfKernels'
<1>1. /\ nodes \in Seq(Node)
      /\ parsedKernelList \in Seq(KernelInfo)
      /\ parsingKernInfo \in Nat /\ parsingKernInfo <= Len(parsedKernelList)
      /\ \A n \in DOMAIN nodes : nodes[n].ki \in Nat
  <2>1. nodes \in Seq(Node) /\ parsedKernelList \in Seq(KernelInfo)
    BY DEF SemaInv, TypeOK
  <2>2. \A n \in DOMAIN nodes : nodes[n].ki \in Nat
    BY <2>1, NodeFields
  <2>3. parsingKernInfo \in 0..Len(parsedKernelList)
    BY DEF SemaInv, TypeOK
  <2>4. Len(parsedKernelList) \in Nat
    <3> HIDE DEF KernelInfo
    <3> QED BY <2>1
  <2> QED
    BY <2>1, <2>2, <2>3, <2>4
<1>2. ASSUME NEW attr, NEW stmt, Record(attr, stmt),
             Len(parsedKernelList') = Len(parsedKernelList)
      PROVE  NodesOfKernels'
  <2> DEFINE node == [ki |-> parsingKernInfo, li |-> CurrentLoop, attr |-> attr,
                      stmt |-> stmt, scope |-> Scope]
  <2>1. nodes' = Append(nodes, node) /\ node.ki = parsingKernInfo
    BY <1>2 DEF Record
  <2> HIDE DEF node
  <2> QED
    BY <1>1, <1>2, <2>1 DEF NodesOfKernels
<1>3. CASE UNCHANGED <<nodes, parsedKernelList>>
  BY <1>3 DEF NodesOfKernels
<1>4. CASE EnterKernel
  <2>1. UNCHANGED nodes /\ parsedKernelList' = Append(parsedKernelList, NoKernelInfo)
    BY <1>4 DEF EnterKernel
  <2>2. Len(parsedKernelList') = Len(parsedKernelList) + 1
    <3> HIDE DEF NoKernelInfo
    <3> QED BY <1>1, <2>1
  <2> QED
    BY <1>1, <2>1, <2>2 DEF NodesOfKernels
<1>5. CASE ExitKernel
  BY <1>2, <1>5 DEF ExitKernel
<1>6. ASSUME NEW kind \in LoopKinds, EnterLoop(kind)
      PROVE  NodesOfKernels'
  <2>1. UNCHANGED nodes /\ Len(parsedKernelList') = Len(parsedKernelList)
    BY <1>1, <1>6 DEF EnterLoop
  <2> QED
    BY <2>1 DEF NodesOfKernels
<1>7. CASE ExitLoop
  <2>1. /\ UNCHANGED nodes \/ Record("loop", Scope)
        /\ Len(parsedKernelList') = Len(parsedKernelList)
    BY <1>1, <1>7 DEF ExitLoop
  <2>2. CASE UNCHANGED nodes
    BY <2>1, <2>2 DEF NodesOfKernels
  <2> QED
    BY <1>2, <2>1, <2>2
<1>8. ASSUME NEW attr \in LeafAttrs, RecordLeaf(attr)
      PROVE  NodesOfKernels'
  BY <1>2, <1>8 DEF RecordLeaf, semaVars
<1>9. EnterHelper \/ ExitHelper \/ FinishWalk \/ Reject
          => UNCHANGED <<nodes, parsedKernelList>>
  BY DEF EnterHelper, ExitHelper, FinishWalk, Reject, EnterNestedKernel, RejectLoop,
         RejectUnreadableLoop, RejectSecondLoopAttribute, RejectLoopOutsideKernel,
         RejectDeepLoop, Fail, semaVars
<1> QED
  BY <1>3, <1>4, <1>5, <1>6, <1>7, <1>8, <1>9 DEF Next

-----------------------------------------------------------------------------
(* A node in one of the passes.                                            *)

\* The loop that a handler sees: that of the node, or, for a node outside of
\* all loops, one that an earlier node of the same kernel has left.
LEMMA ActiveLoopIsKnown ==
    ASSUME Recorded, NodesOfKernels, next \in DOMAIN nodes
    PROVE  /\ TheNode.ki # 0 => TheNode.ki \in DOMAIN parsedKernelList
           /\ TheNode.scope # 0 => ActiveLoop = TheNode.scope
           /\ TheNode.ki # 0 => ActiveLoop \in Nat /\ OwnLoop(TheNode.ki, ActiveLoop)
<1>1. /\ TheNode \in Node
      /\ TheNode.ki \in Nat /\ TheNode.li \in Nat
      /\ TheNode.ki <= Len(parsedKernelList)
      /\ KnowsItsLoop(TheNode)
  <2>1. TheNode \in Node /\ TheNode.ki \in Nat /\ TheNode.li \in Nat
    BY NodeFields DEF Recorded, TheNode
  <2> QED
    BY <2>1 DEF Recorded, NodesOfKernels, NodesKnowTheirLoop, TheNode
<1>2. /\ DOMAIN parsedKernelList = 1..Len(parsedKernelList)
      /\ DOMAIN loops = 1..Len(loops)
      /\ Len(loops) \in Nat /\ Len(loops) <= MaxLoops /\ MaxLoops \in Nat
  BY BoundsAssumption DEF Recorded
<1>3. TheNode.ki # 0 => TheNode.ki \in DOMAIN parsedKernelList
  BY <1>1, <1>2 DEF Recorded
<1>4. ASSUME TheNode.li # 0
      PROVE  /\ TheNode.ki # 0
             /\ ActiveLoop = TheNode.li
             /\ OwnLoop(TheNode.ki, TheNode.li)
  <2>1. /\ TheNode.li \in DOMAIN loops
        /\ TheNode.ki = loops[TheNode.li].kern
        /\ TheNode.ki \in DOMAIN parsedKernelList
        /\ parsedKernelList[TheNode.ki].loopMap[TheNode.li] = TheNode.li
    BY <1>1, <1>4 DEF KnowsItsLoop
  <2>2. KnownLoop(TheNode.ki, TheNode.li)
    BY <1>2, <1>4, <2>1 DEF KnownLoop
  <2> QED
    BY <1>2, <2>1, <2>2 DEF ActiveLoop, SetLoop, OwnLoop
<1>5. ASSUME TheNode.li = 0, TheNode.ki # 0
      PROVE  ActiveLoop \in Nat /\ OwnLoop(TheNode.ki, ActiveLoop)
  <2>1. ActiveLoop = parsedKernelList[TheNode.ki].currentLoop
    BY <1>5 DEF ActiveLoop, SetLoop, KnownLoop
  <2> QED
    BY <1>3, <1>5, <2>1, KernelFields DEF Recorded, CurrentLoopsOwn
<1> QED
  BY <1>1, <1>3, <1>4, <1>5 DEF KnowsItsLoop

\* Making the context of a node current leaves everything else of the walk.
LEMMA ContextKeepsInv ==
    ASSUME Recorded, NodesOfKernels, next \in DOMAIN nodes, SetContext, pass' # "sema"
    PROVE  ApplyInv'
<1> DEFINE k == TheNode.ki
<1>1. /\ parsedKernelList \in Seq(KernelInfo)
      /\ UNCHANGED <<loops, nodes>>
      /\ parsedKernelList' = IF k = 0 THEN parsedKernelList
                             ELSE [parsedKernelList EXCEPT ![k] =
                                      [parsedKernelList[k] EXCEPT !.currentLoop = ActiveLoop]]
  BY DEF SetContext, Recorded
<1>2. CASE k = 0
  BY <1>1, <1>2 DEF ApplyInv, Recorded, NodesOfKernels, NodesKnowTheirLoop, KnowsItsLoop,
                    CurrentLoopsOwn, OwnLoop
<1>3. CASE k # 0
  <2> DEFINE info == [parsedKernelList[k] EXCEPT !.currentLoop = ActiveLoop]
  <2>1. k \in DOMAIN parsedKernelList /\ ActiveLoop \in Nat /\ OwnLoop(k, ActiveLoop)
    BY <1>3, ActiveLoopIsKnown
  <2>2. /\ info \in KernelInfo
        /\ info.currentLoop = ActiveLoop
        /\ info.loopMap = parsedKernelList[k].loopMap
    <3>1. parsedKernelList[k] \in KernelInfo
      BY <1>1, <2>1
    <3> QED
      BY <2>1, <3>1 DEF KernelInfo
  <2> HIDE DEF info, k
  <2>3. /\ parsedKernelList' \in Seq(KernelInfo)
        /\ DOMAIN parsedKernelList' = DOMAIN parsedKernelList
        /\ Len(parsedKernelList') = Len(parsedKernelList)
        /\ \A i \in DOMAIN parsedKernelList :
              parsedKernelList'[i] = IF i = k THEN info ELSE parsedKernelList[i]
    BY <1>1, <1>3, <2>1, <2>2 DEF info
  <2>4. NodesKnowTheirLoop'
    BY <1>1, <2>2, <2>3 DEF Recorded, NodesKnowTheirLoop, KnowsItsLoop
  <2>5. CurrentLoopsOwn'
    BY <1>1, <2>1, <2>2, <2>3 DEF Recorded, CurrentLoopsOwn, OwnLoop
  <2>6. NodesOfKernels'
    BY <1>1, <2>3 DEF NodesOfKernels
  <2> QED
    BY <1>1, <2>3, <2>4, <2>5, <2>6 DEF ApplyInv, Recorded
<1> QED
  BY <1>2, <1>3

LEMMA ApplyStart == ApplyInit => ApplyInv
<1> SUFFICES ASSUME ApplyInit PROVE ApplyInv
  OBVIOUS
<1>1. SemaInv
  BY InitInv DEF ApplyInit
<1>2. NodesOfKernels
  BY DEF ApplyInit, Init, NodesOfKernels
<1> QED
  BY <1>1, <1>2, WalkRecords DEF ApplyInv

LEMMA ApplyStep == ApplyInv /\ [ApplyNext]_allVars => ApplyInv'
<1> SUFFICES ASSUME ApplyInv, [ApplyNext]_allVars PROVE ApplyInv'
  OBVIOUS
<1>1. CASE Walk
  <2>1. SemaInv /\ Next
    BY <1>1 DEF Walk, ApplyInv
  <2>2. SemaInv'
    BY <2>1, NextKeepsInv
  <2>3. Recorded'
    BY <2>2, WalkRecords, PTL
  <2> QED
    BY <2>1, <2>2, <2>3, WalkKeepsNodesOfKernels DEF ApplyInv
<1>2. CASE UNCHANGED <<nodes, loops, parsedKernelList>> /\ pass' # "sema"
  BY <1>2 DEF ApplyInv, Recorded, NodesOfKernels, NodesKnowTheirLoop, KnowsItsLoop,
              CurrentLoopsOwn, OwnLoop
<1>3. CASE SetContext /\ next \in DOMAIN nodes /\ pass' # "sema"
  BY <1>3, ContextKeepsInv DEF ApplyInv
<1>4. WalkFailed \/ WalkDone \/ DeviceDone \/ LauncherDone
          => UNCHANGED <<nodes, loops, parsedKernelList>> /\ pass' # "sema"
  BY DEF WalkFailed, WalkDone, DeviceDone, LauncherDone, PassFails, vars, semaVars
<1>5. ApplyDecl \/ RejectDecl \/ ApplyUse \/ ApplyLoop \/ ApplyKernel \/ RejectKernel
        \/ LaunchKernel \/ LaunchOther
          => SetContext /\ next \in DOMAIN nodes /\ pass' # "sema"
  BY DEF ApplyDecl, RejectDecl, ApplyUse, ApplyLoop, ApplyKernel, RejectKernel,
         LaunchKernel, LaunchOther, AtNode, Advance, PassFails
<1>6. CASE UNCHANGED allVars
  <2>1. UNCHANGED <<nodes, loops, parsedKernelList, pass, parsingKernInfo, function,
                    openFors, status>>
    BY <1>6 DEF allVars, vars, walkVars, semaVars, applyVars
  <2>2. pass = "sema" => SemaInv'
    <3> SUFFICES ASSUME SemaInv PROVE SemaInv'
      BY DEF ApplyInv
    <3>1. UNCHANGED vars
      BY <1>6 DEF allVars
    <3> QED
      BY <3>1, NextKeepsInv
  <2> QED
    BY <2>1, <2>2 DEF ApplyInv, Recorded, NodesOfKernels, NodesKnowTheirLoop, KnowsItsLoop,
                      CurrentLoopsOwn, OwnLoop
<1> QED
  BY <1>1, <1>2, <1>3, <1>4, <1>5, <1>6 DEF ApplyNext, Apply

\* For every program: whatever was transpiled before it, the handler of a node
\* sees the loop that the node stands in, and never one of another kernel, in
\* the device pass and in the launcher pass.
THEOREM HandlersSeeRecordedLoop == ApplySpec => []HandlersSeeTheirLoop
<1>1. ApplyInv => HandlersSeeTheirLoop
  BY ActiveLoopIsKnown DEF ApplyInv, HandlersSeeTheirLoop, OwnLoop
<1> QED
  BY <1>1, ApplyStart, ApplyStep, PTL DEF ApplySpec

-----------------------------------------------------------------------------
(* What the passes find when they begin, and do not change.                *)

AfterWalk ==
    /\ loops \in Seq(Loop)
    /\ IsTree(loops)
    /\ openFors = <<>>
    /\ LoopsAreLegal
    /\ LoopsInSourceOrder
    /\ LoopNodesFollow

SourceInv ==
    /\ pass = "sema" => OrderInv
    /\ pass \in {"device", "launcher", "done"} => AfterWalk

\* A step of a pass: the loops and nodes stay as the walk has left them.
LEMMA PassKeepsSource ==
    ASSUME ApplyNext, ~Walk
    PROVE  UNCHANGED <<loops, nodes, openFors>>
BY DEF ApplyNext, Apply, WalkFailed, WalkDone, ApplyDecl, RejectDecl, ApplyUse, ApplyLoop, ApplyKernel,
       RejectKernel, DeviceDone, LaunchKernel, LaunchOther, LauncherDone, SetContext, walkVars, vars, semaVars

LEMMA SourceStart == ApplyInit => SourceInv
BY OrderStart DEF ApplyInit, SourceInv

LEMMA SourceStep == ApplyInv /\ SourceInv /\ [ApplyNext]_allVars /\ ApplyInv' => SourceInv'
<1> SUFFICES ASSUME ApplyInv, SourceInv, [ApplyNext]_allVars, ApplyInv' PROVE SourceInv'
  OBVIOUS
<1>1. CASE Walk
  <2>1. SemaInv' /\ pass = "sema" /\ pass' = "sema" /\ Next
    BY <1>1 DEF Walk, ApplyInv, applyVars
  <2>2. OrderInv'
    BY <2>1, OrderStep DEF SourceInv
  <2>3. QED
    BY <2>1, <2>2 DEF SourceInv
<1>2. ASSUME UNCHANGED <<loops, nodes, openFors>>, AfterWalk PROVE AfterWalk'
  BY <1>2 DEF AfterWalk, LoopsAreLegal, LoopsInSourceOrder, LoopNodesFollow, IsLoopNode, StandsIn,
              Open, IsPlain
<1>3. CASE WalkDone
  <2>1. OrderInv /\ status = "done" /\ pass' = "device" /\ UNCHANGED vars
    BY <1>3 DEF WalkDone, SourceInv
  <2>2. AfterWalk
    BY <2>1, LoopsAreATree, SemaFacts DEF OrderInv, DoneIsOutside, AfterWalk
  <2>3. QED
    BY <1>2, <2>1, <2>2 DEF SourceInv, vars, walkVars, semaVars
<1>4. CASE ApplyNext /\ ~Walk /\ ~WalkDone
  <2>1. pass' # "sema" /\ (pass' = "failed" \/ pass \in {"device", "launcher", "done"})
    BY <1>4 DEF ApplyNext, Apply, WalkFailed, ApplyDecl, RejectDecl, ApplyUse, ApplyLoop,
                ApplyKernel, RejectKernel, DeviceDone, LaunchKernel, LaunchOther, LauncherDone,
                Advance, PassFails
  <2>2. QED
    BY <1>2, <1>4, <2>1, PassKeepsSource DEF SourceInv
<1>5. CASE UNCHANGED allVars
  <2>1. UNCHANGED <<pass, vars>>
    BY <1>5 DEF allVars, applyVars
  <2>2. pass = "sema" => OrderInv'
    BY <2>1, OrderStep DEF SourceInv, ApplyInv
  <2>3. QED
    BY <1>2, <2>1, <2>2 DEF SourceInv, vars, walkVars, semaVars
<1>6. QED
  BY <1>1, <1>3, <1>4, <1>5

-----------------------------------------------------------------------------
(* Barriers.                                                               *)

\* A highest @inner loop with more to run after it in the same @outer loop
\* passes the tests of shouldSync that are about its place: when it is the
\* last child of an @outer loop, no later loop belongs to that one.
LEMMA PlaceIsSynced ==
    ASSUME AfterWalk, NEW l \in DOMAIN loops, NEW S, l \in S,
           loops[l].type \in {<<"Inner">>, <<"Inner", "Inner">>},
           HighestInner(l), MoreToRun(l)
    PROVE  ShouldSync(l, S)
<1> DEFINE p == loops[l].parent
           o == AttributedParent(loops, l)
<1>0. IsTree(loops) /\ LoopsAreLegal /\ LoopsInSourceOrder /\ loops \in Seq(Loop)
  BY DEF AfterWalk
<1>1. Ancestors(loops, l) = IF p = 0 THEN {} ELSE {p} \cup Ancestors(loops, p)
  BY <1>0, AncestorsAreDefined
<1>2. o # 0 /\ o \in Ancestors(loops, l) /\ Attributed(loops, o)
      /\ \A a \in Ancestors(loops, l) : Attributed(loops, a) => a <= o
  BY <1>0, AttributedParentIsAround DEF MoreToRun
<1>3. /\ p # 0 /\ p \in Ancestors(loops, l) /\ p \in DOMAIN loops /\ p \in Nat
      /\ Ancestors(loops, p) \subseteq 1..p - 1
      /\ ~Has(loops[p].type, "Inner")
  <2>1. p # 0 /\ p \in Ancestors(loops, l)
    BY <1>1, <1>2
  <2>2. p \in DOMAIN loops /\ ~Has(loops[p].type, "Inner")
    BY <1>0, <2>1, AncestorsAreTransitive DEF HighestInner
  <2> HIDE DEF p
  <2>3. p \in Nat
    BY <1>0, <2>2 DEF IsTree
  <2>4. QED
    BY <1>0, <2>1, <2>2, <2>3, AncestorsAreEarlier
<1>4. ASSUME Last(loops[p].type) = "Outer", l = Max(Children(loops, p)) PROVE FALSE
  <2>1. Attributed(loops, p)
    <3>1. loops[p].type \in Seq(LoopType) /\ Len(loops[p].type) \in 1..2
      BY <1>0, <1>3, LoopFields, LoopKindsAssumption DEF LoopsAreLegal
    <3>2. \A s \in Seq(LoopType) : Len(s) \in 1..2 => Len(s) \in DOMAIN s
      OBVIOUS
    <3>3. QED
      BY <1>4, <3>1, <3>2 DEF Last, Attributed, IsRegular
  <2>2. o = p
    <3>1. p <= o
      BY <1>2, <1>3, <2>1
    <3> HIDE DEF o, p
    <3>2. QED
      BY <1>1, <1>2, <1>3, <3>1
  <2>3. PICK m \in DOMAIN loops : m > l /\ ~Within(m, l) /\ AttributedParent(loops, m) = p
    BY <1>4, <2>2 DEF MoreToRun
  <2>4. p \in Ancestors(loops, m)
    BY <1>0, <1>3, <2>3, AttributedParentIsAround
  <2>5. PICK c \in Children(loops, p) : c = m \/ c \in Ancestors(loops, m)
    BY <1>0, <2>4, ChildToward
  <2>6. c \in DOMAIN loops /\ loops[c].parent = p /\ c \in Nat /\ l \in Nat /\ m \in Nat
    BY <1>0, <2>5 DEF Children, IsTree
  <2>7. p < c
    BY <1>0, <1>3, <2>6 DEF IsTree
  <2>8. c <= l
    <3>1. Children(loops, p) \subseteq 0..Len(loops) /\ Len(loops) \in Nat
      BY <1>0 DEF Children, IsTree
    <3>2. c <= Max(Children(loops, p))
      BY <2>5, <3>1, MaxIsGreatest
    <3>3. QED
      BY <1>4, <3>2
  <2>9. c # l
    BY <2>3, <2>5 DEF Within
  <2>10. c < l /\ l < m /\ c \in Ancestors(loops, m)
    BY <2>3, <2>5, <2>6, <2>8, <2>9
  <2>11. c \in Ancestors(loops, l)
    BY <1>0, <2>6, <2>10 DEF LoopsInSourceOrder
  <2> HIDE DEF p
  <2>12. QED
    BY <1>1, <1>3, <2>6, <2>7, <2>11
<1>5. QED
  BY <1>3, <1>4 DEF ShouldSync

Synced(l) == loops[l].type \in {<<"Inner">>, <<"Inner", "Inner">>} /\ NeedsSync(l)

UsesAreMarked ==
    \A n \in DOMAIN nodes : n < next /\ nodes[n].attr \in SyncedUses =>
        \A l \in DOMAIN loops : StandsIn(n, l) /\ ~loops[l].attr.nobarrier => l \in used["shared"]

LoopsAreSynced ==
    \A n \in DOMAIN nodes : n < next =>
        \A l \in DOMAIN loops : IsLoopNode(n, l) /\ Synced(l) => l \in barriers

SyncInv ==
    /\ next \in Nat
    /\ used = [m \in Memory |-> used[m]]
    /\ pass = "sema" => next = 1 /\ barriers = {}
    /\ pass = "device" => UsesAreMarked /\ LoopsAreSynced
    /\ SharedUseIsSynced
    /\ NobarrierIsKept

\* The handler of a loop finds the flag that the uses inside have left.
LEMMA LoopIsSynced ==
    ASSUME AfterWalk, SyncInv, pass = "device", next \in DOMAIN nodes,
           NEW l \in DOMAIN loops, IsLoopNode(next, l), Synced(l)
    PROVE  ~loops[l].attr.nobarrier /\ ShouldSync(l, used["shared"])
<1>1. PICK n \in DOMAIN nodes : nodes[n].attr \in SyncedUses /\ StandsIn(n, l)
  BY DEF Synced, NeedsSync, UsedInside, Within, StandsIn
<1>2. n < next
  BY <1>1 DEF AfterWalk, LoopNodesFollow, SyncedUses
<1>3. l \in used["shared"]
  BY <1>1, <1>2 DEF SyncInv, UsesAreMarked, Synced, NeedsSync
<1>4. QED
  BY <1>3, PlaceIsSynced DEF Synced, NeedsSync

\* What a step of the device pass does to flags and barriers.
LEMMA UseMarks ==
    ASSUME ApplyInv, AfterWalk, SyncInv, ApplyUse
    PROVE  UsesAreMarked'
<1>1. /\ UNCHANGED <<loops, nodes>> /\ next' = next + 1
      /\ next \in DOMAIN nodes /\ TheNode = nodes[next]
      /\ used' = IF ActiveLoop = 0 THEN used
                 ELSE [used EXCEPT ![MarkedBy(TheNode.attr)] = @ \cup MarkUsed(ActiveLoop)]
  BY DEF ApplyUse, SetContext, Advance, AtNode, TheNode
<1>2. UsesAreMarked /\ next \in Nat /\ used = [m \in Memory |-> used[m]]
  BY DEF SyncInv, ApplyUse
<1>3. used["shared"] \subseteq used'["shared"]
  BY <1>1, <1>2 DEF Memory
<1>4. ASSUME nodes[next].attr \in SyncedUses, NEW l \in DOMAIN loops, StandsIn(next, l)
      PROVE  l \in used'["shared"]
  <2>1. ActiveLoop = nodes[next].scope /\ nodes[next].scope # 0
    BY <1>1, <1>4, ActiveLoopIsKnown DEF ApplyInv, StandsIn
  <2>2. l \in MarkUsed(ActiveLoop)
    BY <1>4, <2>1 DEF StandsIn, MarkUsed
  <2>3. MarkedBy(TheNode.attr) = "shared"
    BY <1>1, <1>4 DEF MarkedBy, SyncedUses
  <2>4. used'["shared"] = used["shared"] \cup MarkUsed(ActiveLoop)
    BY <1>1, <1>2, <2>1, <2>3 DEF Memory
  <2>5. QED
    BY <2>2, <2>4
<1>5. \A n \in DOMAIN nodes : n < next' <=> n < next \/ n = next
  BY <1>1, <1>2 DEF AfterWalk, ApplyInv, Recorded
<1>6. QED
  BY <1>1, <1>2, <1>3, <1>4, <1>5 DEF UsesAreMarked, StandsIn

LEMMA LoopSyncs ==
    ASSUME ApplyInv, AfterWalk, SyncInv, ApplyLoop
    PROVE  UsesAreMarked' /\ LoopsAreSynced' /\ NobarrierIsKept'
<1> DEFINE s == TheNode.stmt
<1>0. /\ UsesAreMarked /\ LoopsAreSynced /\ NobarrierIsKept /\ next \in Nat /\ pass = "device"
      /\ used = [m \in Memory |-> used[m]]
  BY DEF SyncInv, ApplyLoop
<1>1. /\ UNCHANGED <<loops, nodes>> /\ next' = next + 1
      /\ next \in DOMAIN nodes /\ TheNode = nodes[next] /\ TheNode.attr = "loop"
  BY DEF ApplyLoop, SetContext, Advance, AtNode, TheNode
<1>2. s \in DOMAIN loops /\ parsedKernelList[TheNode.ki].loopMap[s] = s
  BY <1>1 DEF ApplyInv, Recorded, NodesKnowTheirLoop, KnowsItsLoop
<1> DEFINE quiet(first) == used["shared"] \ (IF loops[s].attr.nobarrier /\ NobarrierSeen(s, first)
                                             THEN {s} ELSE {})
<1>3. /\ \E first \in BOOLEAN : barriers' = IF ShouldSync(s, quiet(first)) THEN barriers \cup {s} ELSE barriers
      /\ used' = IF loops[s].attr.nobarrier THEN [used EXCEPT !["shared"] = @ \ {s}] ELSE used
  BY <1>2 DEF ApplyLoop
<1> HIDE DEF s
<1>4. \A n \in DOMAIN nodes : n < next' <=> n < next \/ n = next
  BY <1>0, <1>1 DEF ApplyInv, Recorded
<1>5. UsesAreMarked'
  <2>1. \A n \in DOMAIN nodes : nodes[n].attr \in SyncedUses => n # next
    BY <1>1 DEF SyncedUses
  <2>2. \A l \in DOMAIN loops : ~loops[l].attr.nobarrier /\ l \in used["shared"] => l \in used'["shared"]
    BY <1>0, <1>3 DEF Memory
  <2>3. QED
    BY <1>0, <1>1, <1>4, <2>1, <2>2 DEF UsesAreMarked, StandsIn
<1>6. LoopsAreSynced'
  <2>1. barriers \subseteq barriers'
    BY <1>3
  <2>2. ASSUME NEW l \in DOMAIN loops, IsLoopNode(next, l), Synced(l) PROVE l \in barriers'
    <3>1. l = s
      BY <1>1, <2>2 DEF IsLoopNode, s
    <3>2. ~loops[l].attr.nobarrier /\ ShouldSync(l, used["shared"])
      BY <1>0, <1>1, <2>2, LoopIsSynced
    <3>3. QED
      BY <1>3, <3>1, <3>2
  <2>3. \A l : Synced(l)' <=> Synced(l)
    BY <1>1 DEF Synced, NeedsSync, HighestInner, UsedInside, MoreToRun, Within
  <2>4. QED
    BY <1>0, <1>1, <1>4, <2>1, <2>2, <2>3 DEF LoopsAreSynced, IsLoopNode
<1>7. NobarrierIsKept'
  <2>1. ASSUME s \in barriers', s \notin barriers, loops[s].attr.nobarrier PROVE Len(loops[s].type) = 2
    <3>1. PICK first \in BOOLEAN : ShouldSync(s, quiet(first))
      BY <1>3, <2>1
    <3>2. s \in quiet(first) /\ loops[s].type \in {<<"Inner">>, <<"Inner", "Inner">>}
      BY <3>1 DEF ShouldSync
    <3>3. loops[s].type # <<"Inner">>
      BY <2>1, <3>2 DEF NobarrierSeen
    <3>4. QED
      BY <3>2, <3>3
  <2>2. \A l \in barriers' : l \in barriers \/ l = s
    BY <1>3
  <2>3. QED
    BY <1>0, <1>1, <2>1, <2>2 DEF NobarrierIsKept
<1>8. QED
  BY <1>5, <1>6, <1>7

\* At the end of the device pass every loop has been met.
LEMMA DoneIsSynced ==
    ASSUME ApplyInv, AfterWalk, SyncInv, pass = "device", next > Len(nodes)
    PROVE  \A l \in DOMAIN loops : Synced(l) => l \in barriers
<1> SUFFICES ASSUME NEW l \in DOMAIN loops, Synced(l) PROVE l \in barriers
  OBVIOUS
<1>1. loops[l].type = loops[l].attr.type /\ loops[l].type \in {<<"Inner">>, <<"Inner", "Inner">>}
  BY DEF Synced, AfterWalk, LoopsAreLegal
<1>2. ~IsPlain(l)
  BY <1>1 DEF IsPlain, PlainFor
<1>3. l \in DOMAIN loops \ Open
  BY DEF AfterWalk, Open, ToSet
<1>4. PICK n \in DOMAIN nodes : IsLoopNode(n, l)
  BY <1>2, <1>3 DEF AfterWalk, LoopNodesFollow
<1>5. n < next
  BY <1>4 DEF ApplyInv, Recorded, SyncInv
<1>6. QED
  BY <1>4, <1>5 DEF SyncInv, LoopsAreSynced

LEMMA SyncStart == ApplyInit => SyncInv
BY DEF ApplyInit, SyncInv, DevicePassed, SharedUseIsSynced, NobarrierIsKept

LEMMA SyncStep == ApplyInv /\ SourceInv /\ SyncInv /\ [ApplyNext]_allVars => SyncInv'
<1> SUFFICES ASSUME ApplyInv, SourceInv, SyncInv, [ApplyNext]_allVars PROVE SyncInv'
  OBVIOUS
<1> USE DEF Synced
<1>0. /\ next \in Nat /\ used = [m \in Memory |-> used[m]] /\ SharedUseIsSynced /\ NobarrierIsKept
      /\ pass = "sema" => next = 1 /\ barriers = {}
      /\ pass = "device" => UsesAreMarked /\ LoopsAreSynced
      /\ pass \in {"device", "launcher", "done"} => AfterWalk
  BY DEF SyncInv, SourceInv
<1>14. \A n \in DOMAIN nodes : n \in Nat /\ 1 <= n
  BY DEF ApplyInv, Recorded
<1>1. \A l : UNCHANGED <<loops, nodes>> => (NeedsSync(l)' <=> NeedsSync(l))
  BY DEF NeedsSync, HighestInner, UsedInside, MoreToRun, Within
<1>2. CASE Walk
  <2>1. UNCHANGED applyVars /\ pass = "sema"
    BY <1>2 DEF Walk
  <2>2. QED
    BY <1>0, <2>1 DEF applyVars, SyncInv, DevicePassed, SharedUseIsSynced, NobarrierIsKept
<1>3. CASE UNCHANGED <<loops, nodes, barriers, used, next, pass>>
  BY <1>0, <1>1, <1>3 DEF SyncInv, DevicePassed, SharedUseIsSynced, NobarrierIsKept, UsesAreMarked,
                          LoopsAreSynced, IsLoopNode, StandsIn
<1>4. CASE UNCHANGED <<loops, nodes, barriers, used, next>> /\ pass' = "failed"
  BY <1>0, <1>4 DEF SyncInv, DevicePassed, SharedUseIsSynced, NobarrierIsKept
<1>5. CASE WalkDone
  <2>1. UNCHANGED <<loops, nodes, barriers, used, next>> /\ pass = "sema" /\ pass' = "device"
    BY <1>5 DEF WalkDone, vars, semaVars
  <2>2. \A n \in DOMAIN nodes : ~(n < next)
    BY <1>0, <1>14, <2>1
  <2>3. UsesAreMarked' /\ LoopsAreSynced'
    BY <2>1, <2>2 DEF UsesAreMarked, LoopsAreSynced
  <2>4. QED
    BY <1>0, <2>1, <2>3 DEF SyncInv, DevicePassed, SharedUseIsSynced, NobarrierIsKept
<1>6. CASE ApplyDecl \/ ApplyKernel
  <2>1. /\ UNCHANGED <<loops, nodes, barriers, used, pass>>
        /\ next' = next + 1
        /\ pass = "device"
        /\ next \in DOMAIN nodes
        /\ nodes[next].attr \notin SyncedUses
        /\ nodes[next].attr # "loop"
    BY <1>6 DEF ApplyDecl, ApplyKernel, SetContext, Advance, AtNode, TheNode, Decls, TypeDecls, SyncedUses
  <2>6. next \in Nat /\ next' = next + 1 /\ \A n \in DOMAIN nodes : n \in Nat
    BY <1>0, <1>14, <2>1
  <2>2. \A n \in DOMAIN nodes : n < next' <=> n < next \/ n = next
    BY <2>6
  <2>3. UsesAreMarked' /\ LoopsAreSynced'
    BY <1>0, <1>1, <2>1, <2>2 DEF UsesAreMarked, LoopsAreSynced, IsLoopNode, StandsIn
  <2>7. next' \in Nat
    BY <2>6
  <2>4. next' \in Nat /\ pass' = "device"
    BY <2>1, <2>7
  <2>5. QED
    BY <1>0, <2>1, <2>3, <2>4 DEF SyncInv, DevicePassed, SharedUseIsSynced, NobarrierIsKept
<1>7. CASE ApplyUse
  <2>1. /\ UNCHANGED <<loops, nodes, barriers, pass>> /\ next' = next + 1 /\ pass = "device"
        /\ next \in DOMAIN nodes /\ nodes[next].attr # "loop"
        /\ used' = used \/ used' = [used EXCEPT ![MarkedBy(TheNode.attr)] = @ \cup MarkUsed(ActiveLoop)]
    BY <1>7 DEF ApplyUse, SetContext, Advance, AtNode, TheNode
  <2>2. UsesAreMarked'
    BY <1>0, <1>7, <2>1, UseMarks
  <2>3. \A n \in DOMAIN nodes : n < next' <=> n < next \/ n = next
    BY <1>0, <2>1 DEF ApplyInv, Recorded
  <2>4. LoopsAreSynced'
    BY <1>0, <1>1, <2>1, <2>3 DEF LoopsAreSynced, IsLoopNode
  <2>5. used' = [m \in Memory |-> used'[m]]
    BY <1>0, <2>1
  <2>6. QED
    BY <1>0, <2>1, <2>2, <2>4, <2>5 DEF SyncInv, DevicePassed, SharedUseIsSynced, NobarrierIsKept
<1>8. CASE ApplyLoop
  <2>1. /\ UNCHANGED <<loops, nodes, pass>> /\ next' = next + 1 /\ pass = "device"
        /\ used' = used \/ \E S : used' = [used EXCEPT !["shared"] = S]
    BY <1>8 DEF ApplyLoop, SetContext, Advance
  <2>2. UsesAreMarked' /\ LoopsAreSynced' /\ NobarrierIsKept'
    BY <1>0, <1>8, <2>1, LoopSyncs
  <2>3. used' = [m \in Memory |-> used'[m]]
    BY <1>0, <2>1
  <2>4. QED
    BY <1>0, <2>1, <2>2, <2>3 DEF SyncInv, DevicePassed, SharedUseIsSynced
<1>9. CASE DeviceDone /\ pass' = "launcher"
  <2>1. UNCHANGED <<loops, nodes, barriers, used>> /\ next' = 1 /\ pass = "device" /\ next > Len(nodes)
    BY <1>9 DEF DeviceDone, PassFails, vars, semaVars
  <2>2. SharedUseIsSynced'
    BY <1>0, <1>1, <2>1, DoneIsSynced DEF SharedUseIsSynced
  <2>3. QED
    BY <1>0, <1>9, <2>1, <2>2 DEF SyncInv, NobarrierIsKept
<1>10. CASE LaunchKernel \/ LaunchOther \/ LauncherDone
  <2>1. /\ UNCHANGED <<loops, nodes, barriers>> /\ next' \in {next, next + 1}
        /\ pass = "launcher" /\ pass' \in {"launcher", "done"}
        /\ used' = used \/ \E S : used' = [used EXCEPT !["shared"] = S]
    BY <1>10 DEF LaunchKernel, LaunchOther, LauncherDone, SetContext, Advance, vars, semaVars
  <2>2. SharedUseIsSynced'
    BY <1>0, <1>1, <2>1 DEF SharedUseIsSynced, DevicePassed
  <2>3. used' = [m \in Memory |-> used'[m]]
    BY <1>0, <2>1
  <2>4. QED
    BY <1>0, <2>1, <2>2, <2>3 DEF SyncInv, NobarrierIsKept
<1>11. WalkFailed \/ RejectDecl \/ RejectKernel \/ (DeviceDone /\ pass' # "launcher")
           => UNCHANGED <<loops, nodes, barriers, used, next>> /\ pass' = "failed"
  BY DEF WalkFailed, RejectDecl, RejectKernel, DeviceDone, SetContext, PassFails, vars, semaVars
<1>12. UNCHANGED allVars => UNCHANGED <<loops, nodes, barriers, used, next, pass>>
  BY DEF allVars, applyVars, vars, semaVars
<1>13. QED
  BY <1>2, <1>3, <1>4, <1>5, <1>6, <1>7, <1>8, <1>9, <1>10, <1>11, <1>12 DEF ApplyNext, Apply

-----------------------------------------------------------------------------
(* Declarations.                                                           *)

\* Around a loop that is @outer, an @inner loop is cut off by a plain one:
\* each loop was only compared with its parent.
LEMMA InnerIsCutOff ==
    ASSUME AfterWalk
    PROVE  \A d \in DOMAIN loops : Has(loops[d].type, "Outer") =>
              \A a \in Ancestors(loops, d) : Has(loops[a].type, "Inner") =>
                  \E r \in Ancestors(loops, d) : ~Attributed(loops, r) /\ a \in Ancestors(loops, r)
<1> DEFINE S == {d \in DOMAIN loops : Has(loops[d].type, "Outer") =>
                    \A a \in Ancestors(loops, d) : Has(loops[a].type, "Inner") =>
                        \E r \in Ancestors(loops, d) :
                            ~Attributed(loops, r) /\ a \in Ancestors(loops, r)}
<1>0. IsTree(loops) /\ LoopsAreLegal /\ loops \in Seq(Loop)
  BY DEF AfterWalk
<1>1. ASSUME NEW d \in DOMAIN loops, loops[d].parent # 0 => loops[d].parent \in S PROVE d \in S
  <2> DEFINE p == loops[d].parent
  <2>1. Ancestors(loops, d) = IF p = 0 THEN {} ELSE {p} \cup Ancestors(loops, p)
    BY <1>0, AncestorsAreDefined
  <2>2. CASE p = 0
    BY <2>1, <2>2
  <2>3. ASSUME p # 0, Has(loops[d].type, "Outer"),
               NEW a \in Ancestors(loops, d), Has(loops[a].type, "Inner")
        PROVE  \E r \in Ancestors(loops, d) : ~Attributed(loops, r) /\ a \in Ancestors(loops, r)
    <3>1. p \in S /\ p \in DOMAIN loops
      BY <1>1, <2>3
    <3>2. IsRegular(loops[p].type) \/ (Has(loops[p].type, "Outer") /\ ~Has(loops[p].type, "Inner"))
      BY <1>0, <2>3, <3>1, LoopFields, OuterInOuter DEF LoopsAreLegal
    <3>3. a # p
      BY <2>3, <3>2 DEF Has, IsRegular
    <3>4. a \in Ancestors(loops, p)
      BY <2>1, <2>3, <3>3
    <3>5. CASE IsRegular(loops[p].type)
      BY <2>1, <2>3, <3>4, <3>5 DEF Attributed
    <3>6. CASE Has(loops[p].type, "Outer")
      <4>1. \E r \in Ancestors(loops, p) : ~Attributed(loops, r) /\ a \in Ancestors(loops, r)
        BY <2>3, <3>1, <3>4, <3>6
      <4>2. QED
        BY <2>1, <2>3, <4>1
    <3>7. QED
      BY <3>2, <3>5, <3>6
  <2>4. QED
    BY <2>2, <2>3
<1> HIDE DEF S
<1>2. \A d \in DOMAIN loops : d \in S
  BY <1>0, <1>1, TreeInduction
<1>3. QED
  BY <1>2 DEF S

\* The loop the handler looks at is the nearest attributed one, if there is one.
LEMMA DeclLoopIsNearest ==
    ASSUME AfterWalk, NEW n \in DOMAIN nodes, nodes[n].scope \in DOMAIN loops
    PROVE  \/ DeclLoop(nodes[n].scope) = 0 /\ AttributedAround(n) = {}
           \/ /\ DeclLoop(nodes[n].scope) # 0
              /\ DeclLoop(nodes[n].scope) = NearestAround(n)
              /\ DeclLoop(nodes[n].scope) \in DOMAIN loops
              /\ DeclLoop(nodes[n].scope) \in AttributedAround(n)
              /\ \A a \in AttributedAround(n) :
                     a # DeclLoop(nodes[n].scope) => a \in Ancestors(loops, DeclLoop(nodes[n].scope))
<1> DEFINE s      == nodes[n].scope
           d      == DeclLoop(s)
           around == {a \in {s} \cup Ancestors(loops, s) : Attributed(loops, a)}
<1>0. /\ IsTree(loops)
      /\ s \in DOMAIN loops /\ s \in Nat /\ s # 0
      /\ Ancestors(loops, s) \subseteq 1..s - 1
  <2>1. IsTree(loops) /\ s \in DOMAIN loops
    BY DEF AfterWalk
  <2> HIDE DEF s
  <2>2. Len(loops) \in Nat /\ DOMAIN loops = 1..Len(loops)
    BY <2>1 DEF IsTree
  <2>3. s \in Nat /\ s # 0
    BY <2>1, <2>2
  <2>4. QED
    BY <2>1, <2>3, AncestorsAreEarlier
<1>1. ASSUME d = 0 PROVE around = {}
  <2>1. IsRegular(loops[s].type)
    BY <1>0, <1>1 DEF DeclLoop
  <2>2. AttributedParent(loops, s) = 0 /\ ~Attributed(loops, s)
    BY <1>0, <1>1, <2>1 DEF DeclLoop, Attributed
  <2> DEFINE A == {a \in Ancestors(loops, s) : Attributed(loops, a)}
  <2>3. ASSUME A # {} PROVE FALSE
    <3>1. Max(A) = 0
      BY <2>2, <2>3 DEF AttributedParent
    <3>2. A \subseteq 0..s /\ A \subseteq 1..s - 1
      BY <1>0
    <3>3. Max(A) \in A
      BY <1>0, <2>3, <3>2, MaxIsGreatest
    <3>4. QED
      BY <3>1, <3>2, <3>3
  <2>4. QED
    BY <2>2, <2>3
<1>2. ASSUME d # 0
      PROVE  /\ d \in around /\ d \in DOMAIN loops /\ (\A a \in around : a <= d)
             /\ \A a \in around : a # d => a \in Ancestors(loops, d)
  <2>1. CASE IsRegular(loops[s].type)
    <3>1. d = AttributedParent(loops, s) /\ ~Attributed(loops, s)
      BY <1>0, <2>1 DEF DeclLoop, Attributed
    <3>2. /\ d \in Ancestors(loops, s) /\ Attributed(loops, d)
          /\ \A a \in Ancestors(loops, s) : Attributed(loops, a) => a <= d
      BY <1>0, <1>2, <3>1, AttributedParentIsAround
    <3>3. d \in DOMAIN loops
      BY <1>0, <3>2, AncestorsAreTransitive
    <3>4. \A a \in around : a \in Ancestors(loops, s) /\ a <= d
      BY <3>1, <3>2
    <3>5. \A a \in around : a # d => a < d
      BY <1>0, <3>2, <3>4
    <3>6. \A a \in around : a # d => a \in Ancestors(loops, d)
      BY <1>0, <3>2, <3>4, <3>5, AncestorsAreAChain
    <3>7. QED
      BY <3>2, <3>3, <3>4, <3>6
  <2>2. CASE ~IsRegular(loops[s].type)
    <3>1. d = s /\ Attributed(loops, s)
      BY <2>2 DEF DeclLoop, Attributed
    <3>2. \A a \in Ancestors(loops, s) : a <= s
      BY <1>0
    <3>3. QED
      BY <1>0, <3>1, <3>2
  <2>3. QED
    BY <2>1, <2>2
<1>3. ASSUME d # 0 PROVE Max(around) = d
  <2>1. around \subseteq 0..s /\ around # {}
    BY <1>0, <1>2, <1>3
  <2>2. Max(around) \in around /\ \A a \in around : a <= Max(around)
    BY <1>0, <2>1, MaxIsGreatest
  <2>3. Max(around) \in Nat /\ d \in Nat /\ Max(around) <= d /\ d <= Max(around)
    BY <1>0, <1>2, <1>3, <2>1, <2>2
  <2>4. QED
    BY <2>3
<1>4. AttributedAround(n) = around /\ NearestAround(n) = Max(around)
  BY DEF AttributedAround, NearestAround
<1> HIDE DEF around, d
<1>5. CASE d = 0
  BY <1>1, <1>4, <1>5 DEF d
<1>6. CASE d # 0
  BY <1>2, <1>3, <1>4, <1>6 DEF d
<1>7. QED
  BY <1>5, <1>6

\* What the handler accepts is placed as the property says: an attributed loop
\* that is not @inner is @outer, and the child it finds is inside.
LEMMA AllowedIsPlaced ==
    ASSUME AfterWalk, NEW n \in DOMAIN nodes, nodes[n].scope \in DOMAIN loops,
           DeclAllowed(nodes[n].attr, DeclLoop(nodes[n].scope))
    PROVE  IsPlaced(n)
<1>0. PICK d : d = DeclLoop(nodes[n].scope)
  OBVIOUS
<1>1. /\ OutOfInner(d)
      /\ nodes[n].attr \in TypeDecls \/ BetweenOuterAndInner(d)
  BY <1>0 DEF DeclAllowed
<1>2. \/ d = 0 /\ AttributedAround(n) = {}
      \/ /\ d # 0 /\ d = NearestAround(n) /\ d \in DOMAIN loops /\ d \in AttributedAround(n)
         /\ \A a \in AttributedAround(n) : a # d => a \in Ancestors(loops, d)
  BY <1>0, DeclLoopIsNearest
<1>3. CASE d = 0
  <2>1. AttributedAround(n) = {} /\ nodes[n].attr \in TypeDecls
    BY <1>1, <1>2, <1>3 DEF BetweenOuterAndInner
  <2>2. QED
    BY <2>1 DEF IsPlaced, IsOutOfInner
<1>4. CASE d # 0
  <2>1. ~Has(loops[d].type, "Inner") /\ Attributed(loops, d)
    BY <1>1, <1>2, <1>4 DEF OutOfInner, AttributedAround
  <2>2. Has(loops[d].type, "Outer")
    <3>1. loops \in Seq(Loop)
      BY DEF AfterWalk
    <3>2. loops[d].type \in Seq(LoopType)
      BY <1>2, <1>4, <3>1, LoopFields
    <3>3. \A k \in DOMAIN loops[d].type : loops[d].type[k] \in LoopType
      BY <3>2
    <3>4. QED
      BY <2>1, <3>3 DEF Attributed, IsRegular, Has, LoopType
  <2>3. \A a \in AttributedAround(n) : Has(loops[a].type, "Inner") =>
            \E r \in Ancestors(loops, d) : ~Attributed(loops, r) /\ a \in Ancestors(loops, r)
    BY <1>2, <1>4, <2>1, <2>2, InnerIsCutOff
  <2>4. IsOutOfInner(n)
    BY <1>2, <1>4, <2>3 DEF IsOutOfInner
  <2>5. ASSUME nodes[n].attr \notin TypeDecls PROVE IsBetweenLoops(n)
    <3>1. FirstAttributedChild(loops, d) # 0 /\ Has(loops[FirstAttributedChild(loops, d)].type, "Inner")
      BY <1>1, <2>5 DEF BetweenOuterAndInner
    <3>2. \E c \in Descendants(loops, d) : Has(loops[c].type, "Inner")
      BY <1>2, <1>4, <3>1, FirstChildIsInside DEF AfterWalk
    <3>3. QED
      BY <1>2, <1>4, <2>1, <2>2, <3>2 DEF IsBetweenLoops
  <2>6. QED
    BY <2>4, <2>5 DEF IsPlaced
<1>5. QED
  BY <1>3, <1>4

DeclsSoFarArePlaced ==
    \A n \in DOMAIN nodes : n < next /\ IsDecl(n) /\ nodes[n].scope # 0 => IsPlaced(n)

DeclInv ==
    /\ pass = "device" => DeclsSoFarArePlaced
    /\ DeclsInLoopsArePlaced

LEMMA DeclStart == ApplyInit => DeclInv
BY DEF ApplyInit, DeclInv, DevicePassed, DeclsInLoopsArePlaced

LEMMA DeclStep == ApplyInv /\ SourceInv /\ SyncInv /\ DeclInv /\ [ApplyNext]_allVars => DeclInv'
<1> SUFFICES ASSUME ApplyInv, SourceInv, SyncInv, DeclInv, [ApplyNext]_allVars PROVE DeclInv'
  OBVIOUS
<1>0. /\ next \in Nat
      /\ pass = "sema" => next = 1
      /\ pass = "device" => DeclsSoFarArePlaced /\ AfterWalk
      /\ DeclsInLoopsArePlaced
  BY DEF SyncInv, SourceInv, DeclInv
<1>14. nodes \in Seq(Node) /\ \A n \in DOMAIN nodes : n \in Nat /\ 1 <= n /\ n <= Len(nodes)
  BY DEF ApplyInv, Recorded
<1>1. UNCHANGED <<loops, nodes>> =>
          \A n : (IsPlaced(n)' <=> IsPlaced(n)) /\ (IsDecl(n)' <=> IsDecl(n))
  BY DEF IsPlaced, IsOutOfInner, IsBetweenLoops, NearestAround, AttributedAround, IsDecl
<1>2. CASE pass' \in {"sema", "failed"}
  BY <1>2 DEF DeclInv, DevicePassed, DeclsInLoopsArePlaced
<1>3. CASE UNCHANGED <<loops, nodes, next, pass>>
  BY <1>0, <1>1, <1>3 DEF DeclInv, DevicePassed, DeclsInLoopsArePlaced, DeclsSoFarArePlaced
<1>4. CASE WalkDone
  <2>1. UNCHANGED <<loops, nodes, next>> /\ pass = "sema" /\ pass' = "device"
    BY <1>4 DEF WalkDone, vars, semaVars
  <2>2. \A n \in DOMAIN nodes : ~(n < next)
    BY <1>0, <1>14, <2>1
  <2>3. DeclsSoFarArePlaced'
    BY <2>1, <2>2 DEF DeclsSoFarArePlaced
  <2>4. QED
    BY <2>1, <2>3 DEF DeclInv, DevicePassed, DeclsInLoopsArePlaced
<1>5. ASSUME UNCHANGED <<loops, nodes, pass>>, next' = next + 1, pass = "device", next \in DOMAIN nodes,
             IsDecl(next) /\ nodes[next].scope # 0 => IsPlaced(next)
      PROVE  DeclInv'
  <2>1. \A n \in DOMAIN nodes : n < next' => n < next \/ n = next
    <3>1. next \in Nat /\ next' = next + 1 /\ \A n \in DOMAIN nodes : n \in Nat
      BY <1>0, <1>5, <1>14
    <3>2. QED
      BY <3>1
  <2>2. DeclsSoFarArePlaced'
    BY <1>0, <1>1, <1>5, <2>1 DEF DeclsSoFarArePlaced
  <2>3. QED
    BY <1>5, <2>2 DEF DeclInv, DevicePassed, DeclsInLoopsArePlaced
<1>6. CASE ApplyDecl
  <2>1. /\ UNCHANGED <<loops, nodes, pass>> /\ next' = next + 1 /\ pass = "device" /\ next \in DOMAIN nodes
        /\ DeclAllowed(nodes[next].attr, DeclLoop(ActiveLoop)) /\ TheNode = nodes[next]
    BY <1>6 DEF ApplyDecl, SetContext, Advance, AtNode, TheNode
  <2>2. ASSUME nodes[next].scope # 0 PROVE IsPlaced(next)
    <3>1. ActiveLoop = nodes[next].scope
      BY <2>1, <2>2, ActiveLoopIsKnown DEF ApplyInv
    <3>2. nodes[next].scope \in DOMAIN loops
      BY <2>1, <2>2 DEF ApplyInv, Recorded, NodesKnowTheirLoop, KnowsItsLoop
    <3>3. QED
      BY <1>0, <2>1, <3>1, <3>2, AllowedIsPlaced
  <2>3. QED
    BY <1>5, <2>1, <2>2
<1>7. CASE ApplyUse \/ ApplyLoop \/ ApplyKernel
  <2>1. /\ UNCHANGED <<loops, nodes, pass>> /\ next' = next + 1 /\ pass = "device" /\ next \in DOMAIN nodes
        /\ nodes[next].attr \in {"shared use", "exclusive use", "loop", "kernel"}
    BY <1>7 DEF ApplyUse, ApplyLoop, ApplyKernel, SetContext, Advance, AtNode, TheNode
  <2>2. ~IsDecl(next)
    BY <2>1 DEF IsDecl, Decls, TypeDecls
  <2>3. QED
    BY <1>5, <2>1, <2>2
<1>8. CASE DeviceDone /\ pass' = "launcher"
  <2>1. UNCHANGED <<loops, nodes>> /\ pass = "device" /\ next > Len(nodes)
    BY <1>8 DEF DeviceDone, PassFails, vars, semaVars
  <2>2. \A n \in DOMAIN nodes : n < next
    <3>1. Len(nodes) \in Nat
      BY <1>14
    <3>2. QED
      BY <1>0, <1>14, <2>1, <3>1
  <2>3. DeclsInLoopsArePlaced'
    BY <1>0, <1>1, <2>1, <2>2 DEF DeclsInLoopsArePlaced, DeclsSoFarArePlaced
  <2>4. QED
    BY <1>8, <2>3 DEF DeclInv
<1>9. CASE LaunchKernel \/ LaunchOther \/ LauncherDone
  <2>1. UNCHANGED <<loops, nodes>> /\ pass = "launcher" /\ pass' \in {"launcher", "done"}
    BY <1>9 DEF LaunchKernel, LaunchOther, LauncherDone, SetContext, Advance, vars, semaVars
  <2>2. QED
    BY <1>0, <1>1, <2>1 DEF DeclInv, DevicePassed, DeclsInLoopsArePlaced
<1>10. Walk \/ WalkFailed \/ RejectDecl \/ RejectKernel => pass' \in {"sema", "failed"}
  BY DEF Walk, WalkFailed, RejectDecl, RejectKernel, PassFails, applyVars
<1>11. DeviceDone => pass' \in {"launcher", "failed"}
  BY DEF DeviceDone, PassFails
<1>12. UNCHANGED allVars => UNCHANGED <<loops, nodes, next, pass>>
  BY DEF allVars, applyVars, vars, semaVars
<1>13. QED
  BY <1>2, <1>3, <1>4, <1>6, <1>7, <1>8, <1>9, <1>10, <1>11, <1>12 DEF ApplyNext, Apply

-----------------------------------------------------------------------------
(* Kernels and launches: what one node after the other adds, joined.       *)

LEMMA FlattenAppend ==
    ASSUME NEW V, NEW s \in Seq(Seq(V)), NEW x \in Seq(V)
    PROVE  FlattenSeq(Append(s, x)) = FlattenSeq(s) \o x
<1> DEFINE t == Append(s, x)
           n == Len(s)
<1>1. /\ n \in Nat /\ t \in Seq(Seq(V)) /\ Len(t) = n + 1 /\ t[n + 1] = x
      /\ \A i \in 1..n : t[i] = s[i]
  OBVIOUS
<1>2. t \in [1..n + 1 -> Seq(V)] /\ n + 1 \in Nat
  <2> HIDE DEF t
  <2> QED
    BY <1>1
<1> DEFINE m == n + 1
<1> HIDE DEF t, n
<1>8. n \in Nat
  BY <1>1
<1>3. PICK h \in [0..n + 1 -> Seq(V)] : h[0] = <<>> /\ \A i \in 1..n + 1 : h[i] = h[i - 1] \o t[i]
  <2> HIDE DEF m
  <2>1. m \in Nat /\ t \in [1..m -> Seq(V)]
    BY <1>2 DEF m
  <2>2. \E h \in [0..m -> Seq(V)] : Joins(h, t, m)
    BY <2>1, JoinedExists
  <2>3. QED
    BY <2>2 DEF m, Joins
<1>4. FlattenSeq(t) = h[n + 1]
  BY <1>1, <1>3, FlattenIsJoined
<1>5. FlattenSeq(s) = h[n]
  <2> DEFINE k == [i \in 0..n |-> h[i]]
  <2>1. k \in [0..n -> Seq(V)] /\ k[0] = <<>>
    BY <1>1, <1>3
  <2>2. ASSUME NEW i \in 1..n PROVE k[i] = k[i - 1] \o s[i]
    <3>1. i \in 1..n + 1 /\ i \in 0..n /\ i - 1 \in 0..n
      BY <1>1
    <3>2. QED
      BY <1>1, <1>3, <3>1
  <2>3. n \in 0..n
    BY <1>1
  <2>4. k[n] = h[n]
    BY <2>3
  <2> HIDE DEF k
  <2>5. FlattenSeq(s) = k[n]
    BY <2>1, <2>2, FlattenIsJoined DEF n
  <2>6. QED
    BY <2>4, <2>5
<1>6. h[n + 1] = h[n] \o x
  <2>1. n + 1 \in 1..n + 1 /\ (n + 1) - 1 = n
    BY <1>8
  <2>2. QED
    BY <1>1, <1>3, <2>1
<1>7. QED
  BY <1>4, <1>5, <1>6 DEF t

DeviceKernel == [kern : Nat, no : Int, loop : Nat]

HostFunction == [kern : Nat, runs : Seq(DeviceKernel)]

\* What node n adds to the device kernels, and all of them after each node.
MadeBy(n) == IF nodes[n].attr = "kernel" THEN DeviceKernels(nodes[n].ki) ELSE <<>>

Made(g) ==
    /\ g \in [0..Len(nodes) -> Seq(DeviceKernel)]
    /\ g[0] = <<>>
    /\ \A n \in 1..Len(nodes) : g[n] = g[n - 1] \o MadeBy(n)

\* The kernels that the launcher's functions run, in the order of the functions.
Runs(functions) == [f \in DOMAIN functions |-> functions[f].runs]

KernelNodesKnown == \A n \in DOMAIN nodes : nodes[n].attr = "kernel" => nodes[n].ki # 0

\* Both passes are as far in the same list.
DeviceInStep(g) == Made(g) /\ kernels = g[next - 1]

LauncherInStep(g) ==
    /\ Made(g)
    /\ kernels \in Seq(HostFunction)
    /\ FlattenSeq(Runs(kernels)) = g[next - 1]
    /\ output.device = g[Len(nodes)]

LaunchInv ==
    /\ KernelNodesKnown
    /\ output = [device |-> output.device, launcher |-> output.launcher]
    /\ pass \in {"device", "launcher"} => next - 1 \in 0..Len(nodes)
    /\ pass = "device" => \E g : DeviceInStep(g)
    /\ pass = "launcher" => \E g : LauncherInStep(g)
    /\ LauncherRunsDeviceKernels

\* What the list of a kernel becomes in the two passes.
LEMMA KernelsOfNode ==
    ASSUME ApplyInv, KernelNodesKnown, NEW n \in DOMAIN nodes
    PROVE  /\ MadeBy(n) \in Seq(DeviceKernel)
           /\ nodes[n].attr = "kernel" =>
                 /\ LaunchedKernels(nodes[n].ki) = MadeBy(n)
                 /\ DeviceKernels(nodes[n].ki) = MadeBy(n)
                 /\ nodes[n].ki \in Nat
                 /\ nodes[n].ki \in DOMAIN parsedKernelList
<1>1. CASE nodes[n].attr # "kernel"
  BY <1>1 DEF MadeBy
<1>2. CASE nodes[n].attr = "kernel"
  <2> DEFINE k    == nodes[n].ki
             list == TopLoops(k)
  <2>1. k \in Nat /\ k # 0 /\ k <= Len(parsedKernelList) /\ parsedKernelList \in Seq(KernelInfo)
    BY <1>2, NodeFields DEF ApplyInv, Recorded, NodesOfKernels, KernelNodesKnown
  <2>2. k \in DOMAIN parsedKernelList
    <3> HIDE DEF k
    <3>1. DOMAIN parsedKernelList = 1..Len(parsedKernelList) /\ Len(parsedKernelList) \in Nat
      BY <2>1
    <3>2. QED
      BY <2>1, <3>1
  <2>3. list \in Seq(Nat \ {0})
    BY <2>1, <2>2, KernelFields DEF TopLoops
  <2> HIDE DEF list
  <2>4. Len(list) \in Nat /\ DOMAIN list = 1..Len(list) /\ \A i \in 1..Len(list) : list[i] \in Nat
    BY <2>3
  <2> DEFINE made == [i \in DOMAIN list |-> [kern |-> k, no |-> i - 1, loop |-> list[i]]]
  <2>5. \A i \in DOMAIN list : made[i] \in DeviceKernel
    BY <2>1, <2>4 DEF DeviceKernel
  <2>6. made \in [1..Len(list) -> DeviceKernel]
    BY <2>4, <2>5
  <2>7. made \in Seq(DeviceKernel)
    <3> HIDE DEF made
    <3>1. \A m \in Nat : \A s \in [1..m -> DeviceKernel] : s \in Seq(DeviceKernel)
      OBVIOUS
    <3>2. QED
      BY <2>4, <2>6, <3>1
  <2>8. DeviceKernels(k) = made /\ LaunchedKernels(k) = made
    BY DEF DeviceKernels, LaunchedKernels, list
  <2>9. QED
    BY <1>2, <2>1, <2>2, <2>7, <2>8 DEF MadeBy
<1>3. QED
  BY <1>1, <1>2

\* There is such a list.
LEMMA MadeExists ==
    ASSUME ApplyInv, KernelNodesKnown
    PROVE  \E g : Made(g)
<1> DEFINE n == Len(nodes)
           s == [i \in 1..n |-> MadeBy(i)]
<1>1. n \in Nat /\ DOMAIN nodes = 1..n
  BY DEF ApplyInv, Recorded
<1>2. s \in [1..n -> Seq(DeviceKernel)]
  BY <1>1, KernelsOfNode
<1>3. PICK g \in [0..n -> Seq(DeviceKernel)] : Joins(g, s, n)
  <2> HIDE DEF s, n
  <2>1. QED
    BY <1>1, <1>2, JoinedExists
<1>4. Made(g)
  BY <1>3 DEF Joins, Made
<1>5. QED
  BY <1>4

\* A step of a pass does not change it.
LEMMA MadeStays ==
    ASSUME ApplyInv, KernelNodesKnown, ApplyNext \/ UNCHANGED allVars, ~Walk
    PROVE  UNCHANGED nodes /\ \A g : Made(g) => Made(g)'
<1>1. /\ UNCHANGED nodes
      /\ \A k \in DOMAIN parsedKernelList : TopLoops(k)' = TopLoops(k)
  <2>1. CASE UNCHANGED <<nodes, parsedKernelList>>
    BY <2>1 DEF TopLoops
  <2>2. CASE SetContext
    <3> DEFINE i == TheNode.ki
               info == [parsedKernelList[i] EXCEPT !.currentLoop = ActiveLoop]
    <3>1. /\ UNCHANGED nodes
          /\ parsedKernelList' = IF i = 0 THEN parsedKernelList
                                 ELSE [parsedKernelList EXCEPT ![i] = info]
          /\ parsedKernelList \in Seq(KernelInfo)
      BY <2>2 DEF SetContext, ApplyInv, Recorded
    <3>2. i \in DOMAIN parsedKernelList => info.topLevelOuterLoops = parsedKernelList[i].topLevelOuterLoops
      <4> SUFFICES ASSUME i \in DOMAIN parsedKernelList
                   PROVE  info.topLevelOuterLoops = parsedKernelList[i].topLevelOuterLoops
        OBVIOUS
      <4>1. parsedKernelList[i] \in KernelInfo
        BY <3>1
      <4>2. QED
        BY <4>1 DEF KernelInfo
    <3> HIDE DEF info, i
    <3>3. ASSUME NEW k \in DOMAIN parsedKernelList PROVE TopLoops(k)' = TopLoops(k)
      BY <3>1, <3>2 DEF TopLoops
    <3>4. QED
      BY <3>1, <3>3
  <2>3. SetContext \/ UNCHANGED <<nodes, parsedKernelList>>
    BY DEF ApplyNext, Apply, WalkFailed, WalkDone, ApplyDecl, RejectDecl, ApplyUse, ApplyLoop,
           ApplyKernel, RejectKernel, DeviceDone, LaunchKernel, LaunchOther, LauncherDone,
           allVars, vars, semaVars
  <2>4. QED
    BY <2>1, <2>2, <2>3
<1>2. ASSUME NEW n \in DOMAIN nodes PROVE MadeBy(n)' = MadeBy(n)
  <2>1. nodes[n].attr = "kernel" => nodes[n].ki \in DOMAIN parsedKernelList
    BY KernelsOfNode
  <2>2. QED
    BY <1>1, <2>1 DEF MadeBy, DeviceKernels
<1>3. DOMAIN nodes = 1..Len(nodes)
  BY DEF ApplyInv, Recorded
<1>4. QED
  BY <1>1, <1>2, <1>3 DEF Made

LEMMA LaunchStart == ApplyInit => LaunchInv
<1> SUFFICES ASSUME ApplyInit PROVE LaunchInv
  OBVIOUS
<1>1. nodes = <<>> /\ pass = "sema" /\ output = [device |-> <<>>, launcher |-> <<>>]
  BY DEF ApplyInit, Init
<1>2. KernelNodesKnown
  BY <1>1 DEF KernelNodesKnown
<1>3. QED
  BY <1>1, <1>2 DEF LaunchInv, LauncherRunsDeviceKernels

\* A kernel's node is recorded while the kernel is parsed.
LEMMA WalkKnowsKernels ==
    ASSUME SemaInv, KernelNodesKnown, Next
    PROVE  KernelNodesKnown'
<1>1. nodes \in Seq(Node)
  BY DEF SemaInv, TypeOK
<1>2. ASSUME NEW attr, NEW stmt, Record(attr, stmt), attr = "kernel" => parsingKernInfo # 0
      PROVE  KernelNodesKnown'
  <2> DEFINE node == [ki |-> parsingKernInfo, li |-> CurrentLoop, attr |-> attr,
                      stmt |-> stmt, scope |-> Scope]
  <2>1. nodes' = Append(nodes, node) /\ node.ki = parsingKernInfo /\ node.attr = attr
    BY <1>2 DEF Record
  <2> HIDE DEF node
  <2>2. \A n \in DOMAIN nodes' : nodes'[n] = node \/ (n \in DOMAIN nodes /\ nodes'[n] = nodes[n])
    BY <1>1, <2>1
  <2> QED
    BY <1>2, <2>1, <2>2 DEF KernelNodesKnown
<1>3. CASE UNCHANGED nodes
  BY <1>3 DEF KernelNodesKnown
<1>4. CASE ExitKernel
  BY <1>2, <1>4 DEF ExitKernel, SemaInv, TypeOK
<1>5. CASE ExitLoop
  BY <1>2, <1>3, <1>5 DEF ExitLoop
<1>6. ASSUME NEW attr \in LeafAttrs, RecordLeaf(attr)
      PROVE  KernelNodesKnown'
  <2>1. attr # "kernel"
    BY LeafAttrsAssumption
  <2>2. QED
    BY <1>2, <1>6, <2>1 DEF RecordLeaf
<1>7. EnterHelper \/ ExitHelper \/ EnterKernel \/ FinishWalk \/ Reject \/ (\E kind \in LoopKinds : EnterLoop(kind))
          => UNCHANGED nodes
  BY DEF EnterHelper, ExitHelper, EnterKernel, EnterLoop, FinishWalk, Reject, EnterNestedKernel, RejectLoop,
         RejectUnreadableLoop, RejectSecondLoopAttribute, RejectLoopOutsideKernel,
         RejectDeepLoop, Fail, semaVars
<1> QED
  BY <1>3, <1>4, <1>5, <1>6, <1>7 DEF Next

\* The list after the next node.
LEMMA NextMade ==
    ASSUME ApplyInv, KernelNodesKnown, next \in DOMAIN nodes, NEW g, Made(g)
    PROVE  /\ next - 1 \in 0..Len(nodes) /\ next \in 0..Len(nodes) /\ next \in Nat
           /\ g[next] = g[next - 1] \o MadeBy(next)
           /\ nodes[next].attr # "kernel" => g[next] = g[next - 1]
<1>1. DOMAIN nodes = 1..Len(nodes) /\ Len(nodes) \in Nat
  BY DEF ApplyInv, Recorded
<1>2. next - 1 \in 0..Len(nodes) /\ next \in 1..Len(nodes) /\ next \in 0..Len(nodes) /\ next \in Nat
  BY <1>1
<1>3. g[next] = g[next - 1] \o MadeBy(next) /\ g[next - 1] \in Seq(DeviceKernel)
  BY <1>2 DEF Made
<1>4. \A s \in Seq(DeviceKernel) : s \o <<>> = s
  OBVIOUS
<1>5. QED
  BY <1>2, <1>3, <1>4 DEF MadeBy

\* One function more runs the kernels of one kernel function more.
LEMMA OneFunctionMore ==
    ASSUME kernels \in Seq(HostFunction), NEW k \in Nat, NEW list \in Seq(DeviceKernel)
    PROVE  LET more == Append(kernels, [kern |-> k, runs |-> list])
           IN  more \in Seq(HostFunction) /\ FlattenSeq(Runs(more)) = FlattenSeq(Runs(kernels)) \o list
<1> DEFINE entry == [kern |-> k, runs |-> list]
           more     == Append(kernels, entry)
<1>1. entry \in HostFunction /\ entry.runs = list
  BY DEF HostFunction
<1>2. \A f \in HostFunction : f.runs \in Seq(DeviceKernel)
  BY DEF HostFunction
<1> HIDE DEF entry
<1>3. /\ Len(kernels) \in Nat /\ DOMAIN kernels = 1..Len(kernels)
      /\ more \in Seq(HostFunction)
      /\ DOMAIN more = 1..Len(kernels) + 1
      /\ more[Len(kernels) + 1] = entry
      /\ \A f \in 1..Len(kernels) : more[f] = kernels[f] /\ kernels[f] \in HostFunction
  BY <1>1
<1> DEFINE n    == Len(kernels)
           runs == [f \in 1..n |-> kernels[f].runs]
<1>4. runs \in Seq(Seq(DeviceKernel)) /\ Len(runs) = n
  <2>1. runs \in [1..n -> Seq(DeviceKernel)] /\ n \in Nat
    BY <1>2, <1>3
  <2> HIDE DEF runs, n
  <2>2. \A m \in Nat : \A s \in [1..m -> Seq(DeviceKernel)] : s \in Seq(Seq(DeviceKernel)) /\ Len(s) = m
    OBVIOUS
  <2>3. QED
    BY <2>1, <2>2
<1>5. Runs(kernels) = runs
  BY <1>3 DEF Runs
<1>6. Runs(more) = Append(runs, list)
  <2>1. Append(runs, list) = [f \in 1..n + 1 |-> IF f = n + 1 THEN list ELSE runs[f]]
    <3> HIDE DEF runs, n
    <3>1. Len(runs) = n /\ runs = [f \in 1..n |-> runs[f]] /\ n \in Nat
      BY <1>3, <1>4 DEF n
    <3>2. QED
      BY <3>1 DEF Append
  <2>2. ASSUME NEW f \in 1..n + 1
        PROVE  more[f].runs = IF f = n + 1 THEN list ELSE runs[f]
    <3>1. f = n + 1 \/ f \in 1..n
      BY <1>3
    <3> HIDE DEF more
    <3>2. CASE f = n + 1
      BY <1>1, <1>3, <3>2
    <3>3. CASE f \in 1..n /\ f # n + 1
      BY <1>3, <3>3
    <3>4. QED
      BY <3>1, <3>2, <3>3
  <2> HIDE DEF more, runs
  <2>3. QED
    BY <1>3, <2>1, <2>2 DEF Runs
<1> HIDE DEF runs
<1>7. FlattenSeq(Append(runs, list)) = FlattenSeq(runs) \o list
  BY <1>4, FlattenAppend
<1>8. QED
  BY <1>3, <1>5, <1>6, <1>7 DEF entry

LEMMA LaunchStep == ApplyInv /\ SyncInv /\ LaunchInv /\ [ApplyNext]_allVars => LaunchInv'
<1> SUFFICES ASSUME ApplyInv, SyncInv, LaunchInv, [ApplyNext]_allVars PROVE LaunchInv'
  OBVIOUS
<1>0. /\ KernelNodesKnown
      /\ output = [device |-> output.device, launcher |-> output.launcher]
      /\ next \in Nat /\ pass = "sema" => next = 1
      /\ pass \in {"device", "launcher"} => next - 1 \in 0..Len(nodes)
      /\ pass = "device" => \E g : DeviceInStep(g)
      /\ pass = "launcher" => \E g : LauncherInStep(g)
      /\ LauncherRunsDeviceKernels
      /\ Len(nodes) \in Nat /\ DOMAIN nodes = 1..Len(nodes)
  BY DEF LaunchInv, SyncInv, ApplyInv, Recorded
<1>13. /\ next \in Nat
       /\ pass = "sema" => next = 1
       /\ pass = "device" => next - 1 \in 0..Len(nodes)
       /\ pass = "launcher" => next - 1 \in 0..Len(nodes)
       /\ Len(nodes) \in Nat
  BY DEF LaunchInv, SyncInv, ApplyInv, Recorded
<1>1. CASE Walk
  <2>1. UNCHANGED applyVars /\ pass = "sema" /\ SemaInv /\ Next
    BY <1>1 DEF Walk, ApplyInv
  <2>2. KernelNodesKnown'
    BY <1>0, <2>1, WalkKnowsKernels
  <2>3. QED
    BY <1>0, <2>1, <2>2 DEF LaunchInv, LauncherRunsDeviceKernels, applyVars
<1>2. ~Walk => UNCHANGED nodes /\ KernelNodesKnown' /\ \A g : Made(g) => Made(g)'
  BY <1>0, MadeStays DEF KernelNodesKnown
<1>3. CASE UNCHANGED output /\ pass' = "failed" /\ ~Walk
  BY <1>0, <1>2, <1>3 DEF LaunchInv, LauncherRunsDeviceKernels
<1>4. CASE WalkDone /\ ~Walk
  <2>1. UNCHANGED <<output, next>> /\ pass = "sema" /\ pass' = "device" /\ kernels' = <<>>
    BY <1>4 DEF WalkDone
  <2>2. PICK g : Made(g)
    BY <1>0, MadeExists
  <2>3. next' - 1 = 0 /\ next' - 1 \in 0..Len(nodes)
    <3>1. Len(nodes) \in Nat /\ next' = 1
      BY <1>13, <2>1
    <3>2. QED
      BY <3>1
  <2>4. DeviceInStep(g)'
    BY <1>2, <1>4, <2>1, <2>2, <2>3 DEF DeviceInStep, Made
  <2>5. QED
    BY <1>0, <1>2, <1>4, <2>1, <2>3, <2>4 DEF LaunchInv, LauncherRunsDeviceKernels
<1>5. CASE (ApplyDecl \/ ApplyUse \/ ApplyLoop \/ ApplyKernel) /\ ~Walk
  <2>1. /\ UNCHANGED <<output, pass>> /\ next' = next + 1 /\ pass = "device" /\ next \in DOMAIN nodes
        /\ \/ UNCHANGED kernels /\ nodes[next].attr # "kernel"
           \/ kernels' = kernels \o DeviceKernels(nodes[next].ki) /\ nodes[next].attr = "kernel"
    BY <1>5 DEF ApplyDecl, ApplyUse, ApplyLoop, ApplyKernel, Advance, AtNode, TheNode, Decls, TypeDecls
  <2>2. PICK g : DeviceInStep(g)
    BY <1>0, <2>1
  <2>3. next' - 1 = next /\ next \in 0..Len(nodes)
    BY <1>0, <2>1
  <2>4. kernels' = g[next]
    BY <1>0, <2>1, <2>2, NextMade, KernelsOfNode DEF DeviceInStep
  <2>5. DeviceInStep(g)'
    BY <1>2, <1>5, <2>2, <2>3, <2>4 DEF DeviceInStep
  <2>6. QED
    BY <1>0, <1>2, <1>5, <2>1, <2>3, <2>5 DEF LaunchInv, LauncherRunsDeviceKernels
<1>6. CASE DeviceDone /\ pass' = "launcher" /\ ~Walk
  <2>1. /\ output' = [output EXCEPT !.device = kernels] /\ next' = 1 /\ kernels' = <<>>
        /\ pass = "device" /\ next > Len(nodes)
    BY <1>6 DEF DeviceDone, PassFails, ClearKernels
  <2>2. /\ output' = [device |-> output'.device, launcher |-> output'.launcher]
        /\ output'.device = kernels
    BY <1>0, <2>1
  <2>3. PICK g : DeviceInStep(g)
    BY <1>0, <2>1
  <2>4. next - 1 = Len(nodes) /\ next' - 1 = 0 /\ 0 \in 0..Len(nodes)
    <3>1. next > Len(nodes) /\ next' = 1
      BY <2>1
    <3>2. pass = "device"
      BY <2>1
    <3>3. QED
      BY <1>13, <3>1, <3>2
  <2>5. kernels' \in Seq(HostFunction) /\ FlattenSeq(Runs(kernels')) = <<>>
    <3>1. Runs(<<>>) = <<>>
      BY DEF Runs
    <3>2. FlattenSeq(<<>>) = <<>>
      BY DEF FlattenSeq
    <3>3. QED
      BY <2>1, <3>1, <3>2
  <2>6. LauncherInStep(g)'
    BY <1>2, <1>6, <2>2, <2>3, <2>4, <2>5 DEF LauncherInStep, DeviceInStep, Made, Runs
  <2>7. QED
    BY <1>2, <1>6, <2>2, <2>4, <2>6 DEF LaunchInv, LauncherRunsDeviceKernels
<1>7. CASE LaunchKernel /\ ~Walk
  <2>1. /\ UNCHANGED <<output, pass>> /\ next' = next + 1 /\ pass = "launcher" /\ next \in DOMAIN nodes
        /\ nodes[next].attr = "kernel"
        /\ kernels' = Append(kernels, [kern |-> nodes[next].ki, runs |-> LaunchedKernels(nodes[next].ki)])
    BY <1>7 DEF LaunchKernel, Advance, AtNode, TheNode
  <2>2. PICK g : LauncherInStep(g)
    BY <1>0, <2>1
  <2>3. next' - 1 = next /\ next \in 0..Len(nodes)
    BY <1>0, <2>1
  <2>4. MadeBy(next) \in Seq(DeviceKernel) /\ LaunchedKernels(nodes[next].ki) = MadeBy(next) /\ nodes[next].ki \in Nat
    BY <1>0, <2>1, KernelsOfNode
  <2>5. kernels' \in Seq(HostFunction) /\ FlattenSeq(Runs(kernels')) = FlattenSeq(Runs(kernels)) \o MadeBy(next)
    <3>1. kernels' = Append(kernels, [kern |-> nodes[next].ki, runs |-> MadeBy(next)])
      BY <2>1, <2>4
    <3>2. QED
      BY <2>2, <2>4, <3>1, OneFunctionMore DEF LauncherInStep
  <2>6. FlattenSeq(Runs(kernels')) = g[next]
    BY <1>0, <2>1, <2>2, <2>5, NextMade DEF LauncherInStep
  <2>7. LauncherInStep(g)'
    BY <1>2, <1>7, <2>1, <2>2, <2>3, <2>5, <2>6 DEF LauncherInStep, Runs
  <2>8. QED
    BY <1>0, <1>2, <1>7, <2>1, <2>3, <2>7 DEF LaunchInv, LauncherRunsDeviceKernels
<1>8. CASE LaunchOther /\ ~Walk
  <2>1. /\ UNCHANGED <<output, pass, kernels>> /\ next' = next + 1 /\ pass = "launcher" /\ next \in DOMAIN nodes
        /\ nodes[next].attr # "kernel"
    BY <1>8, LeafAttrsAssumption DEF LaunchOther, Advance, AtNode, TheNode
  <2>2. PICK g : LauncherInStep(g)
    BY <1>0, <2>1
  <2>3. next' - 1 = next /\ next \in 0..Len(nodes)
    BY <1>0, <2>1
  <2>4. g[next] = g[next - 1]
    BY <1>0, <2>1, <2>2, NextMade DEF LauncherInStep
  <2>5. LauncherInStep(g)'
    BY <1>2, <1>8, <2>1, <2>2, <2>3, <2>4 DEF LauncherInStep, Runs
  <2>6. QED
    BY <1>0, <1>2, <1>8, <2>1, <2>3, <2>5 DEF LaunchInv, LauncherRunsDeviceKernels
<1>9. CASE LauncherDone /\ ~Walk
  <2>1. /\ output' = [output EXCEPT !.launcher = kernels] /\ pass' = "done"
        /\ pass = "launcher" /\ next > Len(nodes)
    BY <1>9 DEF LauncherDone
  <2>2. /\ output' = [device |-> output'.device, launcher |-> output'.launcher]
        /\ output'.device = output.device /\ output'.launcher = kernels
    BY <1>0, <2>1
  <2>3. PICK g : LauncherInStep(g)
    BY <1>0, <2>1
  <2>4. next - 1 = Len(nodes)
    <3>1. next > Len(nodes)
      BY <2>1
    <3>2. pass = "launcher"
      BY <2>1
    <3>3. QED
      BY <1>13, <3>1, <3>2
  <2>5. FlattenSeq(Runs(output'.launcher)) = output'.device
    BY <2>2, <2>3, <2>4 DEF LauncherInStep
  <2>6. QED
    BY <1>2, <1>9, <2>1, <2>2, <2>5 DEF LaunchInv, LauncherRunsDeviceKernels, Runs
<1>10. CASE UNCHANGED allVars /\ ~Walk
  <2>1. UNCHANGED <<output, pass, kernels, next, nodes>>
    BY <1>10 DEF allVars, applyVars, vars, semaVars
  <2>2. pass = "device" => \E g : DeviceInStep(g)'
    BY <1>0, <1>2, <1>10, <2>1 DEF DeviceInStep
  <2>3. pass = "launcher" => \E g : LauncherInStep(g)'
    BY <1>0, <1>2, <1>10, <2>1 DEF LauncherInStep, Runs
  <2>4. QED
    BY <1>0, <1>2, <1>10, <2>1, <2>2, <2>3 DEF LaunchInv, LauncherRunsDeviceKernels
<1>11. WalkFailed \/ RejectDecl \/ RejectKernel \/ (DeviceDone /\ pass' # "launcher")
          => UNCHANGED output /\ pass' = "failed"
  BY DEF WalkFailed, RejectDecl, RejectKernel, DeviceDone, PassFails
<1>12. QED
  BY <1>1, <1>3, <1>4, <1>5, <1>6, <1>7, <1>8, <1>9, <1>10, <1>11 DEF ApplyNext, Apply

LEMMA PassInvariance == ApplySpec => [](ApplyInv /\ SourceInv /\ SyncInv /\ DeclInv /\ LaunchInv)
BY ApplyStart, ApplyStep, SourceStart, SourceStep, SyncStart, SyncStep, DeclStart, DeclStep,
   LaunchStart, LaunchStep, PTL DEF ApplySpec

\* For every program: when the device source is done, a barrier follows every
\* highest @inner loop in which shared memory is used (on CUDA, or an @exclusive
\* variable), however deep, and after which the block runs another loop.
THEOREM UsesOfSharedAreSynced == ApplySpec => []SharedUseIsSynced
<1>1. SyncInv => SharedUseIsSynced
  BY DEF SyncInv
<1>2. QED
  BY <1>1, PassInvariance, PTL

\* For every program and every order of the attributes of a statement: no
\* barrier follows an @inner loop with @nobarrier, unless the loop is tiled.
THEOREM NobarrierKept == ApplySpec => []NobarrierIsKept
<1>1. SyncInv => NobarrierIsKept
  BY DEF SyncInv
<1>2. QED
  BY <1>1, PassInvariance, PTL

\* For every program: when the device source is done, each @shared or @exclusive
\* variable declared in a loop stands between an @outer loop and an @inner one,
\* and each type declared so in a loop stands in no @inner loop, as far as a
\* plain loop does not cut one off.
THEOREM DeclarationsArePlaced == ApplySpec => []DeclsInLoopsArePlaced
<1>1. DeclInv => DeclsInLoopsArePlaced
  BY DEF DeclInv
<1>2. QED
  BY <1>1, PassInvariance, PTL

\* For every program: the functions of the launcher run the kernels of the
\* device source, all of them, by their names and in their order.
THEOREM LauncherRunsAll == ApplySpec => []LauncherRunsDeviceKernels
<1>1. LaunchInv => LauncherRunsDeviceKernels
  BY DEF LaunchInv
<1>2. QED
  BY <1>1, PassInvariance, PTL
=============================================================================
