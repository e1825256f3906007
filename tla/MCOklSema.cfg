SPECIFICATION Spec
CONSTANTS
    LoopKinds <- WalkKinds
    LeafAttrs = {"shared decl"}
    MaxLoops = 3
    MaxKernels = 2
    MaxLeaves = 1
INVARIANTS
    TypeOK
    ParentIsEnclosingFor
    CurrentLoopIsScope
    NodesKnowTheirLoop
PROPERTIES
    LeftLoopsAreFinal
    NestingSpec
CHECK_DEADLOCK FALSE
