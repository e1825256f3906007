SPECIFICATION ApplySpec
CONSTANTS
    Backend = "CUDA"
    LoopKinds <- ApplyKinds
    LeafAttrs = {"shared use", "shared decl", "exclusive type"}
    MaxLoops = 4
    MaxKernels = 1
    MaxLeaves = 1
INVARIANTS
    SharedUseIsSynced
    NobarrierIsKept
    DeclsInLoopsArePlaced
CHECK_DEADLOCK FALSE
