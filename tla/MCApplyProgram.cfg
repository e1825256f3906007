SPECIFICATION ApplySpec
CONSTANTS
    Backend = "HIP"
    LoopKinds <- ProgramKinds
    LeafAttrs = {"shared decl", "shared use"}
    MaxLoops = 3
    MaxKernels = 2
    MaxLeaves = 2
INVARIANTS
    HandlersSeeTheirLoop
    LauncherRunsDeviceKernels
CHECK_DEADLOCK FALSE
