SPECIFICATION Spec
CONSTANTS
    LoopKinds <- AutoKinds
    LeafAttrs = {}
    LoopTexts <- UpwardTexts
    MaxLoops = 4
    MaxKernels = 1
    MaxLeaves = 0
INVARIANTS
    LevelsDecidePaths
    AutoAxesCountFromDeepest
    TopLevelOutersInOrder
    LaunchMatchesDevice
    BoundsAreLaunched
    RequiredGroupIsLaunched
CHECK_DEADLOCK FALSE
