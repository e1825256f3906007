SPECIFICATION PipelineSpec
CONSTANTS
    Headers = {"user.h"}
    StageEdits <- MCEdits
    MaxDiags = 3
INVARIANTS
    ErrorsAreRecorded
    FailureExplained
    EditsAccumulate
    LauncherSeesKernelFiles
PROPERTIES
    Terminates
    KeepsPromise
CHECK_DEADLOCK FALSE
