SPECIFICATION PipelineSpec
CONSTANTS
    Headers = {"user.h"}
    StageEdits <- MCEdits
    MaxDiags = 3
INVARIANTS
    AcceptedErrorsFailTheStage
CHECK_DEADLOCK FALSE
