CONSTANT Cases <- AgreedCases
SPECIFICATION Spec
PROPERTY PromiseKept
INVARIANT EveryIterationRuns
CHECK_DEADLOCK FALSE
