CONSTANTS
    Programs <- SameBlock
    FixedSize = 4
SPECIFICATION Spec
INVARIANT OwnSlotPerThread 
CHECK_DEADLOCK FALSE
