SPECIFICATION AttrSpec
CONSTANTS
    Slices <- MCSlices
    Written <- MCWritten
    Subjects <- MCSubjects
    Accesses <- MCAccesses
    Orders <- MCOrders
INVARIANT ExpressionsIndex
CHECK_DEADLOCK FALSE
