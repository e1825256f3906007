SPECIFICATION AttrSpec
CONSTANTS
    Slices <- MCSlices
    Written <- MCWritten
    Subjects <- MCSubjects
    Accesses <- MCAccesses
    Orders <- MCOrders
INVARIANTS
    NoHandlerIsLost
    ParsedAsWritten
    ParametersFit
    AttachedIsHandled
    LauncherFollowsDevice
    IndexIsOffset
CHECK_DEADLOCK FALSE
