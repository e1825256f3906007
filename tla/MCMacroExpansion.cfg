SPECIFICATION Spec
CONSTANTS
    SourceLines <- FewLines
    CommandLines <- CommandLine
    HeaderGuards <- Guards
    MaxLines = 5
INVARIANTS
    SameProgram
    ContextFree
    LinesAreKept
CHECK_DEADLOCK FALSE
