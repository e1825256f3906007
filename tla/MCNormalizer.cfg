SPECIFICATION Spec
CONSTANTS
    MaxPieces = 4
    Sources <- AllSources
INVARIANTS
    AttributesFound
    EditsNeverOverlap
    HeadersBecomeLegal
    MovedToOwnFor
CHECK_DEADLOCK FALSE
