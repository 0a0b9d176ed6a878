SPECIFICATION PaintSpec
CONSTANTS
    Width = 3
    Updates <- MCUpdates
    Continuous = FALSE
    MaxUpdates = 2
    MaxMoves = 2
INVARIANTS
    InOrder
    NothingUnshown
    QueueBounded
PROPERTIES
    UpdatesEnd
CHECK_DEADLOCK FALSE
