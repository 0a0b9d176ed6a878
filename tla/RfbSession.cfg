SPECIFICATION Spec
CONSTANTS
    Plans <- MCPlans
    Scripts <- MCScripts
    Chunks = {1, 3, 10, 64}
    Buffer = 48
INVARIANTS
    AsIfWhole
    ServerFollows
    NothingLeft
CHECK_DEADLOCK FALSE
