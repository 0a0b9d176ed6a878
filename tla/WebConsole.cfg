SPECIFICATION Spec
CONSTANTS
    Buttons = {0, 2}
    Places = {1}
    MaxSessions = 3
    MaxInput = 4
INVARIANTS
    OneSession
    NothingHeld
    PointerFollows
PROPERTIES
    StaysDisconnected
    Comebacks
CHECK_DEADLOCK FALSE
