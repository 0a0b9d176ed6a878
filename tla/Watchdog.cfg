CONSTANTS
    MaxAge = 3
    Period = 4
    StartTimeout = 10
    NeedsCoordinator = TRUE
    MaxFaults = 2
SPECIFICATION FairSpec
INVARIANTS
    HungBounded
PROPERTIES
    SteadyLeftAlone
    ServesAgain
CHECK_DEADLOCK FALSE
