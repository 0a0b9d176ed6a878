CONSTANTS
    u1 = u1
    u2 = u2
    Users = {u1, u2}
    NoUser = NoUser
    Kinds <- MCKinds
    MaxFaults = 3
SPECIFICATION FairSpec
INVARIANTS
    NoServerPile
    BackoffFromShort
    ServesTarget
PROPERTIES
    
    DropNoticed
CHECK_DEADLOCK FALSE
