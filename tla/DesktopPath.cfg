SPECIFICATION FairSpec
CONSTANTS
    Forwarders <- MCForwarders
    MaxSent <- MCMaxSent
    Window = 1
    MaxFaults = 1
INVARIANTS
    CloseDelivers
CHECK_DEADLOCK FALSE
PROPERTIES
    PipeSpec
    ViewerGoneEndsVnc
    AllFreed
