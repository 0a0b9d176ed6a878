CONSTANTS
    MaxMsgs = 3
SPECIFICATION FairSpec
INVARIANTS
    OrphanIsUnused
PROPERTIES
    PipeSpec
    HalvesEndUnlessOrphaned
CHECK_DEADLOCK FALSE
