CONSTANTS
    core = core
    k1 = k1
    Keyboards = {core, k1}
    Core = core
    Helpers = {h1, h2}
    NoHelper = NoHelper
SPECIFICATION FairSpec
INVARIANTS
    Restored
    Suppressed
PROPERTIES
    PipeEndsHelper
CHECK_DEADLOCK FALSE
