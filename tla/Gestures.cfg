SPECIFICATION Spec
CONSTANTS
    Fingers <- MCFingers
    TapTimeout = 2
    MaxTouches = 4
INVARIANTS
    ButtonFollowsGesture
    ReadyAgain
CHECK_DEADLOCK FALSE
