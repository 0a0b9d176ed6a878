SPECIFICATION KeyboardSpec
CONSTANTS
    Systems = {"windows", "mac", "other", "android"}
    Browsers = {"modern", "mozilla", "legacy"}
    KeysOf <- MCKeysOf
    BlurArmed = FALSE
    MaxLeds = 2
    MaxToggles = 2
    MaxText = 4
    Words <- MCWords
INVARIANTS
    ServerMirrors
    NoStuckKey
    TypedOnce
CHECK_DEADLOCK FALSE
PROPERTIES
    LocksAgree
