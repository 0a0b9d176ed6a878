--------------------------- MODULE MCRepeatGuard ---------------------------
EXTENDS RepeatGuard

CONSTANTS core, k1
=============================================================================
