----------------------------- MODULE MCGestures -----------------------------
EXTENDS Gestures

MCFingers == 1 .. 3
=============================================================================
