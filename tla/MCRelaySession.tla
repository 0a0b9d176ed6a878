--------------------------- MODULE MCRelaySession ---------------------------
EXTENDS RelaySession
=============================================================================
