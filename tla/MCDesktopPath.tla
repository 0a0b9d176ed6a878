--------------------------- MODULE MCDesktopPath ---------------------------
EXTENDS DesktopPath

MCForwarders == {"desktop", "android"}
MCMaxSent == [e \in Ends |-> IF e = "client" THEN 2 ELSE 1]
=============================================================================
