-------------------------- MODULE MCAgentRegistry --------------------------
EXTENDS AgentRegistry

CONSTANTS a, b, x

\* The agent without the secret claims the id of a.
MCClaims == [h \in Hosts |-> IF h = x THEN a ELSE h]
=============================================================================
