-------------------------- MODULE MCVncSupervisor --------------------------
EXTENDS VncSupervisor

CONSTANTS u1, u2

Kind(c, s, r) == [child |-> c, start |-> s, reap |-> r]

\* A slow server that the agent's kill does not reach but its reaping does,
\* a slow one that neither reaches, and a prompt one that only the kill does.
MCKinds == {Kind("detached", "slow", "reached"),
            Kind("detached", "slow", "missed"),
            Kind("attached", "prompt", "missed")}

\* A slow server whose stderr is the agent's pipe.
MCAttachedSlow == {Kind("attached", "slow", "reached")}

\* A prompt server that neither a stop nor a reap reaches.
MCUnreached == {Kind("detached", "prompt", "missed")}
=============================================================================
