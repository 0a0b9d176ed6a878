----------------------------- MODULE StreamPipe -----------------------------
(***************************************************************************)
(* What a connection through several processes promises to its two ends,   *)
(* without what is in between: a duplex pipe.  RelaySession and            *)
(* DesktopPath each implement it.  An end opens once and closes once.      *)
(* While it is open it takes items of the other end, each one sent         *)
(* already, in the order they were sent and with none left out in between; *)
(* a stretch at the beginning (LateStart: the other end was first) and one *)
(* at the end (somebody left) may be lost.                                 *)
(***************************************************************************)
EXTENDS Naturals, Sequences

CONSTANT LateStart  \* BOOLEAN: whether the beginning of a stream may be lost

Ends == {"agent", "client"}

Other(d) == IF d = "agent" THEN "client" ELSE "agent"

VARIABLES
    phase,  \* per end: "new", "open", "closed"
    sent,   \* per end, how many items it has sent
    got     \* per end, the items it has received

pipeVars == <<phase, sent, got>>

Init ==
    /\ phase = [d \in Ends |-> "new"]
    /\ sent = [d \in Ends |-> 0]
    /\ got = [d \in Ends |-> <<>>]

\* An end may fail to open.
Open(d) ==
    /\ phase[d] = "new"
    /\ \E s \in {"open", "closed"} : phase' = [phase EXCEPT ![d] = s]
    /\ UNCHANGED <<sent, got>>

Put(d) ==
    /\ phase[d] = "open"
    /\ sent' = [sent EXCEPT ![d] = @ + 1]
    /\ UNCHANGED <<phase, got>>

Take(d) ==
    /\ phase[d] = "open"
    /\ \E n \in 1 .. sent[Other(d)] :
        /\ IF got[d] # <<>> THEN n = got[d][Len(got[d])] + 1
                            ELSE LateStart \/ n = 1
        /\ got' = [got EXCEPT ![d] = Append(@, n)]
    /\ UNCHANGED <<phase, sent>>

Close(d) ==
    /\ phase[d] = "open"
    /\ phase' = [phase EXCEPT ![d] = "closed"]
    /\ UNCHANGED <<sent, got>>

Next == \E d \in Ends : Open(d) \/ Put(d) \/ Take(d) \/ Close(d)

Spec == Init /\ [][Next]_pipeVars
=============================================================================
