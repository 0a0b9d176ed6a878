---------------------------- MODULE RelaySession ----------------------------
(***************************************************************************)
(* One relayed session of urc-coordinator, from the moment handle_client   *)
(* has found the agent (main.rs) until both tunnel legs are gone:          *)
(*   - the set-up steps of handle_client;                                  *)
(*   - the relay hub's bridge_leg, run once per leg (relay.rs);            *)
(*   - the two endpoints: the agent's tunnel task (run_tunnel_session) and *)
(*     the client's websocket.                                             *)
(* Sessions have fresh ids and the hub keeps them in a map by id, so one   *)
(* session is the whole of what a session can see.  Payloads are abstract: *)
(* the n-th binary frame an endpoint sends is the number n.                *)
(***************************************************************************)
EXTENDS Naturals, Sequences

CONSTANT MaxMsgs    \* bound: frames each endpoint sends in a behaviour

ASSUME MaxMsgsAssumption == MaxMsgs \in Nat

Sides == {"agent", "client"}

Peer(d) == IF d = "agent" THEN "client" ELSE "agent"

VARIABLES
    setup,    \* where handle_client is: "notify", "create", "reply", "done"
    session,  \* the session in the hub's map: "absent" or "present"
    tx,       \* the sides whose sender the session has recorded
    leg,      \* per side, the bridge_leg call: "idle" .. "closed"
    remote,   \* per side, the endpoint: "idle", "dialled", "up", "down"
    wire,     \* per side, frames on their way from the endpoint to the hub
    chan,     \* per side, frames queued by the hub for the endpoint
    probe,    \* per side, the keepalive: "none", "ping", "pong"
    sent,     \* per side, how many frames the endpoint has sent
    got       \* per side, the frames the endpoint has received, in order

vars == <<setup, session, tx, leg, remote, wire, chan, probe, sent, got>>

setupVars == <<setup, session, tx>>
dataVars == <<wire, chan, probe, sent, got>>

Init ==
    /\ setup = "notify"
    /\ session = "absent"
    /\ tx = {}
    /\ leg = [d \in Sides |-> "idle"]
    /\ remote = [d \in Sides |-> "idle"]
    /\ wire = [d \in Sides |-> <<>>]
    /\ chan = [d \in Sides |-> <<>>]
    /\ probe = [d \in Sides |-> "none"]
    /\ sent = [d \in Sides |-> 0]
    /\ got = [d \in Sides |-> <<>>]

-----------------------------------------------------------------------------
(* handle_client: TunnelReady to the agent, then create_session, then the  *)
(* ConnectOk that tells the client to dial.                                *)

NotifyAgent ==
    /\ setup = "notify"
    /\ setup' = "create"
    /\ UNCHANGED <<session, tx, leg, remote, dataVars>>

CreateSession ==
    /\ setup = "create"
    /\ setup' = "reply"
    /\ session' = "present"
    /\ tx' = {}
    /\ UNCHANGED <<leg, remote, dataVars>>

ReplyOk ==
    /\ setup = "reply"
    /\ setup' = "done"
    /\ UNCHANGED <<session, tx, leg, remote, dataVars>>

-----------------------------------------------------------------------------
(* The endpoints.                                                          *)

\* The agent's tunnel task dials the hub as soon as TunnelReady reaches it,
\* which may be before handle_client gets to create_session.
AgentDial ==
    /\ remote["agent"] = "idle"
    /\ setup # "notify"
    /\ remote' = [remote EXCEPT !["agent"] = "dialled"]
    /\ leg' = [leg EXCEPT !["agent"] = "upgrading"]
    /\ UNCHANGED <<setupVars, dataVars>>

\* The task then connects to the local VNC port; a refusal ends it.
AgentOpenVnc ==
    /\ remote["agent"] = "dialled"
    /\ \E s \in {"up", "down"} : remote' = [remote EXCEPT !["agent"] = s]
    /\ UNCHANGED <<setupVars, leg, dataVars>>

\* The client dials once it has read ConnectOk.
ClientDial ==
    /\ remote["client"] = "idle"
    /\ setup = "done"
    /\ remote' = [remote EXCEPT !["client"] = "up"]
    /\ leg' = [leg EXCEPT !["client"] = "upgrading"]
    /\ UNCHANGED <<setupVars, dataVars>>

\* local_to_ws on the agent, the viewer's input on the client.
Send(d) ==
    /\ remote[d] = "up"
    /\ sent[d] < MaxMsgs
    /\ sent' = [sent EXCEPT ![d] = @ + 1]
    /\ wire' = [wire EXCEPT ![d] = Append(@, sent[d] + 1)]
    /\ UNCHANGED <<setupVars, leg, remote, chan, probe, got>>

\* ws_to_local on the agent, the viewer on the client.
Receive(d) ==
    /\ remote[d] = "up"
    /\ chan[d] # <<>>
    /\ got' = [got EXCEPT ![d] = Append(@, Head(chan[d]))]
    /\ chan' = [chan EXCEPT ![d] = Tail(@)]
    /\ UNCHANGED <<setupVars, leg, remote, wire, probe, sent>>

\* The websocket library answers a Ping by itself.
Pong(d) ==
    /\ remote[d] = "up"
    /\ probe[d] = "ping"
    /\ probe' = [probe EXCEPT ![d] = "pong"]
    /\ UNCHANGED <<setupVars, leg, remote, wire, chan, sent, got>>

\* The endpoint goes away (VNC closed, viewer closed, network lost): the
\* frames still in flight may be cut off anywhere.
Hangup(d) ==
    /\ remote[d] = "up"
    /\ remote' = [remote EXCEPT ![d] = "down"]
    /\ \E n \in 0 .. Len(wire[d]) :
           wire' = [wire EXCEPT ![d] = SubSeq(@, 1, n)]
    /\ UNCHANGED <<setupVars, leg, chan, probe, sent, got>>

\* The hub has dropped the socket: the endpoint ends, and on the agent its
\* VNC connection with it.
SeeClose(d) ==
    /\ remote[d] = "up"
    /\ leg[d] = "closed"
    /\ remote' = [remote EXCEPT ![d] = "down"]
    /\ UNCHANGED <<setupVars, leg, dataVars>>

-----------------------------------------------------------------------------
(* The hub: bridge_leg.                                                    *)

\* The first block: the sender is recorded only if the session exists now.
AttachLeg(d) ==
    /\ leg[d] = "upgrading"
    /\ leg' = [leg EXCEPT ![d] = "open"]
    /\ tx' = IF session = "present" THEN tx \cup {d} ELSE tx
    /\ UNCHANGED <<setup, session, remote, dataVars>>

\* Mutant of Forward: the frame goes to the side it came from.
ForwardBack(d) ==
    /\ leg[d] = "open"
    /\ session = "present"
    /\ wire[d] # <<>>
    /\ wire' = [wire EXCEPT ![d] = Tail(@)]
    /\ chan' = IF d \in tx
               THEN [chan EXCEPT ![d] = Append(@, Head(wire[d]))]
               ELSE chan
    /\ UNCHANGED <<setupVars, leg, remote, probe, sent, got>>

\* One turn of the read loop with the session in the map.  A frame for a
\* side that has not attached, or has left its loop, is dropped.
Forward(d) ==
    /\ leg[d] = "open"
    /\ session = "present"
    /\ wire[d] # <<>>
    /\ wire' = [wire EXCEPT ![d] = Tail(@)]
    /\ chan' = IF Peer(d) \in tx /\ leg[Peer(d)] = "open"
               THEN [chan EXCEPT ![Peer(d)] = Append(@, Head(wire[d]))]
               ELSE chan
    /\ UNCHANGED <<setupVars, leg, remote, probe, sent, got>>

\* The same turn for a Pong; the peer ignores the copy it is sent.
ForwardPong(d) ==
    /\ leg[d] = "open"
    /\ session = "present"
    /\ probe[d] = "pong"
    /\ probe' = [probe EXCEPT ![d] = "none"]
    /\ UNCHANGED <<setupVars, leg, remote, wire, chan, sent, got>>

\* A frame or a Pong arrives and the session is gone: the loop breaks.
Break(d) ==
    /\ leg[d] = "open"
    /\ session = "absent"
    /\ wire[d] # <<>> \/ probe[d] = "pong"
    /\ leg' = [leg EXCEPT ![d] = "ending"]
    /\ UNCHANGED <<setupVars, remote, dataVars>>

\* The stream ends because the endpoint is gone.
LegEof(d) ==
    /\ leg[d] = "open"
    /\ remote[d] = "down"
    /\ wire[d] = <<>>
    /\ leg' = [leg EXCEPT ![d] = "ending"]
    /\ UNCHANGED <<setupVars, remote, dataVars>>

\* Mutant of Keepalive: no Ping once the session has left the map.
KeepaliveInSession(d) ==
    /\ leg[d] = "open"
    /\ session = "present"
    /\ probe[d] = "none"
    /\ probe' = [probe EXCEPT ![d] = "ping"]
    /\ UNCHANGED <<setupVars, leg, remote, wire, chan, sent, got>>

\* The keepalive task: one Ping at a time is enough to be answered.
Keepalive(d) ==
    /\ leg[d] = "open"
    /\ probe[d] = "none"
    /\ probe' = [probe EXCEPT ![d] = "ping"]
    /\ UNCHANGED <<setupVars, leg, remote, wire, chan, sent, got>>

\* Mutant of Cleanup: the session is left in the map.
CleanupLeavesSession(d) ==
    /\ leg[d] = "ending"
    /\ leg' = [leg EXCEPT ![d] = "closed"]
    /\ chan' = [chan EXCEPT ![d] = <<>>]
    /\ probe' = [probe EXCEPT ![d] = "none"]
    /\ UNCHANGED <<setupVars, remote, wire, sent, got>>

\* forward and keepalive are aborted (what they had queued is lost) and the
\* session leaves the map, whoever created it and whenever.
Cleanup(d) ==
    /\ leg[d] = "ending"
    /\ leg' = [leg EXCEPT ![d] = "closed"]
    /\ chan' = [chan EXCEPT ![d] = <<>>]
    /\ probe' = [probe EXCEPT ![d] = "none"]
    /\ session' = "absent"
    /\ tx' = {}
    /\ UNCHANGED <<setup, remote, wire, sent, got>>
-----------------------------------------------------------------------------
Setup == NotifyAgent \/ CreateSession \/ ReplyOk

Hub(d) ==
    \/ AttachLeg(d)
    \/ Forward(d)
    \/ ForwardPong(d)
    \/ Break(d)
    \/ LegEof(d)
    \/ Keepalive(d)
    \/ Cleanup(d)

Endpoint(d) == Send(d) \/ Receive(d) \/ Pong(d) \/ Hangup(d) \/ SeeClose(d)

Next ==
    \/ Setup
    \/ AgentDial
    \/ AgentOpenVnc
    \/ ClientDial
    \/ \E d \in Sides : Hub(d) \/ Endpoint(d)

Spec == Init /\ [][Next]_vars

(***************************************************************************)
(* Fairness.  The handler, the hub's tasks and the agent's tunnel task are *)
(* tokio tasks and run when they can; a websocket endpoint that is up      *)
(* answers Pings and notices a closed socket.  Nobody has to send, to hang *)
(* up, or (the client) to dial.                                            *)
(***************************************************************************)
Fairness ==
    /\ WF_vars(Setup)
    /\ WF_vars(AgentDial)
    /\ WF_vars(AgentOpenVnc)
    /\ \A d \in Sides :
        /\ WF_vars(AttachLeg(d))
        /\ WF_vars(Forward(d))
        /\ WF_vars(ForwardPong(d))
        /\ WF_vars(Break(d))
        /\ WF_vars(LegEof(d))
        /\ WF_vars(Keepalive(d))
        /\ WF_vars(Cleanup(d))
        /\ WF_vars(Receive(d))
        /\ WF_vars(Pong(d))
        /\ WF_vars(SeeClose(d))

FairSpec == Spec /\ Fairness
-----------------------------------------------------------------------------
\* Type invariant.
TypeOK ==
    /\ setup \in {"notify", "create", "reply", "done"}
    /\ session \in {"absent", "present"}
    /\ tx \subseteq Sides
    /\ leg \in [Sides -> {"idle", "upgrading", "open", "ending", "closed"}]
    /\ remote \in [Sides -> {"idle", "dialled", "up", "down"}]
    /\ wire \in [Sides -> Seq(Nat)]
    /\ chan \in [Sides -> Seq(Nat)]
    /\ probe \in [Sides -> {"none", "ping", "pong"}]
    /\ sent \in [Sides -> Nat]
    /\ got \in [Sides -> Seq(Nat)]

Consecutive(q) == \A i \in 1 .. Len(q) - 1 : q[i + 1] = q[i] + 1

\* NoGapInStream: whatever an endpoint has received through the hub is an
\* unbroken stretch of what its peer sent: frames dropped by bridge_leg for
\* want of a peer, and frames lost when a leg is torn down, are at the two
\* ends of the stream and never in the middle of it.
NoGapInStream == \A d \in Sides : Consecutive(got[d])

\* PipeSpec: seen from its ends, a relayed session is a pipe (StreamPipe):
\* an end receives, while it is open, only frames its peer has sent, in
\* order and with no frame left out in between.
pipePhase ==
    [d \in Sides |-> IF remote[d] \in {"idle", "dialled"} THEN "new"
                     ELSE IF remote[d] = "up" THEN "open" ELSE "closed"]

Pipe == INSTANCE StreamPipe WITH phase <- pipePhase, LateStart <- TRUE

PipeSpec == Pipe!Spec

\* OrphanIsUnused: a session that is in the hub's map although one of its
\* legs has run its cleanup is one whose agent came and went before
\* create_session inserted it.  Nothing was carried by it and nothing will
\* be: neither end has received a frame and none is queued for one.  Every
\* other session leaves the map with the first of its legs.
OrphanIsUnused ==
    session = "present" =>
        \A d \in Sides : leg[d] = "closed" =>
            /\ d = "agent"
            /\ \A e \in Sides : got[e] = <<>> /\ chan[e] = <<>>

\* BothHalvesEnd: when either endpoint of a session is gone, the other one
\* that has dialled does not stay connected for ever.
BothHalvesEnd ==
    \A d \in Sides :
        (remote[d] = "down") ~> (remote[Peer(d)] \in {"idle", "down"})

\* The session was inserted after the agent's leg had removed it.
Orphaned == session = "present" /\ leg["agent"] = "closed"

\* HalvesEndUnlessOrphaned: in whatever order the two ends dial, lose their
\* connections and are torn down, the one that is left is disconnected as
\* well, unless it is the client of an orphaned session.
HalvesEndUnlessOrphaned ==
    /\ (remote["client"] = "down") ~> (remote["agent"] \in {"idle", "down"})
    /\ (remote["agent"] = "down") ~>
           (remote["client"] \in {"idle", "down"} \/ Orphaned)
=============================================================================
