--------------------------- MODULE AgentRegistry ---------------------------
(***************************************************************************)
(* The control plane of urc-coordinator: which agent is online, and over   *)
(* which websocket it is told to open a tunnel.                            *)
(*   - agents: run_loop / connect_once of urc-agent (coordinator.rs);      *)
(*   - one handler per agent websocket: handle_agent (main.rs), with the   *)
(*     record it keeps in AppState.agents (state.rs);                      *)
(*   - client requests: handle_client up to TunnelReady (the rest of a     *)
(*     session is RelaySession).                                           *)
(* A websocket is named by a connection that is used once, a record by the *)
(* connection whose control_tx it holds.                                   *)
(***************************************************************************)
EXTENDS Naturals, Sequences, FiniteSets

CONSTANTS
    Hosts,     \* the hosts, each with an agent, and their ids
    Trusted,   \* the hosts whose agent has the coordinator's secret
    Claims,    \* the id that the agent of a host registers under
    Conns,     \* bound: the agent websockets of a behaviour
    Requests,  \* bound: the Connect messages of the clients
    NoHost,
    NoConn

ASSUME TrustedAssumption == Trusted \subseteq Hosts
ASSUME ClaimsAssumption ==
    Claims \in [Hosts -> Hosts] /\ \A h \in Trusted : Claims[h] = h
ASSUME NoHostAssumption == NoHost \notin Hosts
ASSUME NoConnAssumption == NoConn \notin Conns
ASSUME RequestsAssumption == Requests \cap {"registered"} = {}

VARIABLES
    agent,    \* per host, run_loop: "retry", "dialled", "connected"
    conn,     \* per host, the websocket of connect_once
    owner,    \* per connection, the host that dialled it
    link,     \* per connection: "unused", "up", "cut"
    up,       \* per connection, messages on their way to the handler
    down,     \* per connection, control_tx: messages for the agent
    handler,  \* per connection, handle_agent: "none" .. "done"
    regd,     \* per connection, the handler's host_id
    agents,   \* AppState.agents: per host, the record's connection
    req,      \* per request: "idle", "found", "ok", "err"
    reqHost,  \* per request, the host the client named
    asked     \* per request, the agent that was told to open a tunnel

registryVars ==
    <<agent, conn, owner, link, up, down, handler, regd, agents, req, reqHost, asked>>

agentVars == <<agent, conn, owner>>
reqVars == <<req, reqHost, asked>>

RegistryInit ==
    /\ agent = [h \in Hosts |-> "retry"]
    /\ conn = [h \in Hosts |-> NoConn]
    /\ owner = [c \in Conns |-> NoHost]
    /\ link = [c \in Conns |-> "unused"]
    /\ up = [c \in Conns |-> <<>>]
    /\ down = [c \in Conns |-> <<>>]
    /\ handler = [c \in Conns |-> "none"]
    /\ regd = [c \in Conns |-> NoHost]
    /\ agents = [h \in Hosts |-> NoConn]
    /\ req = [r \in Requests |-> "idle"]
    /\ reqHost = [r \in Requests |-> NoHost]
    /\ asked = [r \in Requests |-> NoHost]

-----------------------------------------------------------------------------
(* The bound on Conns must not be what keeps an agent offline: failures,   *)
(* and dials that the coordinator will refuse, only happen while a fresh   *)
(* connection is left for every trusted agent that needs one.              *)

Unused == {c \in Conns : link[c] = "unused"}

Needy == {h \in Trusted : \A c \in Conns : conn[h] = c => link[c] # "up"}

Spare == Cardinality(Unused) > Cardinality(Needy)

-----------------------------------------------------------------------------
(* The agent.                                                              *)

\* Mutant of Dial: an agent that was connected once does not dial again.
DialOnce(h) ==
    /\ agent[h] = "retry"
    /\ h \in Trusted \/ Spare
    /\ \A d \in Conns : owner[d] # h
    /\ \E c \in Conns :
        /\ link[c] = "unused"
        /\ conn' = [conn EXCEPT ![h] = c]
        /\ owner' = [owner EXCEPT ![c] = h]
        /\ link' = [link EXCEPT ![c] = "up"]
        /\ handler' = [handler EXCEPT ![c] = "reading"]
    /\ agent' = [agent EXCEPT ![h] = "dialled"]
    /\ UNCHANGED <<up, down, regd, agents, reqVars>>

\* connect_async succeeds and the coordinator spawns the handler, whether or
\* not the handler of an earlier connection knows that its agent is gone.
Dial(h) ==
    /\ agent[h] = "retry"
    /\ h \in Trusted \/ Spare
    /\ \E c \in Conns :
        /\ link[c] = "unused"
        /\ conn' = [conn EXCEPT ![h] = c]
        /\ owner' = [owner EXCEPT ![c] = h]
        /\ link' = [link EXCEPT ![c] = "up"]
        /\ handler' = [handler EXCEPT ![c] = "reading"]
    /\ agent' = [agent EXCEPT ![h] = "dialled"]
    /\ UNCHANGED <<up, down, regd, agents, reqVars>>

\* The agent counts itself connected as soon as Register is sent.
SendRegister(h) ==
    /\ agent[h] = "dialled"
    /\ agent' = [agent EXCEPT ![h] = "connected"]
    /\ up' = [up EXCEPT ![conn[h]] = Append(@, "register")]
    /\ UNCHANGED <<conn, owner, link, down, handler, regd, agents, reqVars>>

\* Bound: a heartbeat is sent when nothing else is on its way.
Heartbeat(h) ==
    /\ agent[h] = "connected"
    /\ link[conn[h]] = "up"
    /\ up[conn[h]] = <<>>
    /\ up' = [up EXCEPT ![conn[h]] = Append(@, "heartbeat")]
    /\ UNCHANGED <<agentVars, link, down, handler, regd, agents, reqVars>>

\* The read branch of the select loop: a TunnelReady spawns a tunnel task,
\* anything else is skipped.
AgentReceive(h) ==
    /\ agent[h] = "connected"
    /\ link[conn[h]] = "up"
    /\ down[conn[h]] # <<>>
    /\ LET m == Head(down[conn[h]]) IN
        asked' = IF m \in Requests THEN [asked EXCEPT ![m] = h] ELSE asked
    /\ down' = [down EXCEPT ![conn[h]] = Tail(@)]
    /\ UNCHANGED <<agentVars, link, up, handler, regd, agents, req, reqHost>>

\* connect_once fails; run_loop sleeps and starts over.
AgentLost(h) ==
    /\ agent[h] # "retry"
    /\ link[conn[h]] = "cut"
    /\ agent' = [agent EXCEPT ![h] = "retry"]
    /\ conn' = [conn EXCEPT ![h] = NoConn]
    /\ UNCHANGED <<owner, link, up, down, handler, regd, agents, reqVars>>

-----------------------------------------------------------------------------
(* The environment.                                                        *)

\* The connection is lost: the agent is killed, or the network is.
BreakLink(c) ==
    /\ Spare
    /\ link[c] = "up"
    /\ link' = [link EXCEPT ![c] = "cut"]
    /\ UNCHANGED <<agentVars, up, down, handler, regd, agents, reqVars>>

\* The coordinator is restarted: nothing of it is persisted.
CoordinatorRestart ==
    /\ Cardinality(Unused) >= Cardinality(Trusted)
    /\ link' = [c \in Conns |-> IF link[c] = "up" THEN "cut" ELSE link[c]]
    /\ handler' = [c \in Conns |-> IF handler[c] = "none" THEN "none" ELSE "done"]
    /\ up' = [c \in Conns |-> <<>>]
    /\ down' = [c \in Conns |-> <<>>]
    /\ regd' = [c \in Conns |-> NoHost]
    /\ agents' = [h \in Hosts |-> NoConn]
    /\ req' = [r \in Requests |-> IF req[r] = "found" THEN "err" ELSE req[r]]
    /\ UNCHANGED <<agentVars, reqHost, asked>>
-----------------------------------------------------------------------------
(* handle_agent.                                                           *)

\* Register with the right token: the record of that id is replaced.
HandleRegister(c) ==
    /\ handler[c] = "reading"
    /\ up[c] # <<>> /\ Head(up[c]) = "register"
    /\ owner[c] \in Trusted
    /\ up' = [up EXCEPT ![c] = Tail(@)]
    /\ regd' = [regd EXCEPT ![c] = Claims[owner[c]]]
    /\ agents' = [agents EXCEPT ![Claims[owner[c]]] = c]
    /\ down' = [down EXCEPT ![c] = Append(@, "registered")]
    /\ UNCHANGED <<agentVars, link, handler, reqVars>>

\* Mutant of RejectRegister: the id is noted before the token is checked,
\* and the handler leaves by way of its last lines.
RejectLate(c) ==
    /\ handler[c] = "reading"
    /\ up[c] # <<>> /\ Head(up[c]) = "register"
    /\ owner[c] \notin Trusted
    /\ handler' = [handler EXCEPT ![c] = "closing"]
    /\ link' = [link EXCEPT ![c] = "cut"]
    /\ up' = [up EXCEPT ![c] = <<>>]
    /\ regd' = [regd EXCEPT ![c] = Claims[owner[c]]]
    /\ UNCHANGED <<agentVars, down, agents, reqVars>>

\* Register with a wrong token: the handler returns, which drops the socket.
RejectRegister(c) ==
    /\ handler[c] = "reading"
    /\ up[c] # <<>> /\ Head(up[c]) = "register"
    /\ owner[c] \notin Trusted
    /\ handler' = [handler EXCEPT ![c] = "done"]
    /\ link' = [link EXCEPT ![c] = "cut"]
    /\ up' = [up EXCEPT ![c] = <<>>]
    /\ UNCHANGED <<agentVars, down, regd, agents, reqVars>>

\* touch_agent refreshes last_seen, which nothing reads, and only of a
\* record that exists.
HandleHeartbeat(c) ==
    /\ handler[c] = "reading"
    /\ up[c] # <<>> /\ Head(up[c]) = "heartbeat"
    /\ up' = [up EXCEPT ![c] = Tail(@)]
    /\ UNCHANGED <<agentVars, link, down, handler, regd, agents, reqVars>>

\* The read loop ends and forward is aborted.
HandlerSeesClose(c) ==
    /\ handler[c] = "reading"
    /\ link[c] = "cut"
    /\ handler' = [handler EXCEPT ![c] = "closing"]
    /\ up' = [up EXCEPT ![c] = <<>>]
    /\ down' = [down EXCEPT ![c] = <<>>]
    /\ UNCHANGED <<agentVars, link, regd, agents, reqVars>>

\* Mutant of Unregister: the handler returns without removing its record.
UnregisterForgotten(c) ==
    /\ handler[c] = "closing"
    /\ handler' = [handler EXCEPT ![c] = "done"]
    /\ UNCHANGED <<agentVars, link, up, down, regd, agents, reqVars>>

\* The record is removed by host id, whichever connection it is of.
Unregister(c) ==
    /\ handler[c] = "closing"
    /\ handler' = [handler EXCEPT ![c] = "done"]
    /\ agents' = IF regd[c] \in Hosts
                 THEN [agents EXCEPT ![regd[c]] = NoConn]
                 ELSE agents
    /\ UNCHANGED <<agentVars, link, up, down, regd, reqVars>>

-----------------------------------------------------------------------------
(* handle_client.                                                          *)

\* get_agent: the client is told at once if the host is not online.
LookUp(r, h) ==
    /\ req[r] = "idle"
    /\ reqHost' = [reqHost EXCEPT ![r] = h]
    /\ req' = [req EXCEPT ![r] = IF agents[h] = NoConn THEN "err" ELSE "found"]
    /\ UNCHANGED <<agentVars, link, up, down, handler, regd, agents, asked>>

\* Mutant of Notify: any agent that is online is told.
NotifyAnyAgent(r) ==
    /\ req[r] = "found"
    /\ req' = [req EXCEPT ![r] = "ok"]
    /\ \E c \in Conns :
        /\ handler[c] = "reading" /\ regd[c] # NoHost
        /\ down' = [down EXCEPT ![c] = Append(@, r)]
    /\ UNCHANGED <<agentVars, link, up, handler, regd, agents, reqHost, asked>>

\* agent_control_tx reads the map again.  No record, or a record whose
\* forward task is gone: nobody is told, and the client is answered ok.
Notify(r) ==
    /\ req[r] = "found"
    /\ req' = [req EXCEPT ![r] = "ok"]
    /\ down' = [c \in Conns |->
                    IF agents[reqHost[r]] = c /\ handler[c] = "reading"
                    THEN Append(down[c], r)
                    ELSE down[c]]
    /\ UNCHANGED <<agentVars, link, up, handler, regd, agents, reqHost, asked>>

-----------------------------------------------------------------------------
Agent(h) ==
    \/ Dial(h)
    \/ SendRegister(h)
    \/ Heartbeat(h)
    \/ AgentReceive(h)
    \/ AgentLost(h)

Handler(c) ==
    \/ HandleRegister(c)
    \/ RejectRegister(c)
    \/ HandleHeartbeat(c)
    \/ HandlerSeesClose(c)
    \/ Unregister(c)

Client(r) == Notify(r) \/ \E h \in Hosts : LookUp(r, h)

RegistryNext ==
    \/ \E h \in Hosts : Agent(h)
    \/ \E c \in Conns : BreakLink(c) \/ Handler(c)
    \/ \E r \in Requests : Client(r)
    \/ CoordinatorRestart

RegistrySpec == RegistryInit /\ [][RegistryNext]_registryVars

(***************************************************************************)
(* Fairness: run_loop dials for ever, both ends read what arrives, and a   *)
(* handler whose connection is cut notices it in the end (if only when the *)
(* kernel gives the connection up).  No heartbeat, failure or client       *)
(* request has to happen.                                                  *)
(***************************************************************************)
RegistryFairness ==
    /\ \A h \in Hosts :
        /\ WF_registryVars(Dial(h))
        /\ WF_registryVars(SendRegister(h))
        /\ WF_registryVars(AgentReceive(h))
        /\ WF_registryVars(AgentLost(h))
    /\ \A c \in Conns :
        /\ WF_registryVars(HandleRegister(c))
        /\ WF_registryVars(HandleHeartbeat(c))
        /\ WF_registryVars(HandlerSeesClose(c))
        /\ WF_registryVars(Unregister(c))
    /\ \A r \in Requests : WF_registryVars(Notify(r))

RegistryFairSpec == RegistrySpec /\ RegistryFairness

-----------------------------------------------------------------------------
\* Type invariant.
RegistryTypeOK ==
    /\ agent \in [Hosts -> {"retry", "dialled", "connected"}]
    /\ conn \in [Hosts -> Conns \cup {NoConn}]
    /\ owner \in [Conns -> Hosts \cup {NoHost}]
    /\ link \in [Conns -> {"unused", "up", "cut"}]
    /\ up \in [Conns -> Seq({"register", "heartbeat"})]
    /\ down \in [Conns -> Seq({"registered"} \cup Requests)]
    /\ handler \in [Conns -> {"none", "reading", "closing", "done"}]
    /\ regd \in [Conns -> Hosts \cup {NoHost}]
    /\ agents \in [Hosts -> Conns \cup {NoConn}]
    /\ req \in [Requests -> {"idle", "found", "ok", "err"}]
    /\ reqHost \in [Requests -> Hosts \cup {NoHost}]
    /\ asked \in [Requests -> Hosts \cup {NoHost}]

\* RecordIsLive: a record of AppState.agents belongs to a handler that has
\* registered that host and has still to remove it: whatever order handlers
\* of one host start and end in, no record outlives its connection, so
\* get_agent never finds a host for ever that nobody serves.
RecordIsLive ==
    \A h \in Hosts, c \in Conns :
        agents[h] = c => regd[c] = h /\ handler[c] \in {"reading", "closing"}

\* ServedHostListed: while a handler serves a host it has registered, the
\* host is lost from the map only to another connection of its own agent:
\* to one that has registered since, or to one whose handler has ended
\* since.  No other agent takes a host offline or over, whatever id it claims.
ServedHostListed ==
    \A c \in Conns :
        handler[c] = "reading" /\ regd[c] # NoHost =>
            \/ agents[regd[c]] = c
            \/ \E d \in Conns \ {c} :
                   /\ owner[d] = owner[c]
                   /\ agents[regd[c]] = d \/ handler[d] = "done"

\* AsksOnlyItsHost: a tunnel is opened only by the agent of the host that
\* the client named, and only if that agent had the secret, whatever was
\* re-registered between the two reads of the map and the delivery.
AsksOnlyItsHost ==
    \A r \in Requests :
        asked[r] # NoHost => asked[r] = reqHost[r] /\ asked[r] \in Trusted

Listed(h) == agents[h] # NoConn /\ agents[h] = conn[h]

\* HostListedAgain: once the failures stop, every trusted agent is listed
\* for good, with the connection it holds: the lists of hosts and the
\* requests of clients see it again.
HostListedAgain == \A h \in Trusted : <>[]Listed(h)

\* Two handlers of a host have been registered and not yet ended.
Overlap(h) ==
    \E c, d \in {e \in Conns : regd[e] = h /\ handler[e] \in {"reading", "closing"}} :
        c # d

\* The host is served, and its record is gone.
Displaced(h) ==
    /\ agents[h] = NoConn
    /\ \E c \in Conns : conn[h] = c /\ link[c] = "up" /\ handler[c] = "reading" /\ regd[c] = h

\* ListedOrDisplaced: once the failures stop, every trusted agent is listed
\* for good with the connection it holds.  The one way to miss that is to
\* be back while the handler of an older connection has not noticed its
\* end, and then the agent is served, but not listed, until it reconnects.
ListedOrDisplaced ==
    \A h \in Trusted : <>[]Listed(h) \/ (<>Overlap(h) /\ <>[]Displaced(h))
=============================================================================
