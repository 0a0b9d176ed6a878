------------------------- MODULE CoordinatorProofs --------------------------
(***************************************************************************)
(* Proofs about the two halves of the coordinator, which share no state.   *)
(*   - AgentRegistry, for any hosts, connections and requests: type        *)
(*     correctness, RecordIsLive, AsksOnlyItsHost and ServedHostListed.    *)
(*   - RelaySession, for any number of frames: type correctness,           *)
(*     NoGapInStream, the refinement of StreamPipe, and OrphanIsUnused.    *)
(***************************************************************************)
EXTENDS AgentRegistry, RelaySession, SequenceTheorems, TLAPS

-----------------------------------------------------------------------------
(* The registry of the agents.                                            *)

\* What a handler has registered is its own, trusted, host; a connection
\* that has not been dialled is blank.
Handlers ==
    \A c \in Conns :
        /\ handler[c] = "none" <=> link[c] = "unused"
        /\ handler[c] = "none" =>
               owner[c] = NoHost /\ regd[c] = NoHost /\ down[c] = <<>>
        /\ regd[c] # NoHost => regd[c] = owner[c] /\ owner[c] \in Trusted

HoldsOwn ==
    \A h \in Hosts :
        /\ agent[h] # "retry" => conn[h] \in Conns
        /\ \A c \in Conns : conn[h] = c => owner[c] = h /\ link[c] # "unused"

ReqPhases ==
    \A r \in Requests :
        /\ req[r] = "idle" => reqHost[r] = NoHost
        /\ req[r] = "found" => reqHost[r] \in Hosts

\* A TunnelReady on its way to an agent is for the host of that agent.
InFlight ==
    \A c \in Conns : \A i \in 1 .. Len(down[c]) :
        down[c][i] \in Requests =>
            reqHost[down[c][i]] = owner[c] /\ owner[c] \in Trusted

RegInv == RegistryTypeOK /\ Handlers /\ RecordIsLive

AskInv == HoldsOwn /\ ReqPhases /\ InFlight /\ AsksOnlyItsHost

AskedInv == RegInv /\ AskInv
-----------------------------------------------------------------------------
(* Type correctness.                                                       *)

LEMMA RegistryTypeInit == RegistryInit => RegistryTypeOK
BY DEF RegistryInit, RegistryTypeOK

LEMMA RegistryTypeStep == RegistryTypeOK /\ [RegistryNext]_registryVars => RegistryTypeOK'
<1> SUFFICES ASSUME RegistryTypeOK, [RegistryNext]_registryVars PROVE RegistryTypeOK'
  OBVIOUS
<1> USE DEF RegistryTypeOK
<1>1. ASSUME NEW h \in Hosts, Agent(h) PROVE RegistryTypeOK'
  <2>1. CASE Dial(h)
    BY <2>1 DEF Dial, reqVars
  <2>2. CASE SendRegister(h)
    <3>1. \A c \in Conns : Append(up[c], "register") \in Seq({"register", "heartbeat"})
      OBVIOUS
    <3>2. up' \in [Conns -> Seq({"register", "heartbeat"})]
      BY <2>2, <3>1 DEF SendRegister
    <3>3. QED
      BY <2>2, <3>2 DEF SendRegister, reqVars
  <2>3. CASE Heartbeat(h)
    <3>1. \A c \in Conns : Append(up[c], "heartbeat") \in Seq({"register", "heartbeat"})
      OBVIOUS
    <3>2. up' \in [Conns -> Seq({"register", "heartbeat"})]
      BY <2>3, <3>1 DEF Heartbeat
    <3>3. QED
      BY <2>3, <3>2 DEF Heartbeat, agentVars, reqVars
  <2>4. CASE AgentReceive(h)
    <3>1. down[conn[h]] # <<>> /\ down' = [down EXCEPT ![conn[h]] = Tail(down[conn[h]])]
      BY <2>4 DEF AgentReceive
    <3>2. down' \in [Conns -> Seq({"registered"} \cup Requests)]
      <4>1. \A c \in Conns : down[c] # <<>> =>
                Tail(down[c]) \in Seq({"registered"} \cup Requests)
        OBVIOUS
      <4>2. QED
        BY <3>1, <4>1
    <3>3. asked' \in [Requests -> Hosts \cup {NoHost}]
      BY <2>4 DEF AgentReceive
    <3>4. QED
      BY <2>4, <3>2, <3>3 DEF AgentReceive, agentVars
  <2>5. CASE AgentLost(h)
    BY <2>5 DEF AgentLost, reqVars
  <2>6. QED
    BY <1>1, <2>1, <2>2, <2>3, <2>4, <2>5 DEF Agent
<1>2. ASSUME NEW c \in Conns, BreakLink(c) PROVE RegistryTypeOK'
  BY <1>2 DEF BreakLink, agentVars, reqVars
<1>3. ASSUME NEW c \in Conns, Handler(c) PROVE RegistryTypeOK'
  <2>1. CASE HandleRegister(c)
    <3>1. /\ Append(down[c], "registered") \in Seq({"registered"} \cup Requests)
          /\ Tail(up[c]) \in Seq({"register", "heartbeat"})
      BY <2>1 DEF HandleRegister
    <3>2. owner[c] \in Hosts
      BY <2>1, TrustedAssumption DEF HandleRegister
    <3>3. QED
      BY <2>1, <3>1, <3>2, ClaimsAssumption DEF HandleRegister, agentVars, reqVars
  <2>2. CASE RejectRegister(c)
    BY <2>2 DEF RejectRegister, agentVars, reqVars
  <2>3. CASE HandleHeartbeat(c)
    BY <2>3 DEF HandleHeartbeat, agentVars, reqVars
  <2>4. CASE HandlerSeesClose(c)
    BY <2>4 DEF HandlerSeesClose, agentVars, reqVars
  <2>5. CASE Unregister(c)
    BY <2>5 DEF Unregister, agentVars, reqVars
  <2>6. QED
    BY <1>3, <2>1, <2>2, <2>3, <2>4, <2>5 DEF Handler
<1>4. ASSUME NEW r \in Requests, Client(r) PROVE RegistryTypeOK'
  <2>1. CASE Notify(r)
    BY <2>1 DEF Notify, agentVars
  <2>2. ASSUME NEW h \in Hosts, LookUp(r, h) PROVE RegistryTypeOK'
    BY <2>2 DEF LookUp, agentVars
  <2>3. QED
    BY <1>4, <2>1, <2>2 DEF Client
<1>5. CASE CoordinatorRestart
  BY <1>5 DEF CoordinatorRestart, agentVars
<1>6. CASE UNCHANGED registryVars
  BY <1>6 DEF registryVars
<1>7. QED
  BY <1>1, <1>2, <1>3, <1>4, <1>5, <1>6 DEF RegistryNext

\* RegistryTypeCorrect: the type invariant of the registry.
THEOREM RegistryTypeCorrect == RegistrySpec => []RegistryTypeOK
BY RegistryTypeInit, RegistryTypeStep, PTL DEF RegistrySpec
-----------------------------------------------------------------------------
(* Records.                                                                *)

LEMMA RegStep == RegInv /\ [RegistryNext]_registryVars => RegInv'
<1> SUFFICES ASSUME RegInv, [RegistryNext]_registryVars PROVE RegInv'
  OBVIOUS
<1>1. RegistryTypeOK'
  BY RegistryTypeStep DEF RegInv
<1> USE DEF RegInv, Handlers, RecordIsLive, RegistryTypeOK
<1> USE NoHostAssumption, NoConnAssumption, TrustedAssumption
<1>2. ASSUME NEW h \in Hosts, Agent(h) PROVE RegInv'
  <2>1. CASE Dial(h)
    <3>1. PICK n \in Conns :
              /\ link[n] = "unused"
              /\ owner' = [owner EXCEPT ![n] = h]
              /\ link' = [link EXCEPT ![n] = "up"]
              /\ handler' = [handler EXCEPT ![n] = "reading"]
      BY <2>1 DEF Dial
    <3>2. UNCHANGED <<down, regd, agents>>
      BY <2>1 DEF Dial
    <3>3. Handlers'
      BY <3>1, <3>2
    <3>4. RecordIsLive'
      BY <3>1, <3>2
    <3>5. QED
      BY <1>1, <3>3, <3>4
  <2>2. CASE SendRegister(h) \/ Heartbeat(h) \/ AgentLost(h)
    BY <1>1, <2>2 DEF SendRegister, Heartbeat, AgentLost, agentVars
  <2>3. CASE AgentReceive(h)
    <3>1. \A c \in Conns : down[c] = <<>> => down'[c] = <<>>
      BY <2>3 DEF AgentReceive
    <3>2. UNCHANGED <<handler, link, owner, regd, agents>>
      BY <2>3 DEF AgentReceive, agentVars
    <3>3. QED
      BY <1>1, <3>1, <3>2
  <2>4. QED
    BY <1>2, <2>1, <2>2, <2>3 DEF Agent
<1>3. ASSUME NEW c \in Conns, BreakLink(c) PROVE RegInv'
  BY <1>1, <1>3 DEF BreakLink, agentVars
<1>4. ASSUME NEW c \in Conns, Handler(c) PROVE RegInv'
  <2>1. CASE HandleRegister(c)
    BY <1>1, <2>1, ClaimsAssumption DEF HandleRegister, agentVars
  <2>2. CASE RejectRegister(c)
    <3>1. regd[c] = NoHost
      BY <2>2 DEF RejectRegister
    <3>2. /\ UNCHANGED <<owner, down, regd, agents>> /\ handler[c] = "reading"
          /\ handler' = [handler EXCEPT ![c] = "done"]
          /\ link' = [link EXCEPT ![c] = "cut"]
      BY <2>2 DEF RejectRegister, agentVars
    <3>3. Handlers'
      BY <3>2
    <3>4. RecordIsLive'
      BY <3>1, <3>2
    <3>5. QED
      BY <1>1, <3>3, <3>4
  <2>3. CASE HandleHeartbeat(c)
    BY <1>1, <2>3 DEF HandleHeartbeat, agentVars
  <2>4. CASE HandlerSeesClose(c)
    BY <1>1, <2>4 DEF HandlerSeesClose, agentVars
  <2>5. CASE Unregister(c)
    BY <1>1, <2>5 DEF Unregister, agentVars
  <2>6. QED
    BY <1>4, <2>1, <2>2, <2>3, <2>4, <2>5 DEF Handler
<1>5. ASSUME NEW r \in Requests, Client(r) PROVE RegInv'
  <2>1. CASE Notify(r)
    <3>1. UNCHANGED <<handler, link, owner, regd, agents>>
      BY <2>1 DEF Notify, agentVars
    <3>2. \A c \in Conns : handler[c] = "none" => down'[c] = down[c]
      BY <2>1 DEF Notify
    <3>3. QED
      BY <1>1, <3>1, <3>2
  <2>2. ASSUME NEW h \in Hosts, LookUp(r, h) PROVE RegInv'
    BY <1>1, <2>2 DEF LookUp, agentVars
  <2>3. QED
    BY <1>5, <2>1, <2>2 DEF Client
<1>6. CASE CoordinatorRestart
  BY <1>1, <1>6 DEF CoordinatorRestart, agentVars
<1>7. CASE UNCHANGED registryVars
  BY <1>1, <1>7 DEF registryVars
<1>8. QED
  BY <1>2, <1>3, <1>4, <1>5, <1>6, <1>7 DEF RegistryNext

LEMMA RegInit == RegistryInit => RegInv
BY RegistryTypeInit, NoHostAssumption, NoConnAssumption
   DEF RegistryInit, RegInv, Handlers, RecordIsLive

\* RegistryRecordIsLive: no record of the coordinator outlives the handler
\* that made it, however many connections, restarts and losses there are.
THEOREM RegistryRecordIsLive == RegistrySpec => []RecordIsLive
<1>1. RegInv => RecordIsLive
  BY DEF RegInv
<1>2. QED
  BY <1>1, RegInit, RegStep, PTL DEF RegistrySpec
-----------------------------------------------------------------------------
(* Requests.                                                               *)

LEMMA AskInit == RegistryInit => AskInv
BY NoConnAssumption DEF RegistryInit, AskInv, HoldsOwn, ReqPhases, InFlight, AsksOnlyItsHost

\* The steps that do not touch requests or put anything in flight.
LEMMA AskQuiet ==
    ASSUME AskedInv, UNCHANGED reqVars,
           \A c \in Conns : down'[c] = down[c] \/ down'[c] = <<>>,
           \A c \in Conns : owner'[c] = owner[c] \/ handler[c] = "none"
    PROVE  ReqPhases' /\ InFlight' /\ AsksOnlyItsHost'
<1> USE DEF AskedInv, RegInv, AskInv, RegistryTypeOK
<1>1. ReqPhases' /\ AsksOnlyItsHost'
  BY DEF ReqPhases, AsksOnlyItsHost, reqVars
<1>2. ASSUME NEW c \in Conns, NEW i \in 1 .. Len(down'[c]), down'[c][i] \in Requests
      PROVE  reqHost'[down'[c][i]] = owner'[c] /\ owner'[c] \in Trusted
  <2>1. down'[c] = down[c] /\ down[c] # <<>>
    BY <1>2
  <2>2. owner'[c] = owner[c]
    BY <2>1 DEF Handlers
  <2>3. QED
    BY <1>2, <2>1, <2>2 DEF InFlight, reqVars
<1>3. QED
  BY <1>1, <1>2 DEF InFlight

LEMMA HoldsOwnStep == AskedInv /\ [RegistryNext]_registryVars => HoldsOwn'
<1> SUFFICES ASSUME AskedInv, [RegistryNext]_registryVars PROVE HoldsOwn'
  OBVIOUS
<1> USE DEF HoldsOwn, AskedInv, RegInv, AskInv, RegistryTypeOK
<1> USE NoConnAssumption
<1>1. ASSUME NEW h \in Hosts, Dial(h) PROVE HoldsOwn'
  <2>1. PICK n \in Conns :
            /\ link[n] = "unused"
            /\ conn' = [conn EXCEPT ![h] = n]
            /\ owner' = [owner EXCEPT ![n] = h]
            /\ link' = [link EXCEPT ![n] = "up"]
    BY <1>1 DEF Dial
  <2>2. agent' = [agent EXCEPT ![h] = "dialled"]
    BY <1>1 DEF Dial
  <2>3. QED
    BY <2>1, <2>2
<1>2. ASSUME NEW h \in Hosts, AgentLost(h) PROVE HoldsOwn'
  BY <1>2 DEF AgentLost
<1>3. ASSUME UNCHANGED <<conn, owner>>,
             \A h \in Hosts : agent'[h] # "retry" => agent[h] # "retry",
             \A c \in Conns : link[c] # "unused" => link'[c] # "unused"
      PROVE  HoldsOwn'
  BY <1>3
<1>4. ASSUME NEW h \in Hosts, SendRegister(h) \/ Heartbeat(h) \/ AgentReceive(h)
      PROVE  HoldsOwn'
  BY <1>3, <1>4 DEF SendRegister, Heartbeat, AgentReceive, agentVars
<1>5. ASSUME NEW c \in Conns, BreakLink(c) \/ Handler(c) PROVE HoldsOwn'
  BY <1>3, <1>5 DEF BreakLink, Handler, HandleRegister, RejectRegister,
     HandleHeartbeat, HandlerSeesClose, Unregister, agentVars
<1>6. ASSUME NEW r \in Requests, Client(r) PROVE HoldsOwn'
  BY <1>3, <1>6 DEF Client, Notify, LookUp, agentVars
<1>7. CASE CoordinatorRestart
  BY <1>3, <1>7 DEF CoordinatorRestart, agentVars
<1>8. CASE UNCHANGED registryVars
  BY <1>3, <1>8 DEF registryVars
<1>9. QED
  BY <1>1, <1>2, <1>4, <1>5, <1>6, <1>7, <1>8 DEF RegistryNext, Agent

\* Delivery takes a message off the queue of a connection.
LEMMA AskReceive ==
    ASSUME AskedInv, NEW h \in Hosts, AgentReceive(h)
    PROVE  ReqPhases' /\ InFlight' /\ AsksOnlyItsHost'
<1> USE DEF AskedInv, RegInv, AskInv, RegistryTypeOK
<1>1. /\ UNCHANGED <<req, reqHost, owner>>
      /\ link[conn[h]] = "up" /\ down[conn[h]] # <<>>
      /\ down' = [down EXCEPT ![conn[h]] = Tail(down[conn[h]])]
  BY DEF AgentReceive, agentVars
<1>2. ReqPhases'
  BY <1>1 DEF ReqPhases
<1>3. ASSUME NEW c \in Conns, NEW i \in 1 .. Len(down'[c]), down'[c][i] \in Requests
      PROVE  reqHost[down'[c][i]] = owner[c] /\ owner[c] \in Trusted
  <2>1. CASE c = conn[h]
    <3>1. down'[c] = Tail(down[c]) /\ down[c] # <<>>
      BY <1>1, <2>1
    <3>2. /\ down[c] \in Seq({"registered"} \cup Requests)
          /\ Len(down'[c]) = Len(down[c]) - 1 /\ Len(down[c]) \in Nat
          /\ down'[c][i] = down[c][i + 1]
      BY <3>1
    <3>3. i + 1 \in 1 .. Len(down[c])
      BY <3>2
    <3>4. QED
      BY <1>3, <3>2, <3>3 DEF InFlight
  <2>2. CASE c # conn[h]
    BY <1>1, <1>3, <2>2 DEF InFlight
  <2>3. QED
    BY <2>1, <2>2
<1>4. InFlight'
  BY <1>1, <1>3 DEF InFlight
<1>5. AsksOnlyItsHost'
  <2>1. CASE Head(down[conn[h]]) \notin Requests
    BY <1>1, <2>1 DEF AgentReceive, AsksOnlyItsHost
  <2>2. CASE Head(down[conn[h]]) \in Requests /\ conn[h] \in Conns
    <3> DEFINE m == Head(down[conn[h]])
    <3>1. m = down[conn[h]][1] /\ 1 \in 1 .. Len(down[conn[h]])
      BY <1>1, <2>2
    <3>2. reqHost[m] = h /\ h \in Trusted
      BY <2>2, <3>1 DEF InFlight, HoldsOwn
    <3>3. asked' = [asked EXCEPT ![m] = h]
      BY <2>2 DEF AgentReceive
    <3>4. QED
      BY <1>1, <2>2, <3>2, <3>3 DEF AsksOnlyItsHost
  <2>3. conn[h] \in Conns
    BY DEF AgentReceive, HoldsOwn
  <2>4. QED
    BY <2>1, <2>2, <2>3
<1>6. QED
  BY <1>2, <1>4, <1>5

\* Notify puts the request on the connection of the record it finds.
LEMMA AskNotify ==
    ASSUME AskedInv, NEW r \in Requests, Notify(r)
    PROVE  ReqPhases' /\ InFlight' /\ AsksOnlyItsHost'
<1> USE DEF AskedInv, RegInv, AskInv, RegistryTypeOK
<1>1. /\ UNCHANGED <<reqHost, asked, owner>>
      /\ req[r] = "found" /\ req' = [req EXCEPT ![r] = "ok"]
  BY DEF Notify, agentVars
<1>2. ReqPhases' /\ AsksOnlyItsHost'
  BY <1>1 DEF ReqPhases, AsksOnlyItsHost
<1>3. reqHost[r] \in Hosts
  BY <1>1 DEF ReqPhases
<1>4. ASSUME NEW c \in Conns, NEW i \in 1 .. Len(down'[c]), down'[c][i] \in Requests
      PROVE  reqHost[down'[c][i]] = owner[c] /\ owner[c] \in Trusted
  <2>1. CASE agents[reqHost[r]] = c /\ handler[c] = "reading"
    <3>1. down'[c] = Append(down[c], r) /\ down[c] \in Seq({"registered"} \cup Requests)
      BY <2>1 DEF Notify
    <3>2. reqHost[r] = owner[c] /\ owner[c] \in Trusted
      BY <1>3, <2>1, NoHostAssumption DEF RecordIsLive, Handlers
    <3>3. CASE i \in 1 .. Len(down[c])
      <4>1. down'[c][i] = down[c][i]
        BY <3>1, <3>3
      <4>2. QED
        BY <1>4, <3>3, <4>1 DEF InFlight
    <3>4. CASE i \notin 1 .. Len(down[c])
      <4>1. down'[c][i] = r
        BY <3>1, <3>4
      <4>2. QED
        BY <3>2, <4>1
    <3>5. QED
      BY <3>3, <3>4
  <2>2. CASE ~(agents[reqHost[r]] = c /\ handler[c] = "reading")
    <3>1. down'[c] = down[c]
      BY <2>2 DEF Notify
    <3>2. QED
      BY <1>4, <3>1 DEF InFlight
  <2>3. QED
    BY <2>1, <2>2
<1>5. QED
  BY <1>1, <1>2, <1>4 DEF InFlight

\* The answer to Register is no TunnelReady.
LEMMA AskRegister ==
    ASSUME AskedInv, NEW k \in Conns, HandleRegister(k)
    PROVE  ReqPhases' /\ InFlight' /\ AsksOnlyItsHost'
<1> USE DEF AskedInv, RegInv, AskInv, RegistryTypeOK
<1>1. UNCHANGED <<req, reqHost, asked, owner>>
  BY DEF HandleRegister, agentVars, reqVars
<1>2. ReqPhases' /\ AsksOnlyItsHost'
  BY <1>1 DEF ReqPhases, AsksOnlyItsHost
<1>3. ASSUME NEW c \in Conns, NEW i \in 1 .. Len(down'[c]), down'[c][i] \in Requests
      PROVE  reqHost[down'[c][i]] = owner[c] /\ owner[c] \in Trusted
  <2>1. CASE c = k
    <3>1. /\ down'[c] = Append(down[c], "registered")
          /\ down[c] \in Seq({"registered"} \cup Requests)
      BY <2>1 DEF HandleRegister
    <3>2. i \in 1 .. Len(down[c]) /\ down'[c][i] = down[c][i]
      <4>1. i \notin 1 .. Len(down[c]) => down'[c][i] = "registered"
        BY <3>1
      <4>2. i \in 1 .. Len(down[c])
        BY <1>3, <4>1, RequestsAssumption
      <4>3. QED
        BY <3>1, <4>2
    <3>3. QED
      BY <1>3, <3>2 DEF InFlight
  <2>2. CASE c # k
    <3>1. down'[c] = down[c]
      BY <2>2 DEF HandleRegister
    <3>2. QED
      BY <1>3, <3>1 DEF InFlight
  <2>3. QED
    BY <2>1, <2>2
<1>4. QED
  BY <1>1, <1>2, <1>3 DEF InFlight

\* A host is named once per request, before anything is in flight for it.
LEMMA AskLookUp ==
    ASSUME AskedInv, NEW r \in Requests, NEW h \in Hosts, LookUp(r, h)
    PROVE  ReqPhases' /\ InFlight' /\ AsksOnlyItsHost'
<1> USE DEF AskedInv, RegInv, AskInv, RegistryTypeOK
<1>1. /\ UNCHANGED <<asked, owner, down>>
      /\ req[r] = "idle" /\ reqHost[r] = NoHost
      /\ reqHost' = [reqHost EXCEPT ![r] = h]
  BY DEF LookUp, agentVars, ReqPhases
<1>2. ReqPhases'
  BY <1>1 DEF LookUp, ReqPhases
<1>3. asked[r] = NoHost
  BY <1>1, NoHostAssumption, TrustedAssumption DEF AsksOnlyItsHost
<1>4. AsksOnlyItsHost'
  BY <1>1, <1>3 DEF AsksOnlyItsHost
<1>5. InFlight'
  <2>1. ASSUME NEW c \in Conns, NEW i \in 1 .. Len(down[c]), down[c][i] \in Requests
        PROVE  reqHost'[down[c][i]] = owner[c] /\ owner[c] \in Trusted
    <3>1. reqHost[down[c][i]] = owner[c] /\ owner[c] \in Trusted
      BY <2>1 DEF InFlight
    <3>2. down[c][i] # r
      BY <1>1, <3>1, NoHostAssumption, TrustedAssumption
    <3>3. QED
      BY <1>1, <2>1, <3>1, <3>2
  <2>2. QED
    BY <1>1, <2>1 DEF InFlight
<1>6. QED
  BY <1>2, <1>4, <1>5

\* A restart forgets the queues and fails the requests in progress.
LEMMA AskRestart ==
    ASSUME AskedInv, CoordinatorRestart
    PROVE  ReqPhases' /\ InFlight' /\ AsksOnlyItsHost'
BY DEF CoordinatorRestart, agentVars, AskedInv, RegInv, AskInv, RegistryTypeOK, ReqPhases,
   InFlight, AsksOnlyItsHost

LEMMA AskStep == AskedInv /\ [RegistryNext]_registryVars => AskInv'
<1> SUFFICES ASSUME AskedInv, [RegistryNext]_registryVars
             PROVE  ReqPhases' /\ InFlight' /\ AsksOnlyItsHost'
  BY HoldsOwnStep DEF AskInv
<1>1. ASSUME NEW h \in Hosts, Agent(h)
      PROVE  ReqPhases' /\ InFlight' /\ AsksOnlyItsHost'
  <2>1. CASE Dial(h)
    <3>1. UNCHANGED <<down, reqVars>>
      BY <2>1 DEF Dial
    <3>2. \A c \in Conns : owner'[c] = owner[c] \/ handler[c] = "none"
      BY <2>1 DEF Dial, AskedInv, RegInv, RegistryTypeOK, Handlers
    <3>3. QED
      BY <3>1, <3>2, AskQuiet
  <2>2. CASE SendRegister(h) \/ Heartbeat(h) \/ AgentLost(h)
    <3>1. UNCHANGED <<down, reqVars, owner>>
      BY <2>2 DEF SendRegister, Heartbeat, AgentLost, agentVars
    <3>2. QED
      BY <3>1, AskQuiet
  <2>3. QED
    BY <1>1, <2>1, <2>2, AskReceive DEF Agent
<1>2. ASSUME NEW c \in Conns, BreakLink(c) \/ Handler(c)
      PROVE  ReqPhases' /\ InFlight' /\ AsksOnlyItsHost'
  <2>1. CASE HandleRegister(c)
    BY <2>1, AskRegister
  <2>2. CASE HandlerSeesClose(c)
    <3>1. UNCHANGED <<reqVars, owner>>
      BY <2>2 DEF HandlerSeesClose, agentVars
    <3>2. \A d \in Conns : down'[d] = down[d] \/ down'[d] = <<>>
      BY <2>2 DEF HandlerSeesClose, AskedInv, RegInv, RegistryTypeOK
    <3>3. QED
      BY <3>1, <3>2, AskQuiet
  <2>3. CASE BreakLink(c) \/ RejectRegister(c) \/ HandleHeartbeat(c) \/ Unregister(c)
    <3>1. UNCHANGED <<down, reqVars, owner>>
      BY <2>3 DEF BreakLink, RejectRegister, HandleHeartbeat, Unregister, agentVars
    <3>2. QED
      BY <3>1, AskQuiet
  <2>4. QED
    BY <1>2, <2>1, <2>2, <2>3 DEF Handler
<1>3. ASSUME NEW r \in Requests, Client(r)
      PROVE  ReqPhases' /\ InFlight' /\ AsksOnlyItsHost'
  BY <1>3, AskNotify, AskLookUp DEF Client
<1>4. CASE CoordinatorRestart
  BY <1>4, AskRestart
<1>5. CASE UNCHANGED registryVars
  <2>1. UNCHANGED <<down, reqVars, owner>>
    BY <1>5 DEF registryVars, reqVars
  <2>2. QED
    BY <2>1, AskQuiet
<1>6. QED
  BY <1>1, <1>2, <1>3, <1>4, <1>5 DEF RegistryNext

\* RegistryAsksOnlyItsHost: a TunnelReady only ever reaches the agent of the
\* host the client named, and that agent has the secret.
THEOREM RegistryAsksOnlyItsHost == RegistrySpec => []AsksOnlyItsHost
<1>1. RegistryInit => AskedInv
  BY RegInit, AskInit DEF AskedInv
<1>2. AskedInv /\ [RegistryNext]_registryVars => AskedInv'
  BY RegStep, AskStep DEF AskedInv
<1>3. AskedInv => AsksOnlyItsHost
  BY DEF AskedInv, AskInv
<1>4. QED
  BY <1>1, <1>2, <1>3, PTL DEF RegistrySpec
-----------------------------------------------------------------------------
(* Who may take a host off the map.  The record under an id is written by  *)
(* a trusted agent's handler only, and every such id is the agent's own:   *)
(* what takes the record from a handler is another handler of its agent,   *)
(* which holds it until a third one takes it from there or its end.        *)

ServeInv == RegInv /\ ServedHostListed

\* No step that leaves connections, handlers and records alone, or only
\* ends handlers without removing a record, takes a host off the map.
LEMMA ServeQuiet ==
    ASSUME ServedHostListed, UNCHANGED <<regd, agents>>,
           \A c \in Conns : handler'[c] = handler[c] \/ handler'[c] # "reading",
           \A c \in Conns : handler[c] = "done" => handler'[c] = "done",
           UNCHANGED owner
    PROVE  ServedHostListed'
BY DEF ServedHostListed

LEMMA ServeStep == ServeInv /\ [RegistryNext]_registryVars => ServeInv'
<1> SUFFICES ASSUME ServeInv, [RegistryNext]_registryVars PROVE ServeInv'
  OBVIOUS
<1>1. RegInv /\ RegInv'
  BY RegStep DEF ServeInv
<1> USE DEF ServeInv, RegInv, Handlers, RegistryTypeOK
<1>2. ASSUME NEW h \in Hosts, Dial(h) PROVE ServedHostListed'
  <2>1. PICK n \in Conns :
            /\ link[n] = "unused"
            /\ owner' = [owner EXCEPT ![n] = h]
            /\ handler' = [handler EXCEPT ![n] = "reading"]
    BY <1>2 DEF Dial
  <2>2. UNCHANGED <<regd, agents>>
    BY <1>2 DEF Dial
  <2>3. handler[n] = "none" /\ regd[n] = NoHost
    BY <2>1
  <2>4. ASSUME NEW c \in Conns, handler'[c] = "reading", regd'[c] # NoHost,
               agents'[regd'[c]] # c
        PROVE  \E d \in Conns \ {c} :
                   owner'[d] = owner'[c] /\ (agents'[regd'[c]] = d \/ handler'[d] = "done")
    <3>1. c # n /\ handler[c] = "reading" /\ regd[c] # NoHost
      BY <2>1, <2>2, <2>3, <2>4
    <3>2. PICK d \in Conns \ {c} :
              owner[d] = owner[c] /\ (agents[regd[c]] = d \/ handler[d] = "done")
      BY <2>2, <2>4, <3>1 DEF ServedHostListed
    <3>3. regd[c] \in Hosts
      BY <3>1
    <3>4. d # n
      BY <2>3, <3>2, <3>3, NoHostAssumption DEF RecordIsLive
    <3>5. QED
      BY <2>1, <2>2, <3>1, <3>2, <3>4
  <2>5. QED
    BY <2>4 DEF ServedHostListed
<1>3. ASSUME UNCHANGED <<owner, handler, regd, agents>> PROVE ServedHostListed'
  BY <1>3 DEF ServedHostListed
<1>4. ASSUME NEW h \in Hosts, Agent(h) PROVE ServedHostListed'
  <2>1. CASE SendRegister(h) \/ Heartbeat(h) \/ AgentReceive(h) \/ AgentLost(h)
    BY <1>3, <2>1 DEF SendRegister, Heartbeat, AgentReceive, AgentLost, agentVars
  <2>2. QED
    BY <1>2, <1>4, <2>1 DEF Agent
<1>5. ASSUME NEW k \in Conns, Handler(k) PROVE ServedHostListed'
  <2>1. CASE HandleRegister(k)
    <3>1. UNCHANGED <<owner, handler>>
      BY <2>1 DEF HandleRegister, agentVars
    <3>2. /\ owner[k] \in Trusted /\ owner[k] \in Hosts
          /\ regd' = [regd EXCEPT ![k] = owner[k]]
          /\ agents' = [agents EXCEPT ![owner[k]] = k]
      BY <2>1, TrustedAssumption, ClaimsAssumption DEF HandleRegister
    <3>3. ASSUME NEW c \in Conns, handler[c] = "reading", regd'[c] # NoHost,
                 agents'[regd'[c]] # c
          PROVE  \E d \in Conns \ {c} :
                     owner[d] = owner[c] /\ (agents'[regd'[c]] = d \/ handler[d] = "done")
      <4>1. c # k
        BY <3>2, <3>3
      <4>2. regd'[c] = regd[c] /\ regd[c] = owner[c] /\ regd[c] \in Hosts
        BY <3>2, <3>3, <4>1
      <4>3. CASE owner[c] = owner[k]
        BY <3>2, <4>1, <4>2, <4>3
      <4>4. CASE owner[c] # owner[k]
        <5>1. agents'[regd[c]] = agents[regd[c]]
          BY <3>2, <4>2, <4>4
        <5>2. QED
          BY <3>3, <4>2, <5>1 DEF ServedHostListed
      <4>5. QED
        BY <4>3, <4>4
    <3>4. QED
      BY <3>1, <3>3 DEF ServedHostListed
  <2>2. CASE RejectRegister(k) \/ HandlerSeesClose(k)
    <3>1. /\ UNCHANGED <<owner, regd, agents>>
          /\ \A c \in Conns : handler'[c] = handler[c] \/ handler'[c] # "reading"
          /\ \A c \in Conns : handler[c] = "done" => handler'[c] = "done"
      BY <2>2 DEF RejectRegister, HandlerSeesClose, agentVars
    <3>2. QED
      BY <3>1, ServeQuiet
  <2>3. CASE HandleHeartbeat(k)
    BY <1>3, <2>3 DEF HandleHeartbeat, agentVars
  <2>4. CASE Unregister(k)
    <3>1. /\ UNCHANGED <<owner, regd>> /\ handler[k] = "closing"
          /\ handler' = [handler EXCEPT ![k] = "done"]
      BY <2>4 DEF Unregister, agentVars
    <3>2. ASSUME NEW c \in Conns, handler'[c] = "reading", regd[c] # NoHost,
                 agents'[regd[c]] # c
          PROVE  \E d \in Conns \ {c} :
                     owner[d] = owner[c] /\ (agents'[regd[c]] = d \/ handler'[d] = "done")
      <4>1. c # k /\ handler[c] = "reading" /\ regd[c] = owner[c] /\ regd[c] \in Hosts
        BY <3>1, <3>2
      <4>2. CASE regd[k] = regd[c]
        <5>1. owner[k] = owner[c] /\ handler'[k] = "done"
          BY <3>1, <3>2, <4>1, <4>2
        <5>2. QED
          BY <4>1, <5>1
      <4>3. CASE regd[k] # regd[c]
        <5>1. agents'[regd[c]] = agents[regd[c]]
          BY <2>4, <4>1, <4>3 DEF Unregister
        <5>2. PICK d \in Conns \ {c} :
                  owner[d] = owner[c] /\ (agents[regd[c]] = d \/ handler[d] = "done")
          BY <3>2, <4>1, <5>1 DEF ServedHostListed
        <5>3. QED
          BY <3>1, <5>1, <5>2
      <4>4. QED
        BY <4>2, <4>3
    <3>3. QED
      BY <3>1, <3>2 DEF ServedHostListed
  <2>5. QED
    BY <1>5, <2>1, <2>2, <2>3, <2>4 DEF Handler
<1>6. ASSUME NEW c \in Conns, BreakLink(c) PROVE ServedHostListed'
  BY <1>3, <1>6 DEF BreakLink, agentVars
<1>7. ASSUME NEW r \in Requests, Client(r) PROVE ServedHostListed'
  BY <1>3, <1>7 DEF Client, Notify, LookUp, agentVars
<1>8. CASE CoordinatorRestart
  <2>1. \A c \in Conns : handler'[c] # "reading"
    BY <1>8 DEF CoordinatorRestart
  <2>2. QED
    BY <1>1, <2>1 DEF ServedHostListed
<1>9. CASE UNCHANGED registryVars
  <2>1. UNCHANGED <<owner, handler, regd, agents>>
    BY <1>9 DEF registryVars
  <2>2. QED
    BY <1>1, <1>3, <2>1
<1>10. QED
  BY <1>1, <1>4, <1>5, <1>6, <1>7, <1>8, <1>9 DEF RegistryNext

\* RegistryServedHostListed: a host that is being served is lost from the
\* coordinator's map only to another connection of its own agent.
THEOREM RegistryServedHostListed == RegistrySpec => []ServedHostListed
<1>1. RegistryInit => ServeInv
  BY RegInit DEF RegistryInit, ServeInv, ServedHostListed
<1>2. ServeInv => ServedHostListed
  BY DEF ServeInv
<1>3. QED
  BY <1>1, <1>2, ServeStep, PTL DEF RegistrySpec

-----------------------------------------------------------------------------
(* A relayed session.                                                     *)

Last(q) == q[Len(q)]

\* The hub still reads, or will read, what the endpoint of this side sends.
Reading(d) == leg[d] \in {"idle", "upgrading", "open"}

(***************************************************************************)
(* The stream from side p to side d is got[d], then chan[d], then wire[p]. *)
(* NoGapInStream alone is not inductive: a frame received tomorrow is in   *)
(* one of the queues today.  StreamInv says that the three pieces are      *)
(* unbroken stretches and that each one starts where the previous ends, as *)
(* long as frames can still move from one to the next.                     *)
(***************************************************************************)
Stretches(d, p) ==
    /\ Consecutive(got[d])
    /\ Consecutive(chan[d])
    /\ Consecutive(wire[p])

ReceivedMeetsQueued(d) ==
    got[d] # <<>> /\ chan[d] # <<>> => chan[d][1] = Last(got[d]) + 1

QueuedMeetsWire(d, p) ==
    leg[d] = "open" /\ Reading(p) /\ wire[p] # <<>> =>
        /\ chan[d] # <<>> => wire[p][1] = Last(chan[d]) + 1
        /\ chan[d] = <<>> /\ got[d] # <<>> => wire[p][1] = Last(got[d]) + 1

WireMeetsSender(d, p) ==
    remote[p] = "up" =>
        /\ wire[p] # <<>> => Last(wire[p]) = sent[p]
        /\ leg[d] = "open" /\ Reading(p) /\ wire[p] = <<>> =>
            /\ chan[d] # <<>> => Last(chan[d]) = sent[p]
            /\ chan[d] = <<>> /\ got[d] # <<>> => Last(got[d]) = sent[p]

\* Frames reach d only after its sender was recorded in the session.
OnlyAfterAttach(d) ==
    got[d] # <<>> \/ chan[d] # <<>> =>
        /\ setup \in {"reply", "done"}
        /\ leg[d] \notin {"idle", "upgrading"}
        /\ session = "present" => d \in tx

NothingBeforeUp(d, p) ==
    remote[p] \in {"idle", "dialled"} =>
        wire[p] = <<>> /\ chan[d] = <<>> /\ got[d] = <<>>

\* A leg exists only for an endpoint that has dialled.
NoLegBeforeDial(d) == remote[d] = "idle" <=> leg[d] = "idle"

NoSessionBeforeCreate == session = "present" => setup \in {"reply", "done"}

StreamInv(d, p) ==
    /\ NoLegBeforeDial(d)
    /\ Stretches(d, p)
    /\ ReceivedMeetsQueued(d)
    /\ QueuedMeetsWire(d, p)
    /\ WireMeetsSender(d, p)
    /\ OnlyAfterAttach(d)
    /\ NothingBeforeUp(d, p)
    /\ NoSessionBeforeCreate

IInv == TypeOK /\ \A d \in Sides : StreamInv(d, Peer(d))
-----------------------------------------------------------------------------
\* Peer is an involution on the two sides.
LEMMA PeerFacts ==
    ASSUME NEW d \in Sides
    PROVE  Peer(d) \in Sides /\ Peer(d) # d /\ Peer(Peer(d)) = d
BY DEF Sides, Peer

\* Taking the head of an unbroken stretch leaves an unbroken stretch that
\* starts one later and ends where it did.
LEMMA TailConsecutive ==
    ASSUME NEW q \in Seq(Nat), q # <<>>, Consecutive(q)
    PROVE  /\ Tail(q) \in Seq(Nat)
           /\ Head(q) = q[1] /\ q[1] \in Nat
           /\ Consecutive(Tail(q))
           /\ Tail(q) # <<>> => Tail(q)[1] = q[1] + 1 /\ Last(Tail(q)) = Last(q)
           /\ Tail(q) = <<>> => Last(q) = q[1]
<1>1. Len(q) \in Nat /\ Len(q) >= 1 /\ Head(q) = q[1] /\ q[1] \in Nat
  OBVIOUS
<1>2. Tail(q) \in Seq(Nat) /\ Len(Tail(q)) = Len(q) - 1
  OBVIOUS
<1>3. \A i \in 1 .. Len(q) - 1 : Tail(q)[i] = q[i + 1]
  OBVIOUS
<1>4. Consecutive(Tail(q))
  <2> SUFFICES ASSUME NEW i \in 1 .. Len(q) - 2
               PROVE  Tail(q)[i + 1] = Tail(q)[i] + 1
    BY <1>1, <1>2 DEF Consecutive
  <2>1. i \in 1 .. Len(q) - 1 /\ i + 1 \in 1 .. Len(q) - 1
    BY <1>1
  <2>2. Tail(q)[i] = q[i + 1] /\ Tail(q)[i + 1] = q[i + 1 + 1]
    BY <2>1, <1>3
  <2>3. q[i + 1 + 1] = q[i + 1] + 1
    BY <2>1 DEF Consecutive
  <2>4. QED
    BY <2>2, <2>3
<1>5. ASSUME Tail(q) # <<>>
      PROVE  Tail(q)[1] = q[1] + 1 /\ Last(Tail(q)) = Last(q)
  <2>1. Len(q) >= 2
    BY <1>1, <1>2, <1>5
  <2>2. Tail(q)[1] = q[2] /\ Tail(q)[Len(q) - 1] = q[Len(q)]
    BY <1>1, <1>3, <2>1
  <2>3. q[2] = q[1] + 1
    BY <1>1, <2>1 DEF Consecutive
  <2>4. QED
    BY <1>2, <2>2, <2>3 DEF Last
<1>6. Tail(q) = <<>> => Last(q) = q[1]
  <2>1. CASE Len(q) = 1
    BY <2>1 DEF Last
  <2>2. CASE Len(q) >= 2
    <3>1. Len(Tail(q)) # 0
      BY <1>1, <1>2, <2>2
    <3>2. QED
      BY <1>2, <3>1, EmptySeq
  <2>3. \A n \in Nat : n >= 1 => n = 1 \/ n >= 2
    OBVIOUS
  <2>4. QED
    BY <1>1, <2>1, <2>2, <2>3, Zenon
<1>7. QED
  BY <1>1, <1>2, <1>4, <1>5, <1>6

\* Appending the successor of the last element keeps a stretch unbroken.
LEMMA AppendConsecutive ==
    ASSUME NEW q \in Seq(Nat), NEW x \in Nat, Consecutive(q),
           q # <<>> => x = Last(q) + 1
    PROVE  /\ Append(q, x) \in Seq(Nat)
           /\ Append(q, x) # <<>>
           /\ Consecutive(Append(q, x))
           /\ Last(Append(q, x)) = x
           /\ q # <<>> => Append(q, x)[1] = q[1]
           /\ q = <<>> => Append(q, x)[1] = x
<1>1. /\ Append(q, x) \in Seq(Nat)
      /\ Len(Append(q, x)) = Len(q) + 1
      /\ Append(q, x)[Len(q) + 1] = x
  OBVIOUS
<1>2. \A i \in 1 .. Len(q) : Append(q, x)[i] = q[i]
  OBVIOUS
<1>3. Len(q) \in Nat /\ (q # <<>> => Len(q) >= 1) /\ (q = <<>> => Len(q) = 0)
  OBVIOUS
<1>4. Consecutive(Append(q, x))
  <2> SUFFICES ASSUME NEW i \in 1 .. Len(q)
               PROVE  Append(q, x)[i + 1] = Append(q, x)[i] + 1
    BY <1>1, <1>3 DEF Consecutive
  <2>1. CASE i = Len(q)
    BY <1>1, <1>2, <1>3, <2>1 DEF Last
  <2>2. CASE i < Len(q)
    <3>1. i \in 1 .. Len(q) - 1 /\ i + 1 \in 1 .. Len(q)
      BY <2>2, <1>3
    <3>2. q[i + 1] = q[i] + 1
      BY <3>1 DEF Consecutive
    <3>3. QED
      BY <1>2, <3>1, <3>2
  <2>3. QED
    BY <1>3, <2>1, <2>2
<1>5. Append(q, x) # <<>> /\ Last(Append(q, x)) = x
  BY <1>1, <1>3 DEF Last
<1>6. QED
  BY <1>1, <1>2, <1>3, <1>4, <1>5

\* A prefix of an unbroken stretch is one, and starts where it did.
LEMMA PrefixConsecutive ==
    ASSUME NEW q \in Seq(Nat), NEW n \in 0 .. Len(q), Consecutive(q)
    PROVE  /\ SubSeq(q, 1, n) \in Seq(Nat)
           /\ Consecutive(SubSeq(q, 1, n))
           /\ SubSeq(q, 1, n) # <<>> => q # <<>> /\ SubSeq(q, 1, n)[1] = q[1]
BY DEF Consecutive
-----------------------------------------------------------------------------
(* Type correctness.                                                       *)

LEMMA TypeInit == Init => TypeOK
BY DEF Init, TypeOK, Sides

LEMMA TypeStep == TypeOK /\ [Next]_vars => TypeOK'
<1> SUFFICES ASSUME TypeOK, [Next]_vars PROVE TypeOK'
  OBVIOUS
<1> USE DEF TypeOK
<1>1. CASE Setup \/ AgentDial \/ AgentOpenVnc \/ ClientDial
  <2>1. CASE Setup
    BY <2>1 DEF Setup, NotifyAgent, CreateSession, ReplyOk, dataVars
  <2>2. CASE AgentDial
    BY <2>2 DEF AgentDial, setupVars, dataVars
  <2>3. CASE AgentOpenVnc
    <3>1. PICK s \in {"up", "down"} : remote' = [remote EXCEPT !["agent"] = s]
      BY <2>3 DEF AgentOpenVnc
    <3>2. QED
      BY <2>3, <3>1 DEF AgentOpenVnc, setupVars, dataVars
  <2>4. CASE ClientDial
    BY <2>4 DEF ClientDial, setupVars, dataVars
  <2>5. QED
    BY <1>1, <2>1, <2>2, <2>3, <2>4
<1>2. ASSUME NEW d \in Sides, Hub(d) PROVE TypeOK'
  <2>1. CASE Forward(d)
    <3>1. Peer(d) \in Sides
      BY PeerFacts
    <3>2. Head(wire[d]) \in Nat /\ Tail(wire[d]) \in Seq(Nat)
      BY <2>1 DEF Forward
    <3>3. chan' \in [Sides -> Seq(Nat)] /\ wire' \in [Sides -> Seq(Nat)]
      <4>1. Append(chan[Peer(d)], Head(wire[d])) \in Seq(Nat)
        BY <3>1, <3>2
      <4>2. QED
        BY <2>1, <3>1, <3>2, <4>1 DEF Forward
    <3>4. QED
      BY <2>1, <3>3 DEF Forward, setupVars
  <2>2. CASE Cleanup(d)
    BY <2>2 DEF Cleanup
  <2>3. CASE AttachLeg(d) \/ ForwardPong(d) \/ Break(d) \/ LegEof(d) \/ Keepalive(d)
    BY <2>3 DEF AttachLeg, ForwardPong, Break, LegEof, Keepalive, setupVars, dataVars
  <2>4. QED
    BY <1>2, <2>1, <2>2, <2>3 DEF Hub
<1>3. ASSUME NEW d \in Sides, Endpoint(d) PROVE TypeOK'
  <2>1. CASE Send(d)
    BY <2>1 DEF Send, setupVars
  <2>2. CASE Receive(d)
    BY <2>2 DEF Receive, setupVars
  <2>3. CASE Hangup(d)
    <3>1. PICK n \in 0 .. Len(wire[d]) :
              wire' = [wire EXCEPT ![d] = SubSeq(wire[d], 1, n)]
      BY <2>3 DEF Hangup
    <3>2. SubSeq(wire[d], 1, n) \in Seq(Nat)
      OBVIOUS
    <3>3. QED
      BY <2>3, <3>1, <3>2 DEF Hangup, setupVars
  <2>4. CASE Pong(d) \/ SeeClose(d)
    BY <2>4 DEF Pong, SeeClose, setupVars, dataVars
  <2>5. QED
    BY <1>3, <2>1, <2>2, <2>3, <2>4 DEF Endpoint
<1>4. CASE UNCHANGED vars
  BY <1>4 DEF vars
<1>5. QED
  BY <1>1, <1>2, <1>3, <1>4 DEF Next

\* RelayTypeCorrect: the type invariant of the relayed session holds in
\* every reachable state, for every bound on the traffic.
THEOREM RelayTypeCorrect == Spec => []TypeOK
BY TypeInit, TypeStep, PTL DEF Spec
-----------------------------------------------------------------------------
(* The inductive invariant.                                                *)

LEMMA StreamInit == Init => \A d \in Sides : StreamInv(d, Peer(d))
<1> SUFFICES ASSUME Init, NEW d \in Sides PROVE StreamInv(d, Peer(d))
  OBVIOUS
<1>1. Peer(d) \in Sides
  BY PeerFacts
<1>2. \A e \in Sides : /\ got[e] = <<>> /\ chan[e] = <<>> /\ wire[e] = <<>>
                       /\ remote[e] = "idle" /\ leg[e] = "idle"
  BY DEF Init
<1>3. Consecutive(<<>>)
  BY DEF Consecutive
<1>4. session = "absent"
  BY DEF Init
<1>5. QED
  BY <1>1, <1>2, <1>3, <1>4 DEF StreamInv, Stretches, ReceivedMeetsQueued,
     QueuedMeetsWire, WireMeetsSender, OnlyAfterAttach, NothingBeforeUp,
     NoLegBeforeDial, NoSessionBeforeCreate

\* The steps that move no frame.
LEMMA StreamControl ==
    ASSUME TypeOK, NEW d \in Sides, NEW p \in Sides, p = Peer(d),
           StreamInv(d, p), UNCHANGED <<wire, chan, got, sent>>,
           \/ Setup \/ AgentDial \/ AgentOpenVnc \/ ClientDial
           \/ UNCHANGED vars
           \/ \E e \in Sides :
                  \/ AttachLeg(e) \/ ForwardPong(e) \/ Break(e) \/ LegEof(e)
                  \/ Keepalive(e) \/ Pong(e) \/ SeeClose(e)
    PROVE  StreamInv(d, p)'
<1> USE DEF TypeOK, StreamInv, Stretches, ReceivedMeetsQueued,
     QueuedMeetsWire, WireMeetsSender, OnlyAfterAttach, NothingBeforeUp,
     NoLegBeforeDial, NoSessionBeforeCreate, Reading
<1>1. CASE Setup
  BY <1>1 DEF Setup, NotifyAgent, CreateSession, ReplyOk
<1>2. CASE AgentDial \/ AgentOpenVnc \/ ClientDial
  <2>1. CASE AgentDial
    <3>1. /\ setup' = setup /\ session' = session /\ tx' = tx
          /\ remote["agent"] = "idle" /\ remote'["agent"] = "dialled"
          /\ leg'["agent"] = "upgrading"
          /\ \A e \in Sides : e # "agent" => remote'[e] = remote[e] /\ leg'[e] = leg[e]
      BY <2>1 DEF AgentDial, setupVars, Sides
    <3>2. CASE d = "agent"
      BY <3>1, <3>2, PeerFacts
    <3>3. CASE p = "agent"
      BY <3>1, <3>3, PeerFacts
    <3>4. QED
      BY <3>2, <3>3 DEF Sides, Peer
  <2>2. CASE AgentOpenVnc
    <3>1. /\ leg' = leg /\ setup' = setup /\ session' = session /\ tx' = tx
          /\ remote["agent"] = "dialled" /\ remote'["agent"] \in {"up", "down"}
          /\ \A e \in Sides : e # "agent" => remote'[e] = remote[e]
      BY <2>2 DEF AgentOpenVnc, setupVars, Sides
    <3>2. CASE d = "agent"
      <4>1. remote'[p] = remote[p] /\ leg[d] # "idle"
        BY <3>1, <3>2, PeerFacts
      <4>2. QED
        BY <3>1, <3>2, <4>1
    <3>3. CASE p = "agent"
      BY <3>1, <3>3, PeerFacts
    <3>4. QED
      BY <3>2, <3>3 DEF Sides, Peer
  <2>3. CASE ClientDial
    <3>1. /\ setup' = setup /\ session' = session /\ tx' = tx
          /\ remote["client"] = "idle" /\ remote'["client"] = "up"
          /\ leg'["client"] = "upgrading"
          /\ \A e \in Sides : e # "client" => remote'[e] = remote[e] /\ leg'[e] = leg[e]
      BY <2>3 DEF ClientDial, setupVars, Sides
    <3>2. CASE d = "client"
      BY <3>1, <3>2, PeerFacts
    <3>3. CASE p = "client"
      BY <3>1, <3>3, PeerFacts
    <3>4. QED
      BY <3>2, <3>3 DEF Sides, Peer
  <2>4. QED
    BY <1>2, <2>1, <2>2, <2>3
<1>3. CASE UNCHANGED vars
  BY <1>3 DEF vars
<1>4. ASSUME NEW e \in Sides, AttachLeg(e) PROVE StreamInv(d, p)'
  BY <1>4 DEF AttachLeg
<1>5. ASSUME NEW e \in Sides, ForwardPong(e) \/ Keepalive(e) \/ Pong(e)
      PROVE StreamInv(d, p)'
  <2>1. UNCHANGED <<setup, session, tx, leg, remote>>
    BY <1>5 DEF ForwardPong, Keepalive, Pong, setupVars
  <2>2. QED
    BY <2>1
<1>6. ASSUME NEW e \in Sides, Break(e) \/ LegEof(e) PROVE StreamInv(d, p)'
  <2>1. /\ UNCHANGED <<setup, session, tx, remote>>
        /\ leg[e] = "open" /\ leg'[e] = "ending"
        /\ \A x \in Sides : x # e => leg'[x] = leg[x]
    BY <1>6 DEF Break, LegEof, setupVars
  <2>2. CASE e = d
    BY <2>1, <2>2, PeerFacts
  <2>3. CASE e = p
    BY <2>1, <2>3, PeerFacts
  <2>4. QED
    BY <2>2, <2>3 DEF Sides, Peer
<1>7. ASSUME NEW e \in Sides, SeeClose(e) PROVE StreamInv(d, p)'
  <2>1. /\ UNCHANGED <<setup, session, tx, leg>>
        /\ remote[e] = "up" /\ remote'[e] = "down"
        /\ \A x \in Sides : x # e => remote'[x] = remote[x]
    BY <1>7 DEF SeeClose, setupVars
  <2>2. QED
    BY <2>1
<1>8. QED
  BY <1>1, <1>2, <1>3, <1>4, <1>5, <1>6, <1>7

\* A frame enters the stream at the wire's end.
LEMMA StreamSend ==
    ASSUME TypeOK, NEW d \in Sides, NEW p \in Sides, p # d,
           StreamInv(d, p), NEW e \in Sides, Send(e)
    PROVE  StreamInv(d, p)'
<1>1. /\ setup' = setup /\ session' = session /\ tx' = tx /\ leg' = leg
      /\ remote' = remote /\ chan' = chan /\ got' = got /\ remote[e] = "up"
  BY DEF Send, setupVars
<1>2. ASSUME e = p
      PROVE  /\ wire'[p] # <<>>
             /\ Consecutive(wire'[p])
             /\ Last(wire'[p]) = sent'[p]
             /\ wire[p] # <<>> => wire'[p][1] = wire[p][1]
             /\ wire[p] = <<>> => wire'[p][1] = sent[p] + 1
             /\ sent'[p] = sent[p] + 1
  <2>1. wire'[p] = Append(wire[p], sent[p] + 1) /\ sent'[p] = sent[p] + 1
    BY <1>2 DEF Send, TypeOK
  <2>2. /\ wire[p] \in Seq(Nat) /\ sent[p] + 1 \in Nat
        /\ Consecutive(wire[p])
        /\ wire[p] # <<>> => sent[p] + 1 = Last(wire[p]) + 1
    <3>1. wire[p] \in Seq(Nat) /\ sent[p] + 1 \in Nat
      BY DEF TypeOK
    <3>2. Consecutive(wire[p])
      BY DEF StreamInv, Stretches
    <3>3. wire[p] # <<>> => Last(wire[p]) = sent[p]
      BY <1>1, <1>2 DEF StreamInv, WireMeetsSender
    <3>4. QED
      BY <3>1, <3>2, <3>3
  <2>3. /\ Append(wire[p], sent[p] + 1) # <<>>
        /\ Consecutive(Append(wire[p], sent[p] + 1))
        /\ Last(Append(wire[p], sent[p] + 1)) = sent[p] + 1
        /\ wire[p] # <<>> => Append(wire[p], sent[p] + 1)[1] = wire[p][1]
        /\ wire[p] = <<>> => Append(wire[p], sent[p] + 1)[1] = sent[p] + 1
    BY <2>2, AppendConsecutive
  <2>4. QED
    BY <2>1, <2>3
<1> USE DEF TypeOK, StreamInv, Stretches, ReceivedMeetsQueued,
     QueuedMeetsWire, WireMeetsSender, OnlyAfterAttach, NothingBeforeUp,
     NoLegBeforeDial, NoSessionBeforeCreate, Reading
<1>3. CASE e = p
  BY <1>1, <1>2, <1>3
<1>4. CASE e # p
  BY <1>1, <1>4 DEF Send
<1>5. QED
  BY <1>3, <1>4

\* A frame leaves the queue of d and is received.
LEMMA StreamReceive ==
    ASSUME TypeOK, NEW d \in Sides, NEW p \in Sides, p # d,
           StreamInv(d, p), NEW e \in Sides, Receive(e)
    PROVE  StreamInv(d, p)'
<1>1. /\ setup' = setup /\ session' = session /\ tx' = tx /\ leg' = leg
      /\ remote' = remote /\ wire' = wire /\ sent' = sent
  BY DEF Receive, setupVars
<1>2. ASSUME e = d
      PROVE  /\ chan[d] # <<>> /\ got'[d] # <<>>
             /\ Consecutive(got'[d])
             /\ Last(got'[d]) = chan[d][1]
             /\ Consecutive(chan'[d])
             /\ chan'[d] # <<>> =>
                    chan'[d][1] = chan[d][1] + 1 /\ Last(chan'[d]) = Last(chan[d])
             /\ chan'[d] = <<>> => Last(chan[d]) = chan[d][1]
  <2>1. /\ chan[d] # <<>>
        /\ got'[d] = Append(got[d], Head(chan[d]))
        /\ chan'[d] = Tail(chan[d])
    BY <1>2 DEF Receive, TypeOK
  <2>2. /\ chan[d] \in Seq(Nat) /\ Consecutive(chan[d])
        /\ got[d] \in Seq(Nat) /\ Consecutive(got[d])
        /\ got[d] # <<>> => chan[d][1] = Last(got[d]) + 1
    BY <2>1 DEF TypeOK, StreamInv, Stretches, ReceivedMeetsQueued
  <2>3. /\ Head(chan[d]) = chan[d][1] /\ chan[d][1] \in Nat
        /\ Consecutive(Tail(chan[d]))
        /\ Tail(chan[d]) # <<>> =>
               /\ Tail(chan[d])[1] = chan[d][1] + 1
               /\ Last(Tail(chan[d])) = Last(chan[d])
        /\ Tail(chan[d]) = <<>> => Last(chan[d]) = chan[d][1]
    BY <2>1, <2>2, TailConsecutive
  <2>4. /\ Append(got[d], chan[d][1]) # <<>>
        /\ Consecutive(Append(got[d], chan[d][1]))
        /\ Last(Append(got[d], chan[d][1])) = chan[d][1]
    BY <2>2, <2>3, AppendConsecutive
  <2>5. QED
    BY <2>1, <2>3, <2>4
<1> USE DEF TypeOK, StreamInv, Stretches, ReceivedMeetsQueued,
     QueuedMeetsWire, WireMeetsSender, OnlyAfterAttach, NothingBeforeUp,
     NoLegBeforeDial, NoSessionBeforeCreate, Reading
<1>3. CASE e = d
  BY <1>1, <1>2, <1>3
<1>4. CASE e # d
  BY <1>1, <1>4 DEF Receive
<1>5. QED
  BY <1>3, <1>4

\* The endpoint of a side is gone, and with it the end of its wire.
LEMMA StreamHangup ==
    ASSUME TypeOK, NEW d \in Sides, NEW p \in Sides, p # d,
           StreamInv(d, p), NEW e \in Sides, Hangup(e)
    PROVE  StreamInv(d, p)'
<1> USE DEF TypeOK, StreamInv, Stretches, ReceivedMeetsQueued,
     QueuedMeetsWire, WireMeetsSender, OnlyAfterAttach, NothingBeforeUp,
     NoLegBeforeDial, NoSessionBeforeCreate, Reading
<1>1. /\ setup' = setup /\ session' = session /\ tx' = tx /\ leg' = leg
      /\ chan' = chan /\ got' = got /\ sent' = sent
      /\ remote[e] = "up" /\ remote'[e] = "down"
      /\ \A x \in Sides : x # e => remote'[x] = remote[x]
  BY DEF Hangup, setupVars
<1>2. PICK n \in 0 .. Len(wire[e]) :
          wire' = [wire EXCEPT ![e] = SubSeq(wire[e], 1, n)]
  BY DEF Hangup
<1>3. CASE e = p
  <2>1. /\ Consecutive(wire'[p])
        /\ wire'[p] # <<>> => wire[p] # <<>> /\ wire'[p][1] = wire[p][1]
    BY <1>2, <1>3, PrefixConsecutive
  <2>2. QED
    BY <1>1, <1>3, <2>1
<1>4. CASE e # p
  <2>1. wire'[p] = wire[p]
    BY <1>2, <1>4
  <2>2. QED
    BY <1>1, <1>4, <2>1
<1>5. QED
  BY <1>3, <1>4

\* The hub takes a frame off the wire of e: it is queued for the peer, or it
\* is dropped, and then the peer has received nothing yet or never will again.
LEMMA StreamForward ==
    ASSUME TypeOK, NEW d \in Sides, NEW p \in Sides, p = Peer(d),
           StreamInv(d, p), NEW e \in Sides, Forward(e)
    PROVE  StreamInv(d, p)'
<1>1. /\ setup' = setup /\ session' = session /\ tx' = tx /\ leg' = leg
      /\ remote' = remote /\ sent' = sent /\ got' = got
      /\ leg[e] = "open" /\ session = "present" /\ wire[e] # <<>>
  BY DEF Forward, setupVars
<1>2. p # d /\ Peer(p) = d
  BY PeerFacts
<1>3. ASSUME e = p
      PROVE  /\ Consecutive(wire'[p])
             /\ wire'[p] # <<>> =>
                    wire'[p][1] = wire[p][1] + 1 /\ Last(wire'[p]) = Last(wire[p])
             /\ wire'[p] = <<>> => Last(wire[p]) = wire[p][1]
             /\ \/ (d \notin tx \/ leg[d] # "open") /\ chan'[d] = chan[d]
                \/ /\ d \in tx /\ leg[d] = "open"
                   /\ chan'[d] # <<>> /\ Consecutive(chan'[d])
                   /\ Last(chan'[d]) = wire[p][1]
                   /\ chan[d] # <<>> => chan'[d][1] = chan[d][1]
                   /\ chan[d] = <<>> => chan'[d][1] = wire[p][1]
  <2>1. /\ wire'[p] = Tail(wire[p])
        /\ d \in tx /\ leg[d] = "open" =>
               chan'[d] = Append(chan[d], Head(wire[p]))
        /\ ~(d \in tx /\ leg[d] = "open") => chan'[d] = chan[d]
    BY <1>2, <1>3 DEF Forward, TypeOK
  <2>2. /\ wire[p] \in Seq(Nat) /\ Consecutive(wire[p])
        /\ chan[d] \in Seq(Nat) /\ Consecutive(chan[d])
        /\ leg[d] = "open" /\ chan[d] # <<>> => wire[p][1] = Last(chan[d]) + 1
    BY <1>1, <1>3 DEF TypeOK, StreamInv, Stretches, QueuedMeetsWire, Reading
  <2>3. /\ Head(wire[p]) = wire[p][1] /\ wire[p][1] \in Nat
        /\ Consecutive(Tail(wire[p]))
        /\ Tail(wire[p]) # <<>> =>
               /\ Tail(wire[p])[1] = wire[p][1] + 1
               /\ Last(Tail(wire[p])) = Last(wire[p])
        /\ Tail(wire[p]) = <<>> => Last(wire[p]) = wire[p][1]
    BY <1>1, <1>3, <2>2, TailConsecutive
  <2>4. ASSUME leg[d] = "open"
        PROVE  /\ Append(chan[d], wire[p][1]) # <<>>
               /\ Consecutive(Append(chan[d], wire[p][1]))
               /\ Last(Append(chan[d], wire[p][1])) = wire[p][1]
               /\ chan[d] # <<>> => Append(chan[d], wire[p][1])[1] = chan[d][1]
               /\ chan[d] = <<>> => Append(chan[d], wire[p][1])[1] = wire[p][1]
    BY <2>2, <2>3, <2>4, AppendConsecutive
  <2>5. CASE d \in tx /\ leg[d] = "open"
    BY <2>1, <2>3, <2>4, <2>5
  <2>6. CASE ~(d \in tx /\ leg[d] = "open")
    BY <2>1, <2>3, <2>6
  <2>7. QED
    BY <2>5, <2>6
<1>4. ASSUME e # p
      PROVE  wire'[p] = wire[p] /\ chan'[d] = chan[d]
  <2>1. e = d
    BY <1>4 DEF Sides, Peer
  <2>2. QED
    BY <1>2, <2>1 DEF Forward, TypeOK
<1> USE DEF TypeOK, StreamInv, Stretches, ReceivedMeetsQueued,
     QueuedMeetsWire, WireMeetsSender, OnlyAfterAttach, NothingBeforeUp,
     NoLegBeforeDial, NoSessionBeforeCreate, Reading
<1>5. CASE e = p /\ d \in tx /\ leg[d] = "open"
  <2>1. /\ chan'[d] # <<>> /\ Last(chan'[d]) = wire[p][1]
        /\ Consecutive(chan'[d]) /\ Consecutive(wire'[p])
        /\ leg[d] = "open" /\ d \in tx /\ wire[p] # <<>> /\ leg[p] = "open"
    BY <1>1, <1>3, <1>5
  <2>2. Stretches(d, p)'
    BY <1>1, <2>1
  <2>3. ReceivedMeetsQueued(d)'
    BY <1>1, <1>3, <1>5, <2>1
  <2>4. QueuedMeetsWire(d, p)' /\ WireMeetsSender(d, p)'
    BY <1>1, <1>3, <1>5, <2>1
  <2>5. OnlyAfterAttach(d)' /\ NothingBeforeUp(d, p)'
    BY <1>1, <2>1
  <2>6. NoLegBeforeDial(d)' /\ NoSessionBeforeCreate'
    BY <1>1
  <2> HIDE DEF Stretches, ReceivedMeetsQueued, QueuedMeetsWire,
       WireMeetsSender, OnlyAfterAttach, NothingBeforeUp, NoLegBeforeDial,
       NoSessionBeforeCreate
  <2>7. QED
    BY <2>2, <2>3, <2>4, <2>5, <2>6
<1>6. CASE e = p /\ ~(d \in tx /\ leg[d] = "open")
  BY <1>1, <1>3, <1>6
<1>7. CASE e # p
  BY <1>1, <1>4, <1>7
<1>8. QED
  BY <1>5, <1>6, <1>7

\* The end of a leg empties its queue and removes the session.
LEMMA StreamCleanup ==
    ASSUME TypeOK, NEW d \in Sides, NEW p \in Sides, p # d,
           StreamInv(d, p), NEW e \in Sides, Cleanup(e)
    PROVE  StreamInv(d, p)'
<1> USE DEF TypeOK, StreamInv, Stretches, ReceivedMeetsQueued,
     QueuedMeetsWire, WireMeetsSender, OnlyAfterAttach, NothingBeforeUp,
     NoLegBeforeDial, NoSessionBeforeCreate, Reading
<1>1. /\ setup' = setup /\ session' = "absent" /\ remote' = remote
      /\ wire' = wire /\ sent' = sent /\ got' = got
      /\ leg[e] = "ending" /\ leg'[e] = "closed" /\ chan'[e] = <<>>
      /\ \A x \in Sides : x # e => leg'[x] = leg[x] /\ chan'[x] = chan[x]
  BY DEF Cleanup
<1>2. Consecutive(<<>>)
  BY DEF Consecutive
<1>3. CASE e = d
  BY <1>1, <1>2, <1>3
<1>4. CASE e # d
  BY <1>1, <1>4
<1>5. QED
  BY <1>3, <1>4

LEMMA StreamStep == IInv /\ [Next]_vars => IInv'
<1> SUFFICES ASSUME IInv, [Next]_vars PROVE IInv'
  OBVIOUS
<1>1. TypeOK /\ TypeOK'
  BY TypeStep DEF IInv
<1>2. ASSUME NEW d \in Sides PROVE StreamInv(d, Peer(d))'
  <2>1. /\ Peer(d) \in Sides /\ Peer(d) # d /\ StreamInv(d, Peer(d))
    BY PeerFacts DEF IInv
  <2>2. CASE Setup \/ AgentDial \/ AgentOpenVnc \/ ClientDial
    <3>1. UNCHANGED <<wire, chan, got, sent>>
      BY <2>2 DEF Setup, NotifyAgent, CreateSession, ReplyOk, AgentDial,
         AgentOpenVnc, ClientDial, dataVars
    <3>2. QED
      BY <1>1, <2>1, <2>2, <3>1, StreamControl
  <2>3. ASSUME NEW e \in Sides, Hub(e) PROVE StreamInv(d, Peer(d))'
    <3>1. CASE AttachLeg(e) \/ ForwardPong(e) \/ Break(e) \/ LegEof(e) \/ Keepalive(e)
      <4>1. UNCHANGED <<wire, chan, got, sent>>
        BY <3>1 DEF AttachLeg, ForwardPong, Break, LegEof, Keepalive, dataVars
      <4>2. QED
        BY <1>1, <2>1, <3>1, <4>1, StreamControl
    <3>2. CASE Forward(e)
      BY <1>1, <2>1, <3>2, StreamForward
    <3>3. CASE Cleanup(e)
      BY <1>1, <2>1, <3>3, StreamCleanup
    <3>4. QED
      BY <2>3, <3>1, <3>2, <3>3 DEF Hub
  <2>4. ASSUME NEW e \in Sides, Endpoint(e) PROVE StreamInv(d, Peer(d))'
    <3>1. CASE Pong(e) \/ SeeClose(e)
      <4>1. UNCHANGED <<wire, chan, got, sent>>
        BY <3>1 DEF Pong, SeeClose, dataVars
      <4>2. QED
        BY <1>1, <2>1, <3>1, <4>1, StreamControl
    <3>2. CASE Send(e)
      BY <1>1, <2>1, <3>2, StreamSend
    <3>3. CASE Receive(e)
      BY <1>1, <2>1, <3>3, StreamReceive
    <3>4. CASE Hangup(e)
      BY <1>1, <2>1, <3>4, StreamHangup
    <3>5. QED
      BY <2>4, <3>1, <3>2, <3>3, <3>4 DEF Endpoint
  <2>5. CASE UNCHANGED vars
    <3>1. UNCHANGED <<wire, chan, got, sent>>
      BY <2>5 DEF vars
    <3>2. QED
      BY <1>1, <2>1, <2>5, <3>1, StreamControl
  <2>6. QED
    BY <2>2, <2>3, <2>4, <2>5 DEF Next
<1>3. QED
  BY <1>1, <1>2 DEF IInv, Peer

\* RelayStreamSound: for every bound on the traffic and whether or not the
\* agent is slow to dial, what an endpoint receives through the hub is an
\* unbroken stretch of what its peer sent (bridge_leg drops frames only at
\* the two ends of the stream).
THEOREM RelayStreamSound == Spec => []NoGapInStream
<1>1. Init => IInv
  BY TypeInit, StreamInit DEF IInv
<1>2. IInv => NoGapInStream
  BY DEF IInv, StreamInv, Stretches, NoGapInStream
<1>3. QED
  BY <1>1, <1>2, StreamStep, PTL DEF Spec
-----------------------------------------------------------------------------
(* A session that outlives one of its legs.  Before create_session there   *)
(* is no client and nothing is carried; after it, the first leg that ends  *)
(* removes the session, and the map gets no second one.  So a session with *)
(* a leg that is closed lost its agent before it was there: the agent is   *)
(* not in it, and the hub has nobody to forward a frame of the client to.  *)

NothingCarried == \A e \in Sides : got[e] = <<>> /\ chan[e] = <<>>

QuietBeforeCreate ==
    setup \in {"notify", "create"} =>
        /\ session = "absent"
        /\ remote["client"] = "idle" /\ leg["client"] = "idle"
        /\ NothingCarried

OrphanState ==
    session = "present" /\ leg["agent"] = "closed" => "agent" \notin tx

ClientOutlived == leg["client"] = "closed" => session = "absent"

SessionInv == TypeOK /\ QuietBeforeCreate /\ OrphanState /\ ClientOutlived /\ OrphanIsUnused

LEMMA SessionStep == SessionInv /\ [Next]_vars => SessionInv'
<1> SUFFICES ASSUME SessionInv, [Next]_vars PROVE SessionInv'
  OBVIOUS
<1>1. TypeOK'
  BY TypeStep DEF SessionInv
<1> USE DEF SessionInv, QuietBeforeCreate, OrphanState, ClientOutlived,
            OrphanIsUnused, NothingCarried, TypeOK, Sides
<1>2. CASE Setup
  BY <1>1, <1>2 DEF Setup, NotifyAgent, CreateSession, ReplyOk, dataVars
<1>3. CASE AgentDial \/ AgentOpenVnc \/ ClientDial
  BY <1>1, <1>3 DEF AgentDial, AgentOpenVnc, ClientDial, setupVars, dataVars
<1>4. ASSUME NEW d \in Sides, Hub(d) PROVE SessionInv'
  <2>1. CASE Cleanup(d)
    BY <1>1, <2>1 DEF Cleanup
  <2>2. CASE AttachLeg(d) \/ Break(d) \/ LegEof(d)
    <3>1. /\ UNCHANGED <<setup, session, remote, dataVars>>
          /\ leg[d] \notin {"idle", "closed"} /\ leg'[d] \in {"open", "ending"}
          /\ \A e \in Sides : e # d => leg'[e] = leg[e]
          /\ tx \subseteq tx' /\ tx' \subseteq tx \cup {d}
      BY <2>2 DEF AttachLeg, Break, LegEof, setupVars
    <3>2. QED
      BY <1>1, <3>1 DEF dataVars
  <2>3. CASE Forward(d)
    <3>1. UNCHANGED <<setup, session, tx, leg, remote, got>> /\ leg[d] = "open"
          /\ session = "present"
      BY <2>3 DEF Forward, setupVars
    <3>2. leg["agent"] = "closed" => chan' = chan
      <4>1. leg["agent"] = "closed" => Peer(d) = "agent"
        BY <3>1 DEF Peer
      <4>2. QED
        BY <2>3, <3>1, <4>1 DEF Forward
    <3>3. QED
      BY <1>1, <3>1, <3>2
  <2>4. CASE ForwardPong(d) \/ Keepalive(d)
    BY <1>1, <2>4 DEF ForwardPong, Keepalive, setupVars
  <2>5. QED
    BY <1>4, <2>1, <2>2, <2>3, <2>4 DEF Hub
<1>5. ASSUME NEW d \in Sides, Endpoint(d) PROVE SessionInv'
  <2>1. CASE Receive(d)
    <3>1. /\ UNCHANGED <<setup, session, tx, leg, remote>>
          /\ chan[d] # <<>>
      BY <2>1 DEF Receive, setupVars
    <3>2. QED
      BY <1>1, <3>1
  <2>2. CASE Send(d) \/ Pong(d) \/ Hangup(d) \/ SeeClose(d)
    <3>1. /\ UNCHANGED <<setup, session, tx, leg, chan, got>>
          /\ remote'["client"] = "idle" <=> remote["client"] = "idle"
      BY <2>2 DEF Send, Pong, Hangup, SeeClose, setupVars, dataVars
    <3>2. QED
      BY <1>1, <3>1
  <2>3. QED
    BY <1>5, <2>1, <2>2 DEF Endpoint
<1>6. CASE UNCHANGED vars
  BY <1>1, <1>6 DEF vars
<1>7. QED
  BY <1>2, <1>3, <1>4, <1>5, <1>6 DEF Next

\* RelayOrphanIsUnused: in whatever order TunnelReady, create_session, the
\* two dials and the losses come, a session that outlives one of its legs
\* is one whose agent had left before it was created, and carries nothing.
THEOREM RelayOrphanIsUnused == Spec => []OrphanIsUnused
<1>1. Init => SessionInv
  BY TypeInit DEF Init, SessionInv, QuietBeforeCreate, OrphanState,
     ClientOutlived, OrphanIsUnused, NothingCarried, Sides
<1>2. SessionInv => OrphanIsUnused
  BY DEF SessionInv
<1>3. QED
  BY <1>1, <1>2, SessionStep, PTL DEF Spec
-----------------------------------------------------------------------------
(* The session implements StreamPipe.  Besides IInv the mapping needs that *)
(* what is under way to an end was sent by its peer.                       *)

Within(q, n) == \A i \in 1 .. Len(q) : q[i] \in 1 .. n

SentInv ==
    \A d \in Sides : Within(wire[Peer(d)], sent[Peer(d)])
                     /\ Within(chan[d], sent[Peer(d)])

LEMMA AppendWithin ==
    ASSUME NEW q \in Seq(Nat), NEW n \in Nat, NEW x \in 1 .. n, Within(q, n)
    PROVE  Within(Append(q, x), n)
BY DEF Within

LEMMA GrowWithin ==
    ASSUME NEW q \in Seq(Nat), NEW n \in Nat, Within(q, n)
    PROVE  Within(q, n + 1)
BY DEF Within

LEMMA TailWithin ==
    ASSUME NEW q \in Seq(Nat), NEW n \in Nat, q # <<>>, Within(q, n)
    PROVE  Within(Tail(q), n) /\ Head(q) \in 1 .. n
BY DEF Within

LEMMA PrefixWithin ==
    ASSUME NEW q \in Seq(Nat), NEW n \in Nat, NEW k \in 0 .. Len(q), Within(q, n)
    PROVE  Within(SubSeq(q, 1, k), n)
BY DEF Within

LEMMA EmptyWithin == ASSUME NEW n PROVE Within(<<>>, n)
BY DEF Within

LEMMA SentStep ==
    ASSUME TypeOK, SentInv, [Next]_vars
    PROVE  SentInv'
<1> SUFFICES ASSUME NEW d \in Sides
             PROVE  /\ Within(wire[Peer(d)], sent[Peer(d)])'
                    /\ Within(chan[d], sent[Peer(d)])'
  BY DEF SentInv
<1> DEFINE p == Peer(d)
<1>1. p \in Sides /\ p # d /\ Peer(p) = d
  BY PeerFacts
<1>2. /\ Within(wire[p], sent[p]) /\ Within(chan[d], sent[p])
      /\ wire[p] \in Seq(Nat) /\ chan[d] \in Seq(Nat) /\ sent[p] \in Nat
  BY <1>1 DEF SentInv, TypeOK
<1>3. CASE UNCHANGED <<wire, chan, sent>>
  BY <1>2, <1>3
<1>4. ASSUME NEW e \in Sides, Send(e)
      PROVE  Within(wire[p], sent[p])' /\ Within(chan[d], sent[p])'
  <2>1. chan' = chan
    BY <1>4 DEF Send
  <2>2. CASE e = p
    <3>1. wire'[p] = Append(wire[p], sent[p] + 1) /\ sent'[p] = sent[p] + 1
      BY <1>1, <1>4, <2>2 DEF Send, TypeOK
    <3>2. /\ Within(wire[p], sent[p] + 1) /\ Within(chan[d], sent[p] + 1)
          /\ sent[p] + 1 \in Nat /\ sent[p] + 1 \in 1 .. sent[p] + 1
      BY <1>2, GrowWithin
    <3>3. Within(Append(wire[p], sent[p] + 1), sent[p] + 1)
      BY <1>2, <3>2, AppendWithin
    <3>4. QED
      BY <2>1, <3>1, <3>2, <3>3
  <2>3. CASE e # p
    <3>1. wire'[p] = wire[p] /\ sent'[p] = sent[p]
      BY <1>1, <1>4, <2>3 DEF Send, TypeOK
    <3>2. QED
      BY <1>2, <2>1, <3>1
  <2>4. QED
    BY <2>2, <2>3
<1>5. ASSUME NEW e \in Sides, Receive(e)
      PROVE  Within(wire[p], sent[p])' /\ Within(chan[d], sent[p])'
  <2>1. wire' = wire /\ sent' = sent
    BY <1>5 DEF Receive
  <2>2. chan'[d] = chan[d] \/ (chan[d] # <<>> /\ chan'[d] = Tail(chan[d]))
    BY <1>5 DEF Receive, TypeOK
  <2>3. QED
    BY <1>2, <2>1, <2>2, TailWithin
<1>6. ASSUME NEW e \in Sides, Hangup(e)
      PROVE  Within(wire[p], sent[p])' /\ Within(chan[d], sent[p])'
  <2>1. chan' = chan /\ sent' = sent
    BY <1>6 DEF Hangup
  <2>2. PICK n \in 0 .. Len(wire[e]) :
            wire' = [wire EXCEPT ![e] = SubSeq(wire[e], 1, n)]
    BY <1>6 DEF Hangup
  <2>3. CASE e = p
    <3>1. wire'[p] = SubSeq(wire[p], 1, n) /\ n \in 0 .. Len(wire[p])
      BY <1>1, <2>2, <2>3 DEF TypeOK
    <3>2. Within(SubSeq(wire[p], 1, n), sent[p])
      BY <1>2, <3>1, PrefixWithin
    <3>3. QED
      BY <1>2, <2>1, <3>1, <3>2
  <2>4. CASE e # p
    <3>1. wire'[p] = wire[p]
      BY <2>2, <2>4
    <3>2. QED
      BY <1>2, <2>1, <3>1
  <2>5. QED
    BY <2>3, <2>4
<1>7. ASSUME NEW e \in Sides, Forward(e)
      PROVE  Within(wire[p], sent[p])' /\ Within(chan[d], sent[p])'
  <2>1. sent' = sent /\ wire[e] # <<>>
    BY <1>7 DEF Forward
  <2>2. CASE e = p
    <3>1. /\ wire'[p] = Tail(wire[p])
          /\ chan'[d] = chan[d] \/ chan'[d] = Append(chan[d], Head(wire[p]))
      BY <1>1, <1>7, <2>2 DEF Forward, TypeOK
    <3>2. Within(Tail(wire[p]), sent[p]) /\ Head(wire[p]) \in 1 .. sent[p]
      BY <1>2, <2>1, <2>2, TailWithin
    <3>3. Within(Append(chan[d], Head(wire[p])), sent[p])
      BY <1>2, <3>2, AppendWithin
    <3>4. QED
      BY <1>2, <2>1, <3>1, <3>2, <3>3
  <2>3. CASE e # p
    <3>1. e = d
      BY <1>1, <2>3 DEF Sides, Peer
    <3>2. wire'[p] = wire[p] /\ chan'[d] = chan[d]
      BY <1>1, <1>7, <3>1 DEF Forward, TypeOK
    <3>3. QED
      BY <1>2, <2>1, <3>2
  <2>4. QED
    BY <2>2, <2>3
<1>8. ASSUME NEW e \in Sides, Cleanup(e)
      PROVE  Within(wire[p], sent[p])' /\ Within(chan[d], sent[p])'
  <2>1. wire' = wire /\ sent' = sent /\ (chan'[d] = chan[d] \/ chan'[d] = <<>>)
    BY <1>8 DEF Cleanup, TypeOK
  <2>2. QED
    BY <1>2, <2>1, EmptyWithin
<1>9. ASSUME ~UNCHANGED <<wire, chan, sent>>
      PROVE  \E e \in Sides : Send(e) \/ Receive(e) \/ Hangup(e) \/ Forward(e)
                              \/ Cleanup(e)
  BY <1>9 DEF Next, vars, Setup, NotifyAgent, CreateSession, ReplyOk, AgentDial,
     AgentOpenVnc, ClientDial, Hub, Endpoint, AttachLeg, ForwardPong, Break,
     LegEof, Keepalive, Pong, SeeClose, dataVars
<1>10. QED
  BY <1>3, <1>4, <1>5, <1>6, <1>7, <1>8, <1>9

\* Only the endpoints' own steps are seen by the pipe.
LEMMA PipeStep ==
    ASSUME IInv, SentInv, [Next]_vars
    PROVE  [Pipe!Next]_(Pipe!pipeVars)
<1>1. TypeOK /\ Pipe!Ends = Sides /\ \A d \in Sides : Pipe!Other(d) = Peer(d)
  BY DEF IInv, Pipe!Ends, Sides, Pipe!Other, Peer
<1>2. ASSUME UNCHANGED <<remote, sent, got>>
      PROVE  UNCHANGED Pipe!pipeVars
  BY <1>2 DEF Pipe!pipeVars, pipePhase
<1>3. CASE AgentDial
  <2>1. /\ UNCHANGED <<sent, got>>
        /\ remote["agent"] = "idle" /\ remote' = [remote EXCEPT !["agent"] = "dialled"]
    BY <1>3 DEF AgentDial, dataVars
  <2>2. \A d \in Sides : pipePhase'[d] = pipePhase[d]
    BY <1>1, <2>1 DEF pipePhase, TypeOK
  <2>3. pipePhase' = pipePhase
    BY <2>2 DEF pipePhase
  <2>4. QED
    BY <2>1, <2>3 DEF Pipe!pipeVars
<1>4. ASSUME NEW d \in Sides, NEW s \in {"up", "down"}, UNCHANGED <<sent, got>>,
             remote[d] \in {"idle", "dialled", "up"},
             remote[d] = "up" => s = "down",
             remote' = [remote EXCEPT ![d] = s]
      PROVE  Pipe!Next
  <2> DEFINE t == IF s = "up" THEN "open" ELSE "closed"
  <2>1. \A x \in Sides : pipePhase'[x] = IF x = d THEN t ELSE pipePhase[x]
    BY <1>1, <1>4 DEF pipePhase, TypeOK
  <2>2. pipePhase' = [pipePhase EXCEPT ![d] = t]
    BY <2>1 DEF pipePhase
  <2>3. CASE remote[d] = "up"
    <3>1. pipePhase[d] = "open" /\ t = "closed"
      BY <1>4, <2>3 DEF pipePhase
    <3>2. Pipe!Close(d)
      BY <1>4, <2>2, <3>1 DEF Pipe!Close
    <3>3. QED
      BY <1>1, <3>2 DEF Pipe!Next
  <2>4. CASE remote[d] # "up"
    <3>1. pipePhase[d] = "new" /\ t \in {"open", "closed"}
      BY <1>4, <2>4 DEF pipePhase
    <3>2. Pipe!Open(d)
      BY <1>4, <2>2, <3>1 DEF Pipe!Open
    <3>3. QED
      BY <1>1, <3>2 DEF Pipe!Next
  <2>5. QED
    BY <2>3, <2>4
<1>5. CASE AgentOpenVnc
  <2>1. PICK s \in {"up", "down"} : remote' = [remote EXCEPT !["agent"] = s]
    BY <1>5 DEF AgentOpenVnc
  <2>2. "agent" \in Sides /\ remote["agent"] = "dialled" /\ UNCHANGED <<sent, got>>
    BY <1>5 DEF AgentOpenVnc, dataVars, Sides
  <2>3. QED
    BY <1>4, <2>1, <2>2
<1>6. CASE ClientDial
  <2>1. /\ "client" \in Sides /\ remote["client"] = "idle" /\ UNCHANGED <<sent, got>>
        /\ remote' = [remote EXCEPT !["client"] = "up"]
    BY <1>6 DEF ClientDial, dataVars, Sides
  <2>2. QED
    BY <1>4, <2>1
<1>7. ASSUME NEW d \in Sides, Hangup(d) \/ SeeClose(d)
      PROVE  Pipe!Next
  <2>1. /\ remote[d] = "up" /\ UNCHANGED <<sent, got>>
        /\ remote' = [remote EXCEPT ![d] = "down"]
    BY <1>7 DEF Hangup, SeeClose, dataVars
  <2>2. QED
    BY <1>4, <2>1
<1>8. ASSUME NEW d \in Sides, Send(d)
      PROVE  Pipe!Next
  <2>1. /\ remote[d] = "up" /\ UNCHANGED <<remote, got>>
        /\ sent' = [sent EXCEPT ![d] = sent[d] + 1]
    BY <1>8 DEF Send
  <2>2. pipePhase[d] = "open" /\ UNCHANGED pipePhase
    BY <2>1 DEF pipePhase
  <2>3. Pipe!Put(d)
    BY <2>1, <2>2 DEF Pipe!Put
  <2>4. QED
    BY <1>1, <2>3 DEF Pipe!Next
<1>9. ASSUME NEW d \in Sides, Receive(d)
      PROVE  Pipe!Next
  <2>1. /\ remote[d] = "up" /\ UNCHANGED <<remote, sent>> /\ chan[d] # <<>>
        /\ got' = [got EXCEPT ![d] = Append(got[d], Head(chan[d]))]
    BY <1>9 DEF Receive
  <2>2. pipePhase[d] = "open" /\ UNCHANGED pipePhase
    BY <2>1 DEF pipePhase
  <2>3. /\ chan[d] \in Seq(Nat) /\ got[d] \in Seq(Nat) /\ sent[Peer(d)] \in Nat
        /\ Within(chan[d], sent[Peer(d)])
    BY <1>1, PeerFacts DEF TypeOK, SentInv
  <2>4. Head(chan[d]) \in 1 .. sent[Peer(d)] /\ Head(chan[d]) = chan[d][1]
    BY <2>1, <2>3, TailWithin
  <2>5. got[d] # <<>> => Head(chan[d]) = got[d][Len(got[d])] + 1
    BY <2>1, <2>4 DEF IInv, StreamInv, ReceivedMeetsQueued, Last
  <2>6. Pipe!Take(d)
    BY <1>1, <2>1, <2>2, <2>4, <2>5 DEF Pipe!Take
  <2>7. QED
    BY <1>1, <2>6 DEF Pipe!Next
<1>10. ASSUME ~UNCHANGED <<remote, sent, got>>
       PROVE  \/ AgentDial \/ AgentOpenVnc \/ ClientDial
              \/ \E d \in Sides : Hangup(d) \/ SeeClose(d) \/ Send(d) \/ Receive(d)
  BY <1>10 DEF Next, vars, Setup, NotifyAgent, CreateSession, ReplyOk, Hub,
     Endpoint, AttachLeg, Forward, ForwardPong, Break, LegEof, Keepalive,
     Cleanup, Pong, dataVars
<1>11. QED
  BY <1>2, <1>3, <1>5, <1>6, <1>7, <1>8, <1>9, <1>10

\* RelayImplementsPipe: seen from its two ends a relayed session is a duplex
\* pipe, for any number of frames and any order of set-up and teardown.
THEOREM RelayImplementsPipe == Spec => PipeSpec
<1>1. Init => Pipe!Init
  <2> SUFFICES ASSUME Init PROVE Pipe!Init
    OBVIOUS
  <2>1. pipePhase = [d \in Sides |-> "new"]
    BY DEF Init, pipePhase
  <2>2. QED
    BY <2>1 DEF Init, Pipe!Init, Pipe!Ends, Sides
<1>2. Init => IInv /\ SentInv
  BY TypeInit, StreamInit, PeerFacts, EmptyWithin DEF IInv, SentInv, Init
<1>3. IInv /\ SentInv /\ [Next]_vars => SentInv'
  BY SentStep DEF IInv
<1>4. IInv /\ SentInv /\ [Next]_vars => [Pipe!Next]_(Pipe!pipeVars)
  BY PipeStep
<1>5. QED
  BY <1>1, <1>2, <1>3, <1>4, StreamStep, PTL DEF Spec, PipeSpec, Pipe!Spec
=============================================================================
