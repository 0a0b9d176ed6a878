---------------------------- MODULE DesktopPath ----------------------------
(***************************************************************************)
(* One viewer's desktop connection, end to end:                            *)
(*                                                                         *)
(*   browser --0-- forwarder --1-- tunnel --2-- web --3-- VNC server       *)
(*                                                                         *)
(* The forwarder runs beside the browser (pipe_session of urc-client, or   *)
(* the Android app's LocalTlsProxy), the TLS tunnel and the websocket      *)
(* bridge run in urc-agent (tunnel.rs, urc-web).  Connection 1 is the only *)
(* one that leaves a machine.  A connection is two byte streams; key       *)
(* strokes and screen updates are numbered, everything else is a kind.     *)
(***************************************************************************)
EXTENDS Naturals, Sequences

CONSTANTS
    Forwarders,   \* the kinds of forwarder tried: "desktop", "android"
    MaxSent,      \* bound: per end, the key strokes or updates it sends
    Window,       \* bound: items in flight before a copy has to wait
    MaxFaults     \* bound: abrupt ends (closing timeouts not counted)

ASSUME ForwardersAssumption == Forwarders \subseteq {"desktop", "android"}
ASSUME MaxSentAssumption == MaxSent \in [{"agent", "client"} -> Nat]
ASSUME WindowAssumption == Window \in Nat \ {0}
ASSUME MaxFaultsAssumption == MaxFaults \in Nat

Ends == {"agent", "client"}     \* the VNC server and the browser
Conns == 0 .. 3
Copies == {1, 2}                \* forwarder and tunnel
Ways == {"up", "down"}          \* towards the VNC server, towards the browser

Rev(w) == IF w = "up" THEN "down" ELSE "up"

\* What a stream carries: data, the websocket's and HTTP's own messages, and
\* the two ways it can end, in order ("fin") or with an error ("rst").
Kinds == {"data", "get", "accept", "ping", "pong", "close", "fin", "rst"}
Item == [kind : Kinds, n : Nat]
Msg(k) == [kind |-> k, n |-> 0]
Data(i) == [kind |-> "data", n |-> i]

VARIABLES
    fwdKind,  \* which forwarder this viewer uses
    browser,  \* "connecting", "open", "closing", "closed"
    node,     \* per copy, "idle", "dialling", "run", "gone"
    web,      \* the bridge: "idle", "http", "dialling", "run", "gone"
    vnc,      \* the server's end of connection 3: "idle", "open", "closed"
    half,     \* per node 1 .. 3, the ways it has finished copying
    asked,    \* TRUE when the bridge has read a websocket Close
    flow,     \* per connection and way, the items in flight
    cut,      \* TRUE when connection 1 delivers nothing any more
    faults,   \* how often somebody left, or a link went, without closing
    sent,     \* per end, how many data items it has sent
    got       \* per end, the data items it has received

vars == <<fwdKind, browser, node, web, vnc, half, asked, flow, cut, faults,
          sent, got>>

dataVars == <<sent, got>>
envVars == <<fwdKind, cut, faults>>

Init ==
    /\ fwdKind \in Forwarders
    /\ browser = "connecting"
    /\ node = [c \in Copies |-> IF c = 1 THEN "dialling" ELSE "idle"]
    /\ web = "idle"
    /\ vnc = "idle"
    /\ half = [c \in 1 .. 3 |-> {}]
    /\ asked = FALSE
    /\ flow = [c \in Conns |->
                 [w \in Ways |-> IF c = 0 /\ w = "up" THEN <<Msg("get")>>
                                                      ELSE <<>>]]
    /\ cut = FALSE
    /\ faults = 0
    /\ sent = [e \in Ends |-> 0]
    /\ got = [e \in Ends |-> <<>>]

-----------------------------------------------------------------------------
(* TCP, as far as a copying task can tell.                                 *)

\* Receiver(c, w) has given up its socket of connection c.
Deaf(c, w) ==
    LET k == IF w = "up" THEN c + 1 ELSE c
    IN  CASE k = 0 -> browser = "closed"
          [] k \in Copies -> node[k] = "gone"
          [] k = 3 -> web = "gone"
          [] k = 4 -> vnc = "closed"

Readable(c, w) == flow[c][w] # <<>> /\ ~(c = 1 /\ cut)

Fits(c, w) == Len(flow[c][w]) < Window

Pop(f, c, w) == [f EXCEPT ![c][w] = Tail(@)]

Ended(s) == s # <<>> /\ s[Len(s)].kind \in {"fin", "rst"}

\* What is left to read of a stream that breaks: all of it or, where it was
\* on its way between two machines, nothing.  (On the agent's loopback what
\* was written is in the reader's queue, which Linux lets it read.)
Broken(c, s) ==
    {Append(IF Ended(s) THEN SubSeq(s, 1, Len(s) - 1) ELSE s, Msg("rst"))}
        \cup (IF c \in {0, 1} THEN {<<Msg("rst")>>} ELSE {})

\* A write: towards a socket that is gone it is lost, and the writer's own
\* reading breaks.
Puts(f, c, w, x) ==
    IF Deaf(c, w) /\ ~(c = 1 /\ cut)
    THEN {[f EXCEPT ![c][Rev(w)] = s] : s \in Broken(c, f[c][Rev(w)])}
    ELSE {[f EXCEPT ![c][w] = Append(@, x)]}

\* A socket given up, w being the way it wrote: the other end reads what was
\* written and then how it ended or, when this end leaves data unread, a
\* broken stream.
Drops(f, c, w, how) ==
    LET out == f[c][w]
        unread == {f[c][Rev(w)][i].kind : i \in 1 .. Len(f[c][Rev(w)])}
        left == {IF Ended(out) THEN out ELSE Append(out, Msg(how))}
                \cup (IF unread \subseteq {"fin", "rst"} THEN {} ELSE Broken(c, out))
    IN  IF c = 1 /\ cut
        THEN {[f EXCEPT ![c][w] = IF Ended(out) THEN out ELSE Append(out, Msg(how))]}
        ELSE {[f EXCEPT ![c][w] = s, ![c][Rev(w)] = <<>>] :
                s \in IF Deaf(c, w) THEN {<<>>} ELSE left}

\* Both sockets of copy c are given up.  A TLS stream dropped without its
\* close_notify ends in an error; connections 0 and 2 are plain TCP.
Quits(f, c, tls) ==
    LET how(k) == IF k = 1 THEN tls ELSE "fin"
    IN  UNION {Drops(g, c, "up", how(c)) :
                 g \in Drops(f, c - 1, "down", how(c - 1))}

-----------------------------------------------------------------------------
(* The browser: noVNC on a websocket.                                      *)

SendKey ==
    /\ browser = "open" /\ sent["client"] < MaxSent["client"]
    /\ Fits(0, "up")
    /\ sent' = [sent EXCEPT !["client"] = @ + 1]
    /\ flow' \in Puts(flow, 0, "up", Data(sent'["client"]))
    /\ UNCHANGED <<envVars, browser, node, web, vnc, half, asked, got>>

\* Mutant: disconnect() gives the socket up without the closing handshake.
DisconnectDropsSocket ==
    /\ browser \in {"connecting", "open"}
    /\ browser' = "closed"
    /\ flow' \in Drops(flow, 0, "up", "fin")
    /\ UNCHANGED <<envVars, node, web, vnc, half, asked, dataVars>>

\* The Disconnect button: a websocket that is not open yet is just dropped.
Disconnect ==
    /\ \/ /\ browser = "open"
          /\ browser' = "closing"
          /\ flow' \in Puts(flow, 0, "up", Msg("close"))
       \/ /\ browser = "connecting"
          /\ browser' = "closed"
          /\ flow' \in Drops(flow, 0, "up", "fin")
    /\ UNCHANGED <<envVars, node, web, vnc, half, asked, dataVars>>

\* The tab is closed, or a closing handshake takes too long.
LeaveFrom(states) ==
    /\ browser \in states
    /\ browser' = "closed"
    /\ faults' = faults + 1
    /\ flow' \in Drops(flow, 0, "up", "fin")
    /\ UNCHANGED <<fwdKind, cut, node, web, vnc, half, asked, dataVars>>

Leave == faults < MaxFaults /\ LeaveFrom({"connecting", "open"})
CloseTimeout == LeaveFrom({"closing"})

\* Mutant: disconnect() leaves the message handler on the socket.
ListensTillClosed == browser \in {"open", "closing"}

\* noVNC handles what arrives; disconnect() takes the handler off first.
Listens == browser = "open"

\* The browser's websocket takes the next item: it answers a ping and a
\* Close by itself, and noVNC gets the data while it is connected.
BrowserReads ==
    /\ browser # "closed" /\ Readable(0, "down")
    /\ LET k == Head(flow[0]["down"]).kind
           rest == Pop(flow, 0, "down")
       IN  \/ /\ k = "accept"
              /\ browser' = "open" /\ flow' = rest /\ UNCHANGED got
           \/ /\ k = "data"
              /\ got' = IF Listens
                        THEN [got EXCEPT !["client"] =
                                Append(@, Head(flow[0]["down"]).n)]
                        ELSE got
              /\ flow' = rest /\ UNCHANGED browser
           \/ /\ k = "ping"
              /\ flow' \in IF browser = "open"
                           THEN Puts(rest, 0, "up", Msg("pong")) ELSE {rest}
              /\ UNCHANGED <<browser, got>>
           \/ /\ k = "close"
              /\ browser' = "closing"
              /\ flow' \in IF browser = "open"
                           THEN Puts(rest, 0, "up", Msg("close")) ELSE {rest}
              /\ UNCHANGED got
           \/ /\ k \in {"fin", "rst"}
              /\ browser' = "closed"
              /\ flow' \in Drops(rest, 0, "up", "fin")
              /\ UNCHANGED got
    /\ UNCHANGED <<envVars, node, web, vnc, half, asked, sent>>

-----------------------------------------------------------------------------
(* The two byte-copying hops: pipe_session or LocalTlsProxy (1) and        *)
(* pipe_tls_client (2).                                                    *)

\* The connection to the next hop, TLS handshake included, is made.
Dial(c) ==
    /\ node[c] = "dialling"
    /\ \/ /\ c = 1 /\ ~cut
          /\ node' = [node EXCEPT ![1] = "run", ![2] = "dialling"]
          /\ UNCHANGED web
       \/ /\ c = 2
          /\ node' = [node EXCEPT ![2] = "run"]
          /\ web' = "http"
    /\ UNCHANGED <<envVars, browser, vnc, half, asked, flow, dataVars>>

DialFails(c) ==
    /\ node[c] = "dialling"
    /\ node' = [node EXCEPT ![c] = "gone"]
    /\ flow' \in Drops(flow, c - 1, "down", IF c = 2 THEN "rst" ELSE "fin")
    /\ UNCHANGED <<envVars, browser, web, vnc, half, asked, dataVars>>

From(c, w) == IF w = "up" THEN c - 1 ELSE c
Onto(c, w) == IF w = "up" THEN c ELSE c - 1

\* One read and the write of what it returned.
CopyData(c, w) ==
    /\ node[c] = "run" /\ w \notin half[c]
    /\ Readable(From(c, w), w)
    /\ Head(flow[From(c, w)][w]).kind \notin {"fin", "rst"}
    /\ Fits(Onto(c, w), w)
    /\ flow' \in Puts(Pop(flow, From(c, w), w), Onto(c, w), w,
                      Head(flow[From(c, w)][w]))
    /\ UNCHANGED <<envVars, browser, node, web, vnc, half, asked, dataVars>>

\* End of stream.  copy_bidirectional shuts the other stream's writing down
\* and goes on with the other way; a pump of LocalTlsProxy closes both
\* sockets.
CopyEnd(c, w) ==
    /\ node[c] = "run" /\ w \notin half[c]
    /\ Readable(From(c, w), w)
    /\ Head(flow[From(c, w)][w]).kind = "fin"
    /\ LET rest == Pop(flow, From(c, w), w)
       IN  IF c = 1 /\ fwdKind = "android"
           THEN /\ node' = [node EXCEPT ![c] = "gone"]
                /\ flow' \in Quits(rest, c, "fin")
                /\ UNCHANGED half
           ELSE /\ half' = [half EXCEPT ![c] = @ \cup {w}]
                /\ flow' \in Puts(rest, Onto(c, w), w, Msg("fin"))
                /\ UNCHANGED node
    /\ UNCHANGED <<envVars, browser, web, vnc, asked, dataVars>>

\* A read or a write fails: a broken stream, or written bytes that are never
\* acknowledged.
CopyFails(c) ==
    /\ node[c] = "run"
    /\ \/ \E w \in Ways : /\ Readable(From(c, w), w)
                          /\ Head(flow[From(c, w)][w]).kind = "rst"
       \/ cut /\ flow[1][IF c = 1 THEN "up" ELSE "down"] # <<>>
    /\ node' = [node EXCEPT ![c] = "gone"]
    /\ flow' \in Quits(flow, c, IF c = 1 /\ fwdKind = "android" THEN "fin" ELSE "rst")
    /\ UNCHANGED <<envVars, browser, web, vnc, half, asked, dataVars>>

\* Both ways have ended: the copy returns and its sockets are dropped.
CopyReturns(c) ==
    /\ node[c] = "run" /\ half[c] = Ways
    /\ node' = [node EXCEPT ![c] = "gone"]
    /\ flow' \in Quits(flow, c, "rst")
    /\ UNCHANGED <<envVars, browser, web, vnc, half, asked, dataVars>>

-----------------------------------------------------------------------------
(* The websocket bridge: vnc_ws_handler and bridge_vnc.                    *)

Upgrade ==
    /\ web = "http" /\ Readable(2, "up")
    /\ LET rest == Pop(flow, 2, "up")
       IN  \/ /\ Head(flow[2]["up"]).kind = "get"
              /\ web' = "dialling"
              /\ flow' \in Puts(rest, 2, "down", Msg("accept"))
           \/ /\ Head(flow[2]["up"]).kind \in {"fin", "rst"}
              /\ web' = "gone"
              /\ flow' \in Drops(rest, 2, "down", "fin")
    /\ UNCHANGED <<envVars, browser, node, vnc, half, asked, dataVars>>

DialVnc ==
    /\ web = "dialling"
    /\ \/ web' = "run" /\ vnc' = "open" /\ UNCHANGED flow
       \/ web' = "gone" /\ flow' \in Drops(flow, 2, "down", "fin") /\ UNCHANGED vnc
    /\ UNCHANGED <<envVars, browser, node, half, asked, dataVars>>

\* The loop of to_vnc is left: tcp_w.shutdown().
ToVncEnds(f) ==
    /\ half' = [half EXCEPT ![3] = @ \cup {"up"}]
    /\ flow' \in Puts(f, 3, "up", Msg("fin"))

ToVnc ==
    /\ web = "run" /\ "up" \notin half[3] /\ Readable(2, "up")
    /\ LET x == Head(flow[2]["up"])
           rest == Pop(flow, 2, "up")
       IN  \/ /\ x.kind = "data" /\ Fits(3, "up")
              /\ flow' \in Puts(rest, 3, "up", x)
              /\ UNCHANGED <<half, asked>>
           \/ /\ x.kind = "data" /\ Deaf(3, "up")
              /\ ToVncEnds(rest) /\ UNCHANGED asked
           \/ /\ x.kind = "pong"
              /\ flow' = rest /\ UNCHANGED <<half, asked>>
           \/ /\ x.kind \in {"close", "fin", "rst"}
              /\ ToVncEnds(rest)
              /\ asked' = (x.kind = "close")
    /\ UNCHANGED <<envVars, browser, node, web, vnc, dataVars>>

\* Mutant: the websocket is not closed when the VNC server goes.
FromVncEndsSilently(f) ==
    /\ half' = [half EXCEPT ![3] = @ \cup {"down"}]
    /\ flow' = f

\* The loop of from_vnc is left: ws_tx.close().
FromVncEnds(f) ==
    /\ half' = [half EXCEPT ![3] = @ \cup {"down"}]
    /\ flow' \in Puts(f, 2, "down", Msg("close"))

\* Sending on a websocket fails once a Close was read or the stream is gone.
FromVnc ==
    /\ web = "run" /\ "down" \notin half[3] /\ Readable(3, "down")
    /\ LET x == Head(flow[3]["down"])
           rest == Pop(flow, 3, "down")
       IN  \/ /\ x.kind = "data" /\ ~asked /\ Fits(2, "down")
              /\ flow' \in Puts(rest, 2, "down", x)
              /\ UNCHANGED half
           \/ /\ x.kind = "data" /\ (asked \/ Deaf(2, "down"))
              /\ FromVncEnds(rest)
           \/ /\ x.kind \in {"fin", "rst"}
              /\ FromVncEnds(rest)
    /\ UNCHANGED <<envVars, browser, node, web, vnc, asked, dataVars>>

InFlight(k) == \E c \in Conns, w \in Ways :
                 \E i \in 1 .. Len(flow[c][w]) : flow[c][w][i].kind = k

\* Mutant: the tick is only polled when the VNC server has sent something.
PingBusyOnly ==
    /\ web = "run" /\ "down" \notin half[3]
    /\ flow[3]["down"] # <<>>
    /\ cut \/ ~(InFlight("ping") \/ InFlight("pong"))
    /\ ~asked /\ Fits(2, "down")
    /\ flow' \in Puts(flow, 2, "down", Msg("ping"))
    /\ UNCHANGED <<envVars, browser, node, web, vnc, half, asked, dataVars>>

\* The keepalive tick of from_vnc.  Bound: the interval is longer than what
\* is waiting to be read, a ping or its pong take.
Ping ==
    /\ web = "run" /\ "down" \notin half[3]
    /\ flow[3]["down"] = <<>>
    /\ cut \/ ~(InFlight("ping") \/ InFlight("pong"))
    /\ \/ /\ ~asked /\ Fits(2, "down")
          /\ flow' \in Puts(flow, 2, "down", Msg("ping"))
          /\ UNCHANGED half
       \/ (asked \/ Deaf(2, "down")) /\ FromVncEnds(flow)
    /\ UNCHANGED <<envVars, browser, node, web, vnc, asked, dataVars>>

\* Both joined loops have ended: the bridge drops the websocket and the
\* connection to the VNC server.
BridgeReturns ==
    /\ web = "run" /\ half[3] = Ways
    /\ web' = "gone"
    /\ flow' \in UNION {Drops(g, 3, "up", "fin") : g \in Drops(flow, 2, "down", "fin")}
    /\ UNCHANGED <<envVars, browser, node, vnc, half, asked, dataVars>>

-----------------------------------------------------------------------------
(* The VNC server, and what the world does.                                *)

VncReads ==
    /\ vnc = "open" /\ Readable(3, "up")
    /\ LET x == Head(flow[3]["up"])
           rest == Pop(flow, 3, "up")
       IN  \/ /\ x.kind = "data"
              /\ got' = [got EXCEPT !["agent"] = Append(@, x.n)]
              /\ flow' = rest /\ UNCHANGED vnc
           \/ /\ x.kind \in {"fin", "rst"}
              /\ vnc' = "closed"
              /\ flow' \in Drops(rest, 3, "down", "fin")
              /\ UNCHANGED got
    /\ UNCHANGED <<envVars, browser, node, web, half, asked, sent>>

SendUpdate ==
    /\ vnc = "open" /\ sent["agent"] < MaxSent["agent"] /\ Fits(3, "down")
    /\ sent' = [sent EXCEPT !["agent"] = @ + 1]
    /\ flow' \in Puts(flow, 3, "down", Data(sent'["agent"]))
    /\ UNCHANGED <<envVars, browser, node, web, vnc, half, asked, got>>

VncDies ==
    /\ faults < MaxFaults
    /\ vnc = "open"
    /\ vnc' = "closed"
    /\ faults' = faults + 1
    /\ flow' \in Drops(flow, 3, "down", "fin")
    /\ UNCHANGED <<fwdKind, cut, browser, node, web, half, asked, dataVars>>

\* urc is killed: the kernel closes its sockets.
KillForwarder ==
    /\ faults < MaxFaults
    /\ node[1] \in {"dialling", "run"}
    /\ node' = [node EXCEPT ![1] = "gone"]
    /\ faults' = faults + 1
    /\ flow' \in IF node[1] = "run" THEN Quits(flow, 1, "rst")
                                    ELSE Drops(flow, 0, "down", "fin")
    /\ UNCHANGED <<fwdKind, cut, browser, web, vnc, half, asked, dataVars>>

\* The network between the machines stops delivering, silently.
CutNetwork ==
    /\ faults < MaxFaults
    /\ ~cut
    /\ cut' = TRUE
    /\ faults' = faults + 1
    /\ UNCHANGED <<fwdKind, browser, node, web, vnc, half, asked, flow, dataVars>>

-----------------------------------------------------------------------------
CopyStep(c) ==
    \/ Dial(c) \/ DialFails(c) \/ CopyFails(c) \/ CopyReturns(c)
    \/ \E w \in Ways : CopyData(c, w) \/ CopyEnd(c, w)

BridgeStep == Upgrade \/ DialVnc \/ ToVnc \/ FromVnc \/ Ping \/ BridgeReturns

Next ==
    \/ SendKey \/ Disconnect \/ Leave \/ CloseTimeout \/ BrowserReads
    \/ \E c \in Copies : CopyStep(c)
    \/ BridgeStep
    \/ VncReads \/ SendUpdate \/ VncDies
    \/ KillForwarder \/ CutNetwork

Spec == Init /\ [][Next]_vars

\* Tasks and timers run; nobody has to type, to leave or to fail.
Fairness ==
    /\ WF_vars(BrowserReads) /\ WF_vars(CloseTimeout)
    /\ \A c \in Copies :
        /\ WF_vars(Dial(c) \/ DialFails(c)) /\ WF_vars(CopyFails(c))
        /\ WF_vars(CopyReturns(c))
        /\ \A w \in Ways : WF_vars(CopyData(c, w)) /\ WF_vars(CopyEnd(c, w))
    /\ WF_vars(Upgrade) /\ WF_vars(DialVnc) /\ WF_vars(ToVnc)
    /\ WF_vars(FromVnc) /\ WF_vars(Ping) /\ WF_vars(BridgeReturns)
    /\ WF_vars(VncReads)

FairSpec == Spec /\ Fairness

-----------------------------------------------------------------------------
TypeOK ==
    /\ fwdKind \in Forwarders
    /\ browser \in {"connecting", "open", "closing", "closed"}
    /\ node \in [Copies -> {"idle", "dialling", "run", "gone"}]
    /\ web \in {"idle", "http", "dialling", "run", "gone"}
    /\ vnc \in {"idle", "open", "closed"}
    /\ half \in [1 .. 3 -> SUBSET Ways]
    /\ asked \in BOOLEAN
    /\ flow \in [Conns -> [Ways -> Seq(Item)]]
    /\ cut \in BOOLEAN
    /\ faults \in Nat
    /\ sent \in [Ends -> Nat]
    /\ got \in [Ends -> Seq(Nat)]

\* PipeSpec: between its two ends the path is a pipe (StreamPipe) that loses
\* nothing at the beginning: keys reach the VNC server, and updates the
\* browser, in order and without a gap, until an end closes.
pipePhase ==
    [e \in Ends |->
       IF e = "agent" THEN IF vnc = "idle" THEN "new" ELSE vnc
       ELSE CASE browser = "connecting" -> "new"
              [] browser = "open" -> "open"
              [] OTHER -> "closed"]

Pipe == INSTANCE StreamPipe WITH phase <- pipePhase, LateStart <- FALSE

PipeSpec == Pipe!Spec

\* CloseDelivers: when everybody closes in order (nobody vanishes, no link
\* fails), the VNC server sees the end of the connection only after every
\* key the browser has sent, so the release of a key is not overtaken by the
\* close.
CloseDelivers ==
    vnc = "closed" /\ faults = 0 => Len(got["agent"]) = sent["client"]

\* ViewerGoneEndsVnc: however a viewer goes (closing, vanishing, its
\* forwarder killed, the network cut), the VNC server's connection ends, so
\* it releases the keys that were held.
ViewerGoneEndsVnc ==
    (browser \in {"closing", "closed"} \/ node[1] = "gone" \/ cut) ~> vnc # "open"

\* AllFreed: without a network cut, once either end is gone the other end is
\* told and no task of the path is left.
AllFreed ==
    (browser = "closed" \/ vnc = "closed") ~>
        \/ cut
        \/ /\ browser = "closed" /\ vnc # "open" /\ web \in {"idle", "gone"}
           /\ \A c \in Copies : node[c] \in {"idle", "gone"}
=============================================================================
