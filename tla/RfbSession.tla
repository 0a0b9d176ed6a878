----------------------------- MODULE RfbSession -----------------------------
(***************************************************************************)
(* A session between noVNC and a server over a socket that cuts what the   *)
(* server sends wherever it likes: a message may arrive byte by byte, and  *)
(* several may arrive in one.  The server first goes through the handshake *)
(* its plan says, then sends its script: batches of parts (RfbServer), one *)
(* for every update the client asks for.                                   *)
(***************************************************************************)
EXTENDS RfbHandshake, RfbServer

CONSTANTS
    Plans,      \* what the server may be: see NewPlan below
    Scripts,    \* what it may send once connected: see NewScript below
    Chunks,     \* bound: the sizes of what arrives at once
    Buffer      \* the size of the receive buffer, 4 MiB in the code

Byte == {n \in Nat : n < 256}
\* What four bytes hold beside a sign.
Word == {n \in Nat : n \div 65536 < 32768}

ASSUME SessionAssumption == Chunks \subseteq Nat \ {0} /\ Buffer \in Nat \ {0}

\* Every number fits the bytes it is sent in.
ASSUME PlanAssumption ==
    \A p \in Plans :
        /\ p.version \in Nat /\ p.version < 1000000
        /\ p.ok \in BOOLEAN /\ p.script \in DOMAIN Scripts
        /\ p.types \in Seq(Byte \ {0}) /\ Len(p.types) \in Byte
        /\ p.subtypes \in Seq(Word) /\ Len(p.subtypes) \in Byte
        /\ p.tunnels \in Seq(Word \X Byte) /\ Len(p.tunnels) \in Word
        /\ p.subauths \in Seq(Byte) /\ Len(p.subauths) \in Word

ASSUME ScriptAssumption ==
    \A s \in DOMAIN Scripts :
        /\ Scripts[s].w \in Nat /\ Scripts[s].h \in Nat
        /\ Scripts[s].name \in Seq(Byte) /\ Len(Scripts[s].name) \in Word

VARIABLES
    client,     \* the RFB object
    server,     \* [at: what it waits for, version: the client's, tight: what they settled on,
                \* seen: of the log, batch and parts: sent, cont: it may push]
    net,        \* bytes on the way to the client
    plan

vars == <<client, server, net, plan>>

\* What a server calls itself (0 for a repeater that goes on to one), the
\* security types and, for some of them, what else it offers, and whether it
\* lets the client in.
NewPlan(version, types, ok, script) ==
    [version |-> version, types |-> types, subtypes |-> <<>>, tunnels |-> <<>>, subauths |-> <<>>,
     ok |-> ok, script |-> script]

\* The size and the name of the desktop, and the batches of parts.
NewScript(w, h, name, batches) == [w |-> w, h |-> h, name |-> name, batches |-> batches]

Digits(n) == <<48 + (n \div 100), 48 + ((n \div 10) % 10), 48 + (n % 10)>>
VersionMsg(v) == <<82, 70, 66, 32>> \o Digits(v \div 1000) \o <<46>> \o Digits(v % 1000) \o <<10>>

Init ==
    /\ plan \in Plans
    /\ client = NewClient(Buffer)
    /\ server = [at |-> IF plan.version = 0 THEN "repeater" ELSE "version",
                 version |-> 0, tight |-> FALSE, parts |-> 0, batch |-> 0, cont |-> FALSE, seen |-> 0]
    /\ net = VersionMsg(plan.version)

-----------------------------------------------------------------------------
(* The server: external.  What it says is [at, bytes], from its plan p and *)
(* the version v of the client: what it waits for next and what it sends.  *)

Answer(at, bytes) == [at |-> at, bytes |-> bytes]

Reason == <<1, 2>>
Refusal == B32(Len(Reason)) \o Reason

\* The k-th byte of what is a table of codes, or of capabilities.
Codes(codes) == [k \in 1 .. 4 * Len(codes) |-> B32(codes[((k - 1) \div 4) + 1])[((k - 1) % 4) + 1]]
Caps(caps) ==
    [k \in 1 .. 16 * Len(caps) |->
        LET cap == caps[((k - 1) \div 16) + 1]
        IN  IF (k - 1) % 16 < 4 THEN B32(cap[1])[((k - 1) % 16) + 1] ELSE cap[2]]

Result(p, v) ==
    IF p.ok THEN Answer("shared", B32(0))
    ELSE Answer("closed", IF v >= 38 THEN B32(1) \o Refusal ELSE B32(1))

Response == [k \in 1 .. 16 |-> k]

SubAuths(p, v) ==
    IF p.subauths = <<>> THEN Answer(Result(p, v).at, B32(0) \o Result(p, v).bytes)
    ELSE Answer("subauth",
                B32(Len(p.subauths)) \o Caps([n \in DOMAIN p.subauths |-> <<n, p.subauths[n]>>]))

\* What follows once a security type is settled.
Begin(p, v, type) ==
    CASE type = TypeNone -> IF v >= 38 THEN Result(p, v) ELSE Answer("shared", <<>>)
      [] type = TypeVNCAuth -> Answer("response", Response)
      [] type = TypeVeNCrypt -> Answer("vencrypt", <<0, 2>>)
      [] type = TypeTight ->
           IF p.tunnels = <<>> THEN Answer(SubAuths(p, v).at, B32(0) \o SubAuths(p, v).bytes)
           ELSE Answer("tunnel", B32(Len(p.tunnels)) \o Caps(p.tunnels))
      [] type = TypeRA2ne -> Answer("key", B32(1024) \o [k \in 1 .. 256 |-> 1])
      [] type = TypeMSLogonII -> Answer("user", [k \in 1 .. 24 |-> 1])
      [] OTHER -> Answer("user", <<>>)

Offer(p, v) ==
    IF v >= 37
    THEN IF p.types = <<>> THEN Answer("closed", <<0>> \o Refusal)
         ELSE Answer("security", <<Len(p.types)>> \o p.types)
    ELSE IF p.types = <<>> THEN Answer("closed", B32(0) \o Refusal)
    ELSE Answer(Begin(p, v, Head(p.types)).at, B32(Head(p.types)) \o Begin(p, v, Head(p.types)).bytes)

\* After tight security the server says also what messages it knows.
Knowledge == B16(1) \o B16(0) \o B16(1) \o B16(0) \o [k \in 1 .. 32 |-> 1]
ServerInit(script, tight) ==
    B16(script.w) \o B16(script.h) \o [k \in 1 .. 16 |-> 1] \o B32(Len(script.name)) \o script.name
      \o (IF tight THEN Knowledge ELSE <<>>)

\* The answer of server s to a message of the handshake; the version agreed
\* on, it says what security it has.  Anything else confuses it.
HandshakeAnswer(s, p, what, value) ==
    CASE s.at = "repeater" /\ what = "repeaterID" -> Answer("version", VersionMsg(3008))
      [] s.at = "version" /\ what = "version" -> Offer(p, value)
      [] s.at = "security" /\ what = "security" /\ value \in ToSet(p.types) ->
           Begin(p, s.version, value)
      [] s.at = "vencrypt" /\ what = "vencrypt" ->
           Answer("subtype", <<0, Len(p.subtypes)>> \o Codes(p.subtypes))
      [] s.at = "subtype" /\ what = "subtype" /\ value \in ToSet(p.subtypes) ->
           Begin(p, s.version, value)
      [] s.at = "tunnel" /\ what = "tunnel" -> SubAuths(p, s.version)
      [] s.at = "subauth" /\ what = "subauth" ->
           IF value = NoAuth THEN Result(p, s.version)
           ELSE IF value = VncAuth THEN Begin(p, s.version, TypeVNCAuth) ELSE Answer("user", <<>>)
      [] s.at = "response" /\ what = "response" /\ value = Response -> Result(p, s.version)
      [] s.at = "shared" /\ what = "shared" -> Answer("pixelFormat", ServerInit(Scripts[p.script], s.tight))
      [] s.at = "pixelFormat" /\ what = "pixelFormat" -> Answer("encodings", <<>>)
      [] s.at = "encodings" /\ what = "encodings" -> Answer("connected", <<>>)
      [] OTHER -> Answer("confused", <<>>)

\* Where tight security is settled: in an old version the server decides.
SettlesTight(p, m) ==
    \/ m \in {<<"security", TypeTight>>, <<"subtype", TypeTight>>}
    \/ m[1] = "version" /\ m[2] < 37 /\ p.types # <<>> /\ Head(p.types) = TypeTight

\* What the page is told and the server is not.
ToPage == {"name", "resize", "connect", "securityfailure", "disconnect"}

More == server.batch < Len(Scripts[plan.script].batches)

NextBatch ==
    IF More
    THEN LET batch == Scripts[plan.script].batches[server.batch + 1]
         IN  /\ server' = [server EXCEPT !.seen = IF @ < Len(client.log) THEN @ + 1 ELSE @,
                                         !.batch = @ + 1, !.parts = @ + Len(batch)]
             /\ net' = net \o FlattenSeq([n \in DOMAIN batch |-> batch[n].bytes])
    ELSE /\ server' = [server EXCEPT !.seen = @ + 1]
         /\ UNCHANGED net

\* The server reads the client's next message.
Serve ==
    /\ server.seen < Len(client.log)
    /\ LET m == client.log[server.seen + 1]
           a == HandshakeAnswer(server, plan, m[1], m[2])
       IN  IF m[1] \in ToPage THEN server' = [server EXCEPT !.seen = @ + 1] /\ UNCHANGED net
           ELSE IF server.at = "connected"
           THEN IF m[1] = "FramebufferUpdateRequest" THEN NextBatch
                ELSE /\ server' = [server EXCEPT !.seen = @ + 1,
                                                 !.cont = @ \/ m[1] = "EnableContinuousUpdates"]
                     /\ UNCHANGED net
           ELSE /\ server' = [server EXCEPT !.seen = @ + 1, !.at = a.at,
                                            !.version = IF m[1] = "version" THEN m[2] ELSE @,
                                            !.tight = @ \/ SettlesTight(plan, m)]
                /\ net' = net \o a.bytes
    /\ UNCHANGED <<client, plan>>

\* A server that was told it may sends updates by itself.
Push ==
    /\ server.at = "connected" /\ server.cont /\ More
    /\ server.seen = Len(client.log)
    /\ NextBatch
    /\ UNCHANGED <<client, plan>>

-----------------------------------------------------------------------------
(* The client.                                                             *)

\* The next bytes arrive in one message.
Deliver ==
    /\ net # <<>> /\ client.state # "disconnected"
    /\ \E n \in Chunks :
          LET k == Min({n, Len(net)})
          IN  /\ client' = HandleMessage(RecvMessage(client, SubSeq(net, 1, k)))
              /\ net' = SubSeq(net, k + 1, Len(net))
    /\ UNCHANGED <<server, plan>>

\* The timer of resumeAuthentication.
ResumeAuthentication ==
    /\ client.timer
    /\ client' = InitMsg([client EXCEPT !.timer = FALSE])
    /\ UNCHANGED <<server, net, plan>>

Next == Serve \/ Push \/ Deliver \/ ResumeAuthentication

Spec == Init /\ [][Next]_vars

-----------------------------------------------------------------------------
(* What the client makes of it.                                            *)

Parts == [s \in DOMAIN Scripts |-> FlattenSeq(Scripts[s].batches)]

\* For every script and number of parts, where the last of them ends.
Ends == [s \in DOMAIN Scripts |->
            FoldLeft(LAMBDA ends, p : Append(ends, Last(ends) + Len(p.bytes)), <<0>>, Parts[s])]

\* The same, and the view of a client that got each part whole.
Views == [s \in DOMAIN Scripts |->
            FoldLeft(LAMBDA views, p : Append(views, Understood(Last(views), p)),
                     <<NewView([p \in FbOf(Scripts[s].w, Scripts[s].h) |-> Black])>>, Parts[s])]

Streaming == client.state = "connected" /\ server.at = "connected"
Received == Ends[plan.script][server.parts + 1] - Len(net)

\* The parts that have arrived to their last byte, plus one.
Whole == Max({n \in 1 .. server.parts + 1 : Ends[plan.script][n] <= Received})

Connect == CHOOSE n \in DOMAIN client.log : client.log[n][1] = "connect"

\* However the server's bytes were cut, the page and the server have been
\* told what they would have been had every part that has arrived come by
\* itself, in order, and the client has not given up: rfb.js, the decoders
\* and websock.js keep their place in a message that is not all there.
AsIfWhole ==
    server.parts > 0 =>
        /\ client.state = "connected"
        /\ SubSeq(client.log, Connect + 1, Len(client.log)) = Views[plan.script][Whole].log

\* Whatever the server offers and refuses, the client never sends it what it
\* does not wait for, in particular never starts a session it was refused.
ServerFollows == server.at # "confused"

Refuses ==
    \/ ~plan.ok
    \/ plan.version \notin {0, 3003, 3006, 3007, 3008, 3889, 4000, 4001, 5000}
    \/ ToSet(plan.types) \cap Supported = {}

Quiet ==
    /\ net = <<>> /\ ~client.timer
    /\ server.seen = Len(client.log) /\ ~(server.cont /\ More)

\* When nothing is on its way any more, the session is established and all
\* of it has been read, or the server refused it; or, as the page has it,
\* the client waits for ever for somebody to approve the server's key.
NothingLeft ==
    Quiet =>
        \/ /\ client.state = "connected" /\ ~Refuses /\ ~More
           /\ Unread(client) = 0 /\ client.fbu.rects = 0
        \/ client.state = "disconnected" /\ Refuses
        \/ client.ra2 = "approve"
=============================================================================
