---------------------------- MODULE RfbHandshake -----------------------------
(***************************************************************************)
(* How noVNC (rfb.js) gets from an open socket to a connected session, for *)
(* whatever part of the server's messages has arrived.  The client record  *)
(* of RfbMessages has here also                                            *)
(*   init      _rfbInitState                                               *)
(*   version   _rfbVersion, times ten                                      *)
(*   scheme    _rfbAuthScheme                                              *)
(*   tightVNC  _rfbTightVNC                                                *)
(*   ven, venTypes   _rfbVeNCryptState, _rfbVeNCryptSubtypesLength         *)
(*   ra2       where negotiateRA2neAuthAsync waits; key: the key's bytes   *)
(*   creds     the credentials it was given; timer: initMsg is to be run   *)
(* The page answers every credentialsrequired with an empty password, and  *)
(* never approves a server's key (it does not listen for that event).      *)
(***************************************************************************)
EXTENDS RfbMessages

TypeNone == 1
TypeVNCAuth == 2
TypeRA2ne == 6
TypeTight == 16
TypeVeNCrypt == 19
TypeXVP == 22
TypeARD == 30
TypeMSLogonII == 113
TypeUnixLogon == 129
TypePlain == 256

Supported == {TypeNone, TypeVNCAuth, TypeRA2ne, TypeTight, TypeVeNCrypt, TypeXVP,
              TypeARD, TypeMSLogonII, TypePlain}

\* The first of the types, in the server's order, that is among those the
\* client can use; None when there is none.
FirstOf(types, usable) ==
    LET ok == {n \in DOMAIN types : types[n] \in usable}
    IN  IF ok = {} THEN None ELSE types[Min(ok)]

NewClient(size) ==
    [rq |-> <<>>, i |-> 0, size |-> size, ret |-> FALSE, fb |-> <<>>, dec |-> NewDecoders,
     depth |-> 24, failed |-> FALSE, state |-> "connecting", fbu |-> NoRect, cont |-> FALSE,
     supCont |-> FALSE, caps |-> 0, log |-> <<>>,
     init |-> "ProtocolVersion", version |-> 0, scheme |-> None, tightVNC |-> FALSE,
     ven |-> 0, venTypes |-> 0, ra2 |-> "none", key |-> 0, creds |-> {}, timer |-> FALSE]

-----------------------------------------------------------------------------
(* Version and security type.                                              *)

\* The version is at offset 4: three digits, a point, three digits.
ServerVersion(c) ==
    LET D(at) == U8(c, at) - 48
    IN  1000 * (100 * D(4) + 10 * D(5) + D(6)) + 100 * D(8) + 10 * D(9) + D(10)

NegotiateProtocolVersion(c) ==
    LET s == Skip(c, 12)
        v == ServerVersion(c)
        version == IF v \in {3003, 3006} THEN 33 ELSE IF v = 3007 THEN 37 ELSE 38
    IN  IF Wait(c, 12) THEN No(c)
        ELSE IF v = 0 THEN Yes(Effect(s, "repeaterID", <<>>))
        ELSE IF v \notin {3003, 3006, 3007, 3008, 3889, 4000, 4001, 5000} THEN Fail(s)
        ELSE No(Effect([s EXCEPT !.version = version, !.init = "Security"], "version", version))

NegotiateSecurity(c) ==
    LET num == U8(c, 0)
        types == Bytes(c, 1, num)
        decided == S32(c, 0)
        chosen == FirstOf(types, Supported)
        Refused(s) == Yes([s EXCEPT !.init = "SecurityReason"])
        Scheme(s, t) == [s EXCEPT !.scheme = t, !.init = "Authentication"]
    IN  IF c.version >= 37
        THEN IF Wait(Skip(c, 1), num) THEN Back(Skip(c, 1), 1)
             ELSE IF num = 0 THEN Refused(Skip(c, 1))
             ELSE IF chosen = None THEN Fail(Skip(c, 1 + num))
             ELSE Yes(Effect(Scheme(Skip(c, 1 + num), chosen), "security", chosen))
        ELSE IF Wait(c, 4) THEN No(c)
             ELSE IF decided = 0 THEN Refused(Skip(c, 4))
             ELSE Yes(Scheme(Skip(c, 4), decided))

HandleSecurityReason(c) ==
    LET strlen == S32(c, 0)
        reason == Bytes(c, 4, strlen)
    IN  IF Wait(c, 4) THEN No(c)
        ELSE IF Wait(Skip(c, 4), strlen) THEN Back(Skip(c, 4), 4)
        ELSE Fail(Effect(Skip(c, 4 + strlen), "securityfailure", reason))

-----------------------------------------------------------------------------
(* Authentication.                                                         *)

\* The page is asked; initMsg runs again from a timer once it has answered.
AskPage(c) == No([c EXCEPT !.creds = {"password"}, !.timer = TRUE])

\* The types that need a user name, which the page never gives.
NeedsUsername(c) == IF "username" \notin c.creds THEN AskPage(c) ELSE c

NegotiateMSLogonIIAuth(c) == IF Wait(c, 24) THEN No(c) ELSE NeedsUsername(c)

NegotiateStdVNCAuth(c) ==
    IF Wait(c, 16) THEN No(c)
    ELSE IF "password" \notin c.creds THEN AskPage(c)
    ELSE Yes(Effect([Skip(c, 16) EXCEPT !.init = "SecurityResult"], "response", Bytes(c, 0, 16)))

\* VeNCrypt: the version, the server's yes, how many subtypes, the subtypes;
\* each part is followed by the next as far as the bytes go.
VeNCryptSubtypes(c) ==
    LET s == Skip(c, 4 * c.venTypes)
        types == [n \in 1 .. c.venTypes |-> S32(c, 4 * (n - 1))]
        chosen == FirstOf(types, Supported \ {TypeVeNCrypt})
    IN  IF Wait(c, 4 * c.venTypes) THEN No(c)
        ELSE IF chosen = None THEN Fail(s)
        ELSE Yes(Effect([s EXCEPT !.ven = 4, !.scheme = chosen], "subtype", chosen))

VeNCryptCount(c) ==
    IF Wait(c, 1) THEN No(c)
    ELSE IF U8(c, 0) < 1 THEN Fail(Skip(c, 1))
    ELSE VeNCryptSubtypes([Skip(c, 1) EXCEPT !.ven = 3, !.venTypes = U8(c, 0)])

VeNCryptAccepted(c) ==
    IF Wait(c, 1) THEN No(c)
    ELSE IF U8(c, 0) # 0 THEN Fail(Skip(c, 1))
    ELSE VeNCryptCount([Skip(c, 1) EXCEPT !.ven = 2])

VeNCryptVersion(c) ==
    IF Wait(c, 2) THEN No(c)
    ELSE IF U16(c, 0) # 2 THEN Fail(Skip(c, 2))
    ELSE VeNCryptAccepted(Effect([Skip(c, 2) EXCEPT !.ven = 1], "vencrypt", 2))

NegotiateVeNCryptAuth(c) ==
    CASE c.ven = 0 -> VeNCryptVersion(c)
      [] c.ven = 1 -> VeNCryptAccepted(c)
      [] c.ven = 2 -> VeNCryptCount(c)
      [] c.ven = 3 -> VeNCryptSubtypes(c)
      [] OTHER -> No(c)

\* A capability is 16 bytes: its code and its name, which is one byte here.
CapCode(c, at) == S32(c, at)
CapName(c, at) == U8(c, at + 4)
NoTunnel == 1
Siemens == 2
NoAuth == 1
VncAuth == 2
UnixLogin == 129

NegotiateTightTunnels(c, num) ==
    LET caps == {<<CapCode(c, 16 * n), CapName(c, 16 * n)>> : n \in 0 .. num - 1}
        s == Skip(c, 16 * num)
    IN  IF <<1, Siemens>> \in caps \/ <<0, NoTunnel>> \in caps
        THEN No(Effect(s, "tunnel", 0)) ELSE Fail(s)

\* The first of the client's types the server has.
TightSubAuth(c, num) ==
    LET names == {CapName(c, 16 * n) : n \in 0 .. num - 1}
        s == Skip(c, 16 * num)
    IN  IF NoAuth \in names
        THEN Yes(Effect([s EXCEPT !.init = "SecurityResult"], "subauth", NoAuth))
        ELSE IF VncAuth \in names THEN Yes(Effect([s EXCEPT !.scheme = TypeVNCAuth], "subauth", VncAuth))
        ELSE IF UnixLogin \in names
        THEN Yes(Effect([s EXCEPT !.scheme = TypeUnixLogon], "subauth", UnixLogin))
        ELSE Fail(s)

NegotiateTightAuth(c) ==
    LET num == S32(c, 0)
        s == Skip(c, 4)
        first == ~c.tightVNC
        second == IF first THEN [s EXCEPT !.tightVNC = TRUE] ELSE c
        count == S32(second, 0)
        t == Skip(second, 4)
    IN  IF first /\ Wait(c, 4) THEN No(c)
        ELSE IF first /\ num > 0 /\ Wait(s, 16 * num) THEN Back(s, 4)
        ELSE IF first /\ num > 0 THEN No(NegotiateTightTunnels(second, num))
        ELSE IF Wait(second, 4) THEN No(second)
        ELSE IF count = 0 THEN Yes([t EXCEPT !.init = "SecurityResult"])
        ELSE IF Wait(t, 16 * count) THEN Back(t, 4)
        ELSE TightSubAuth(t, count)

\* An asynchronous function: it goes on when a message arrives and it has
\* the bytes it waits for, up to the key that nobody approves.
NegotiateRA2neAuth(c) ==
    LET bits == S32(c, 0)
    IN  CASE c.ra2 \in {"none", "length"} ->
               IF Wait(c, 4) THEN No([c EXCEPT !.ra2 = "length"])
               ELSE IF bits < 1024 \/ bits > 8192 THEN Fail(Skip(c, 4))
               ELSE IF Wait(Skip(c, 4), 2 * ((bits + 7) \div 8))
                    THEN No([Skip(c, 4) EXCEPT !.ra2 = "key", !.key = (bits + 7) \div 8])
                    ELSE No([Skip(c, 4 + 2 * ((bits + 7) \div 8)) EXCEPT !.ra2 = "approve"])
          [] c.ra2 = "key" ->
               IF Wait(c, 2 * c.key) THEN No(c) ELSE No([Skip(c, 2 * c.key) EXCEPT !.ra2 = "approve"])
          [] OTHER -> No(c)

NegotiateAuthentication(c) ==
    CASE c.scheme = TypeNone ->
           Yes([c EXCEPT !.init = IF c.version >= 38 THEN "SecurityResult" ELSE "ClientInitialisation"])
      [] c.scheme \in {TypeXVP, TypeARD, TypePlain, TypeUnixLogon} -> NeedsUsername(c)
      [] c.scheme = TypeMSLogonII -> NegotiateMSLogonIIAuth(c)
      [] c.scheme = TypeVNCAuth -> NegotiateStdVNCAuth(c)
      [] c.scheme = TypeTight -> NegotiateTightAuth(c)
      [] c.scheme = TypeVeNCrypt -> NegotiateVeNCryptAuth(c)
      [] c.scheme = TypeRA2ne -> NegotiateRA2neAuth(c)
      [] OTHER -> Fail(c)

-----------------------------------------------------------------------------
(* Result and initialisation.                                              *)

\* Mutant: any answer of the server's is taken for a yes.
ResultIgnored(c) ==
    IF Wait(c, 4) THEN No(c) ELSE Yes([Skip(c, 4) EXCEPT !.init = "ClientInitialisation"])

HandleSecurityResult(c) ==
    LET status == S32(c, 0)
        s == Skip(c, 4)
    IN  IF Wait(c, 4) THEN No(c)
        ELSE IF status = 0 THEN Yes([s EXCEPT !.init = "ClientInitialisation"])
        ELSE IF c.version >= 38 THEN Yes([s EXCEPT !.init = "SecurityReason"])
        ELSE Fail(Effect(s, "securityfailure", <<>>))

\* A name that means a server with few colours: one byte in the model.
IntelAMT == <<7>>

NegotiateServerInit(c) ==
    LET nameLength == S32(c, 20)
        s == Skip(c, 24)
        name == Bytes(s, 0, nameLength)
        t == Skip(s, nameLength)
        caps == 16 * (U16(t, 0) + U16(t, 2) + U16(t, 4))
        end == IF c.tightVNC THEN Skip(t, 8 + caps) ELSE t
        depth == IF name = IntelAMT THEN 8 ELSE 24
        sized == ResizeFb(Effect(end, "name", name), U16(c, 0), U16(c, 2))
        told == Effect(Effect(Effect([sized EXCEPT !.depth = depth], "pixelFormat", depth),
                              "encodings", depth), "FramebufferUpdateRequest", <<>>)
    IN  IF Wait(c, 24) THEN No(c)
        ELSE IF Wait(s, nameLength) THEN Back(s, 24)
        ELSE IF c.tightVNC /\ Wait(t, 8) THEN Back(t, 24 + nameLength)
        ELSE IF c.tightVNC /\ Wait(Skip(t, 8), caps) THEN Back(Skip(t, 8), 32 + nameLength)
        ELSE Yes(Effect([told EXCEPT !.state = "connected"], "connect", <<>>))

InitMsg(c) ==
    CASE c.init = "ProtocolVersion" -> NegotiateProtocolVersion(c)
      [] c.init = "Security" -> NegotiateSecurity(c)
      [] c.init = "Authentication" -> NegotiateAuthentication(c)
      [] c.init = "SecurityResult" -> HandleSecurityResult(c)
      [] c.init = "SecurityReason" -> HandleSecurityReason(c)
      [] c.init = "ClientInitialisation" ->
           Yes(Effect([c EXCEPT !.init = "ServerInitialisation"], "shared", 1))
      [] c.init = "ServerInitialisation" -> NegotiateServerInit(c)

\* Two of the steps read nothing, and each of them is taken once.
Unreading == 2

\* Steps as long as they succeed; all but those two need a byte or more.
AllInitMsgs(c) ==
    While(LAMBDA m : m.ret /\ m.state = "connecting", InitMsg, Unread(c) + Unreading, InitMsg(c))

\* The handler of the socket's messages.
HandleMessage(c) ==
    IF Wait(c, 1) THEN c
    ELSE CASE c.state = "connected" -> AllMessages(c)
           [] c.state = "connecting" -> AllInitMsgs(c)
           [] OTHER -> c
=============================================================================
