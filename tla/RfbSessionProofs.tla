-------------------------- MODULE RfbSessionProofs ---------------------------
(***************************************************************************)
(* ServerFollows, for any servers and scripts, whatever cuts the stream    *)
(* and however large the buffer is: no message of the client's comes when  *)
(* the server waits for another.                                           *)
(*                                                                         *)
(* What the server will read and what the client will are on their way, so *)
(* ServerFollows says nothing of a step to come.  The invariant lets the   *)
(* server read ahead: Leads says where it will be, u, and what it will     *)
(* have said, t, when it has read the whole log, and that it is confused   *)
(* by none of it.  What the client has not read, what is in the net and t, *)
(* one after the other, are then all the bytes w the client has still to   *)
(* get, and Stands relates them to where client and server are:            *)
(*   - Live: w is the rest of exactly one message of the handshake, the    *)
(*     one the client's phase is about, so that however little of it has   *)
(*     arrived what the client reads of it is what the server said;        *)
(*   - Mute: the client will tell the server nothing any more, because it  *)
(*     was refused, has given up or waits for its user;                    *)
(*   - Established: the session is, and nothing is left to be read.        *)
(* The steps of the client are functions of it, so the lemmas about them   *)
(* speak of any client c, of the bytes x in the net, of the server s that  *)
(* has read the log up to entry seen, of u, t and w (Meeting), and end in  *)
(* what the invariant says of the client after the step (Met).  A run of   *)
(* steps (While) is a recursive function; an induction over a set of       *)
(* numbers carries Met from one value of it to the next.  Once the server  *)
(* has the client's last word of the handshake nothing confuses it.        *)
(***************************************************************************)
EXTENDS RfbSession, SequenceTheorems, FiniteSetTheorems, TLAPS

\* The fields of the record of the client.
Fields ==
    {"rq", "i", "size", "ret", "fb", "dec", "depth", "failed", "state", "fbu", "cont", "supCont",
     "caps", "log", "init", "version", "scheme", "tightVNC", "ven", "venTypes", "ra2", "key",
     "creds", "timer"}

IsClient(c) ==
    /\ c = [f \in Fields |-> c[f]]
    /\ c.rq \in Seq(Int) /\ c.i \in 0 .. Len(c.rq)
    /\ c.log = [k \in 1 .. Len(c.log) |-> c.log[k]] /\ Len(c.log) \in Nat
    /\ c.key \in Nat

\* The bytes a client has not read.
Unused(c) == SubSeq(c.rq, c.i + 1, Len(c.rq))

-----------------------------------------------------------------------------
(* What the server will be once it has read all it was sent.               *)

Party(s) == [at |-> s.at, version |-> s.version, tight |-> s.tight]

Ignored(u, m) == m[1] \in ToPage \/ u.at = "connected"

After(u, p, m) ==
    IF Ignored(u, m) THEN u
    ELSE [at |-> HandshakeAnswer(u, p, m[1], m[2]).at,
          version |-> IF m[1] = "version" THEN m[2] ELSE u.version,
          tight |-> u.tight \/ SettlesTight(p, m)]
Reply(u, p, m) == IF Ignored(u, m) THEN <<>> ELSE HandshakeAnswer(u, p, m[1], m[2]).bytes

\* us[k] is the server when it has read k entries of the log, and ts[k] all
\* it says from then on; at the end it is u, and it will have said t.
Follows(log, seen, s, p, u, t, us, ts) ==
    /\ us[seen] = s /\ us[Len(log)] = u
    /\ ts[seen] = t /\ ts[Len(log)] = <<>>
    /\ \A k \in seen .. Len(log) : us[k].at # "confused" /\ ts[k] \in Seq(Int)
    /\ \A k \in seen .. Len(log) - 1 :
          /\ us[k + 1] = After(us[k], p, log[k + 1])
          /\ Reply(us[k], p, log[k + 1]) \in Seq(Int)
          /\ ts[k] = Reply(us[k], p, log[k + 1]) \o ts[k + 1]

Leads(log, seen, s, p, u, t) == \E us, ts : Follows(log, seen, s, p, u, t, us, ts)

-----------------------------------------------------------------------------
(* Where the two stand: client c, the server u, and the bytes w that are   *)
(* all the client has not read when the server has said everything.        *)

Says(u, a, w) == u.at = a.at /\ w = a.bytes

Versions == {v \in Nat : v < 1000000}
Greeting(c, u, w, p) ==
    /\ c.init = "ProtocolVersion" /\ ~c.tightVNC /\ c.ven = 0 /\ ~u.tight
    /\ \E v \in Versions :
          w = VersionMsg(v) /\ u.at = IF v = 0 THEN "repeater" ELSE "version"

Choosing(c, u, w, p) ==
    /\ c.init = "Security" /\ ~c.tightVNC /\ c.ven = 0
    /\ (u.tight <=> SettlesTight(p, <<"version", c.version>>)) /\ Says(u, Offer(p, c.version), w)

Deciders == {TypeNone, TypeVNCAuth, TypeTight, TypeVeNCrypt}

Beginning(c, u, w, p) ==
    /\ c.init = "Authentication" /\ c.scheme \in Deciders
    /\ Says(u, Begin(p, c.version, c.scheme), w)
    /\ IF c.scheme = TypeTight THEN u.tight /\ ~c.tightVNC ELSE c.tightVNC <=> u.tight
    /\ c.scheme = TypeVeNCrypt => c.ven = 0 /\ ~u.tight

Subtypes(p) == Codes(p.subtypes)
Subtyping(c, u, w, p) ==
    /\ c.init = "Authentication" /\ c.scheme = TypeVeNCrypt /\ ~c.tightVNC /\ ~u.tight
    /\ u.at = "subtype"
    /\ \/ c.ven = 1 /\ w = <<0, Len(p.subtypes)>> \o Subtypes(p)
       \/ c.ven = 2 /\ w = <<Len(p.subtypes)>> \o Subtypes(p)
       \/ c.ven = 3 /\ w = Subtypes(p) /\ c.venTypes = Len(p.subtypes)

Tightening(c, u, w, p) ==
    /\ c.init = "Authentication" /\ c.scheme = TypeTight /\ c.tightVNC /\ u.tight
    /\ Says(u, SubAuths(p, c.version), w)

Judging(c, u, w, p) ==
    /\ c.init = "SecurityResult" /\ (c.tightVNC <=> u.tight)
    /\ Says(u, Result(p, c.version), w)

Entering(c, u, w, p) ==
    /\ c.init = "ClientInitialisation" /\ (c.tightVNC <=> u.tight)
    /\ u.at = "shared" /\ w = <<>>

Awaiting(c, u, w, p) ==
    /\ c.init = "ServerInitialisation" /\ (c.tightVNC <=> u.tight)
    /\ u.at = "pixelFormat" /\ w = ServerInit(Scripts[p.script], u.tight)

\* The page is asked for a password only, with the challenge at hand.
Timed(c) == ~c.ret /\ c.init = "Authentication" /\ c.scheme = TypeVNCAuth /\ ~Wait(c, 16)

Phase(c, u, w, p) ==
    /\ c.version \in {33, 37, 38} /\ u.version = c.version
    /\ \/ Choosing(c, u, w, p) \/ Beginning(c, u, w, p) \/ Subtyping(c, u, w, p)
       \/ Tightening(c, u, w, p) \/ Judging(c, u, w, p) \/ Entering(c, u, w, p)
       \/ Awaiting(c, u, w, p)

Live(c, u, w, p) ==
    /\ c.state = "connecting" /\ ~c.cont /\ (c.timer => Timed(c))
    /\ Greeting(c, u, w, p) \/ Phase(c, u, w, p)

\* Only the page will ever be told anything again.
Mute(c, w) ==
    \/ c.init = "SecurityReason" /\ c.state = "connecting" /\ ~c.timer /\ w = Refusal
    \/ /\ c.init = "Authentication" /\ c.scheme \notin Deciders
       /\ c.state \in {"connecting", "disconnected"}
    \/ c.state = "disconnected" /\ ~c.timer

Established(c, u, w) == c.state = "connected" /\ ~c.timer /\ u.at = "connected" /\ w = <<>>

Stands(c, u, w, p) == Live(c, u, w, p) \/ Mute(c, w) \/ Established(c, u, w)

\* x is on its way to the client; s has read the log up to entry seen.
Joint(c, x, seen, s, p) ==
    \E u, t :
        t \in Seq(Int) /\ Leads(c.log, seen, s, p, u, t) /\ Stands(c, u, Unused(c) \o (x \o t), p)

IsServer(s) ==
    /\ s = [f \in {"at", "version", "tight", "seen", "parts", "batch", "cont"} |-> s[f]]
    /\ s.at = "connected" \/ s.seen \in Nat

IInv ==
    /\ plan \in Plans /\ IsServer(server)
    /\ \/ server.at = "connected"
       \/ /\ IsClient(client) /\ server.seen <= Len(client.log) /\ net \in Seq(Int)
          /\ Joint(client, net, server.seen, Party(server), plan)

-----------------------------------------------------------------------------
(* Records.                                                                *)

\* Reading on, a client stays one, and only its place changes.
LEMMA SkipFacts ==
  ASSUME NEW c, IsClient(c), NEW k \in 0 .. Unread(c)
  PROVE  /\ IsClient(Skip(c, k)) /\ Skip(c, k).i = c.i + k
         /\ \A f \in Fields \ {"i"} : Skip(c, k)[f] = c[f]
<1>1. c.i + k \in 0 .. Len(c.rq) /\ Len(c.rq) \in Nat
  BY DEF IsClient, Unread
<1>2. DOMAIN c = Fields
  BY DEF IsClient
<1>3. /\ Skip(c, k) = [f \in Fields |-> Skip(c, k)[f]] /\ Skip(c, k).i = c.i + k
      /\ \A f \in Fields \ {"i"} : Skip(c, k)[f] = c[f]
  BY <1>2 DEF Skip, Fields
<1> QED BY <1>1, <1>3 DEF IsClient, Fields

\* A handler that returns false changes nothing else.
LEMMA NoFacts ==
  ASSUME NEW c, IsClient(c)
  PROVE  /\ IsClient(No(c)) /\ No(c).ret = FALSE
         /\ \A f \in Fields \ {"ret"} : No(c)[f] = c[f]
<1>2. DOMAIN c = Fields
  BY DEF IsClient
<1>3. /\ No(c) = [f \in Fields |-> No(c)[f]] /\ No(c).ret = FALSE
      /\ \A f \in Fields \ {"ret"} : No(c)[f] = c[f]
  BY <1>2 DEF No, Fields
<1> QED BY <1>3 DEF IsClient, Fields

\* Nor does one that returns true.
LEMMA YesFacts ==
  ASSUME NEW c, IsClient(c)
  PROVE  /\ IsClient(Yes(c)) /\ Yes(c).ret = TRUE
         /\ \A f \in Fields \ {"ret"} : Yes(c)[f] = c[f]
<1>2. DOMAIN c = Fields
  BY DEF IsClient
<1>3. /\ Yes(c) = [f \in Fields |-> Yes(c)[f]] /\ Yes(c).ret = TRUE
      /\ \A f \in Fields \ {"ret"} : Yes(c)[f] = c[f]
  BY <1>2 DEF Yes, Fields
<1> QED BY <1>3 DEF IsClient, Fields

\* A message sent is the next entry of the log.
LEMMA EffectFacts ==
  ASSUME NEW c, IsClient(c), NEW what, NEW v
  PROVE  /\ IsClient(Effect(c, what, v)) /\ Effect(c, what, v).log = Append(c.log, <<what, v>>)
         /\ \A f \in Fields \ {"log"} : Effect(c, what, v)[f] = c[f]
<1>2. DOMAIN c = Fields
  BY DEF IsClient
<1>3. /\ Effect(c, what, v) = [f \in Fields |-> Effect(c, what, v)[f]]
      /\ Effect(c, what, v).log = Append(c.log, <<what, v>>)
      /\ \A f \in Fields \ {"log"} : Effect(c, what, v)[f] = c[f]
  BY <1>2 DEF Effect, Fields
<1> DEFINE l == c.log
<1>4. l = [k \in 1 .. Len(l) |-> l[k]] /\ Len(l) \in Nat
  BY DEF IsClient
<1>5. Append(l, <<what, v>>) = [k \in 1 .. Len(Append(l, <<what, v>>)) |-> Append(l, <<what, v>>)[k]]
      /\ Len(Append(l, <<what, v>>)) \in Nat
  OBVIOUS
<1> QED BY <1>3, <1>5 DEF IsClient, Fields

-----------------------------------------------------------------------------
(* Bytes.                                                                  *)

\* Two stretches of bytes, one after the other.
LEMMA Joined ==
  ASSUME NEW s \in Seq(Int), NEW t \in Seq(Int)
  PROVE  /\ s \o t \in Seq(Int) /\ Len(s \o t) = Len(s) + Len(t)
         /\ \A k \in 1 .. Len(s) : (s \o t)[k] = s[k]
         /\ \A k \in 1 .. Len(t) : (s \o t)[Len(s) + k] = t[k]
<1>1. /\ s \o t \in Seq(Int) /\ Len(s \o t) = Len(s) + Len(t)
      /\ \A k \in 1 .. Len(s) + Len(t) : (s \o t)[k] = IF k <= Len(s) THEN s[k] ELSE t[k - Len(s)]
  BY ConcatProperties
<1>2. Len(s) \in Nat /\ Len(t) \in Nat
  OBVIOUS
<1>3. ASSUME NEW k \in 1 .. Len(s) PROVE (s \o t)[k] = s[k]
  BY <1>1, <1>2
<1>4. ASSUME NEW k \in 1 .. Len(t) PROVE (s \o t)[Len(s) + k] = t[k]
  <2>1. Len(s) + k \in 1 .. Len(s) + Len(t) /\ ~(Len(s) + k <= Len(s)) /\ Len(s) + k - Len(s) = k
    BY <1>2
  <2>2. (s \o t)[Len(s) + k] = t[Len(s) + k - Len(s)]
    BY <1>1, <2>1
  <2> QED BY <2>1, <2>2
<1> QED BY <1>1, <1>3, <1>4

\* Where they are joined first does not matter.
LEMMA Associative == \A s, t, u \in Seq(Int) : (s \o t) \o u = s \o (t \o u)
BY ConcatAssociative

\* Two ways to cut the same bytes agree on where both begin.
LEMMA SameStart ==
  ASSUME NEW r \in Seq(Int), NEW x \in Seq(Int), NEW a \in Seq(Int), NEW b \in Seq(Int),
         r \o x = a \o b
  PROVE  /\ Len(r) + Len(x) = Len(a) + Len(b)
         /\ \A k \in 1 .. Len(r) : k <= Len(a) => r[k] = a[k]
<1>1. Len(r \o x) = Len(r) + Len(x) /\ \A k \in 1 .. Len(r) : (r \o x)[k] = r[k]
  BY Joined
<1>2. Len(a \o b) = Len(a) + Len(b) /\ \A k \in 1 .. Len(a) : (a \o b)[k] = a[k]
  BY Joined
<1>3. Len(r) \in Nat /\ Len(a) \in Nat
  OBVIOUS
<1>4. ASSUME NEW k \in 1 .. Len(r), k <= Len(a) PROVE r[k] = a[k]
  <2>1. k \in 1 .. Len(a)
    BY <1>3, <1>4
  <2> QED BY <1>1, <1>2, <2>1
<1> QED BY <1>1, <1>2, <1>4

Same(r, x, a, b) == r \o x = a \o b
EndOf(q, r, a) == Len(q) + Len(a) = Len(r) /\ \A j \in 1 .. Len(q) : q[j] = r[Len(a) + j]

\* Without what one begins with, the rest of the other is left.
LEMMA AfterStart ==
  ASSUME NEW r \in Seq(Int), NEW x \in Seq(Int), NEW a \in Seq(Int), NEW b \in Seq(Int),
         NEW q \in Seq(Int), Same(r, x, a, b), EndOf(q, r, a)
  PROVE  q \o x = b
<1> USE DEF EndOf, Same
<1>1. /\ Len(r \o x) = Len(r) + Len(x)
      /\ \A k \in 1 .. Len(r) : (r \o x)[k] = r[k]
      /\ \A k \in 1 .. Len(x) : (r \o x)[Len(r) + k] = x[k]
  BY Joined
<1>2. /\ Len(a \o b) = Len(a) + Len(b)
      /\ \A k \in 1 .. Len(b) : (a \o b)[Len(a) + k] = b[k]
  BY Joined
<1>3. /\ Len(q \o x) = Len(q) + Len(x) /\ q \o x \in Seq(Int)
      /\ \A k \in 1 .. Len(q) : (q \o x)[k] = q[k]
      /\ \A k \in 1 .. Len(x) : (q \o x)[Len(q) + k] = x[k]
  BY Joined
<1>4. Len(r) \in Nat /\ Len(a) \in Nat /\ Len(q) \in Nat /\ Len(x) \in Nat /\ Len(b) \in Nat
  OBVIOUS
<1>5. Len(q) + Len(x) = Len(b) /\ Len(r) = Len(q) + Len(a)
  <2>1. Len(r) + Len(x) = Len(a) + Len(b)
    BY <1>1, <1>2
  <2> QED BY <1>4, <2>1
<1>6. ASSUME NEW j \in 1 .. Len(b) PROVE (q \o x)[j] = b[j]
  <2>1. (a \o b)[Len(a) + j] = b[j]
    BY <1>2
  <2>2. CASE j <= Len(q)
    <3>1. j \in 1 .. Len(q) /\ Len(a) + j \in 1 .. Len(r)
      BY <1>4, <1>5, <2>2
    <3>2. (q \o x)[j] = q[j] /\ q[j] = r[Len(a) + j] /\ (r \o x)[Len(a) + j] = r[Len(a) + j]
      BY <1>1, <1>3, <3>1
    <3> QED BY <2>1, <3>2
  <2>3. CASE j > Len(q)
    <3> DEFINE k == j - Len(q)
    <3>1. k \in 1 .. Len(x) /\ Len(q) + k = j /\ Len(r) + k = Len(a) + j
      BY <1>4, <1>5, <2>3
    <3> HIDE DEF k
    <3>2. (q \o x)[Len(q) + k] = x[k] /\ (r \o x)[Len(r) + k] = x[k]
      BY <1>1, <1>3, <3>1
    <3> QED BY <2>1, <3>1, <3>2
  <2> QED BY <1>4, <2>2, <2>3
<1> QED BY <1>3, <1>5, <1>6, SeqEqual

\* The unread bytes, and what a reader sees of them.
LEMMA UnusedFacts ==
  ASSUME NEW c, IsClient(c)
  PROVE  /\ Unread(c) \in Nat /\ Unused(c) \in Seq(Int) /\ Len(Unused(c)) = Unread(c)
         /\ \A k \in 1 .. Unread(c) : Unused(c)[k] = c.rq[c.i + k]
         /\ \A k \in 0 .. Unread(c) - 1 : U8(c, k) = Unused(c)[k + 1]
<1> DEFINE q == c.rq
           i == c.i
           n == Len(q)
<1>1. q \in Seq(Int) /\ i \in Nat /\ n \in Nat /\ i <= n
  BY DEF IsClient
<1>2. \A k \in i + 1 .. n : q[k] \in Int
  BY <1>1
<1>3. /\ SubSeq(q, i + 1, n) \in Seq(Int)
      /\ Len(SubSeq(q, i + 1, n)) = IF i + 1 <= n THEN n - (i + 1) + 1 ELSE 0
      /\ \A k \in 1 .. n - (i + 1) + 1 : SubSeq(q, i + 1, n)[k] = q[(i + 1) + k - 1]
  <2>1. i + 1 \in Int /\ n \in Int
    BY <1>1
  <2> HIDE DEF q, i, n
  <2> QED BY <1>2, <2>1, SubSeqProperties
<1>4. Unused(c) = SubSeq(q, i + 1, n) /\ Unread(c) = n - i
  BY DEF Unused, Unread
<1>5. /\ Unread(c) \in Nat /\ Unused(c) \in Seq(Int) /\ Len(Unused(c)) = Unread(c)
  BY <1>1, <1>3, <1>4
<1>6. ASSUME NEW k \in 1 .. Unread(c) PROVE Unused(c)[k] = c.rq[c.i + k]
  <2>1. k \in 1 .. n - (i + 1) + 1 /\ (i + 1) + k - 1 = i + k
    BY <1>1, <1>4
  <2> QED BY <1>3, <1>4, <2>1
<1>7. ASSUME NEW k \in 0 .. Unread(c) - 1 PROVE U8(c, k) = Unused(c)[k + 1]
  <2>1. Unread(c) = n - i
    BY <1>4
  <2> HIDE DEF i, n, q
  <2>2. k + 1 \in 1 .. Unread(c) /\ i + k < n /\ (i + k) + 1 = i + (k + 1)
    BY <1>1, <2>1
  <2>3. Unused(c)[k + 1] = q[i + (k + 1)]
    BY <1>6, <2>2 DEF i, q
  <2>4. U8(c, k) = IF i + k < n THEN q[(i + k) + 1] ELSE 0
    BY DEF U8, i, q, n
  <2> QED BY <2>2, <2>3, <2>4
<1> QED BY <1>5, <1>6, <1>7

\* What a client reads is the beginning of all that is to come.
LEMMA Reads ==
  ASSUME NEW c, IsClient(c), NEW x \in Seq(Int), NEW a \in Seq(Int), NEW b \in Seq(Int),
         Unused(c) \o x = a \o b
  PROVE  /\ Unread(c) \in Nat /\ Unread(c) + Len(x) = Len(a) + Len(b)
         /\ \A k \in 0 .. Unread(c) - 1 : k < Len(a) => U8(c, k) = a[k + 1]
<1> DEFINE r == Unused(c)
<1>1. /\ Unread(c) \in Nat /\ r \in Seq(Int) /\ Len(r) = Unread(c)
      /\ \A k \in 0 .. Unread(c) - 1 : U8(c, k) = r[k + 1]
  BY UnusedFacts
<1>2. r \o x = a \o b
  OBVIOUS
<1> HIDE DEF r
<1>3. Len(r) + Len(x) = Len(a) + Len(b) /\ \A k \in 1 .. Len(r) : k <= Len(a) => r[k] = a[k]
  BY <1>1, <1>2, SameStart
<1>4. ASSUME NEW k \in 0 .. Unread(c) - 1, k < Len(a) PROVE U8(c, k) = a[k + 1]
  <2>1. k + 1 \in 1 .. Len(r) /\ k + 1 <= Len(a)
    BY <1>1, <1>4
  <2> QED BY <1>1, <1>3, <2>1
<1> QED BY <1>1, <1>3, <1>4

\* What is left once that beginning has been used.
LEMMA Uses ==
  ASSUME NEW c, IsClient(c), NEW x \in Seq(Int), NEW a \in Seq(Int), NEW b \in Seq(Int),
         Unused(c) \o x = a \o b, Len(a) <= Unread(c)
  PROVE  Unused(Skip(c, Len(a))) \o x = b
<1> DEFINE k == Len(a)
           d == Skip(c, k)
           r == Unused(c)
           q == Unused(d)
<1>1. k \in 0 .. Unread(c) /\ k \in Nat
  BY UnusedFacts
<1>2. IsClient(d) /\ d.i = c.i + k /\ d.rq = c.rq
  BY <1>1, SkipFacts DEF Fields
<1>3. c.rq \in Seq(Int) /\ c.i \in Nat /\ Len(c.rq) \in Nat
  BY DEF IsClient
<1>4. /\ r \in Seq(Int) /\ Len(r) = Unread(c)
      /\ \A j \in 1 .. Unread(c) : r[j] = c.rq[c.i + j]
  BY UnusedFacts
<1>5. /\ Unread(d) \in Nat /\ q \in Seq(Int) /\ Len(q) = Unread(d)
      /\ \A j \in 1 .. Unread(d) : q[j] = d.rq[d.i + j]
  BY <1>2, UnusedFacts
<1>6. Unread(d) = Unread(c) - k
  BY <1>1, <1>2, <1>3 DEF Unread
<1>7. r \o x = a \o b
  OBVIOUS
<1> HIDE DEF r, q, d, k
<1>8. Len(q) + k = Len(r)
  BY <1>1, <1>4, <1>5, <1>6
<1>9. ASSUME NEW j \in 1 .. Len(q) PROVE q[j] = r[k + j]
  <2> DEFINE n == Unread(c)
             i == c.i
  <2>1. n \in Nat /\ k \in Nat /\ Len(q) \in Nat /\ Len(q) + k = n /\ i \in Nat
    BY <1>1, <1>3, <1>4, <1>5, <1>8, UnusedFacts
  <2> HIDE DEF n, i
  <2>2. k + j \in 1 .. n /\ (i + k) + j = i + (k + j) /\ j \in 1 .. Len(q)
    BY <2>1
  <2>3. q[j] = d.rq[d.i + j] /\ d.i + j = (i + k) + j /\ r[k + j] = c.rq[i + (k + j)]
    BY <1>2, <1>4, <1>5, <2>2 DEF n, i
  <2> QED BY <1>2, <2>2, <2>3
<1>10. /\ r \in Seq(Int) /\ q \in Seq(Int) /\ x \in Seq(Int) /\ a \in Seq(Int)
       /\ b \in Seq(Int) /\ Same(r, x, a, b) /\ EndOf(q, r, a)
  BY <1>4, <1>5, <1>7, <1>8, <1>9 DEF k, EndOf, Same
<1>11. q \o x = b
  BY <1>10, AfterStart
<1> QED BY <1>11 DEF d, q, k

\* The four bytes of a number.
LEMMA WordBytes ==
  ASSUME NEW n \in Nat
  PROVE  /\ B32(n) \in Seq(Int) /\ Len(B32(n)) = 4
         /\ B32(n)[1] = ((n \div 65536) \div 256) % 256 /\ B32(n)[2] = (n \div 65536) % 256
         /\ B32(n)[3] = ((n % 65536) \div 256) % 256 /\ B32(n)[4] = (n % 65536) % 256
<1> DEFINE d == n \div 65536
           e == n % 65536
<1>1. d \in Int /\ e \in Int
  BY SMT
<1> HIDE DEF d, e
<1>2. /\ B16(d) \o B16(e) \in Seq(Int) /\ Len(B16(d) \o B16(e)) = 4
      /\ (B16(d) \o B16(e))[1] = (d \div 256) % 256 /\ (B16(d) \o B16(e))[2] = d % 256
      /\ (B16(d) \o B16(e))[3] = (e \div 256) % 256 /\ (B16(d) \o B16(e))[4] = e % 256
  BY <1>1, SMT DEF B16
<1>3. B32(n) = B16(d) \o B16(e)
  BY DEF B32, d, e
<1>4. /\ B32(n) \in Seq(Int) /\ Len(B32(n)) = 4
      /\ B32(n)[1] = (d \div 256) % 256 /\ B32(n)[2] = d % 256
      /\ B32(n)[3] = (e \div 256) % 256 /\ B32(n)[4] = e % 256
  BY <1>2, <1>3
<1> USE DEF d, e
<1> QED BY <1>4

\* They are enough to tell the number.
LEMMA WordValue ==
  ASSUME NEW n \in Word
  PROVE  /\ ((n \div 65536) \div 256) % 256 < 128
         /\ ((((n \div 65536) \div 256) % 256) * 256 + ((n \div 65536) % 256)) * 65536
              + (256 * (((n % 65536) \div 256) % 256) + ((n % 65536) % 256)) = n
<1> DEFINE d == n \div 65536
           e == n % 65536
<1>1. n \in Nat /\ d < 32768
  BY SMT DEF Word
<1>2. d \in Nat /\ e \in Nat /\ e < 65536 /\ d * 65536 + e = n
  BY <1>1, SMT
<1> HIDE DEF d, e
<1>3. (d \div 256) % 256 < 128 /\ ((d \div 256) % 256) * 256 + (d % 256) = d
  BY <1>1, <1>2, SMT
<1>4. 256 * ((e \div 256) % 256) + (e % 256) = e
  BY <1>2, SMT
<1> QED BY <1>2, <1>3, <1>4, SMT DEF d, e

\* A number sent is the number read.
LEMMA ReadWord ==
  ASSUME NEW c, IsClient(c), NEW x \in Seq(Int), NEW n \in Word, NEW b \in Seq(Int),
         Unused(c) \o x = B32(n) \o b, ~Wait(c, 4)
  PROVE  S32(c, 0) = n /\ Unused(Skip(c, 4)) \o x = b
<1> DEFINE d == ((n \div 65536) \div 256) % 256
           e == (n \div 65536) % 256
           f == ((n % 65536) \div 256) % 256
           g == (n % 65536) % 256
<1>1. n \in Nat
  BY DEF Word
<1>2. /\ B32(n) \in Seq(Int) /\ Len(B32(n)) = 4
      /\ B32(n)[1] = d /\ B32(n)[2] = e /\ B32(n)[3] = f /\ B32(n)[4] = g
  BY <1>1, WordBytes
<1>3. d < 128 /\ (d * 256 + e) * 65536 + (256 * f + g) = n
  BY WordValue
<1> HIDE DEF d, e, f, g
<1>4. Unread(c) \in Nat /\ Unread(c) >= 4
  BY UnusedFacts DEF Wait
<1>5. \A k \in 0 .. Unread(c) - 1 : k < 4 => U8(c, k) = B32(n)[k + 1]
  BY <1>2, Reads
<1>6. U8(c, 0) = d /\ U8(c, 1) = e /\ U8(c, 2) = f /\ U8(c, 3) = g
  BY <1>2, <1>4, <1>5
<1>7. Unused(Skip(c, 4)) \o x = b
  BY <1>2, <1>4, Uses
<1>8. S32(c, 0) = n
  <2>1. U8(c, 0 + 1) = e /\ U8(c, 0 + 2) = f /\ U8(c, 0 + 2 + 1) = g
    BY <1>6
  <2> QED BY <1>3, <1>6, <2>1 DEF S32, U16
<1> QED BY <1>7, <1>8

-----------------------------------------------------------------------------
(* The log and the server.                                                 *)

\* A message the server does not take amiss.
LEMMA Told ==
  ASSUME NEW log, log = [k \in 1 .. Len(log) |-> log[k]], Len(log) \in Nat,
         NEW seen \in Nat, seen <= Len(log), NEW s, NEW p, NEW u, NEW t \in Seq(Int),
         Leads(log, seen, s, p, u, t), NEW m,
         After(u, p, m).at # "confused", Reply(u, p, m) \in Seq(Int)
  PROVE  Leads(Append(log, m), seen, s, p, After(u, p, m), t \o Reply(u, p, m))
<1> DEFINE n == Len(log)
           l == Append(log, m)
           v == After(u, p, m)
           r == Reply(u, p, m)
<1>1. PICK us, ts : Follows(log, seen, s, p, u, t, us, ts)
  BY DEF Leads
<1>2. /\ us[seen] = s /\ us[n] = u /\ ts[seen] = t /\ ts[n] = <<>>
      /\ \A k \in seen .. n : us[k].at # "confused" /\ ts[k] \in Seq(Int)
      /\ \A k \in seen .. n - 1 : /\ us[k + 1] = After(us[k], p, log[k + 1])
                                  /\ Reply(us[k], p, log[k + 1]) \in Seq(Int)
                                  /\ ts[k] = Reply(us[k], p, log[k + 1]) \o ts[k + 1]
  BY <1>1 DEF Follows
<1> DEFINE vs == [k \in seen .. n + 1 |-> IF k <= n THEN us[k] ELSE v]
           xs == [k \in seen .. n + 1 |-> IF k <= n THEN ts[k] \o r ELSE <<>>]
<1>3. /\ n \in Nat /\ Len(l) = n + 1 /\ l[n + 1] = m
      /\ \A k \in 1 .. n : l[k] = log[k]
  OBVIOUS
<1>4. v.at # "confused" /\ r \in Seq(Int)
  OBVIOUS
<1> HIDE DEF n, l, v, r
<1>5. vs[seen] = s /\ vs[n + 1] = v /\ vs[n] = u
  BY <1>2, <1>3 DEF n
<1>6. xs[seen] = t \o r /\ xs[n + 1] = <<>>
  <2>1. /\ seen \in seen .. n + 1 /\ seen <= n
        /\ n + 1 \in seen .. n + 1 /\ ~(n + 1 <= n)
    BY <1>3 DEF n
  <2>2. xs[seen] = ts[seen] \o r /\ xs[n + 1] = <<>>
    BY <2>1
  <2> QED BY <1>2, <2>2
<1>7. \A k \in seen .. n + 1 : vs[k].at # "confused" /\ xs[k] \in Seq(Int)
  <2> SUFFICES ASSUME NEW k \in seen .. n + 1 PROVE vs[k].at # "confused" /\ xs[k] \in Seq(Int)
    OBVIOUS
  <2>1. CASE k <= n
    <3>1. k \in seen .. n
      BY <1>3, <2>1
    <3>2. us[k].at # "confused" /\ ts[k] \in Seq(Int)
      BY <1>2, <3>1
    <3>3. ts[k] \o r \in Seq(Int)
      BY <1>4, <3>2, Joined
    <3> QED BY <2>1, <3>2, <3>3
  <2>2. CASE ~(k <= n)
    BY <1>4, <2>2
  <2> QED BY <2>1, <2>2
<1>8. ASSUME NEW k \in seen .. n
      PROVE  /\ vs[k + 1] = After(vs[k], p, l[k + 1])
             /\ Reply(vs[k], p, l[k + 1]) \in Seq(Int)
             /\ xs[k] = Reply(vs[k], p, l[k + 1]) \o xs[k + 1]
  <2>1. CASE k = n
    <3>1. vs[k] = u /\ vs[k + 1] = v /\ l[k + 1] = m /\ xs[k + 1] = <<>>
      BY <1>3, <1>5, <1>6, <2>1
    <3>2. k \in seen .. n + 1 /\ k <= n
      BY <1>3, <2>1
    <3>3. xs[k] = <<>> \o r
      BY <1>2, <2>1, <3>2
    <3>4. <<>> \o r = r /\ r \o <<>> = r
      BY <1>4, ConcatEmptySeq
    <3> HIDE DEF xs, vs
    <3> QED BY <1>4, <3>1, <3>3, <3>4 DEF v, r
  <2>2. CASE k # n
    <3>1. k \in seen .. n - 1 /\ k + 1 \in 1 .. n /\ k <= n /\ k + 1 <= n
          /\ k \in seen .. n + 1 /\ k + 1 \in seen .. n + 1
      BY <1>3, <2>2
    <3>2. /\ vs[k] = us[k] /\ vs[k + 1] = us[k + 1] /\ l[k + 1] = log[k + 1]
          /\ xs[k] = ts[k] \o r /\ xs[k + 1] = ts[k + 1] \o r
      BY <1>3, <3>1
    <3>3. /\ us[k + 1] = After(us[k], p, log[k + 1])
          /\ Reply(us[k], p, log[k + 1]) \in Seq(Int)
          /\ ts[k] = Reply(us[k], p, log[k + 1]) \o ts[k + 1]
      BY <1>2, <3>1
    <3>4. ts[k + 1] \in Seq(Int)
      BY <1>2, <1>3, <3>1
    <3>5. (Reply(us[k], p, log[k + 1]) \o ts[k + 1]) \o r
            = Reply(us[k], p, log[k + 1]) \o (ts[k + 1] \o r)
      <4>1. Reply(us[k], p, log[k + 1]) \in Seq(Int) /\ ts[k + 1] \in Seq(Int) /\ r \in Seq(Int)
        BY <1>4, <3>3, <3>4
      <4> QED BY <4>1, Associative
    <3> HIDE DEF xs, vs
    <3> QED BY <3>2, <3>3, <3>5
  <2> QED BY <2>1, <2>2
<1> HIDE DEF vs, xs
<1>9. Follows(l, seen, s, p, v, t \o r, vs, xs)
  <2>1. Len(l) - 1 = n /\ Len(l) = n + 1
    BY <1>3
  <2> QED BY <1>5, <1>6, <1>7, <1>8, <2>1 DEF Follows
<1> QED BY <1>9 DEF Leads, l, v, r

\* The server reads the next entry of the log.
LEMMA Heard ==
  ASSUME NEW log, Len(log) \in Nat, NEW seen \in Nat, seen < Len(log),
         NEW s, NEW p, NEW u, NEW t, Leads(log, seen, s, p, u, t)
  PROVE  /\ After(s, p, log[seen + 1]).at # "confused"
         /\ Reply(s, p, log[seen + 1]) \in Seq(Int)
         /\ \E x \in Seq(Int) : /\ t = Reply(s, p, log[seen + 1]) \o x
                                /\ Leads(log, seen + 1, After(s, p, log[seen + 1]), p, u, x)
<1> DEFINE n == Len(log)
           m == log[seen + 1]
<1>1. PICK us, ts : Follows(log, seen, s, p, u, t, us, ts)
  BY DEF Leads
<1>2. /\ us[seen] = s /\ us[n] = u /\ ts[seen] = t /\ ts[n] = <<>>
      /\ \A k \in seen .. n : us[k].at # "confused" /\ ts[k] \in Seq(Int)
      /\ \A k \in seen .. n - 1 : /\ us[k + 1] = After(us[k], p, log[k + 1])
                                  /\ Reply(us[k], p, log[k + 1]) \in Seq(Int)
                                  /\ ts[k] = Reply(us[k], p, log[k + 1]) \o ts[k + 1]
  BY <1>1 DEF Follows
<1>3. n \in Nat /\ seen \in seen .. n - 1 /\ seen + 1 \in seen .. n
  OBVIOUS
<1>4. /\ us[seen + 1] = After(s, p, m) /\ Reply(s, p, m) \in Seq(Int)
      /\ t = Reply(s, p, m) \o ts[seen + 1]
      /\ us[seen + 1].at # "confused" /\ ts[seen + 1] \in Seq(Int)
  BY <1>2, <1>3
<1>5. /\ \A k \in seen + 1 .. n : k \in seen .. n
      /\ \A k \in seen + 1 .. n - 1 : k \in seen .. n - 1
  BY <1>3
<1>6. Follows(log, seen + 1, After(s, p, m), p, u, ts[seen + 1], us, ts)
  BY <1>2, <1>4, <1>5 DEF Follows
<1> QED BY <1>4, <1>6 DEF Leads

\* A server that has read the whole log is where it is.
LEMMA NothingSent ==
  ASSUME NEW log, Len(log) \in Nat, NEW s, NEW p, s.at # "confused"
  PROVE  Leads(log, Len(log), s, p, s, <<>>)
<1> DEFINE n == Len(log)
           us == [k \in n .. n |-> s]
           ts == [k \in n .. n |-> <<>>]
<1>1. us[n] = s /\ ts[n] = <<>> /\ n \in Nat
  OBVIOUS
<1>2. \A k \in n .. n : us[k].at # "confused" /\ ts[k] \in Seq(Int)
  <2>1. \A k \in n .. n : us[k] = s /\ ts[k] = <<>>
    OBVIOUS
  <2>2. <<>> \in Seq(Int)
    OBVIOUS
  <2> HIDE DEF us, ts
  <2> QED BY <2>1, <2>2
<1>3. \A k \in n .. n - 1 : FALSE
  BY <1>1
<1> HIDE DEF us, ts
<1>4. Follows(log, n, s, p, s, <<>>, us, ts)
  BY <1>1, <1>2, <1>3 DEF Follows
<1> QED BY <1>4 DEF Leads

-----------------------------------------------------------------------------
(* A step of the client.                                                   *)

\* d is c but for some fields.
But(d, c, fields) ==
    /\ d = [f \in Fields |-> d[f]]
    /\ \A f \in Fields \ fields : d[f] = c[f]

\* Two changes in turn.
LEMMA ButBut ==
  ASSUME NEW c, NEW d, NEW e, NEW fs, NEW gs, But(d, c, fs), But(e, d, gs)
  PROVE  But(e, c, fs \cup gs)
BY DEF But

\* Fields other than these are neither bytes nor log.
LEMMA ButFacts ==
  ASSUME NEW c, IsClient(c), NEW d, NEW fields, But(d, c, fields),
         fields \cap {"rq", "i", "log", "key"} = {}
  PROVE  IsClient(d) /\ Unused(d) = Unused(c) /\ d.log = c.log /\ Unread(d) = Unread(c)
<1>1. d.rq = c.rq /\ d.i = c.i /\ d.log = c.log /\ d.key = c.key
  BY DEF But, Fields
<1>2. d = [f \in Fields |-> d[f]]
  BY DEF But
<1>3. /\ c.rq \in Seq(Int) /\ c.i \in 0 .. Len(c.rq)
      /\ c.log = [k \in 1 .. Len(c.log) |-> c.log[k]] /\ Len(c.log) \in Nat
      /\ c.key \in Nat
  BY DEF IsClient
<1>4. IsClient(d)
  BY <1>1, <1>2, <1>3 DEF IsClient
<1> QED BY <1>1, <1>4 DEF Unused, Unread

\* Both sides; what is to come to the client is w.
Meeting(c, x, seen, s, p, u, t, w) ==
    /\ p \in Plans /\ IsClient(c) /\ seen \in Nat /\ seen <= Len(c.log)
    /\ x \in Seq(Int) /\ t \in Seq(Int) /\ u.at # "confused"
    /\ Leads(c.log, seen, s, p, u, t) /\ w = Unused(c) \o (x \o t)

\* What the invariant says of them.
Met(d, x, seen, s, p) == IsClient(d) /\ seen <= Len(d.log) /\ Joint(d, x, seen, s, p)

\* Where the two stand is what the invariant asks.
LEMMA Ready ==
  ASSUME NEW c, NEW x, NEW seen, NEW s, NEW p, NEW u, NEW t, NEW w,
         Meeting(c, x, seen, s, p, u, t, w), Stands(c, u, w, p)
  PROVE  Met(c, x, seen, s, p)
BY DEF Meeting, Met, Joint

\* The kinds of what a meeting is about.
LEMMA Ways ==
  ASSUME NEW c, NEW x, NEW seen, NEW s, NEW p, NEW u, NEW t, NEW w,
         Meeting(c, x, seen, s, p, u, t, w)
  PROVE  w \in Seq(Int) /\ Unread(c) \in Nat /\ Unread(c) <= Len(w) /\ DOMAIN c = Fields
<1>1. IsClient(c) /\ x \o t \in Seq(Int) /\ w = Unused(c) \o (x \o t)
  BY Joined DEF Meeting
<1>2. Unread(c) \in Nat /\ Unused(c) \in Seq(Int) /\ Len(Unused(c)) = Unread(c)
  BY <1>1, UnusedFacts
<1>3. w \in Seq(Int) /\ Len(w) = Unread(c) + Len(x \o t) /\ Len(x \o t) \in Nat
  <2> DEFINE r == Unused(c)
             y == x \o t
  <2>1. r \in Seq(Int) /\ y \in Seq(Int) /\ w = r \o y /\ Len(r) = Unread(c)
    BY <1>1, <1>2
  <2> HIDE DEF r, y
  <2>2. r \o y \in Seq(Int) /\ Len(r \o y) = Len(r) + Len(y)
    BY <2>1, Joined
  <2>3. Len(y) \in Nat
    BY <2>1
  <2> QED BY <2>1, <2>2, <2>3 DEF y
<1>4. DOMAIN c = Fields
  BY <1>1 DEF IsClient
<1> QED BY <1>2, <1>3, <1>4

\* Other fields are set.
LEMMA Kept ==
  ASSUME NEW c, NEW x, NEW seen, NEW s, NEW p, NEW u, NEW t, NEW w,
         Meeting(c, x, seen, s, p, u, t, w), NEW d, NEW fields, But(d, c, fields),
         fields \cap {"rq", "i", "log", "key"} = {}
  PROVE  Meeting(d, x, seen, s, p, u, t, w) /\ Unread(d) = Unread(c)
<1>1. IsClient(c)
  BY DEF Meeting
<1>2. IsClient(d) /\ Unused(d) = Unused(c) /\ d.log = c.log /\ Unread(d) = Unread(c)
  BY <1>1, ButFacts
<1> QED BY <1>2 DEF Meeting

\* w begins with the k bytes of a, and b follows.
Parted(w, a, b, k) == a \in Seq(Int) /\ b \in Seq(Int) /\ w = a \o b /\ Len(a) = k

\* The first bytes are read.
LEMMA Used ==
  ASSUME NEW c, NEW x, NEW seen, NEW s, NEW p, NEW u, NEW t, NEW w,
         Meeting(c, x, seen, s, p, u, t, w), NEW a, NEW b, NEW k,
         Parted(w, a, b, k), k <= Unread(c)
  PROVE  /\ Meeting(Skip(c, k), x, seen, s, p, u, t, b)
         /\ But(Skip(c, k), c, {"i"}) /\ Unread(Skip(c, k)) = Unread(c) - k
<1>0. a \in Seq(Int) /\ b \in Seq(Int) /\ w = a \o b /\ Len(a) = k
  BY DEF Parted
<1>1. IsClient(c) /\ x \o t \in Seq(Int) /\ Unused(c) \o (x \o t) = a \o b
  BY <1>0, Joined DEF Meeting
<1>2. k \in 0 .. Unread(c)
  BY <1>0, <1>1, UnusedFacts
<1>3. /\ IsClient(Skip(c, k)) /\ Skip(c, k).i = c.i + k
      /\ \A f \in Fields \ {"i"} : Skip(c, k)[f] = c[f]
  BY <1>1, <1>2, SkipFacts
<1>4. Unused(Skip(c, k)) \o (x \o t) = b
  BY <1>0, <1>1, Uses
<1>5. Skip(c, k).log = c.log /\ Skip(c, k).rq = c.rq
  BY <1>3 DEF Fields
<1>6. But(Skip(c, k), c, {"i"})
  BY <1>3 DEF But, IsClient
<1>7. Unread(Skip(c, k)) = Unread(c) - k
  BY <1>1, <1>2, <1>3, <1>5 DEF Unread, IsClient
<1> QED BY <1>3, <1>4, <1>5, <1>6, <1>7 DEF Meeting

\* What is read.
LEMMA Seen ==
  ASSUME NEW c, NEW x, NEW seen, NEW s, NEW p, NEW u, NEW t, NEW w,
         Meeting(c, x, seen, s, p, u, t, w), NEW k \in 0 .. Unread(c) - 1
  PROVE  U8(c, k) = w[k + 1]
<1>1. IsClient(c) /\ x \o t \in Seq(Int) /\ w = Unused(c) \o (x \o t)
  BY Joined DEF Meeting
<1>2. /\ Unread(c) \in Nat /\ Unused(c) \in Seq(Int) /\ Len(Unused(c)) = Unread(c)
      /\ U8(c, k) = Unused(c)[k + 1]
  BY <1>1, UnusedFacts
<1>3. k + 1 \in 1 .. Len(Unused(c))
  BY <1>2
<1> QED BY <1>1, <1>2, <1>3, Joined

\* A number is next, and is read.
NextWord(w, n, b) == n \in Word /\ b \in Seq(Int) /\ w = B32(n) \o b

\* A number is next: it is read, and the rest follows.
LEMMA SeenWord ==
  ASSUME NEW c, NEW x, NEW seen, NEW s, NEW p, NEW u, NEW t, NEW w,
         Meeting(c, x, seen, s, p, u, t, w), NEW n, NEW b, NextWord(w, n, b), ~Wait(c, 4)
  PROVE  /\ S32(c, 0) = n /\ Meeting(Skip(c, 4), x, seen, s, p, u, t, b)
         /\ But(Skip(c, 4), c, {"i"}) /\ Unread(Skip(c, 4)) = Unread(c) - 4
<1>1. /\ IsClient(c) /\ x \o t \in Seq(Int) /\ Unused(c) \o (x \o t) = B32(n) \o b
      /\ n \in Word /\ b \in Seq(Int)
  BY Joined DEF Meeting, NextWord
<1>2. S32(c, 0) = n
  BY <1>1, ReadWord
<1>3. B32(n) \in Seq(Int) /\ Len(B32(n)) = 4
  <2>1. n \in Nat
    BY <1>1 DEF Word
  <2> QED BY <2>1, WordBytes
<1>4. 4 <= Unread(c)
  BY <1>1, UnusedFacts DEF Wait
<1>5. /\ Meeting(Skip(c, 4), x, seen, s, p, u, t, b)
      /\ But(Skip(c, 4), c, {"i"}) /\ Unread(Skip(c, 4)) = Unread(c) - 4
  <2>1. Parted(w, B32(n), b, 4)
    BY <1>1, <1>3 DEF Parted, NextWord
  <2> QED BY <1>4, <2>1, Used
<1> QED BY <1>2, <1>5

\* The client sends m.
LEMMA Sends ==
  ASSUME NEW c, NEW x, NEW seen, NEW s, NEW p, NEW u, NEW t, NEW w,
         Meeting(c, x, seen, s, p, u, t, w), NEW what, NEW v,
         After(u, p, <<what, v>>).at # "confused", Reply(u, p, <<what, v>>) \in Seq(Int)
  PROVE  /\ Meeting(Effect(c, what, v), x, seen, s, p, After(u, p, <<what, v>>),
                    t \o Reply(u, p, <<what, v>>), w \o Reply(u, p, <<what, v>>))
         /\ But(Effect(c, what, v), c, {"log"}) /\ Unread(Effect(c, what, v)) = Unread(c)
<1> DEFINE d == Effect(c, what, v)
           m == <<what, v>>
           u2 == After(u, p, m)
           r == Reply(u, p, m)
<1>0. u2.at # "confused" /\ r \in Seq(Int)
  OBVIOUS
<1>1. /\ x \in Seq(Int) /\ t \in Seq(Int) /\ Leads(c.log, seen, s, p, u, t) /\ IsClient(c)
      /\ seen \in Nat /\ seen <= Len(c.log) /\ p \in Plans /\ w = Unused(c) \o (x \o t)
  BY DEF Meeting
<1>2. c.log = [k \in 1 .. Len(c.log) |-> c.log[k]] /\ Len(c.log) \in Nat
  BY <1>1 DEF IsClient
<1>3. /\ IsClient(d) /\ d.log = Append(c.log, m)
      /\ \A f \in Fields \ {"log"} : d[f] = c[f]
  BY <1>1, EffectFacts
<1> HIDE DEF d, m, u2, r
<1>4. Leads(d.log, seen, s, p, u2, t \o r)
  <2>1. \A l : /\ l = [k \in 1 .. Len(l) |-> l[k]] /\ Len(l) \in Nat
               /\ seen \in Nat /\ seen <= Len(l) /\ Leads(l, seen, s, p, u, t)
               /\ t \in Seq(Int) /\ After(u, p, m).at # "confused" /\ Reply(u, p, m) \in Seq(Int)
               => Leads(Append(l, m), seen, s, p, After(u, p, m), t \o Reply(u, p, m))
    BY Told
  <2>2. u2 = After(u, p, m) /\ r = Reply(u, p, m)
    BY DEF u2, r
  <2> QED BY <1>0, <1>1, <1>2, <1>3, <2>1, <2>2
<1>5. Len(d.log) = Len(c.log) + 1
  <2>1. \A l : l = [k \in 1 .. Len(l) |-> l[k]] /\ Len(l) \in Nat
               => Len(Append(l, m)) = Len(l) + 1
    OBVIOUS
  <2> QED BY <1>2, <1>3, <2>1
<1>6. d.rq = c.rq /\ d.i = c.i
  BY <1>3 DEF Fields
<1>7. Unused(d) = Unused(c) /\ Unread(d) = Unread(c)
  BY <1>6 DEF Unused, Unread
<1>8. t \o r \in Seq(Int) /\ x \o t \in Seq(Int) /\ Unused(c) \in Seq(Int)
  BY <1>0, <1>1, Joined, UnusedFacts
<1>9. w \o r = Unused(d) \o (x \o (t \o r))
  <2>1. (Unused(c) \o (x \o t)) \o r = Unused(c) \o ((x \o t) \o r)
    BY <1>0, <1>8, Associative
  <2>2. (x \o t) \o r = x \o (t \o r)
    BY <1>0, <1>1, Associative
  <2> QED BY <1>1, <1>7, <2>1, <2>2
<1>10. But(d, c, {"log"})
  BY <1>3 DEF But, IsClient
<1>11. Meeting(d, x, seen, s, p, u2, t \o r, w \o r)
  <2>1. seen <= Len(d.log)
    BY <1>1, <1>2, <1>5
  <2> QED BY <1>0, <1>1, <1>3, <1>4, <1>8, <1>9, <2>1, Zenon DEF Meeting
<1> QED BY <1>7, <1>10, <1>11 DEF d, u2, r, m

\* The client tells the page something, or a connected server.
LEMMA Tells ==
  ASSUME NEW c, NEW x, NEW seen, NEW s, NEW p, NEW u, NEW t, NEW w,
         Meeting(c, x, seen, s, p, u, t, w), NEW what, NEW v,
         what \in ToPage \/ u.at = "connected"
  PROVE  /\ Meeting(Effect(c, what, v), x, seen, s, p, u, t, w)
         /\ But(Effect(c, what, v), c, {"log"}) /\ Unread(Effect(c, what, v)) = Unread(c)
<1>1. Ignored(u, <<what, v>>)
  BY DEF Ignored
<1>2. After(u, p, <<what, v>>) = u /\ Reply(u, p, <<what, v>>) = <<>>
  BY <1>1 DEF After, Reply
<1>3. u.at # "confused" /\ <<>> \in Seq(Int) /\ t \in Seq(Int) /\ w \in Seq(Int)
  <2>1. w \in Seq(Int)
    BY Ways
  <2> QED BY <2>1 DEF Meeting
<1>4. t \o <<>> = t /\ w \o <<>> = w
  BY <1>3, ConcatEmptySeq
<1>5. /\ Meeting(Effect(c, what, v), x, seen, s, p, u, t \o <<>>, w \o <<>>)
      /\ But(Effect(c, what, v), c, {"log"}) /\ Unread(Effect(c, what, v)) = Unread(c)
  <2>1. After(u, p, <<what, v>>).at # "confused" /\ Reply(u, p, <<what, v>>) \in Seq(Int)
    BY <1>2, <1>3
  <2>2. /\ Meeting(Effect(c, what, v), x, seen, s, p, After(u, p, <<what, v>>),
                   t \o Reply(u, p, <<what, v>>), w \o Reply(u, p, <<what, v>>))
        /\ But(Effect(c, what, v), c, {"log"}) /\ Unread(Effect(c, what, v)) = Unread(c)
    BY <2>1, Sends
  <2> QED BY <1>2, <2>2
<1> QED BY <1>4, <1>5

\* A step that waits leaves everything as it was.
LEMMA Waits ==
  ASSUME NEW c, NEW x, NEW seen, NEW s, NEW p, NEW u, NEW t, NEW w,
         Meeting(c, x, seen, s, p, u, t, w), Stands(c, u, w, p)
  PROVE  Met(No(c), x, seen, s, p)
<1> DEFINE d == No(c)
<1>1. IsClient(c)
  BY DEF Meeting
<1>2. But(d, c, {"ret"}) /\ d.ret = FALSE
  BY <1>1, NoFacts DEF But, IsClient
<1> HIDE DEF d
<1>3. Meeting(d, x, seen, s, p, u, t, w) /\ Unread(d) = Unread(c)
  BY <1>2, Kept
<1>4. /\ d.state = c.state /\ d.cont = c.cont /\ d.timer = c.timer /\ d.init = c.init
      /\ d.scheme = c.scheme /\ d.tightVNC = c.tightVNC /\ d.ven = c.ven
      /\ d.venTypes = c.venTypes /\ d.version = c.version
  BY <1>2 DEF But, Fields
<1>5. Stands(d, u, w, p)
  BY <1>2, <1>3, <1>4 DEF Stands, Live, Phase, Mute, Established, Greeting, Choosing, Beginning, Subtyping,
                    Tightening, Judging, Entering, Awaiting, Timed, Wait
<1> QED BY <1>3, <1>5, Ready DEF d

-----------------------------------------------------------------------------
(* What the server says.                                                   *)

Sound(a) == a.at \notin {"confused", "connected"} /\ a.bytes \in Seq(Int)

\* What a plan consists of.
LEMMA PlanFacts ==
  ASSUME NEW p \in Plans
  PROVE  /\ p.version \in Versions /\ p.types \in Seq(Byte \ {0}) /\ Len(p.types) \in Byte
         /\ p.subtypes \in Seq(Word) /\ Len(p.subtypes) \in Byte
         /\ p.tunnels \in Seq(Word \X Byte) /\ Len(p.tunnels) \in Word
         /\ p.subauths \in Seq(Byte) /\ Len(p.subauths) \in Word
         /\ p.script \in DOMAIN Scripts
BY PlanAssumption DEF Versions

\* A byte is a number that fits a word.
LEMMA NumberFacts == Byte \subseteq Nat /\ Word \subseteq Nat /\ Byte \subseteq Word
<1>1. \A n \in Nat : n < 256 => n \div 65536 < 32768
  BY SMT
<1>2. Word = {n \in Nat : n \div 65536 < 32768} /\ Byte = {n \in Nat : n < 256}
  BY DEF Byte, Word
<1> QED BY <1>1, <1>2

\* A number is sent in four bytes.
LEMMA WordSeq == ASSUME NEW n \in Nat PROVE B32(n) \in Seq(Int) /\ Len(B32(n)) = 4
BY WordBytes

\* A refusal is bytes.
LEMMA RefusalFacts == Refusal \in Seq(Int)
<1>1. Reason \in Seq(Int) /\ Len(Reason) = 2
  BY DEF Reason
<1>2. B32(2) \in Seq(Int)
  BY WordSeq
<1> QED BY <1>1, <1>2, Joined DEF Refusal

\* An answer of the handshake, made of its parts.
LEMMA SoundAnswer ==
  ASSUME NEW at, at \notin {"confused", "connected"}, NEW bytes \in Seq(Int)
  PROVE  Sound(Answer(at, bytes))
BY DEF Sound, Answer

\* The result is one.
LEMMA ResultFacts == ASSUME NEW p, NEW v PROVE Sound(Result(p, v))
<1>1. B32(0) \in Seq(Int) /\ B32(1) \in Seq(Int) /\ B32(1) \o Refusal \in Seq(Int)
  BY WordSeq, RefusalFacts, Joined
<1>2. "shared" \notin {"confused", "connected"} /\ "closed" \notin {"confused", "connected"}
  OBVIOUS
<1>3. /\ Sound(Answer("shared", B32(0)))
      /\ Sound(Answer("closed", B32(1) \o Refusal)) /\ Sound(Answer("closed", B32(1)))
  BY <1>1, <1>2, SoundAnswer
<1> QED BY <1>3 DEF Result

\* A table of codes is bytes, four for each.
LEMMA CodesFacts ==
  ASSUME NEW codes \in Seq(Word)
  PROVE  /\ Codes(codes) \in Seq(Int) /\ Len(Codes(codes)) = 4 * Len(codes)
         /\ \A n \in 1 .. Len(codes) : \A k \in 1 .. 4 :
               Codes(codes)[4 * (n - 1) + k] = B32(codes[n])[k]
<1> DEFINE N == Len(codes)
<1>1. N \in Nat /\ 4 * N \in Nat
  OBVIOUS
<1>2. ASSUME NEW k \in 1 .. 4 * N
      PROVE  /\ ((k - 1) \div 4) + 1 \in 1 .. N /\ ((k - 1) % 4) + 1 \in 1 .. 4
  BY <1>1, SMT
<1>3. ASSUME NEW n \in 1 .. N PROVE codes[n] \in Nat
  <2>1. codes[n] \in Word
    OBVIOUS
  <2> QED BY <2>1, NumberFacts
<1>4. ASSUME NEW n \in 1 .. N, NEW k \in 1 .. 4 PROVE B32(codes[n])[k] \in Int
  <2>1. B32(codes[n]) \in Seq(Int) /\ Len(B32(codes[n])) = 4
    BY <1>3, WordSeq
  <2> QED BY <2>1
<1>5. ASSUME NEW k \in 1 .. 4 * N
      PROVE  B32(codes[((k - 1) \div 4) + 1])[((k - 1) % 4) + 1] \in Int
  BY <1>2, <1>4
<1>6. Codes(codes) = [k \in 1 .. 4 * N |-> B32(codes[((k - 1) \div 4) + 1])[((k - 1) % 4) + 1]]
  BY DEF Codes
<1> HIDE DEF N
<1>7. Codes(codes) \in Seq(Int) /\ Len(Codes(codes)) = 4 * N
  BY <1>1, <1>5, <1>6
<1>8. ASSUME NEW n \in 1 .. N, NEW k \in 1 .. 4
      PROVE  Codes(codes)[4 * (n - 1) + k] = B32(codes[n])[k]
  <2>1. /\ 4 * (n - 1) + k \in 1 .. 4 * N
        /\ ((4 * (n - 1) + k - 1) \div 4) + 1 = n
        /\ ((4 * (n - 1) + k - 1) % 4) + 1 = k
    BY <1>1, SMT
  <2> QED BY <1>6, <2>1
<1> QED BY <1>7, <1>8 DEF N

\* A table of capabilities is bytes, sixteen for each.
LEMMA CapsFacts ==
  ASSUME NEW caps \in Seq(Word \X Byte)
  PROVE  Caps(caps) \in Seq(Int) /\ Len(Caps(caps)) = 16 * Len(caps)
<1> DEFINE N == Len(caps)
           cap(k) == caps[((k - 1) \div 16) + 1]
           at(k) == (k - 1) % 16
           byte(k) == IF at(k) < 4 THEN B32(cap(k)[1])[at(k) + 1] ELSE cap(k)[2]
<1>1. N \in Nat /\ 16 * N \in Nat
  OBVIOUS
<1>2. ASSUME NEW k \in 1 .. 16 * N PROVE byte(k) \in Int
  <2>1. ((k - 1) \div 16) + 1 \in 1 .. N /\ at(k) \in Nat
    BY <1>1, SMT
  <2>2. cap(k) \in Word \X Byte
    BY <2>1
  <2>3. cap(k)[1] \in Nat /\ cap(k)[2] \in Nat
    BY <2>2, NumberFacts
  <2>4. B32(cap(k)[1]) \in Seq(Int) /\ Len(B32(cap(k)[1])) = 4
    BY <2>3, WordSeq
  <2> HIDE DEF cap, at
  <2>5. at(k) < 4 => B32(cap(k)[1])[at(k) + 1] \in Int
    BY <2>1, <2>4
  <2> QED BY <2>3, <2>5
<1>3. Caps(caps) = [k \in 1 .. 16 * N |-> byte(k)]
  BY DEF Caps
<1> HIDE DEF N, byte
<1>4. Caps(caps) \in Seq(Int) /\ Len(Caps(caps)) = 16 * N
  BY <1>1, <1>2, <1>3
<1> QED BY <1>4 DEF N

\* The capabilities a server with tight security lists last.
SubCaps(p) == [n \in DOMAIN p.subauths |-> <<n, p.subauths[n]>>]

\* So is that of the kinds of tight security.
LEMMA SubCapsFacts ==
  ASSUME NEW p \in Plans
  PROVE  Caps(SubCaps(p)) \in Seq(Int) /\ Len(Caps(SubCaps(p))) = 16 * Len(p.subauths)
<1> DEFINE caps == [n \in DOMAIN p.subauths |-> <<n, p.subauths[n]>>]
<1>1. p.subauths \in Seq(Byte) /\ Len(p.subauths) \in Word
  BY PlanFacts
<1>2. Len(p.subauths) \in Nat /\ DOMAIN p.subauths = 1 .. Len(p.subauths)
  BY <1>1
<1>3. caps \in Seq(Word \X Byte)
  <2>1. \A n \in 1 .. Len(p.subauths) : n \in Word
    <3>1. \A m \in Nat : m \div 65536 < 32768 => \A n \in 1 .. m : n \div 65536 < 32768
      BY SMT
    <3> QED BY <1>1, <3>1 DEF Word
  <2>2. \A n \in 1 .. Len(p.subauths) : caps[n] \in Word \X Byte
    BY <1>1, <1>2, <2>1
  <2> DEFINE n == Len(p.subauths)
  <2>3. n \in Nat /\ caps = [k \in 1 .. n |-> caps[k]]
    BY <1>2
  <2> HIDE DEF caps
  <2>4. \A k \in 1 .. n : caps[k] \in Word \X Byte
    BY <2>2
  <2> QED BY <2>3, <2>4
<1>4. Len(caps) = Len(p.subauths)
  <2> DEFINE n == Len(p.subauths)
  <2>1. n \in Nat /\ caps = [k \in 1 .. n |-> <<k, p.subauths[k]>>]
    BY <1>2
  <2> HIDE DEF n
  <2>2. DOMAIN caps = 1 .. n
    BY <2>1
  <2> HIDE DEF caps
  <2>3. Len(caps) = n
    BY <1>3, <2>1, <2>2
  <2> QED BY <2>3 DEF n
<1> HIDE DEF caps
<1>5. Caps(caps) \in Seq(Int) /\ Len(Caps(caps)) = 16 * Len(caps)
  BY <1>3, CapsFacts
<1> QED BY <1>4, <1>5 DEF caps, SubCaps

\* Whatever kinds it has, the server says so.
LEMMA SubAuthsFacts == ASSUME NEW p \in Plans, NEW v PROVE Sound(SubAuths(p, v))
<1> DEFINE caps == [n \in DOMAIN p.subauths |-> <<n, p.subauths[n]>>]
<1>1. p.subauths \in Seq(Byte) /\ Len(p.subauths) \in Word
  BY PlanFacts
<1>2. Len(p.subauths) \in Nat
  BY <1>1
<1>4. Caps(caps) \in Seq(Int)
  BY SubCapsFacts DEF SubCaps
<1>5. /\ B32(0) \in Seq(Int) /\ B32(Len(p.subauths)) \in Seq(Int)
      /\ B32(Len(p.subauths)) \o Caps(caps) \in Seq(Int)
  BY <1>2, <1>4, WordSeq, Joined
<1>6. Sound(Result(p, v))
  BY ResultFacts
<1>7. B32(0) \o Result(p, v).bytes \in Seq(Int)
  BY <1>5, <1>6, Joined DEF Sound
<1>8. Sound(Answer("subauth", B32(Len(p.subauths)) \o Caps(caps)))
  <2>1. "subauth" \notin {"confused", "connected"}
    OBVIOUS
  <2> HIDE DEF caps
  <2> QED BY <1>5, <2>1, SoundAnswer
<1>9. Sound(Answer(Result(p, v).at, B32(0) \o Result(p, v).bytes))
  BY <1>6, <1>7, SoundAnswer DEF Sound
<1> QED BY <1>8, <1>9, Zenon DEF SubAuths

\* What is random is bytes.
LEMMA Ones == ASSUME NEW n \in Nat PROVE [k \in 1 .. n |-> 1] \in Seq(Int) /\ Len([k \in 1 .. n |-> 1]) = n
OBVIOUS

\* A challenge is sixteen bytes.
LEMMA ResponseFacts == Response \in Seq(Int) /\ Len(Response) = 16
<1>1. \A n \in Nat : [k \in 1 .. n |-> k] \in Seq(Int) /\ Len([k \in 1 .. n |-> k]) = n
  OBVIOUS
<1> QED BY <1>1, 16 \in Nat DEF Response

\* What follows a security type is an answer, whatever the type.
LEMMA BeginFacts == ASSUME NEW p \in Plans, NEW v, NEW type PROVE Sound(Begin(p, v, type))
<1> DEFINE sub == SubAuths(p, v)
           res == Result(p, v)
           caps == Caps(p.tunnels)
           n == Len(p.tunnels)
           key == [k \in 1 .. 256 |-> 1]
           user == [k \in 1 .. 24 |-> 1]
           bits == B32(1024)
<1>1. Sound(sub) /\ Sound(res)
  BY SubAuthsFacts, ResultFacts
<1>2. caps \in Seq(Int) /\ n \in Nat
  <2>1. p.tunnels \in Seq(Word \X Byte)
    BY PlanFacts
  <2>2. caps \in Seq(Int)
    BY <2>1, CapsFacts
  <2> QED BY <2>1, <2>2
<1>3. key \in Seq(Int)
  <2>1. 256 \in Nat
    OBVIOUS
  <2> QED BY <2>1, Ones
<1>4. user \in Seq(Int)
  <2>1. 24 \in Nat
    OBVIOUS
  <2> QED BY <2>1, Ones
<1>5. B32(0) \in Seq(Int) /\ B32(n) \in Seq(Int) /\ bits \in Seq(Int)
  <2>1. 0 \in Nat /\ 1024 \in Nat
    OBVIOUS
  <2> QED BY <1>2, <2>1, WordSeq
<1>6. Begin(p, v, type) =
        CASE type = TypeNone -> IF v >= 38 THEN res ELSE Answer("shared", <<>>)
          [] type = TypeVNCAuth -> Answer("response", Response)
          [] type = TypeVeNCrypt -> Answer("vencrypt", <<0, 2>>)
          [] type = TypeTight ->
               IF p.tunnels = <<>> THEN Answer(sub.at, B32(0) \o sub.bytes)
               ELSE Answer("tunnel", B32(n) \o caps)
          [] type = TypeRA2ne -> Answer("key", bits \o key)
          [] type = TypeMSLogonII -> Answer("user", user)
          [] OTHER -> Answer("user", <<>>)
  BY DEF Begin
<1> HIDE DEF sub, res, caps, n, key, user, bits
<1>7. /\ "shared" \notin {"confused", "connected"} /\ "response" \notin {"confused", "connected"}
      /\ "vencrypt" \notin {"confused", "connected"} /\ "tunnel" \notin {"confused", "connected"}
      /\ "key" \notin {"confused", "connected"} /\ "user" \notin {"confused", "connected"}
  OBVIOUS
<1>8. /\ <<>> \in Seq(Int) /\ <<0, 2>> \in Seq(Int) /\ Response \in Seq(Int)
      /\ B32(n) \o caps \in Seq(Int) /\ bits \o key \in Seq(Int) /\ user \in Seq(Int)
  <2>1. B32(n) \o caps \in Seq(Int) /\ bits \o key \in Seq(Int)
    BY <1>2, <1>3, <1>5, Joined
  <2>2. <<>> \in Seq(Int) /\ <<0, 2>> \in Seq(Int)
    OBVIOUS
  <2> QED BY <1>4, <2>1, <2>2, ResponseFacts
<1>9. /\ Sound(Answer("shared", <<>>)) /\ Sound(Answer("response", Response))
      /\ Sound(Answer("vencrypt", <<0, 2>>)) /\ Sound(Answer("tunnel", B32(n) \o caps))
      /\ Sound(Answer("key", bits \o key)) /\ Sound(Answer("user", user))
      /\ Sound(Answer("user", <<>>))
  <2>1. Sound(Answer("shared", <<>>))
    BY <1>7, <1>8, SoundAnswer
  <2>2. Sound(Answer("response", Response))
    BY <1>7, <1>8, SoundAnswer
  <2>3. Sound(Answer("vencrypt", <<0, 2>>))
    BY <1>7, <1>8, SoundAnswer
  <2>4. Sound(Answer("tunnel", B32(n) \o caps))
    BY <1>7, <1>8, SoundAnswer
  <2>5. Sound(Answer("key", bits \o key))
    BY <1>7, <1>8, SoundAnswer
  <2>6. Sound(Answer("user", user)) /\ Sound(Answer("user", <<>>))
    BY <1>7, <1>8, SoundAnswer
  <2> QED BY <2>1, <2>2, <2>3, <2>4, <2>5, <2>6
<1>10. Sound(Answer(sub.at, B32(0) \o sub.bytes))
  <2>1. sub.at \notin {"confused", "connected"} /\ sub.bytes \in Seq(Int)
    BY <1>1 DEF Sound
  <2>2. B32(0) \o sub.bytes \in Seq(Int)
    BY <1>5, <2>1, Joined
  <2> QED BY <2>1, <2>2, SoundAnswer
<1>11. CASE type = TypeNone
  BY <1>1, <1>6, <1>9, <1>11, SMT
       DEF TypeNone, TypeVNCAuth, TypeVeNCrypt, TypeTight, TypeRA2ne, TypeMSLogonII
<1>12. CASE type # TypeNone
  BY <1>1, <1>6, <1>9, <1>10, <1>12, SMT
       DEF TypeNone, TypeVNCAuth, TypeVeNCrypt, TypeTight, TypeRA2ne, TypeMSLogonII
<1> QED BY <1>11, <1>12

\* The first types, as the client reads them.
LEMMA BeginCases ==
  ASSUME NEW p, NEW v
  PROVE  /\ Begin(p, v, TypeNone) = IF v >= 38 THEN Result(p, v) ELSE Answer("shared", <<>>)
         /\ Begin(p, v, TypeVNCAuth) = Answer("response", Response)
         /\ Begin(p, v, TypeVeNCrypt) = Answer("vencrypt", <<0, 2>>)
         /\ Begin(p, v, TypeTight) =
              IF p.tunnels = <<>> THEN Answer(SubAuths(p, v).at, B32(0) \o SubAuths(p, v).bytes)
              ELSE Answer("tunnel", B32(Len(p.tunnels)) \o Caps(p.tunnels))
BY SMT DEF Begin, TypeNone, TypeVNCAuth, TypeVeNCrypt, TypeTight, TypeRA2ne, TypeMSLogonII

\* The types the server offers are bytes.
LEMMA TypesFacts ==
  ASSUME NEW p \in Plans
  PROVE  /\ p.types \in Seq(Int) /\ Len(p.types) \in Nat /\ Len(p.types) < 256
         /\ (p.types = <<>> <=> Len(p.types) = 0)
         /\ \A k \in 1 .. Len(p.types) : p.types[k] \in Byte \ {0}
<1>1. p.types \in Seq(Byte \ {0}) /\ Len(p.types) \in Byte
  BY PlanFacts
<1>2. \A k \in 1 .. Len(p.types) : p.types[k] \in Byte \ {0}
  BY <1>1
<1>3. Len(p.types) \in Nat /\ Len(p.types) < 256
  BY <1>1 DEF Byte
<1>4. \A S, T : \A q \in Seq(S) : S \subseteq T => q \in Seq(T)
  OBVIOUS
<1>5. Byte \ {0} \subseteq Int
  BY NumberFacts
<1>6. p.types \in Seq(Int)
  BY <1>1, <1>4, <1>5
<1>7. p.types = <<>> <=> Len(p.types) = 0
  BY <1>6, EmptySeq
<1> QED BY <1>2, <1>3, <1>6, <1>7

\* The offer is an answer, in every version.
LEMMA OfferFacts == ASSUME NEW p \in Plans, NEW v PROVE Sound(Offer(p, v))
<1> DEFINE h == Head(p.types)
           b == Begin(p, v, h)
           q == p.types
<1>1. q \in Seq(Int) /\ (q # <<>> => h \in Nat)
  <2>1. q \in Seq(Int) /\ Len(q) \in Nat /\ \A k \in 1 .. Len(q) : q[k] \in Byte \ {0}
    BY TypesFacts
  <2>2. q # <<>> => h = q[1] /\ 1 \in 1 .. Len(q)
    BY <2>1, EmptySeq
  <2> QED BY <2>1, <2>2, NumberFacts
<1>2. b.at \notin {"confused", "connected"} /\ b.bytes \in Seq(Int)
  BY BeginFacts DEF Sound
<1>3. Offer(p, v) =
        IF v >= 37 THEN IF q = <<>> THEN Answer("closed", <<0>> \o Refusal)
                        ELSE Answer("security", <<Len(q)>> \o q)
        ELSE IF q = <<>> THEN Answer("closed", B32(0) \o Refusal)
        ELSE Answer(b.at, B32(h) \o b.bytes)
  BY DEF Offer
<1> HIDE DEF h, b, q
<1>4. <<0>> \o Refusal \in Seq(Int) /\ B32(0) \o Refusal \in Seq(Int) /\ <<Len(q)>> \o q \in Seq(Int)
  <2>1. <<0>> \in Seq(Int) /\ <<Len(q)>> \in Seq(Int) /\ 0 \in Nat
    BY <1>1
  <2> QED BY <1>1, <2>1, WordSeq, RefusalFacts, Joined
<1>5. q # <<>> => B32(h) \o b.bytes \in Seq(Int)
  BY <1>1, <1>2, WordSeq, Joined
<1>6. "closed" \notin {"confused", "connected"} /\ "security" \notin {"confused", "connected"}
  OBVIOUS
<1>7. /\ Sound(Answer("closed", <<0>> \o Refusal)) /\ Sound(Answer("closed", B32(0) \o Refusal))
      /\ Sound(Answer("security", <<Len(q)>> \o q))
  BY <1>4, <1>6, SoundAnswer
<1>8. q # <<>> => Sound(Answer(b.at, B32(h) \o b.bytes))
  BY <1>2, <1>5, SoundAnswer
<1> QED BY <1>3, <1>7, <1>8

\* A short number is sent in two bytes.
LEMMA HalfFacts == ASSUME NEW n \in Nat PROVE B16(n) \in Seq(Int) /\ Len(B16(n)) = 2
<1>1. (n \div 256) % 256 \in Int /\ n % 256 \in Int
  BY SMT
<1> QED BY <1>1 DEF B16

\* 24 bytes, the last four of them the length of the name, the name and
\* what tight security adds.
LEMMA ServerInitFacts ==
  ASSUME NEW p \in Plans, NEW tight
  PROVE  LET name == Scripts[p.script].name
         IN  /\ name \in Seq(Int) /\ Len(name) \in Word
             /\ \E a \in Seq(Int) :
                   /\ Len(a) = 20
                   /\ ServerInit(Scripts[p.script], tight) =
                        (a \o B32(Len(name))) \o (name \o (IF tight THEN Knowledge ELSE <<>>))
<1> DEFINE script == Scripts[p.script]
           name == script.name
           b == B16(script.w)
           d == B16(script.h)
           ones == [k \in 1 .. 16 |-> 1]
           len == B32(Len(name))
           end == IF tight THEN Knowledge ELSE <<>>
           a == (b \o d) \o ones
<1>1. /\ script.w \in Nat /\ script.h \in Nat
      /\ name \in Seq(Byte) /\ Len(name) \in Word
  BY PlanFacts, ScriptAssumption
<1>2. name \in Seq(Int)
  <2> HIDE DEF name
  <2>1. \A S, T : \A q \in Seq(S) : S \subseteq T => q \in Seq(T)
    OBVIOUS
  <2>2. Byte \subseteq Int
    BY NumberFacts
  <2> QED BY <1>1, <2>1, <2>2
<1>3. b \in Seq(Int) /\ Len(b) = 2 /\ d \in Seq(Int) /\ Len(d) = 2
  BY <1>1, HalfFacts
<1>4. ones \in Seq(Int) /\ Len(ones) = 16
  <2>1. 16 \in Nat
    OBVIOUS
  <2> QED BY <2>1, Ones
<1>5. len \in Seq(Int) /\ Len(len) = 4
  <2>1. Len(name) \in Nat
    BY <1>1, NumberFacts
  <2> QED BY <2>1, WordSeq
<1>6. end \in Seq(Int)
  <2>1. 0 \in Nat /\ 1 \in Nat /\ 32 \in Nat
    OBVIOUS
  <2>2. B16(0) \in Seq(Int) /\ B16(1) \in Seq(Int) /\ [k \in 1 .. 32 |-> 1] \in Seq(Int)
    BY <2>1, HalfFacts, Ones
  <2>3. Knowledge \in Seq(Int)
    BY <2>2, Joined DEF Knowledge
  <2> QED BY <2>3
<1>7. ServerInit(script, tight) = (((((b \o d) \o ones) \o len) \o name) \o end)
  BY DEF ServerInit
<1> HIDE DEF script, name, b, d, ones, len, end
<1>8. b \o d \in Seq(Int) /\ Len(b \o d) = 4
  <2>1. b \o d \in Seq(Int) /\ Len(b \o d) = Len(b) + Len(d)
    BY <1>3, Joined
  <2> QED BY <1>3, <2>1
<1>9. a \in Seq(Int) /\ Len(a) = 20
  <2>1. a \in Seq(Int) /\ Len(a) = Len(b \o d) + Len(ones)
    BY <1>4, <1>8, Joined
  <2> QED BY <1>4, <1>8, <2>1
<1> HIDE DEF a
<1>10. a \o len \in Seq(Int)
  BY <1>5, <1>9, Joined
<1>11. ((a \o len) \o name) \o end = (a \o len) \o (name \o end)
  BY <1>2, <1>6, <1>10, Associative
<1>12. ServerInit(script, tight) = (a \o len) \o (name \o end)
  BY <1>7, <1>11 DEF a
<1> QED BY <1>1, <1>2, <1>9, <1>12 DEF script, name, len, end

\* s2 is s and then two numbers.
Extended(s2, s, a, b) ==
    /\ s2 \in Seq(Int) /\ Len(s2) = Len(s) + 2
    /\ \A k \in 1 .. Len(s) : s2[k] = s[k]
    /\ s2[Len(s) + 1] = a /\ s2[Len(s) + 2] = b

\* Two bytes and what follows them.
LEMMA PairAfter ==
  ASSUME NEW s \in Seq(Int), NEW a \in Int, NEW b \in Int
  PROVE  Extended(s \o <<a, b>>, s, a, b)
<1> DEFINE q == <<a, b>>
<1>1. q \in Seq(Int) /\ Len(q) = 2 /\ q[1] = a /\ q[2] = b
  OBVIOUS
<1> HIDE DEF q
<1>2. /\ s \o q \in Seq(Int) /\ Len(s \o q) = Len(s) + Len(q)
      /\ \A k \in 1 .. Len(s) : (s \o q)[k] = s[k]
      /\ \A k \in 1 .. Len(q) : (s \o q)[Len(s) + k] = q[k]
  BY <1>1, Joined
<1>3. 1 \in 1 .. Len(q) /\ 2 \in 1 .. Len(q)
  BY <1>1
<1>4. (s \o q)[Len(s) + 1] = a /\ (s \o q)[Len(s) + 2] = b
  BY <1>1, <1>2, <1>3
<1>5. Len(s \o q) = Len(s) + 2
  BY <1>1, <1>2
<1> QED BY <1>2, <1>4, <1>5 DEF q, Extended

\* The numbers of the message counts of tight security: one and one.
LEMMA KnowledgeFacts ==
  /\ Knowledge \in Seq(Int) /\ Len(Knowledge) = 40
  /\ Knowledge[1] = 0 /\ Knowledge[2] = 1 /\ Knowledge[3] = 0 /\ Knowledge[4] = 0
  /\ Knowledge[5] = 0 /\ Knowledge[6] = 1
<1> DEFINE ones == [k \in 1 .. 32 |-> 1]
           h1 == <<0, 1>>
           h2 == h1 \o <<0, 0>>
           h3 == h2 \o <<0, 1>>
           h == h3 \o <<0, 0>>
<1>0. 0 \in Int /\ 1 \in Int
  OBVIOUS
<1>1. B16(1) = <<0, 1>> /\ B16(0) = <<0, 0>>
  BY SMT DEF B16
<1>2. ones \in Seq(Int) /\ Len(ones) = 32
  <2>1. 32 \in Nat
    OBVIOUS
  <2> QED BY <2>1, Ones
<1>3. Knowledge = h \o ones
  BY <1>1 DEF Knowledge
<1>4. h1 \in Seq(Int) /\ Len(h1) = 2 /\ h1[1] = 0 /\ h1[2] = 1
  OBVIOUS
<1> HIDE DEF ones, h1
<1>5. /\ h2 \in Seq(Int) /\ Len(h2) = 4
      /\ h2[1] = 0 /\ h2[2] = 1 /\ h2[3] = 0 /\ h2[4] = 0
  <2>3. Extended(h2, h1, 0, 0)
    BY <1>4, <1>0, PairAfter, Zenon
  <2>1. /\ h2 \in Seq(Int) /\ Len(h2) = Len(h1) + 2 /\ \A k \in 1 .. Len(h1) : h2[k] = h1[k]
        /\ h2[Len(h1) + 1] = 0 /\ h2[Len(h1) + 2] = 0
    BY <2>3 DEF Extended
  <2>2. 1 \in 1 .. Len(h1) /\ 2 \in 1 .. Len(h1)
    BY <1>4
  <2> HIDE DEF h2
  <2> QED BY <1>4, <2>1, <2>2
<1> HIDE DEF h2
<1>6. /\ h3 \in Seq(Int) /\ Len(h3) = 6
      /\ h3[1] = 0 /\ h3[2] = 1 /\ h3[3] = 0 /\ h3[4] = 0 /\ h3[5] = 0 /\ h3[6] = 1
  <2>3. Extended(h3, h2, 0, 1)
    BY <1>5, <1>0, PairAfter, Zenon
  <2>1. /\ h3 \in Seq(Int) /\ Len(h3) = Len(h2) + 2 /\ \A k \in 1 .. Len(h2) : h3[k] = h2[k]
        /\ h3[Len(h2) + 1] = 0 /\ h3[Len(h2) + 2] = 1
    BY <2>3 DEF Extended
  <2>2. 1 \in 1 .. Len(h2) /\ 2 \in 1 .. Len(h2) /\ 3 \in 1 .. Len(h2) /\ 4 \in 1 .. Len(h2)
    BY <1>5
  <2> HIDE DEF h3
  <2> QED BY <1>5, <2>1, <2>2
<1> HIDE DEF h3
<1>7. /\ h \in Seq(Int) /\ Len(h) = 8
      /\ h[1] = 0 /\ h[2] = 1 /\ h[3] = 0 /\ h[4] = 0 /\ h[5] = 0 /\ h[6] = 1
  <2>3. Extended(h, h3, 0, 0)
    BY <1>6, <1>0, PairAfter, Zenon
  <2>1. /\ h \in Seq(Int) /\ Len(h) = Len(h3) + 2 /\ \A k \in 1 .. Len(h3) : h[k] = h3[k]
        /\ h[Len(h3) + 1] = 0 /\ h[Len(h3) + 2] = 0
    BY <2>3 DEF Extended
  <2>2. /\ 1 \in 1 .. Len(h3) /\ 2 \in 1 .. Len(h3) /\ 3 \in 1 .. Len(h3)
        /\ 4 \in 1 .. Len(h3) /\ 5 \in 1 .. Len(h3) /\ 6 \in 1 .. Len(h3)
    BY <1>6
  <2> HIDE DEF h
  <2> QED BY <1>6, <2>1, <2>2
<1> HIDE DEF h
<1>8. /\ h \o ones \in Seq(Int) /\ Len(h \o ones) = Len(h) + Len(ones)
      /\ \A k \in 1 .. Len(h) : (h \o ones)[k] = h[k]
  BY <1>2, <1>7, Joined
<1>9. /\ 1 \in 1 .. Len(h) /\ 2 \in 1 .. Len(h) /\ 3 \in 1 .. Len(h)
      /\ 4 \in 1 .. Len(h) /\ 5 \in 1 .. Len(h) /\ 6 \in 1 .. Len(h)
  BY <1>7
<1>10. /\ (h \o ones)[1] = 0 /\ (h \o ones)[2] = 1 /\ (h \o ones)[3] = 0
       /\ (h \o ones)[4] = 0 /\ (h \o ones)[5] = 0 /\ (h \o ones)[6] = 1
  BY <1>7, <1>8, <1>9
<1>11. Len(h \o ones) = 40
  BY <1>2, <1>7, <1>8
<1> QED BY <1>3, <1>8, <1>10, <1>11

-----------------------------------------------------------------------------
(* The client's view of what the server says.                              *)

\* A number is read further on.
LEMMA SeenAt ==
  ASSUME NEW c, NEW x, NEW seen, NEW s, NEW p, NEW u, NEW t, NEW w,
         Meeting(c, x, seen, s, p, u, t, w), NEW at \in Nat, at + 4 <= Unread(c), NEW n \in Word,
         w[at + 1] = B32(n)[1], w[at + 2] = B32(n)[2], w[at + 3] = B32(n)[3], w[at + 4] = B32(n)[4]
  PROVE  S32(c, at) = n
<1> DEFINE d == ((n \div 65536) \div 256) % 256
           e == (n \div 65536) % 256
           f == ((n % 65536) \div 256) % 256
           g == (n % 65536) % 256
<1>1. n \in Nat
  BY DEF Word
<1>2. B32(n)[1] = d /\ B32(n)[2] = e /\ B32(n)[3] = f /\ B32(n)[4] = g
  BY <1>1, WordBytes
<1>3. d < 128 /\ (d * 256 + e) * 65536 + (256 * f + g) = n
  BY WordValue
<1> HIDE DEF d, e, f, g
<1>4. \A k \in 0 .. Unread(c) - 1 : U8(c, k) = w[k + 1]
  BY Seen
<1>5. Unread(c) \in Nat
  BY Ways
<1>6. /\ at \in 0 .. Unread(c) - 1 /\ at + 1 \in 0 .. Unread(c) - 1
      /\ at + 2 \in 0 .. Unread(c) - 1 /\ at + 3 \in 0 .. Unread(c) - 1
      /\ (at + 1) + 1 = at + 2 /\ (at + 2) + 1 = at + 3 /\ (at + 3) + 1 = at + 4
  BY <1>5
<1>7. U8(c, at) = d /\ U8(c, at + 1) = e /\ U8(c, at + 2) = f /\ U8(c, at + 2 + 1) = g
  BY <1>2, <1>4, <1>6
<1> QED BY <1>3, <1>7 DEF S32, U16

\* Three digits, and what they stand for.
Triple(d) == d \in Seq(Int) /\ Len(d) = 3 /\ d[1] \in Int /\ d[2] \in Int /\ d[3] \in Int
Value(d) == 100 * (d[1] - 48) + 10 * (d[2] - 48) + (d[3] - 48)
Same3(m, at, d) == m[at + 1] = d[1] /\ m[at + 2] = d[2] /\ m[at + 3] = d[3]

\* A number below a thousand is three digits.
LEMMA DigitsFacts ==
  ASSUME NEW n \in Nat, n < 1000
  PROVE  Triple(Digits(n)) /\ Value(Digits(n)) = n
<1> DEFINE a == 48 + (n \div 100)
           b == 48 + ((n \div 10) % 10)
           d == 48 + (n % 10)
<1>1. a \in Int /\ b \in Int /\ d \in Int
  BY SMT
<1>2. 100 * (a - 48) + 10 * (b - 48) + (d - 48) = n
  BY SMT
<1>3. Digits(n) = <<a, b, d>>
  BY DEF Digits
<1> HIDE DEF a, b, d
<1>4. <<a, b, d>> \in Seq(Int) /\ Len(<<a, b, d>>) = 3
      /\ <<a, b, d>>[1] = a /\ <<a, b, d>>[2] = b /\ <<a, b, d>>[3] = d
  BY <1>1
<1> QED BY <1>1, <1>2, <1>3, <1>4 DEF Triple, Value

\* The version is twelve bytes.
LEMMA VersionFacts ==
  ASSUME NEW v \in Versions
  PROVE  /\ VersionMsg(v) \in Seq(Int) /\ Len(VersionMsg(v)) = 12
         /\ Same3(VersionMsg(v), 4, Digits(v \div 1000)) /\ Same3(VersionMsg(v), 8, Digits(v % 1000))
<1> DEFINE r == <<82, 70, 66, 32>>
           d == Digits(v \div 1000)
           e == Digits(v % 1000)
           point == <<46>>
           nl == <<10>>
           m1 == r \o d
           m2 == m1 \o point
           m3 == m2 \o e
           m == m3 \o nl
<1>1. v \div 1000 \in Nat /\ v \div 1000 < 1000 /\ v % 1000 \in Nat /\ v % 1000 < 1000
  BY SMT DEF Versions
<1>2. d \in Seq(Int) /\ Len(d) = 3 /\ e \in Seq(Int) /\ Len(e) = 3
  BY <1>1, DigitsFacts DEF Triple
<1>3. /\ r \in Seq(Int) /\ Len(r) = 4 /\ point \in Seq(Int) /\ Len(point) = 1
      /\ nl \in Seq(Int) /\ Len(nl) = 1
  OBVIOUS
<1>4. VersionMsg(v) = m
  BY DEF VersionMsg
<1> HIDE DEF r, d, e, point, nl
<1>5. /\ m1 \in Seq(Int) /\ Len(m1) = Len(r) + Len(d)
      /\ \A k \in 1 .. Len(d) : m1[Len(r) + k] = d[k]
  BY <1>2, <1>3, Joined
<1>6. Len(m1) = 7 /\ Same3(m1, 4, d)
  <2>1. 1 \in 1 .. Len(d) /\ 2 \in 1 .. Len(d) /\ 3 \in 1 .. Len(d)
    BY <1>2
  <2>2. m1[4 + 1] = d[1] /\ m1[4 + 2] = d[2] /\ m1[4 + 3] = d[3]
    BY <1>3, <1>5, <2>1
  <2>3. Len(m1) = 7
    BY <1>2, <1>3, <1>5
  <2> QED BY <2>2, <2>3 DEF Same3
<1> HIDE DEF m1
<1>7. /\ m2 \in Seq(Int) /\ Len(m2) = Len(m1) + Len(point)
      /\ \A k \in 1 .. Len(m1) : m2[k] = m1[k]
  BY <1>3, <1>5, Joined
<1>8. Len(m2) = 8 /\ Same3(m2, 4, d)
  <2>1. 4 + 1 \in 1 .. Len(m1) /\ 4 + 2 \in 1 .. Len(m1) /\ 4 + 3 \in 1 .. Len(m1)
    BY <1>6
  <2>2. Len(m2) = 8
    BY <1>3, <1>6, <1>7
  <2> QED BY <1>6, <1>7, <2>1, <2>2 DEF Same3
<1> HIDE DEF m2
<1>9. /\ m3 \in Seq(Int) /\ Len(m3) = Len(m2) + Len(e)
      /\ \A k \in 1 .. Len(m2) : m3[k] = m2[k]
      /\ \A k \in 1 .. Len(e) : m3[Len(m2) + k] = e[k]
  BY <1>2, <1>7, Joined
<1>10. Len(m3) = 11 /\ Same3(m3, 4, d) /\ Same3(m3, 8, e)
  <2>1. /\ 4 + 1 \in 1 .. Len(m2) /\ 4 + 2 \in 1 .. Len(m2) /\ 4 + 3 \in 1 .. Len(m2)
        /\ 1 \in 1 .. Len(e) /\ 2 \in 1 .. Len(e) /\ 3 \in 1 .. Len(e)
    BY <1>2, <1>8
  <2>2. Len(m3) = 11
    BY <1>2, <1>8, <1>9
  <2>3. Same3(m3, 4, d)
    BY <1>8, <1>9, <2>1 DEF Same3
  <2>4. Same3(m3, 8, e)
    BY <1>8, <1>9, <2>1 DEF Same3
  <2> QED BY <2>2, <2>3, <2>4
<1> HIDE DEF m3
<1>11. /\ m \in Seq(Int) /\ Len(m) = Len(m3) + Len(nl)
       /\ \A k \in 1 .. Len(m3) : m[k] = m3[k]
  BY <1>3, <1>9, Joined
<1>12. Len(m) = 12 /\ Same3(m, 4, d) /\ Same3(m, 8, e)
  <2>1. /\ 4 + 1 \in 1 .. Len(m3) /\ 4 + 2 \in 1 .. Len(m3) /\ 4 + 3 \in 1 .. Len(m3)
        /\ 8 + 1 \in 1 .. Len(m3) /\ 8 + 2 \in 1 .. Len(m3) /\ 8 + 3 \in 1 .. Len(m3)
    BY <1>10
  <2>2. Len(m) = 12
    BY <1>3, <1>10, <1>11
  <2>3. Same3(m, 4, d) /\ Same3(m, 8, e)
    BY <1>10, <1>11, <2>1 DEF Same3
  <2> QED BY <2>2, <2>3
<1> HIDE DEF m
<1>13. /\ VersionMsg(v) \in Seq(Int) /\ Len(VersionMsg(v)) = 12
       /\ Same3(VersionMsg(v), 4, d) /\ Same3(VersionMsg(v), 8, e)
  BY <1>4, <1>11, <1>12
<1> QED BY <1>13 DEF d, e

\* The client makes the same number of it.
LEMMA VersionRead ==
  ASSUME NEW c, NEW x, NEW seen, NEW s, NEW p, NEW u, NEW t, NEW v \in Versions,
         Meeting(c, x, seen, s, p, u, t, VersionMsg(v)), ~Wait(c, 12)
  PROVE  ServerVersion(c) = v
<1> DEFINE m == VersionMsg(v)
           d == Digits(v \div 1000)
           e == Digits(v % 1000)
<1>1. v \in Nat /\ v \div 1000 \in Nat /\ v \div 1000 < 1000 /\ v % 1000 \in Nat /\ v % 1000 < 1000
      /\ 1000 * (v \div 1000) + (v % 1000) = v
  BY SMT DEF Versions
<1>2. Triple(d) /\ Value(d) = v \div 1000 /\ Triple(e) /\ Value(e) = v % 1000
  BY <1>1, DigitsFacts
<1>3. Same3(m, 4, d) /\ Same3(m, 8, e)
  BY VersionFacts
<1>4. Unread(c) \in Nat /\ Unread(c) >= 12
  BY Ways DEF Wait
<1>5. \A k \in 0 .. Unread(c) - 1 : U8(c, k) = m[k + 1]
  BY Seen
<1> HIDE DEF m, d, e
<1>6. /\ 4 \in 0 .. Unread(c) - 1 /\ 5 \in 0 .. Unread(c) - 1 /\ 6 \in 0 .. Unread(c) - 1
      /\ 8 \in 0 .. Unread(c) - 1 /\ 9 \in 0 .. Unread(c) - 1 /\ 10 \in 0 .. Unread(c) - 1
  BY <1>4
<1>7. /\ U8(c, 4) = m[4 + 1] /\ U8(c, 5) = m[5 + 1] /\ U8(c, 6) = m[6 + 1]
      /\ U8(c, 8) = m[8 + 1] /\ U8(c, 9) = m[9 + 1] /\ U8(c, 10) = m[10 + 1]
  BY <1>5, <1>6
<1>8. /\ U8(c, 4) = d[1] /\ U8(c, 5) = d[2] /\ U8(c, 6) = d[3]
      /\ U8(c, 8) = e[1] /\ U8(c, 9) = e[2] /\ U8(c, 10) = e[3]
  BY <1>3, <1>7 DEF Same3
<1> DEFINE a1 == d[1]
           a2 == d[2]
           a3 == d[3]
           b1 == e[1]
           b2 == e[2]
           b3 == e[3]
           top == v \div 1000
           low == v % 1000
<1>9. a1 \in Int /\ a2 \in Int /\ a3 \in Int /\ b1 \in Int /\ b2 \in Int /\ b3 \in Int
  BY <1>2 DEF Triple
<1>10. ServerVersion(c) = 1000 * (100 * (a1 - 48) + 10 * (a2 - 48) + (a3 - 48))
                            + 100 * (b1 - 48) + 10 * (b2 - 48) + (b3 - 48)
  BY <1>8 DEF ServerVersion
<1>11. /\ 100 * (a1 - 48) + 10 * (a2 - 48) + (a3 - 48) = top
       /\ 100 * (b1 - 48) + 10 * (b2 - 48) + (b3 - 48) = low
  BY <1>2 DEF Value
<1>12. top \in Nat /\ low \in Nat
  BY <1>1
<1> HIDE DEF a1, a2, a3, b1, b2, b3, top, low
<1>13. ServerVersion(c) = 1000 * top + low
  BY <1>9, <1>10, <1>11, <1>12, SMT
<1> QED BY <1>1, <1>13 DEF top, low

-----------------------------------------------------------------------------
(* The handshake, phase by phase.                                          *)

\* The server's answer to a message of the handshake.
Replies(u, p, what, v, a) ==
    /\ what \notin ToPage /\ u.at # "connected" /\ HandshakeAnswer(u, p, what, v) = a

\* What becomes of the server that answers.
LEMMA RepliesFacts ==
  ASSUME NEW u, NEW p, NEW what, NEW v, NEW a, Replies(u, p, what, v, a),
         a.at # "confused", a.bytes \in Seq(Int)
  PROVE  LET z == After(u, p, <<what, v>>)
         IN  /\ z.at = a.at /\ z.at # "confused" /\ z.version = IF what = "version" THEN v ELSE u.version
             /\ z.tight = (u.tight \/ SettlesTight(p, <<what, v>>))
             /\ Reply(u, p, <<what, v>>) = a.bytes /\ Reply(u, p, <<what, v>>) \in Seq(Int)
<1> DEFINE m == <<what, v>>
<1>1. ~Ignored(u, m) /\ m[1] = what /\ m[2] = v
  BY DEF Ignored, Replies
<1>2. HandshakeAnswer(u, p, m[1], m[2]) = a
  BY <1>1 DEF Replies
<1> HIDE DEF m
<1>3. /\ After(u, p, m) = [at |-> a.at, version |-> IF m[1] = "version" THEN m[2] ELSE u.version,
                           tight |-> u.tight \/ SettlesTight(p, m)]
      /\ Reply(u, p, m) = a.bytes
  BY <1>1, <1>2 DEF After, Reply
<1>4. /\ After(u, p, m).at = a.at /\ After(u, p, m).version = IF what = "version" THEN v ELSE u.version
      /\ After(u, p, m).tight = (u.tight \/ SettlesTight(p, m))
  BY <1>1, <1>3
<1> QED BY <1>3, <1>4 DEF m

\* e is c once it has sent the server u a message, to which the answer is a.
Advanced(e, c, x, seen, s, p, u, w, what, v, a) ==
    \E z, y :
        /\ Meeting(e, x, seen, s, p, z, y, w)
        /\ But(e, c, {"log"}) /\ Unread(e) = Unread(c)
        /\ z.at = a.at /\ z.version = IF what = "version" THEN v ELSE u.version
        /\ z.tight = (u.tight \/ SettlesTight(p, <<what, v>>))

\* The client sends what the server waits for.
LEMMA Answered ==
  ASSUME NEW c, NEW x, NEW seen, NEW s, NEW p, NEW u, NEW t, NEW w,
         Meeting(c, x, seen, s, p, u, t, w), NEW what, NEW v, NEW a,
         Replies(u, p, what, v, a), a.at # "confused", a.bytes \in Seq(Int)
  PROVE  Advanced(Effect(c, what, v), c, x, seen, s, p, u, w \o a.bytes, what, v, a)
<1> DEFINE z == After(u, p, <<what, v>>)
           r == Reply(u, p, <<what, v>>)
<1>1. /\ z.at = a.at /\ z.at # "confused" /\ z.version = IF what = "version" THEN v ELSE u.version
      /\ z.tight = (u.tight \/ SettlesTight(p, <<what, v>>))
      /\ r = a.bytes /\ r \in Seq(Int)
  BY RepliesFacts
<1>2. /\ Meeting(Effect(c, what, v), x, seen, s, p, z, t \o r, w \o r)
      /\ But(Effect(c, what, v), c, {"log"}) /\ Unread(Effect(c, what, v)) = Unread(c)
  BY <1>1, Sends
<1> HIDE DEF z, r
<1> QED BY <1>1, <1>2 DEF Advanced

\* What a repeater's server says.
Hello == VersionMsg(3008)

\* The server behind a repeater has a version, too.
LEMMA HelloFacts == 3008 \in Versions /\ Hello = VersionMsg(3008) /\ Hello \in Seq(Int)
<1>1. 3008 \in Versions
  BY DEF Versions
<1> QED BY <1>1, VersionFacts DEF Hello

\* What the server answers to what it waits for.
LEMMA Replying ==
  ASSUME NEW u, NEW p, NEW v
  PROVE  /\ u.at = "repeater" =>
              Replies(u, p, "repeaterID", v, Answer("version", Hello))
         /\ u.at = "version" => Replies(u, p, "version", v, Offer(p, v))
         /\ u.at = "security" /\ v \in ToSet(p.types) =>
              Replies(u, p, "security", v, Begin(p, u.version, v))
         /\ u.at = "vencrypt" =>
              Replies(u, p, "vencrypt", v, Answer("subtype", <<0, Len(p.subtypes)>> \o Codes(p.subtypes)))
         /\ u.at = "subtype" /\ v \in ToSet(p.subtypes) =>
              Replies(u, p, "subtype", v, Begin(p, u.version, v))
         /\ u.at = "tunnel" => Replies(u, p, "tunnel", v, SubAuths(p, u.version))
         /\ u.at = "subauth" =>
              Replies(u, p, "subauth", v,
                      IF v = NoAuth THEN Result(p, u.version)
                      ELSE IF v = VncAuth THEN Begin(p, u.version, TypeVNCAuth) ELSE Answer("user", <<>>))
         /\ u.at = "response" => Replies(u, p, "response", Response, Result(p, u.version))
         /\ u.at = "shared" =>
              Replies(u, p, "shared", v, Answer("pixelFormat", ServerInit(Scripts[p.script], u.tight)))
         /\ u.at = "pixelFormat" => Replies(u, p, "pixelFormat", v, Answer("encodings", <<>>))
         /\ u.at = "encodings" => Replies(u, p, "encodings", v, Answer("connected", <<>>))
<1>1. u.at = "repeater" => Replies(u, p, "repeaterID", v, Answer("version", Hello))
  BY SMT DEF Hello, Replies, HandshakeAnswer, ToPage
<1>2. u.at = "version" => Replies(u, p, "version", v, Offer(p, v))
  BY SMT DEF Replies, HandshakeAnswer, ToPage
<1>3. u.at = "security" /\ v \in ToSet(p.types) => Replies(u, p, "security", v, Begin(p, u.version, v))
  BY SMT DEF Replies, HandshakeAnswer, ToPage
<1>4. u.at = "vencrypt" =>
        Replies(u, p, "vencrypt", v, Answer("subtype", <<0, Len(p.subtypes)>> \o Codes(p.subtypes)))
  BY SMT DEF Replies, HandshakeAnswer, ToPage
<1>5. u.at = "subtype" /\ v \in ToSet(p.subtypes) => Replies(u, p, "subtype", v, Begin(p, u.version, v))
  BY SMT DEF Replies, HandshakeAnswer, ToPage
<1>6. u.at = "tunnel" => Replies(u, p, "tunnel", v, SubAuths(p, u.version))
  BY SMT DEF Replies, HandshakeAnswer, ToPage
<1>7. u.at = "subauth" =>
        Replies(u, p, "subauth", v,
                IF v = NoAuth THEN Result(p, u.version)
                ELSE IF v = VncAuth THEN Begin(p, u.version, TypeVNCAuth) ELSE Answer("user", <<>>))
  BY SMT DEF Replies, HandshakeAnswer, ToPage
<1>8. u.at = "response" => Replies(u, p, "response", Response, Result(p, u.version))
  BY SMT DEF Replies, HandshakeAnswer, ToPage
<1>9. u.at = "shared" =>
        Replies(u, p, "shared", v, Answer("pixelFormat", ServerInit(Scripts[p.script], u.tight)))
  BY SMT DEF Replies, HandshakeAnswer, ToPage
<1>10. u.at = "pixelFormat" => Replies(u, p, "pixelFormat", v, Answer("encodings", <<>>))
  BY SMT DEF Replies, HandshakeAnswer, ToPage
<1>11. u.at = "encodings" => Replies(u, p, "encodings", v, Answer("connected", <<>>))
  BY SMT DEF Replies, HandshakeAnswer, ToPage
<1> QED BY <1>1, <1>2, <1>3, <1>4, <1>5, <1>6, <1>7, <1>8, <1>9, <1>10, <1>11

\* A client that gives up tells only the page.
LEMMA FailFacts ==
  ASSUME NEW c, NEW x, NEW seen, NEW s, NEW p, NEW u, NEW t, NEW w,
         Meeting(c, x, seen, s, p, u, t, w)
  PROVE  /\ Meeting(Fail(c), x, seen, s, p, u, t, w) /\ But(Fail(c), c, {"log", "state", "ret"})
         /\ Fail(c).state = "disconnected" /\ Fail(c).ret = FALSE
<1> DEFINE d == IF c.state = "disconnected" THEN c ELSE Effect(c, "disconnect", <<>>)
<1>1. "disconnect" \in ToPage
  BY DEF ToPage
<1>2. /\ Meeting(Effect(c, "disconnect", <<>>), x, seen, s, p, u, t, w)
      /\ But(Effect(c, "disconnect", <<>>), c, {"log"})
  BY <1>1, Tells
<1>3. c = [f \in Fields |-> c[f]]
  BY DEF Meeting, IsClient
<1>4. Meeting(d, x, seen, s, p, u, t, w) /\ But(d, c, {"log"})
  BY <1>2, <1>3 DEF But
<1>5. Fail(c) = [d EXCEPT !.state = "disconnected", !.ret = FALSE]
  BY DEF Fail
<1> HIDE DEF d
<1>6. DOMAIN d = Fields
  BY <1>4 DEF But
<1>7. /\ But(Fail(c), d, {"state", "ret"})
      /\ Fail(c).state = "disconnected" /\ Fail(c).ret = FALSE
  BY <1>5, <1>6 DEF But, Fields
<1>8. Meeting(Fail(c), x, seen, s, p, u, t, w)
  BY <1>4, <1>7, Kept
<1>9. But(Fail(c), c, {"log", "state", "ret"})
  BY <1>4, <1>7 DEF But
<1> QED BY <1>7, <1>8, <1>9

\* The client gives up.
LEMMA Fails ==
  ASSUME NEW c, NEW x, NEW seen, NEW s, NEW p, NEW u, NEW t, NEW w,
         Meeting(c, x, seen, s, p, u, t, w), ~c.timer
  PROVE  Met(Fail(c), x, seen, s, p)
<1>1. /\ Meeting(Fail(c), x, seen, s, p, u, t, w) /\ But(Fail(c), c, {"log", "state", "ret"})
      /\ Fail(c).state = "disconnected"
  BY FailFacts
<1>2. ~Fail(c).timer
  BY <1>1 DEF But, Fields
<1>3. Stands(Fail(c), u, w, p)
  BY <1>1, <1>2 DEF Stands, Mute
<1> QED BY <1>1, <1>3, Ready

\* The client is on its way and nothing is to be run from a timer.
Going(c) == c.state = "connecting" /\ ~c.cont /\ ~c.timer

\* In a phase of the handshake the invariant holds ...
LEMMA Proceeds ==
  ASSUME NEW c, NEW x, NEW seen, NEW s, NEW p, NEW u, NEW t, NEW w,
         Meeting(c, x, seen, s, p, u, t, w), Going(c), Greeting(c, u, w, p) \/ Phase(c, u, w, p)
  PROVE  Met(c, x, seen, s, p)
<1>1. Stands(c, u, w, p)
  BY DEF Stands, Live, Going
<1> QED BY <1>1, Ready

\* ... and while the client waits for the rest of a message.
LEMMA WaitsOn ==
  ASSUME NEW c, NEW x, NEW seen, NEW s, NEW p, NEW u, NEW t, NEW w,
         Meeting(c, x, seen, s, p, u, t, w), Going(c), Greeting(c, u, w, p) \/ Phase(c, u, w, p)
  PROVE  Met(No(c), x, seen, s, p)
<1>1. Stands(c, u, w, p)
  BY DEF Stands, Live, Going
<1> QED BY <1>1, Waits

\* What a handler returns does not change where the two stand.
LEMMA YesKept ==
  ASSUME NEW c, NEW x, NEW seen, NEW s, NEW p, NEW u, NEW t, NEW w,
         Meeting(c, x, seen, s, p, u, t, w)
  PROVE  /\ Meeting(Yes(c), x, seen, s, p, u, t, w) /\ But(Yes(c), c, {"ret"})
         /\ Meeting(No(c), x, seen, s, p, u, t, w) /\ But(No(c), c, {"ret"}) /\ No(c).ret = FALSE
<1>1. IsClient(c)
  BY DEF Meeting
<1>2. But(Yes(c), c, {"ret"}) /\ But(No(c), c, {"ret"}) /\ No(c).ret = FALSE
  BY <1>1, YesFacts, NoFacts DEF But, IsClient
<1> QED BY <1>2, Kept

\* The version, or a repeater: _negotiateProtocolVersion.
LEMMA GreetingStep ==
  ASSUME NEW c, NEW x, NEW seen, NEW s, NEW p, NEW u, NEW t, NEW w,
         Meeting(c, x, seen, s, p, u, t, w), Going(c), Greeting(c, u, w, p)
  PROVE  Met(NegotiateProtocolVersion(c), x, seen, s, p)
<1> DEFINE d == Skip(c, 12)
           v == ServerVersion(c)
           version == IF v \in {3003, 3006} THEN 33 ELSE IF v = 3007 THEN 37 ELSE 38
           known == {3003, 3006, 3007, 3008, 3889, 4000, 4001, 5000}
           r == Effect(d, "repeaterID", <<>>)
           d2 == [d EXCEPT !.version = version, !.init = "Security"]
           r2 == Effect(d2, "version", version)
<1>1. NegotiateProtocolVersion(c) =
        IF Wait(c, 12) THEN No(c) ELSE IF v = 0 THEN Yes(r) ELSE IF v \notin known THEN Fail(d)
        ELSE No(r2)
  BY DEF NegotiateProtocolVersion
<1>2. PICK n \in Versions : w = VersionMsg(n) /\ u.at = IF n = 0 THEN "repeater" ELSE "version"
  BY DEF Greeting
<1>3. c.init = "ProtocolVersion" /\ ~c.tightVNC /\ c.ven = 0 /\ ~u.tight
  BY DEF Greeting
<1>4. c.state = "connecting" /\ ~c.cont /\ ~c.timer /\ p \in Plans
  BY DEF Going, Meeting
<1>5. CASE Wait(c, 12)
  BY <1>1, <1>5, WaitsOn
<1>6. ASSUME ~Wait(c, 12)
      PROVE  /\ v = n /\ Meeting(d, x, seen, s, p, u, t, <<>>) /\ But(d, c, {"i"})
  <2>1. Meeting(c, x, seen, s, p, u, t, VersionMsg(n))
    BY <1>2
  <2>2. v = n
    BY <1>6, <2>1, VersionRead
  <2>3. Unread(c) \in Nat /\ 12 <= Unread(c)
    BY <1>6, Ways DEF Wait
  <2>4. /\ VersionMsg(n) \in Seq(Int) /\ Len(VersionMsg(n)) = 12 /\ <<>> \in Seq(Int)
        /\ VersionMsg(n) \o <<>> = VersionMsg(n)
    BY VersionFacts, ConcatEmptySeq
  <2>5. Parted(VersionMsg(n), VersionMsg(n), <<>>, 12)
    BY <2>4 DEF Parted
  <2> QED BY <2>1, <2>2, <2>3, <2>5, Used
<1> HIDE DEF d, v, known, version
<1>7. CASE ~Wait(c, 12) /\ v = 0
  <2>1. u.at = "repeater" /\ Meeting(d, x, seen, s, p, u, t, <<>>) /\ But(d, c, {"i"})
    BY <1>2, <1>6, <1>7
  <2> DEFINE a == Answer("version", Hello)
             none == <<>>
             w2 == none \o a.bytes
  <2>3. a.at = "version" /\ a.bytes = Hello /\ a.at # "confused" /\ Hello \in Seq(Int)
        /\ none \o Hello = Hello
    BY HelloFacts, ConcatEmptySeq DEF Answer
  <2>4. Replies(u, p, "repeaterID", none, a)
    BY <2>1, Replying
  <2> HIDE DEF a, none
  <2>5. Advanced(Effect(d, "repeaterID", none), d, x, seen, s, p, u, w2, "repeaterID", none, a)
    BY <2>1, <2>3, <2>4, Answered DEF none
  <2>6. PICK z, y : /\ Meeting(r, x, seen, s, p, z, y, Hello) /\ But(r, d, {"log"})
                    /\ z.at = a.at
                    /\ z.tight = (u.tight \/ SettlesTight(p, <<"repeaterID", none>>))
    BY <2>3, <2>5 DEF Advanced, none
  <2>7. ~z.tight
    BY <1>3, <2>6 DEF SettlesTight
  <2> HIDE DEF r
  <2>8. Meeting(Yes(r), x, seen, s, p, z, y, Hello) /\ But(Yes(r), r, {"ret"})
    BY <2>6, YesKept
  <2>9. /\ Yes(r).init = c.init /\ Yes(r).tightVNC = c.tightVNC /\ Yes(r).ven = c.ven
        /\ Yes(r).state = c.state /\ Yes(r).cont = c.cont /\ Yes(r).timer = c.timer
    BY <2>1, <2>6, <2>8 DEF But, Fields
  <2>10. Going(Yes(r)) /\ Greeting(Yes(r), z, Hello, p)
    <3>1. z.at = IF 3008 = 0 THEN "repeater" ELSE "version"
      BY <2>3, <2>6
    <3>2. \E k \in Versions : Hello = VersionMsg(k) /\ z.at = IF k = 0 THEN "repeater" ELSE "version"
      BY <3>1, HelloFacts
    <3> QED BY <1>3, <1>4, <2>7, <2>9, <3>2 DEF Going, Greeting
  <2> QED BY <1>1, <1>7, <2>8, <2>10, Proceeds DEF r
<1>8. CASE ~Wait(c, 12) /\ v # 0 /\ v \notin known
  <2>1. Meeting(d, x, seen, s, p, u, t, <<>>) /\ But(d, c, {"i"})
    BY <1>6, <1>8
  <2>2. ~d.timer
    BY <1>4, <2>1 DEF But, Fields
  <2> QED BY <1>1, <1>8, <2>1, <2>2, Fails
<1>9. CASE ~Wait(c, 12) /\ v # 0 /\ v \in known
  <2>1. u.at = "version" /\ Meeting(d, x, seen, s, p, u, t, <<>>) /\ But(d, c, {"i"})
    BY <1>2, <1>6, <1>9
  <2> DEFINE a == Offer(p, version)
             none == <<>>
  <2>2. Sound(a) /\ version \in {33, 37, 38}
    BY <1>4, OfferFacts DEF version
  <2>3. Replies(u, p, "version", version, a)
    BY <2>1, Replying
  <2> HIDE DEF a
  <2>4. But(d2, d, {"version", "init"}) /\ d2.version = version /\ d2.init = "Security"
    BY <2>1 DEF But, Fields
  <2>5. Meeting(d2, x, seen, s, p, u, t, <<>>)
    BY <2>1, <2>4, Kept
  <2>6. a.at # "confused" /\ a.bytes \in Seq(Int) /\ <<>> \o a.bytes = a.bytes
    BY <2>2, ConcatEmptySeq DEF Sound
  <2> HIDE DEF d2
  <2>12. Advanced(Effect(d2, "version", version), d2, x, seen, s, p, u, <<>> \o a.bytes, "version", version, a)
    BY <2>3, <2>5, <2>6, Answered
  <2>7. PICK z, y : /\ Meeting(r2, x, seen, s, p, z, y, a.bytes) /\ But(r2, d2, {"log"})
                    /\ z.at = a.at /\ z.version = version
                    /\ z.tight = (u.tight \/ SettlesTight(p, <<"version", version>>))
    BY <2>6, <2>12 DEF Advanced
  <2> HIDE DEF r2
  <2>8. Meeting(No(r2), x, seen, s, p, z, y, a.bytes) /\ But(No(r2), r2, {"ret"})
    BY <2>6, <2>7, YesKept
  <2>13. But(No(r2), d2, {"log"} \cup {"ret"}) /\ But(d2, c, {"i"} \cup {"version", "init"})
    BY <2>1, <2>4, <2>7, <2>8, ButBut
  <2>14. /\ d2.tightVNC = c.tightVNC /\ d2.ven = c.ven
         /\ d2.state = c.state /\ d2.cont = c.cont /\ d2.timer = c.timer
    BY <2>13 DEF But, Fields
  <2>15. /\ No(r2).init = d2.init /\ No(r2).tightVNC = d2.tightVNC /\ No(r2).ven = d2.ven
         /\ No(r2).state = d2.state /\ No(r2).cont = d2.cont /\ No(r2).timer = d2.timer
         /\ No(r2).version = d2.version
    BY <2>13 DEF But, Fields
  <2>9. /\ No(r2).init = "Security" /\ No(r2).tightVNC = c.tightVNC /\ No(r2).ven = c.ven
        /\ No(r2).state = c.state /\ No(r2).cont = c.cont /\ No(r2).timer = c.timer
        /\ No(r2).version = version
    BY <2>4, <2>14, <2>15
  <2>10. Choosing(No(r2), z, a.bytes, p)
    BY <1>3, <2>7, <2>9 DEF Choosing, Says, a
  <2>11. Going(No(r2)) /\ Phase(No(r2), z, a.bytes, p)
    BY <1>4, <2>2, <2>7, <2>9, <2>10 DEF Going, Phase
  <2> QED BY <1>1, <1>9, <2>8, <2>11, Proceeds DEF r2, d2
<1> QED BY <1>5, <1>7, <1>8, <1>9

-----------------------------------------------------------------------------
(* The choice of a type.                                                   *)

\* Induction, for a set of numbers instead of a predicate.
LEMMA Induction ==
  ASSUME NEW S, 0 \in S, \A n \in Nat : n \in S => n + 1 \in S
  PROVE  Nat \subseteq S
<1> SUFFICES ASSUME NEW n \in Nat, n \notin S PROVE FALSE
  OBVIOUS
<1> DEFINE U == {m \in 0 .. n : m \in S}
           f == [m \in U |-> m + 1]
<1>1. U \in SUBSET (0 .. n) /\ 0 \in U
  OBVIOUS
<1>2. IsFiniteSet(U)
  <2>1. IsFiniteSet(0 .. n)
    BY FS_Interval
  <2> QED BY <1>1, <2>1, FS_Subset
<1>3. \A m \in U : m + 1 \in U
  OBVIOUS
<1>4. f \in [U -> U \ {0}]
  BY <1>3
<1>5. /\ IsFiniteSet(U \ {0}) /\ Cardinality(U \ {0}) = Cardinality(U) - 1
      /\ Cardinality(U) \in Nat
  BY <1>1, <1>2, FS_RemoveElement, FS_CardinalityType
<1>6. \E x, y \in U : x # y /\ f[x] = f[y]
  <2> HIDE DEF f, U
  <2> QED BY <1>2, <1>4, <1>5, FS_PigeonHole
<1> QED BY <1>6

\* Some number is the least.
LEMMA Least ==
  ASSUME NEW S, S \subseteq Nat, S # {}
  PROVE  Min(S) \in S
<1> SUFFICES \E n \in S : \A m \in S : n <= m
  BY DEF Min
<1> SUFFICES ASSUME \A n \in S : \E m \in S : ~(n <= m) PROVE FALSE
  OBVIOUS
<1> DEFINE T == {n \in Nat : \A m \in 0 .. n : m \notin S}
<1>1. 0 \in T
  <2>1. 0 \notin S
    OBVIOUS
  <2> QED BY <2>1
<1>2. ASSUME NEW n \in Nat, n \in T PROVE n + 1 \in T
  <2>1. n + 1 \notin S
    <3>1. \A m \in S : ~(m <= n)
      BY <1>2
    <3> QED BY <3>1
  <2> QED BY <1>2, <2>1
<1> HIDE DEF T
<1>3. Nat \subseteq T
  BY <1>1, <1>2, Induction
<1>4. \A n \in Nat : n \notin S
  BY <1>3 DEF T
<1> QED BY <1>4

\* The type chosen is one of those on offer and one of the usable.
LEMMA FirstOfFacts ==
  ASSUME NEW types, NEW n \in Nat, DOMAIN types = 1 .. n, NEW usable, FirstOf(types, usable) # None
  PROVE  \E k \in 1 .. n : FirstOf(types, usable) = types[k] /\ types[k] \in usable
<1> DEFINE ok == {k \in DOMAIN types : types[k] \in usable}
<1>1. FirstOf(types, usable) = IF ok = {} THEN None ELSE types[Min(ok)]
  BY DEF FirstOf
<1>2. ok \subseteq 1 .. n /\ ok \subseteq Nat
  OBVIOUS
<1>3. ok # {} /\ FirstOf(types, usable) = types[Min(ok)]
  BY <1>1
<1>4. \A k \in ok : types[k] \in usable
  OBVIOUS
<1> HIDE DEF ok
<1>5. Min(ok) \in ok
  BY <1>2, <1>3, Least
<1> QED BY <1>2, <1>3, <1>4, <1>5

\* A reader that gives back what it skipped.
LEMMA BackFacts ==
  ASSUME NEW c, IsClient(c), NEW k \in Int
  PROVE  But(Back(Skip(c, k), k), c, {"ret"}) /\ Back(Skip(c, k), k).ret = FALSE
<1>1. DOMAIN c = Fields /\ c.i \in Int
  BY DEF IsClient
<1> DEFINE d == Skip(c, k)
           e == Back(d, k)
<1>2. /\ d = [f \in Fields |-> d[f]] /\ d.i = c.i + k
      /\ \A f \in Fields \ {"i"} : d[f] = c[f]
  BY <1>1 DEF Skip, Fields
<1>3. DOMAIN d = Fields
  BY <1>2
<1> HIDE DEF d
<1>4. /\ e = [f \in Fields |-> e[f]] /\ e.i = d.i - k /\ e.ret = FALSE
      /\ \A f \in Fields \ {"i", "ret"} : e[f] = d[f]
  BY <1>3 DEF Back, Fields
<1>5. e.i = c.i
  BY <1>1, <1>2, <1>4
<1> HIDE DEF e
<1>6. \A f \in Fields \ {"ret"} : e[f] = c[f]
  BY <1>2, <1>4, <1>5
<1> QED BY <1>4, <1>6 DEF But, d, e

\* What was given back is read again.
LEMMA BackOn ==
  ASSUME NEW c, NEW x, NEW seen, NEW s, NEW p, NEW u, NEW t, NEW w,
         Meeting(c, x, seen, s, p, u, t, w), Going(c), Greeting(c, u, w, p) \/ Phase(c, u, w, p),
         NEW k \in Int
  PROVE  Met(Back(Skip(c, k), k), x, seen, s, p)
<1> DEFINE d == Back(Skip(c, k), k)
<1>1. IsClient(c)
  BY DEF Meeting
<1>2. But(d, c, {"ret"})
  BY <1>1, BackFacts
<1> HIDE DEF d
<1>3. Meeting(d, x, seen, s, p, u, t, w) /\ Unread(d) = Unread(c)
  BY <1>2, Kept
<1>4. /\ d.state = c.state /\ d.cont = c.cont /\ d.timer = c.timer /\ d.init = c.init
      /\ d.scheme = c.scheme /\ d.tightVNC = c.tightVNC /\ d.ven = c.ven
      /\ d.venTypes = c.venTypes /\ d.version = c.version
  BY <1>2 DEF But, Fields
<1>5. Going(d) /\ (Greeting(d, u, w, p) \/ Phase(d, u, w, p))
  BY <1>4 DEF Going, Phase, Greeting, Choosing, Beginning, Subtyping, Tightening, Judging, Entering,
              Awaiting
<1> QED BY <1>3, <1>5, Proceeds DEF d

\* A security type is settled.
LEMMA Begins ==
  ASSUME NEW c, NEW x, NEW seen, NEW s, NEW p, NEW u, NEW t, NEW w,
         Meeting(c, x, seen, s, p, u, t, w), Going(c), c.init = "Authentication",
         c.version \in {33, 37, 38}, u.version = c.version,
         Says(u, Begin(p, c.version, c.scheme), w),
         IF c.scheme = TypeTight THEN u.tight /\ ~c.tightVNC ELSE (c.tightVNC <=> u.tight),
         c.scheme = TypeVeNCrypt => c.ven = 0 /\ ~u.tight
  PROVE  Met(c, x, seen, s, p)
<1>1. CASE c.scheme \in Deciders
  <2>1. Beginning(c, u, w, p)
    BY <1>1 DEF Beginning
  <2>2. Phase(c, u, w, p)
    BY <2>1 DEF Phase
  <2> QED BY <2>2, Proceeds
<1>2. CASE c.scheme \notin Deciders
  <2>1. Stands(c, u, w, p)
    BY <1>2 DEF Stands, Mute, Going
  <2> QED BY <2>1, Ready
<1> QED BY <1>1, <1>2

\* The client's bytes at the start of w.
LEMMA SeenBytes ==
  ASSUME NEW c, NEW x, NEW seen, NEW s, NEW p, NEW u, NEW t, NEW w,
         Meeting(c, x, seen, s, p, u, t, w), NEW at \in Nat, NEW n \in Nat, at + n <= Unread(c)
  PROVE  /\ DOMAIN Bytes(c, at, n) = 1 .. n
         /\ \A k \in 1 .. n : Bytes(c, at, n)[k] = w[at + k]
<1>1. \A k \in 0 .. Unread(c) - 1 : U8(c, k) = w[k + 1]
  BY Seen
<1>2. Unread(c) \in Nat
  BY Ways
<1>3. ASSUME NEW k \in 1 .. n PROVE U8(c, at + k - 1) = w[at + k]
  <2>1. at + k - 1 \in 0 .. Unread(c) - 1 /\ (at + k - 1) + 1 = at + k
    BY <1>2
  <2> QED BY <1>1, <2>1
<1> QED BY <1>3 DEF Bytes

\* The server gave a reason instead: only the page hears of it.
LEMMA Refused ==
  ASSUME NEW c, NEW x, NEW seen, NEW s, NEW p, NEW u, NEW t, NEW w,
         Meeting(c, x, seen, s, p, u, t, w), Going(c), w = Refusal
  PROVE  Met(Yes([c EXCEPT !.init = "SecurityReason"]), x, seen, s, p)
<1> DEFINE d == [c EXCEPT !.init = "SecurityReason"]
<1>1. DOMAIN c = Fields
  BY Ways
<1>2. But(d, c, {"init"}) /\ d.init = "SecurityReason"
  BY <1>1 DEF But, Fields
<1>3. Meeting(d, x, seen, s, p, u, t, w)
  BY <1>2, Kept
<1> HIDE DEF d
<1>4. Meeting(Yes(d), x, seen, s, p, u, t, w) /\ But(Yes(d), d, {"ret"})
  BY <1>3, YesKept
<1>5. Yes(d).init = "SecurityReason" /\ Yes(d).state = c.state /\ Yes(d).timer = c.timer
  BY <1>2, <1>4 DEF But, Fields
<1>6. Stands(Yes(d), u, w, p)
  BY <1>5 DEF Stands, Mute, Going
<1> QED BY <1>4, <1>6, Ready DEF d

\* The client takes one of the types.
LEMMA ChoosingStep ==
  ASSUME NEW c, NEW x, NEW seen, NEW s, NEW p, NEW u, NEW t, NEW w,
         Meeting(c, x, seen, s, p, u, t, w), Going(c), Choosing(c, u, w, p),
         c.version \in {37, 38}, u.version = c.version
  PROVE  Met(NegotiateSecurity(c), x, seen, s, p)
<1> DEFINE num == U8(c, 0)
           types == Bytes(c, 1, num)
           chosen == FirstOf(types, Supported)
           d == Skip(c, 1)
           e == Skip(c, 1 + num)
           e2 == [e EXCEPT !.scheme = chosen, !.init = "Authentication"]
           r == Effect(e2, "security", chosen)
           q == p.types
           n == Len(q)
<1>1. NegotiateSecurity(c) =
        IF Wait(d, num) THEN Back(d, 1)
        ELSE IF num = 0 THEN Yes([d EXCEPT !.init = "SecurityReason"])
        ELSE IF chosen = None THEN Fail(e) ELSE Yes(r)
  BY DEF NegotiateSecurity
<1>2. /\ c.init = "Security" /\ ~c.tightVNC /\ c.ven = 0
      /\ (u.tight <=> SettlesTight(p, <<"version", c.version>>))
      /\ u.at = Offer(p, c.version).at /\ w = Offer(p, c.version).bytes
  BY DEF Choosing, Says
<1>3. c.state = "connecting" /\ ~c.cont /\ ~c.timer /\ p \in Plans /\ IsClient(c)
  BY DEF Going, Meeting
<1>4. ~u.tight
  <2>1. ~(c.version < 37)
    OBVIOUS
  <2> QED BY <1>2, <2>1 DEF SettlesTight
<1>5. Phase(c, u, w, p) /\ Unread(c) \in Nat
  BY Ways DEF Phase
<1>6. CASE Wait(d, num)
  <2>1. 1 \in Int
    OBVIOUS
  <2>2. Met(Back(Skip(c, 1), 1), x, seen, s, p)
    BY <1>5, <2>1, BackOn
  <2> QED BY <1>1, <1>6, <2>2
<1>7. /\ q \in Seq(Int) /\ n \in Nat /\ (q = <<>> <=> n = 0)
      /\ \A k \in 1 .. n : q[k] \in Byte \ {0}
  BY <1>3, TypesFacts
<1>8. /\ q = <<>> => w = <<0>> \o Refusal
      /\ q # <<>> => u.at = "security" /\ w = <<n>> \o q
  <2>1. c.version >= 37
    OBVIOUS
  <2> QED BY <1>2, <2>1 DEF Offer, Answer
<1>9. ASSUME ~Wait(d, num) PROVE Unread(c) >= 1
  <2>1. CASE Unread(c) = 0
    <3>1. U8(c, 0) = 0
      <4>1. ~(c.i + 0 < Len(c.rq))
        BY <1>3, <2>1 DEF Unread, IsClient
      <4> QED BY <4>1 DEF U8
    <3>2. Unread(d) = Unread(c) - 1
      <4>1. DOMAIN c = Fields
        BY Ways
      <4>2. d.i = c.i + 1 /\ d.rq = c.rq
        BY <4>1 DEF Skip, Fields
      <4> QED BY <1>3, <4>2 DEF Unread, IsClient
    <3> QED BY <1>9, <2>1, <3>1, <3>2 DEF Wait
  <2> QED BY <1>5, <2>1
<1> HIDE DEF n, q
<1>10. ASSUME ~Wait(d, num)
       PROVE  num = IF q = <<>> THEN 0 ELSE n
  <2>1. 0 \in 0 .. Unread(c) - 1
    BY <1>5, <1>9, <1>10
  <2>2. num = w[0 + 1]
    BY <2>1, Seen
  <2>3. <<0>> \in Seq(Int) /\ Len(<<0>>) = 1 /\ <<0>>[1] = 0 /\ 1 \in 1 .. 1
    OBVIOUS
  <2>4. <<n>> \in Seq(Int) /\ Len(<<n>>) = 1 /\ <<n>>[1] = n
    BY <1>7
  <2>5. (<<0>> \o Refusal)[1] = 0 /\ (<<n>> \o q)[1] = n
    BY <1>7, <2>3, <2>4, RefusalFacts, Joined
  <2> HIDE DEF num
  <2> QED BY <1>8, <2>2, <2>5
<1>11. CASE ~Wait(d, num) /\ q = <<>>
  <2>1. num = 0
    BY <1>10, <1>11
  <2>2. Parted(w, <<0>>, Refusal, 1) /\ 1 <= Unread(c)
    BY <1>8, <1>9, <1>11, RefusalFacts DEF Parted
  <2>3. Meeting(d, x, seen, s, p, u, t, Refusal) /\ But(d, c, {"i"})
    BY <2>2, Used
  <2> HIDE DEF d
  <2>4. Going(d)
    BY <1>3, <2>3 DEF Going, But, Fields
  <2>5. Met(Yes([d EXCEPT !.init = "SecurityReason"]), x, seen, s, p)
    BY <2>3, <2>4, Refused
  <2> QED BY <1>1, <1>11, <2>1, <2>5
<1>12. ASSUME ~Wait(d, num), q # <<>>
       PROVE  /\ num = n /\ n # 0 /\ Meeting(e, x, seen, s, p, u, t, <<>>) /\ But(e, c, {"i"})
              /\ u.at = "security"
              /\ chosen # None => chosen \in ToSet(q) /\ chosen \in Supported
  <2>1. num = n /\ n # 0
    BY <1>7, <1>10, <1>12
  <2>2. Parted(w, <<n>>, q, 1) /\ 1 <= Unread(c)
    BY <1>7, <1>8, <1>9, <1>12 DEF Parted
  <2>3. Meeting(d, x, seen, s, p, u, t, q) /\ But(d, c, {"i"}) /\ Unread(d) = Unread(c) - 1
    BY <2>2, Used
  <2>4. 1 + n <= Unread(c) /\ 1 + n = Len(w) /\ w \in Seq(Int) /\ w \o <<>> = w /\ <<>> \in Seq(Int)
    <3>1. 1 + n <= Unread(c)
      BY <1>5, <1>7, <1>12, <2>1, <2>3 DEF Wait
    <3>2. w = <<n>> \o q /\ <<n>> \in Seq(Int) /\ Len(<<n>>) = 1
      BY <1>7, <1>8, <1>12
    <3>3. Len(w) = Len(<<n>>) + Len(q) /\ w \in Seq(Int)
      BY <1>7, <3>2, Joined
    <3>4. 1 + n = Len(w)
      BY <3>2, <3>3 DEF n
    <3> QED BY <3>1, <3>3, <3>4, ConcatEmptySeq
  <2>5. Parted(w, w, <<>>, 1 + n)
    BY <2>4 DEF Parted
  <2>6. Meeting(Skip(c, 1 + n), x, seen, s, p, u, t, <<>>) /\ But(Skip(c, 1 + n), c, {"i"})
    BY <2>4, <2>5, Used
  <2>7. ASSUME chosen # None PROVE chosen \in ToSet(q) /\ chosen \in Supported
    <3>1. /\ DOMAIN Bytes(c, 1, n) = 1 .. n
          /\ \A k \in 1 .. n : Bytes(c, 1, n)[k] = w[1 + k]
      BY <1>7, <2>4, SeenBytes
    <3>2. \A k \in 1 .. n : w[1 + k] = q[k]
      <4>1. w = <<n>> \o q /\ <<n>> \in Seq(Int) /\ Len(<<n>>) = 1
        BY <1>7, <1>8, <1>12
      <4>2. \A k \in 1 .. Len(q) : (<<n>> \o q)[Len(<<n>>) + k] = q[k]
        BY <1>7, <4>1, Joined
      <4> QED BY <4>1, <4>2 DEF n
    <3>3. types = Bytes(c, 1, n)
      BY <2>1
    <3> HIDE DEF types
    <3>4. DOMAIN types = 1 .. n /\ \A k \in 1 .. n : types[k] = q[k]
      BY <3>1, <3>2, <3>3
    <3>5. \E k \in 1 .. n : chosen = types[k] /\ types[k] \in Supported
      BY <1>7, <2>7, <3>4, FirstOfFacts
    <3>6. \A k \in 1 .. n : q[k] \in ToSet(q)
      BY <1>7 DEF ToSet, n
    <3> HIDE DEF chosen
    <3> QED BY <3>4, <3>5, <3>6
  <2>8. u.at = "security"
    BY <1>8, <1>12
  <2> HIDE DEF chosen
  <2> QED BY <2>1, <2>6, <2>7, <2>8
<1> HIDE DEF d, num, e, chosen
<1>13. CASE ~Wait(d, num) /\ q # <<>> /\ chosen = None
  <2>1. num # 0 /\ Meeting(e, x, seen, s, p, u, t, <<>>) /\ But(e, c, {"i"})
    BY <1>12, <1>13
  <2>2. ~e.timer
    BY <1>3, <2>1 DEF But, Fields
  <2> QED BY <1>1, <1>13, <2>1, <2>2, Fails
<1>14. CASE ~Wait(d, num) /\ q # <<>> /\ chosen # None
  <2>1. /\ num # 0 /\ Meeting(e, x, seen, s, p, u, t, <<>>) /\ But(e, c, {"i"})
        /\ u.at = "security" /\ chosen \in ToSet(q)
    BY <1>12, <1>14
  <2>2. DOMAIN e = Fields
    BY <2>1 DEF But
  <2>3. But(e2, e, {"scheme", "init"}) /\ e2.scheme = chosen /\ e2.init = "Authentication"
    BY <2>2 DEF But, Fields
  <2>4. Meeting(e2, x, seen, s, p, u, t, <<>>)
    BY <2>1, <2>3, Kept
  <2>5. But(e2, c, {"i"} \cup {"scheme", "init"})
    BY <2>1, <2>3, ButBut
  <2>6. /\ e2.state = c.state /\ e2.cont = c.cont /\ e2.timer = c.timer /\ e2.version = c.version
        /\ e2.tightVNC = c.tightVNC /\ e2.ven = c.ven
    BY <2>5 DEF But, Fields
  <2> HIDE DEF e2
  <2> DEFINE a == Begin(p, c.version, chosen)
  <2>7. Replies(u, p, "security", chosen, a)
    BY <2>1, Replying DEF q
  <2>8. a.at # "confused" /\ a.bytes \in Seq(Int) /\ <<>> \o a.bytes = a.bytes
    <3>1. Sound(a)
      BY <1>3, BeginFacts
    <3> QED BY <3>1, ConcatEmptySeq DEF Sound
  <2> HIDE DEF a
  <2>9. Advanced(Effect(e2, "security", chosen), e2, x, seen, s, p, u, <<>> \o a.bytes, "security", chosen, a)
    BY <2>4, <2>7, <2>8, Answered
  <2>10. PICK z, y : /\ Meeting(r, x, seen, s, p, z, y, a.bytes) /\ But(r, e2, {"log"})
                     /\ z.at = a.at /\ z.version = u.version
                     /\ z.tight = (u.tight \/ SettlesTight(p, <<"security", chosen>>))
    BY <2>8, <2>9 DEF Advanced
  <2>11. z.tight <=> chosen = TypeTight
    BY <1>4, <2>10 DEF SettlesTight
  <2> HIDE DEF r
  <2>12. Meeting(Yes(r), x, seen, s, p, z, y, a.bytes) /\ But(Yes(r), r, {"ret"})
    BY <2>10, YesKept
  <2>13. But(Yes(r), e2, {"log"} \cup {"ret"})
    BY <2>10, <2>12, ButBut
  <2>14. /\ Yes(r).state = e2.state /\ Yes(r).cont = e2.cont /\ Yes(r).timer = e2.timer
         /\ Yes(r).version = e2.version /\ Yes(r).tightVNC = e2.tightVNC /\ Yes(r).ven = e2.ven
         /\ Yes(r).init = e2.init /\ Yes(r).scheme = e2.scheme
    BY <2>13 DEF But, Fields
  <2>15. /\ Going(Yes(r)) /\ Yes(r).init = "Authentication" /\ Yes(r).version \in {33, 37, 38}
         /\ z.version = Yes(r).version /\ Says(z, Begin(p, Yes(r).version, Yes(r).scheme), a.bytes)
         /\ Yes(r).scheme = chosen /\ ~Yes(r).tightVNC /\ Yes(r).ven = 0
    BY <1>2, <1>3, <2>3, <2>6, <2>10, <2>14 DEF Going, Says, a
  <2>16. /\ IF Yes(r).scheme = TypeTight THEN z.tight /\ ~Yes(r).tightVNC
            ELSE (Yes(r).tightVNC <=> z.tight)
         /\ Yes(r).scheme = TypeVeNCrypt => Yes(r).ven = 0 /\ ~z.tight
    BY <2>11, <2>15 DEF TypeTight, TypeVeNCrypt
  <2> QED BY <1>1, <1>14, <2>1, <2>12, <2>15, <2>16, Begins DEF r
<1> QED BY <1>6, <1>11, <1>13, <1>14

\* In an old version the server has decided.
LEMMA DecidedStep ==
  ASSUME NEW c, NEW x, NEW seen, NEW s, NEW p, NEW u, NEW t, NEW w,
         Meeting(c, x, seen, s, p, u, t, w), Going(c), Choosing(c, u, w, p),
         c.version = 33, u.version = c.version
  PROVE  Met(NegotiateSecurity(c), x, seen, s, p)
<1> DEFINE decided == S32(c, 0)
           d == Skip(c, 4)
           d2 == [d EXCEPT !.scheme = decided, !.init = "Authentication"]
           q == p.types
           n == Len(q)
           h == Head(q)
           b == Begin(p, c.version, h)
<1>1. NegotiateSecurity(c) =
        IF Wait(c, 4) THEN No(c)
        ELSE IF decided = 0 THEN Yes([d EXCEPT !.init = "SecurityReason"])
        ELSE Yes(d2)
  BY DEF NegotiateSecurity
<1>2. /\ c.init = "Security" /\ ~c.tightVNC /\ c.ven = 0
      /\ (u.tight <=> SettlesTight(p, <<"version", c.version>>))
      /\ u.at = Offer(p, c.version).at /\ w = Offer(p, c.version).bytes
  BY DEF Choosing, Says
<1>3. c.state = "connecting" /\ ~c.cont /\ ~c.timer /\ p \in Plans /\ c.version < 37 /\ ~(c.version >= 37)
  BY DEF Going, Meeting
<1>4. u.tight <=> q # <<>> /\ h = TypeTight
  BY <1>2, <1>3 DEF SettlesTight
<1>5. /\ q \in Seq(Int) /\ n \in Nat /\ (q = <<>> <=> n = 0)
      /\ \A k \in 1 .. n : q[k] \in Byte \ {0}
  BY <1>3, TypesFacts
<1>6. /\ q = <<>> => w = B32(0) \o Refusal
      /\ q # <<>> => u.at = b.at /\ w = B32(h) \o b.bytes
  BY <1>2, <1>3 DEF Offer, Answer
<1>7. q # <<>> => h \in Word /\ h # 0
  <2>1. q # <<>> => h = q[1] /\ 1 \in 1 .. n
    BY <1>5
  <2> QED BY <1>5, <2>1, NumberFacts
<1>8. b.bytes \in Seq(Int)
  BY <1>3, BeginFacts DEF Sound
<1>9. CASE Wait(c, 4)
  <2>1. Phase(c, u, w, p)
    BY DEF Phase
  <2> QED BY <1>1, <1>9, <2>1, WaitsOn
<1> HIDE DEF decided, d, b, h, q, n
<1>10. CASE ~Wait(c, 4) /\ q = <<>>
  <2>1. 0 \in Word /\ w = B32(0) \o Refusal
    BY <1>6, <1>10, NumberFacts, SMT DEF Byte
  <2>2. decided = 0 /\ Meeting(d, x, seen, s, p, u, t, Refusal) /\ But(d, c, {"i"})
    <3>1. NextWord(w, 0, Refusal)
      BY <2>1, RefusalFacts DEF NextWord
    <3> QED BY <1>10, <3>1, SeenWord DEF decided, d
  <2>3. Going(d)
    BY <1>3, <2>2 DEF Going, But, Fields
  <2>4. Met(Yes([d EXCEPT !.init = "SecurityReason"]), x, seen, s, p)
    BY <2>2, <2>3, Refused
  <2> QED BY <1>1, <1>10, <2>2, <2>4
<1>11. CASE ~Wait(c, 4) /\ q # <<>>
  <2>1. h \in Word /\ h # 0 /\ w = B32(h) \o b.bytes /\ u.at = b.at
    BY <1>6, <1>7, <1>11
  <2>2. decided = h /\ Meeting(d, x, seen, s, p, u, t, b.bytes) /\ But(d, c, {"i"})
    <3>1. NextWord(w, h, b.bytes)
      BY <1>8, <2>1 DEF NextWord
    <3> QED BY <1>11, <3>1, SeenWord DEF decided, d
  <2>3. DOMAIN d = Fields
    BY <2>2 DEF But
  <2>4. But(d2, d, {"scheme", "init"}) /\ d2.scheme = h /\ d2.init = "Authentication"
    BY <2>2, <2>3 DEF But, Fields
  <2>5. Meeting(d2, x, seen, s, p, u, t, b.bytes)
    BY <2>2, <2>4, Kept
  <2> HIDE DEF d2
  <2>6. Meeting(Yes(d2), x, seen, s, p, u, t, b.bytes) /\ But(Yes(d2), d2, {"ret"})
    BY <2>5, YesKept
  <2>7. But(d2, c, {"i"} \cup {"scheme", "init"})
    BY <2>2, <2>4, ButBut
  <2>8. /\ d2.state = c.state /\ d2.cont = c.cont /\ d2.timer = c.timer /\ d2.version = c.version
        /\ d2.tightVNC = c.tightVNC /\ d2.ven = c.ven
    BY <2>7 DEF But, Fields
  <2>9. /\ Yes(d2).state = d2.state /\ Yes(d2).cont = d2.cont /\ Yes(d2).timer = d2.timer
        /\ Yes(d2).version = d2.version /\ Yes(d2).tightVNC = d2.tightVNC /\ Yes(d2).ven = d2.ven
        /\ Yes(d2).init = d2.init /\ Yes(d2).scheme = d2.scheme
    BY <2>6 DEF But, Fields
  <2>10. /\ Going(Yes(d2)) /\ Yes(d2).init = "Authentication" /\ Yes(d2).version \in {33, 37, 38}
         /\ u.version = Yes(d2).version /\ Says(u, Begin(p, Yes(d2).version, Yes(d2).scheme), b.bytes)
         /\ Yes(d2).scheme = h /\ ~Yes(d2).tightVNC /\ Yes(d2).ven = 0
    BY <1>2, <1>3, <2>1, <2>4, <2>8, <2>9 DEF Going, Says, b
  <2>11. /\ IF Yes(d2).scheme = TypeTight THEN u.tight /\ ~Yes(d2).tightVNC
            ELSE (Yes(d2).tightVNC <=> u.tight)
         /\ Yes(d2).scheme = TypeVeNCrypt => Yes(d2).ven = 0 /\ ~u.tight
    BY <1>4, <1>11, <2>10 DEF TypeTight, TypeVeNCrypt
  <2>12. Met(Yes(d2), x, seen, s, p)
    BY <2>6, <2>10, <2>11, Begins
  <2> QED BY <1>1, <1>11, <2>1, <2>2, <2>12 DEF d2
<1> QED BY <1>9, <1>10, <1>11

-----------------------------------------------------------------------------
(* Authentication.                                                         *)

\* e is c once the server u has heard a message of it and answered a; b are
\* all the bytes it has to read then.
Passed(e, c, x, seen, s, p, u, b, what, v, a) ==
    \E z, y :
        /\ Meeting(e, x, seen, s, p, z, y, b) /\ But(e, c, {"log", "ret"})
        /\ z.at = a.at /\ z.version = IF what = "version" THEN v ELSE u.version
        /\ z.tight = (u.tight \/ SettlesTight(p, <<what, v>>))

\* After none of the types the client waits for the result or goes on.
LEMMA Passes ==
  ASSUME NEW c, NEW x, NEW seen, NEW s, NEW p, NEW u, NEW t, NEW w,
         Meeting(c, x, seen, s, p, u, t, w), NEW what, NEW v, NEW a,
         Replies(u, p, what, v, a), Sound(a)
  PROVE  /\ Passed(Yes(Effect(c, what, v)), c, x, seen, s, p, u, w \o a.bytes, what, v, a)
         /\ Passed(No(Effect(c, what, v)), c, x, seen, s, p, u, w \o a.bytes, what, v, a)
<1> DEFINE r == Effect(c, what, v)
           b == w \o a.bytes
<1>1. a.at # "confused" /\ a.bytes \in Seq(Int)
  BY DEF Sound
<1>2. Advanced(r, c, x, seen, s, p, u, b, what, v, a)
  BY <1>1, Answered
<1> HIDE DEF r, b
<1>3. PICK z, y : /\ Meeting(r, x, seen, s, p, z, y, b) /\ But(r, c, {"log"})
                  /\ z.at = a.at /\ z.version = IF what = "version" THEN v ELSE u.version
                  /\ z.tight = (u.tight \/ SettlesTight(p, <<what, v>>))
  BY <1>2 DEF Advanced
<1>4. /\ Meeting(Yes(r), x, seen, s, p, z, y, b) /\ But(Yes(r), r, {"ret"})
      /\ Meeting(No(r), x, seen, s, p, z, y, b) /\ But(No(r), r, {"ret"})
  BY <1>3, YesKept
<1>5. But(Yes(r), c, {"log"} \cup {"ret"}) /\ But(No(r), c, {"log"} \cup {"ret"})
  BY <1>3, <1>4, ButBut
<1>6. {"log"} \cup {"ret"} = {"log", "ret"}
  OBVIOUS
<1>7. Passed(Yes(r), c, x, seen, s, p, u, b, what, v, a)
  BY <1>3, <1>4, <1>5, <1>6 DEF Passed
<1>8. Passed(No(r), c, x, seen, s, p, u, b, what, v, a)
  BY <1>3, <1>4, <1>5, <1>6 DEF Passed
<1> QED BY <1>7, <1>8 DEF r, b

\* A client that has sent the last thing before the server's judgement.
LEMMA Judges ==
  ASSUME NEW c, NEW x, NEW seen, NEW s, NEW p, NEW u, NEW what, NEW v, NEW e, Going(c),
         c.init = "SecurityResult", c.version \in {33, 37, 38}, u.version = c.version,
         c.tightVNC <=> u.tight, what \in {"response", "subauth"},
         Passed(e, c, x, seen, s, p, u, Result(p, c.version).bytes, what, v, Result(p, c.version))
  PROVE  Met(e, x, seen, s, p)
<1> DEFINE a == Result(p, c.version)
<1> HIDE DEF a
<1>1. PICK z, y : /\ Meeting(e, x, seen, s, p, z, y, a.bytes) /\ But(e, c, {"log", "ret"})
                  /\ z.at = a.at /\ z.version = IF what = "version" THEN v ELSE u.version
                  /\ z.tight = (u.tight \/ SettlesTight(p, <<what, v>>))
  BY DEF Passed, a
<1>3. z.version = u.version /\ (z.tight <=> u.tight)
  <2>1. ~SettlesTight(p, <<what, v>>)
    BY DEF SettlesTight
  <2> QED BY <1>1, <2>1
<1>4. /\ e.state = c.state /\ e.cont = c.cont /\ e.timer = c.timer /\ e.init = c.init
      /\ e.version = c.version /\ e.tightVNC = c.tightVNC
  BY <1>1 DEF But, Fields
<1>5. Going(e) /\ Judging(e, z, a.bytes, p) /\ e.version \in {33, 37, 38} /\ z.version = e.version
  BY <1>1, <1>3, <1>4 DEF Going, Judging, Says, a
<1>6. Phase(e, z, a.bytes, p)
  BY <1>5 DEF Phase
<1> QED BY <1>1, <1>5, <1>6, Proceeds

\* The types the server is part of, and the handlers of their messages.
LEMMA AuthCases ==
  ASSUME NEW c
  PROVE  /\ c.scheme = TypeNone =>
              NegotiateAuthentication(c) =
                Yes([c EXCEPT !.init = IF c.version >= 38 THEN "SecurityResult" ELSE "ClientInitialisation"])
         /\ c.scheme = TypeVNCAuth => NegotiateAuthentication(c) = NegotiateStdVNCAuth(c)
         /\ c.scheme = TypeTight => NegotiateAuthentication(c) = NegotiateTightAuth(c)
         /\ c.scheme = TypeVeNCrypt => NegotiateAuthentication(c) = NegotiateVeNCryptAuth(c)
<1> USE DEF TypeNone, TypeVNCAuth, TypeTight, TypeVeNCrypt, TypeXVP, TypeARD, TypePlain,
            TypeUnixLogon, TypeMSLogonII, TypeRA2ne
<1> DEFINE d == Yes([c EXCEPT !.init = IF c.version >= 38 THEN "SecurityResult" ELSE "ClientInitialisation"])
<1>0. NegotiateAuthentication(c) =
        CASE c.scheme = TypeNone -> d
          [] c.scheme \in {TypeXVP, TypeARD, TypePlain, TypeUnixLogon} -> NeedsUsername(c)
          [] c.scheme = TypeMSLogonII -> NegotiateMSLogonIIAuth(c)
          [] c.scheme = TypeVNCAuth -> NegotiateStdVNCAuth(c)
          [] c.scheme = TypeTight -> NegotiateTightAuth(c)
          [] c.scheme = TypeVeNCrypt -> NegotiateVeNCryptAuth(c)
          [] c.scheme = TypeRA2ne -> NegotiateRA2neAuth(c)
          [] OTHER -> Fail(c)
  BY DEF NegotiateAuthentication
<1> HIDE DEF d
<1>1. c.scheme = TypeNone => NegotiateAuthentication(c) = d
  BY <1>0, SMT
<1>2. c.scheme = TypeVNCAuth => NegotiateAuthentication(c) = NegotiateStdVNCAuth(c)
  BY <1>0, SMT
<1>3. c.scheme = TypeTight => NegotiateAuthentication(c) = NegotiateTightAuth(c)
  BY <1>0, SMT
<1>4. c.scheme = TypeVeNCrypt => NegotiateAuthentication(c) = NegotiateVeNCryptAuth(c)
  BY <1>0, SMT
<1> QED BY <1>1, <1>2, <1>3, <1>4 DEF d

\* No security: _negotiateAuthentication.
LEMMA NoneStep ==
  ASSUME NEW c, NEW x, NEW seen, NEW s, NEW p, NEW u, NEW t, NEW w,
         Meeting(c, x, seen, s, p, u, t, w), Going(c), Beginning(c, u, w, p),
         c.version \in {33, 37, 38}, u.version = c.version, c.scheme = TypeNone
  PROVE  Met(NegotiateAuthentication(c), x, seen, s, p)
<1> DEFINE i == IF c.version >= 38 THEN "SecurityResult" ELSE "ClientInitialisation"
           d == [c EXCEPT !.init = i]
<1>1. NegotiateAuthentication(c) = Yes(d)
  BY AuthCases
<1>2. DOMAIN c = Fields
  BY Ways
<1>3. But(d, c, {"init"}) /\ d.init = i
  BY <1>2 DEF But, Fields
<1>4. Meeting(d, x, seen, s, p, u, t, w)
  BY <1>3, Kept
<1> HIDE DEF d
<1>5. Meeting(Yes(d), x, seen, s, p, u, t, w) /\ But(Yes(d), d, {"ret"})
  BY <1>4, YesKept
<1>6. But(Yes(d), c, {"init"} \cup {"ret"}) /\ Yes(d).init = i
  BY <1>3, <1>5, ButBut DEF But, Fields
<1>7. /\ Yes(d).state = c.state /\ Yes(d).cont = c.cont /\ Yes(d).timer = c.timer
      /\ Yes(d).version = c.version /\ Yes(d).tightVNC = c.tightVNC
  BY <1>6 DEF But, Fields
<1>8. c.scheme # TypeTight
  BY DEF TypeTight, TypeNone
<1>9. (c.tightVNC <=> u.tight) /\ Says(u, Begin(p, c.version, TypeNone), w)
  BY <1>8 DEF Beginning
<1>10. Going(Yes(d))
  BY <1>7 DEF Going
<1>11. CASE c.version >= 38
  <2>1. Begin(p, c.version, TypeNone) = Result(p, c.version)
    BY <1>11, BeginCases
  <2>2. Judging(Yes(d), u, w, p)
    BY <1>6, <1>7, <1>9, <1>11, <2>1 DEF Judging
  <2>3. Phase(Yes(d), u, w, p)
    BY <1>7, <2>2 DEF Phase
  <2> QED BY <1>1, <1>5, <1>10, <2>3, Proceeds
<1>12. CASE ~(c.version >= 38)
  <2>1. Begin(p, c.version, TypeNone) = Answer("shared", <<>>)
    BY <1>12, BeginCases
  <2>2. Entering(Yes(d), u, w, p)
    BY <1>6, <1>7, <1>9, <1>12, <2>1 DEF Entering, Says, Answer
  <2>3. Phase(Yes(d), u, w, p)
    BY <1>7, <2>2 DEF Phase
  <2> QED BY <1>1, <1>5, <1>10, <2>3, Proceeds
<1> QED BY <1>11, <1>12

\* The challenge is answered once the page has: _negotiateStdVNCAuth.
LEMMA AnswersChallenge ==
  ASSUME NEW c, NEW x, NEW seen, NEW s, NEW p, NEW u, NEW t, NEW w,
         Meeting(c, x, seen, s, p, u, t, w), Going(c), Beginning(c, u, w, p),
         c.version \in {33, 37, 38}, u.version = c.version, c.scheme = TypeVNCAuth
  PROVE  Met(NegotiateStdVNCAuth(c), x, seen, s, p)
<1> DEFINE q == [c EXCEPT !.creds = {"password"}, !.timer = TRUE]
           d == Skip(c, 16)
           d2 == [d EXCEPT !.init = "SecurityResult"]
           said == Bytes(c, 0, 16)
           r == Effect(d2, "response", said)
<1>1. NegotiateStdVNCAuth(c) =
        IF Wait(c, 16) THEN No(c) ELSE IF "password" \notin c.creds THEN No(q) ELSE Yes(r)
  BY DEF NegotiateStdVNCAuth, AskPage
<1>2. DOMAIN c = Fields /\ Unread(c) \in Nat
  BY Ways
<1>3. /\ c.init = "Authentication" /\ (c.tightVNC <=> u.tight) /\ u.at = "response" /\ w = Response
  <2>1. c.scheme # TypeTight
    BY DEF TypeTight, TypeVNCAuth
  <2> QED BY <2>1, BeginCases DEF Beginning, Says, Answer
<1>4. CASE Wait(c, 16)
  <2>1. Phase(c, u, w, p)
    BY DEF Phase
  <2> QED BY <1>1, <1>4, <2>1, WaitsOn
<1>5. CASE ~Wait(c, 16) /\ "password" \notin c.creds
  <2>1. But(q, c, {"creds", "timer"})
    BY <1>2 DEF But, Fields
  <2>2. Meeting(q, x, seen, s, p, u, t, w) /\ Unread(q) = Unread(c)
    BY <2>1, Kept
  <2> HIDE DEF q
  <2>3. Meeting(No(q), x, seen, s, p, u, t, w) /\ But(No(q), q, {"ret"}) /\ No(q).ret = FALSE
    BY <2>2, YesKept
  <2>4. Unread(No(q)) = Unread(c)
    BY <2>2, <2>3, Kept
  <2>5. But(No(q), c, {"creds", "timer"} \cup {"ret"})
    BY <2>1, <2>3, ButBut
  <2>6. /\ No(q).state = c.state /\ No(q).cont = c.cont /\ No(q).init = c.init
        /\ No(q).version = c.version /\ No(q).tightVNC = c.tightVNC /\ No(q).scheme = c.scheme
        /\ No(q).ven = c.ven
    BY <2>5 DEF But, Fields
  <2>7. Beginning(No(q), u, w, p)
    BY <2>6 DEF Beginning
  <2>8. Phase(No(q), u, w, p)
    BY <2>6, <2>7 DEF Phase
  <2>9. Timed(No(q))
    BY <1>3, <1>5, <2>3, <2>4, <2>6 DEF Timed, Wait
  <2>10. Stands(No(q), u, w, p)
    BY <2>6, <2>8, <2>9 DEF Stands, Live, Going
  <2> QED BY <1>1, <1>5, <2>3, <2>10, Ready
<1>6. CASE ~Wait(c, 16) /\ "password" \in c.creds
  <2>1. 16 <= Unread(c) /\ Response \in Seq(Int) /\ Len(Response) = 16 /\ Response \o <<>> = Response
    BY <1>2, <1>6, ResponseFacts, ConcatEmptySeq DEF Wait
  <2>2. Parted(w, Response, <<>>, 16)
    BY <1>3, <2>1 DEF Parted
  <2>3. Meeting(d, x, seen, s, p, u, t, <<>>) /\ But(d, c, {"i"})
    BY <2>1, <2>2, Used
  <2>4. said = Response
    <3>1. DOMAIN said = 1 .. 16 /\ \A k \in 1 .. 16 : said[k] = w[0 + k]
      <4> DEFINE at == 0
                 n == 16
      <4>1. at \in Nat /\ n \in Nat /\ at + n <= Unread(c)
        BY <2>1
      <4> HIDE DEF at, n
      <4>2. DOMAIN Bytes(c, at, n) = 1 .. n /\ \A k \in 1 .. n : Bytes(c, at, n)[k] = w[at + k]
        BY <4>1, SeenBytes
      <4> QED BY <4>2 DEF at, n
    <3>2. \A k \in 1 .. 16 : said[k] = Response[k]
      BY <1>3, <3>1
    <3>3. said = [k \in 1 .. 16 |-> said[k]] /\ Response = [k \in 1 .. 16 |-> Response[k]]
      BY DEF Bytes, Response
    <3> HIDE DEF said
    <3> QED BY <3>2, <3>3
  <2> HIDE DEF d, said
  <2>5. DOMAIN d = Fields
    BY <2>3 DEF But
  <2>6. But(d2, d, {"init"}) /\ d2.init = "SecurityResult"
    BY <2>5 DEF But, Fields
  <2>7. Meeting(d2, x, seen, s, p, u, t, <<>>)
    BY <2>3, <2>6, Kept
  <2>8. But(d2, c, {"i"} \cup {"init"})
    BY <2>3, <2>6, ButBut
  <2> HIDE DEF d2
  <2>9. /\ d2.state = c.state /\ d2.cont = c.cont /\ d2.timer = c.timer /\ d2.version = c.version
        /\ d2.tightVNC = c.tightVNC
    BY <2>8 DEF But, Fields
  <2> DEFINE a == Result(p, u.version)
  <2>10. Replies(u, p, "response", said, a)
    BY <1>3, <2>4, Replying
  <2>11. Sound(a) /\ <<>> \o a.bytes = a.bytes
    BY ResultFacts, ConcatEmptySeq DEF Sound
  <2> HIDE DEF a
  <2>12. Passed(Yes(r), d2, x, seen, s, p, u, <<>> \o a.bytes, "response", said, a)
    BY <2>7, <2>10, <2>11, Passes
  <2>13. a = Result(p, d2.version)
    BY <2>9 DEF a
  <2>14. Going(d2) /\ d2.init = "SecurityResult" /\ u.version = d2.version /\ (d2.tightVNC <=> u.tight)
         /\ d2.version \in {33, 37, 38}
    BY <1>3, <2>6, <2>9 DEF Going
  <2>15. Passed(Yes(r), d2, x, seen, s, p, u, a.bytes, "response", said, a)
    BY <2>11, <2>12
  <2> HIDE DEF r
  <2>16. Met(Yes(r), x, seen, s, p)
    BY <2>13, <2>14, <2>15, Judges
  <2> QED BY <1>1, <1>6, <2>16 DEF r, d2
<1> QED BY <1>4, <1>5, <1>6

\* Tight security: the second part, which may follow the first at once.
SecondPart(c) ==
    LET count == S32(c, 0)
        t == Skip(c, 4)
    IN  IF Wait(c, 4) THEN No(c)
        ELSE IF count = 0 THEN Yes([t EXCEPT !.init = "SecurityResult"])
        ELSE IF Wait(t, 16 * count) THEN Back(t, 4)
        ELSE TightSubAuth(t, count)

\* The two halves of tight security, by what has been read.
LEMMA TightParts ==
  ASSUME NEW c, NEW num, num = S32(c, 0), NEW d, d = [Skip(c, 4) EXCEPT !.tightVNC = TRUE]
  PROVE  NegotiateTightAuth(c) =
           IF c.tightVNC THEN SecondPart(c)
           ELSE IF Wait(c, 4) THEN No(c)
           ELSE IF num > 0 /\ Wait(Skip(c, 4), 16 * num) THEN Back(Skip(c, 4), 4)
           ELSE IF num > 0 THEN No(NegotiateTightTunnels(d, num))
           ELSE SecondPart(d)
BY Zenon DEF NegotiateTightAuth, SecondPart

\* Which kinds of it the server has.
LEMMA SubAuthsCases ==
  ASSUME NEW p \in Plans, NEW v
  PROVE  LET n == Len(p.subauths)
         IN  /\ n \in Word /\ n \in Nat
             /\ n = 0 => SubAuths(p, v) = Answer(Result(p, v).at, B32(0) \o Result(p, v).bytes)
             /\ n # 0 => SubAuths(p, v) = Answer("subauth", B32(n) \o Caps(SubCaps(p)))
<1>1. p.subauths \in Seq(Byte) /\ Len(p.subauths) \in Word
  BY PlanFacts
<1>2. p.subauths = <<>> <=> Len(p.subauths) = 0
  BY <1>1
<1>3. Len(p.subauths) \in Nat
  BY <1>1
<1>4. p.subauths = <<>> => SubAuths(p, v) = Answer(Result(p, v).at, B32(0) \o Result(p, v).bytes)
  BY Zenon DEF SubAuths
<1>5. p.subauths # <<>> => SubAuths(p, v) = Answer("subauth", B32(Len(p.subauths)) \o Caps(SubCaps(p)))
  BY Zenon DEF SubAuths, SubCaps
<1> QED BY <1>1, <1>2, <1>3, <1>4, <1>5

\* What TightSubAuth says, whatever the names are.
LEMMA SubAuthWays ==
  ASSUME NEW c, NEW n
  PROVE  LET s == Skip(c, 16 * n)
             r == TightSubAuth(c, n)
         IN  \/ r = Fail(s)
             \/ r = Yes(Effect([s EXCEPT !.init = "SecurityResult"], "subauth", NoAuth))
             \/ r = Yes(Effect([s EXCEPT !.scheme = TypeVNCAuth], "subauth", VncAuth))
             \/ r = Yes(Effect([s EXCEPT !.scheme = TypeUnixLogon], "subauth", UnixLogin))
BY Zenon DEF TightSubAuth

\* None is a number, too.
LEMMA ZeroWord == 0 \in Word /\ 0 \in Nat
BY NumberFacts, SMT DEF Byte

\* A client whose server has gone on to one of the authentications.
LEMMA GoesOn ==
  ASSUME NEW c, NEW x, NEW seen, NEW s, NEW p, NEW u, NEW what, NEW v, NEW e, NEW b, NEW a,
         Going(c), c.init = "Authentication", c.version \in {33, 37, 38}, u.version = c.version,
         a = Begin(p, c.version, c.scheme), b = a.bytes,
         \/ what = "subtype" /\ v = c.scheme /\ (v = TypeVeNCrypt => c.ven = 0) /\ ~c.tightVNC /\ ~u.tight
         \/ what = "subauth" /\ c.scheme = TypeVNCAuth /\ (c.tightVNC <=> u.tight),
         Passed(e, c, x, seen, s, p, u, b, what, v, a)
  PROVE  Met(e, x, seen, s, p)
<1>1. PICK z, y : /\ Meeting(e, x, seen, s, p, z, y, b) /\ But(e, c, {"log", "ret"})
                  /\ z.at = a.at /\ z.version = IF what = "version" THEN v ELSE u.version
                  /\ z.tight = (u.tight \/ SettlesTight(p, <<what, v>>))
  BY DEF Passed
<1>2. /\ e.state = c.state /\ e.cont = c.cont /\ e.timer = c.timer /\ e.init = c.init
      /\ e.version = c.version /\ e.tightVNC = c.tightVNC /\ e.scheme = c.scheme /\ e.ven = c.ven
  BY <1>1 DEF But, Fields
<1>3. z.version = e.version /\ Says(z, Begin(p, e.version, e.scheme), b)
  BY <1>1, <1>2 DEF Says
<1>4. /\ IF e.scheme = TypeTight THEN z.tight /\ ~e.tightVNC ELSE (e.tightVNC <=> z.tight)
      /\ e.scheme = TypeVeNCrypt => e.ven = 0 /\ ~z.tight
  <2>1. CASE what = "subtype"
    <3>1. z.tight <=> c.scheme = TypeTight
      BY <1>1, <2>1 DEF SettlesTight
    <3> QED BY <1>2, <2>1, <3>1 DEF TypeTight, TypeVeNCrypt
  <2>2. CASE what = "subauth"
    <3>1. z.tight <=> u.tight
      BY <1>1, <2>2 DEF SettlesTight
    <3> QED BY <1>2, <2>2, <3>1 DEF TypeTight, TypeVeNCrypt, TypeVNCAuth
  <2> QED BY <2>1, <2>2
<1>5. Going(e) /\ e.init = "Authentication" /\ e.version \in {33, 37, 38}
  BY <1>2 DEF Going
<1> QED BY <1>1, <1>3, <1>4, <1>5, Begins

\* e is c with some fields set, before a message is sent.
LEMMA SameFrame ==
  ASSUME NEW c, NEW e, NEW fields, But(e, c, fields), Going(c),
         fields \cap {"state", "cont", "timer", "version", "tightVNC"} = {}
  PROVE  Going(e) /\ e.version = c.version /\ e.tightVNC = c.tightVNC
BY DEF But, Fields, Going

\* One of the list of capabilities is taken.
LEMMA SubAuthTaken ==
  ASSUME NEW c, NEW x, NEW seen, NEW s, NEW p, NEW u, NEW t,
         Meeting(c, x, seen, s, p, u, t, Caps(SubCaps(p))), Going(c), c.init = "Authentication",
         c.version \in {33, 37, 38}, u.version = c.version, c.tightVNC, u.tight,
         u.at = "subauth", NEW n, n = Len(p.subauths), ~Wait(c, 16 * n)
  PROVE  Met(TightSubAuth(c, n), x, seen, s, p)
<1> DEFINE d == Skip(c, 16 * n)
           r == TightSubAuth(c, n)
           w == Caps(SubCaps(p))
           d1 == [d EXCEPT !.init = "SecurityResult"]
           d2 == [d EXCEPT !.scheme = TypeVNCAuth]
           d3 == [d EXCEPT !.scheme = TypeUnixLogon]
<1>1. p \in Plans
  BY DEF Meeting
<1>2. w \in Seq(Int) /\ Len(w) = 16 * n
  BY <1>1, SubCapsFacts
<1>3. n \in Nat /\ Unread(c) \in Nat
  BY <1>1, Ways, SubAuthsCases
<1> HIDE DEF w
<1>4. Meeting(d, x, seen, s, p, u, t, <<>>) /\ But(d, c, {"i"})
  <2> DEFINE k == 16 * n
  <2>1. k <= Unread(c) /\ <<>> \in Seq(Int) /\ w = w \o <<>>
    BY <1>2, <1>3, ConcatEmptySeq DEF Wait
  <2>2. Parted(w, w, <<>>, k) /\ Meeting(c, x, seen, s, p, u, t, w)
    BY <1>2, <2>1 DEF Parted, w
  <2> HIDE DEF k
  <2>3. Meeting(Skip(c, k), x, seen, s, p, u, t, <<>>) /\ But(Skip(c, k), c, {"i"})
    BY <2>1, <2>2, Used
  <2> QED BY <2>3 DEF k
<1>5. Going(d) /\ d.version = c.version /\ d.tightVNC = c.tightVNC
  <2> HIDE DEF d
  <2> QED BY <1>4, SameFrame
<1>6. d.init = c.init /\ DOMAIN d = Fields
  BY <1>4 DEF But, Fields
<1>7. \/ r = Fail(d) \/ r = Yes(Effect(d1, "subauth", NoAuth))
      \/ r = Yes(Effect(d2, "subauth", VncAuth)) \/ r = Yes(Effect(d3, "subauth", UnixLogin))
  BY SubAuthWays
<1>8. NoAuth # VncAuth /\ UnixLogin # NoAuth /\ UnixLogin # VncAuth
  BY DEF NoAuth, VncAuth, UnixLogin
<1> HIDE DEF d, r
<1>9. CASE r = Fail(d)
  <2>1. ~d.timer
    BY <1>5 DEF Going
  <2> QED BY <1>4, <1>9, <2>1, Fails DEF r
<1>10. CASE r = Yes(Effect(d1, "subauth", NoAuth))
  <2> DEFINE a == Result(p, u.version)
  <2>1. But(d1, d, {"init"}) /\ d1.init = "SecurityResult"
    BY <1>6 DEF But, Fields
  <2> HIDE DEF d1
  <2>2. Meeting(d1, x, seen, s, p, u, t, <<>>)
    BY <1>4, <2>1, Kept
  <2>3. Going(d1) /\ d1.version = d.version /\ d1.tightVNC = d.tightVNC
    BY <1>5, <2>1, SameFrame
  <2>4. Replies(u, p, "subauth", NoAuth, a)
    BY Replying
  <2>5. Sound(a) /\ <<>> \o a.bytes = a.bytes /\ a = Result(p, d1.version)
    BY <1>5, <2>3, ResultFacts, ConcatEmptySeq DEF Sound
  <2> HIDE DEF a
  <2>6. Passed(r, d1, x, seen, s, p, u, <<>> \o a.bytes, "subauth", NoAuth, a)
    BY <1>10, <2>2, <2>4, <2>5, Passes
  <2>7. Passed(r, d1, x, seen, s, p, u, a.bytes, "subauth", NoAuth, a)
    BY <2>5, <2>6
  <2>8. d1.version \in {33, 37, 38} /\ u.version = d1.version /\ (d1.tightVNC <=> u.tight)
    BY <1>5, <2>3
  <2>9. Met(r, x, seen, s, p)
    BY <2>1, <2>3, <2>5, <2>7, <2>8, Judges
  <2> QED BY <2>9 DEF r
<1>11. CASE r = Yes(Effect(d2, "subauth", VncAuth))
  <2> DEFINE a == Begin(p, u.version, TypeVNCAuth)
  <2>1. But(d2, d, {"scheme"}) /\ d2.scheme = TypeVNCAuth /\ d2.init = d.init
    BY <1>6 DEF But, Fields
  <2> HIDE DEF d2
  <2>2. Meeting(d2, x, seen, s, p, u, t, <<>>)
    BY <1>4, <2>1, Kept
  <2>3. Going(d2) /\ d2.version = d.version /\ d2.tightVNC = d.tightVNC
    BY <1>5, <2>1, SameFrame
  <2>4. Replies(u, p, "subauth", VncAuth, a)
    <3>1. Replies(u, p, "subauth", VncAuth,
                  IF VncAuth = NoAuth THEN Result(p, u.version)
                  ELSE IF VncAuth = VncAuth THEN Begin(p, u.version, TypeVNCAuth) ELSE Answer("user", <<>>))
      BY Replying
    <3> QED BY <1>8, <3>1
  <2>5. Sound(a) /\ <<>> \o a.bytes = a.bytes /\ a = Begin(p, d2.version, d2.scheme)
    <3>1. Sound(a)
      BY <1>1, BeginFacts
    <3>2. a = Begin(p, d2.version, d2.scheme)
      BY <1>5, <2>1, <2>3
    <3> HIDE DEF a
    <3> QED BY <3>1, <3>2, ConcatEmptySeq DEF Sound
  <2> HIDE DEF a
  <2>6. Passed(r, d2, x, seen, s, p, u, <<>> \o a.bytes, "subauth", VncAuth, a)
    BY <1>11, <2>2, <2>4, <2>5, Passes
  <2>7. Passed(r, d2, x, seen, s, p, u, a.bytes, "subauth", VncAuth, a)
    BY <2>5, <2>6
  <2>8. d2.version \in {33, 37, 38} /\ u.version = d2.version /\ (d2.tightVNC <=> u.tight)
        /\ d2.init = "Authentication"
    BY <1>5, <1>6, <2>1, <2>3
  <2>9. Met(r, x, seen, s, p)
    BY <2>1, <2>3, <2>5, <2>7, <2>8, GoesOn
  <2> QED BY <2>9 DEF r
<1>12. CASE r = Yes(Effect(d3, "subauth", UnixLogin))
  <2> DEFINE a == Answer("user", <<>>)
  <2>1. But(d3, d, {"scheme"}) /\ d3.scheme = TypeUnixLogon /\ d3.init = d.init
    BY <1>6 DEF But, Fields
  <2> HIDE DEF d3
  <2>2. Meeting(d3, x, seen, s, p, u, t, <<>>)
    BY <1>4, <2>1, Kept
  <2>3. Replies(u, p, "subauth", UnixLogin, a)
    <3>1. Replies(u, p, "subauth", UnixLogin,
                  IF UnixLogin = NoAuth THEN Result(p, u.version)
                  ELSE IF UnixLogin = VncAuth THEN Begin(p, u.version, TypeVNCAuth) ELSE Answer("user", <<>>))
      BY Replying
    <3> QED BY <1>8, <3>1
  <2>4. Sound(a)
    <3>1. "user" \notin {"confused", "connected"} /\ <<>> \in Seq(Int)
      OBVIOUS
    <3> QED BY <3>1, SoundAnswer
  <2> HIDE DEF a
  <2>5. Passed(r, d3, x, seen, s, p, u, <<>> \o a.bytes, "subauth", UnixLogin, a)
    BY <1>12, <2>2, <2>3, <2>4, Passes
  <2>6. PICK z, y : Meeting(r, x, seen, s, p, z, y, <<>> \o a.bytes) /\ But(r, d3, {"log", "ret"})
    BY <2>5 DEF Passed
  <2>7. r.state = d3.state /\ r.init = d3.init /\ r.scheme = d3.scheme
    BY <2>6 DEF But, Fields
  <2>8. d3.state = d.state
    BY <2>1 DEF But, Fields
  <2>9. TypeUnixLogon \notin Deciders
    BY DEF TypeUnixLogon, Deciders, TypeNone, TypeVNCAuth, TypeTight, TypeVeNCrypt
  <2>10. Mute(r, <<>> \o a.bytes)
    BY <1>5, <1>6, <2>1, <2>7, <2>8, <2>9 DEF Mute, Going
  <2>11. Met(r, x, seen, s, p)
    BY <2>6, <2>10, Ready DEF Stands
  <2> QED BY <2>11 DEF r
<1> QED BY <1>7, <1>9, <1>10, <1>11, <1>12

\* The second half, the kinds: _negotiateTightAuth.
LEMMA SecondPartStep ==
  ASSUME NEW c, NEW x, NEW seen, NEW s, NEW p, NEW u, NEW t, NEW w,
         Meeting(c, x, seen, s, p, u, t, w), Going(c), Tightening(c, u, w, p),
         c.version \in {33, 37, 38}, u.version = c.version
  PROVE  Met(SecondPart(c), x, seen, s, p)
<1> DEFINE count == S32(c, 0)
           d == Skip(c, 4)
           d1 == [d EXCEPT !.init = "SecurityResult"]
           n == Len(p.subauths)
           a == Result(p, c.version)
<1>1. SecondPart(c) =
        IF Wait(c, 4) THEN No(c) ELSE IF count = 0 THEN Yes(d1)
        ELSE IF Wait(d, 16 * count) THEN Back(d, 4) ELSE TightSubAuth(d, count)
  BY DEF SecondPart
<1>2. p \in Plans /\ Phase(c, u, w, p)
  BY DEF Meeting, Phase
<1>3. /\ c.init = "Authentication" /\ c.tightVNC /\ u.tight
      /\ u.at = SubAuths(p, c.version).at /\ w = SubAuths(p, c.version).bytes
  BY DEF Tightening, Says
<1>4. /\ n \in Word /\ n \in Nat
      /\ n = 0 => u.at = a.at /\ w = B32(0) \o a.bytes
      /\ n # 0 => u.at = "subauth" /\ w = B32(n) \o Caps(SubCaps(p))
  BY <1>2, <1>3, SubAuthsCases DEF Answer
<1>5. a.bytes \in Seq(Int) /\ Caps(SubCaps(p)) \in Seq(Int)
  BY <1>2, ResultFacts, SubCapsFacts DEF Sound
<1> HIDE DEF n, a
<1>6. CASE Wait(c, 4)
  BY <1>1, <1>2, <1>6, WaitsOn
<1>7. CASE ~Wait(c, 4) /\ n = 0
  <2>1. count = 0 /\ Meeting(d, x, seen, s, p, u, t, a.bytes) /\ But(d, c, {"i"})
    <3> DEFINE b == a.bytes
    <3> HIDE DEF count, d, d1, b
    <3>1. 0 \in Word /\ b \in Seq(Int) /\ w = B32(0) \o b /\ ~Wait(c, 4)
      BY <1>4, <1>5, <1>7, ZeroWord DEF b
    <3>2. NextWord(w, 0, b)
      BY <3>1 DEF NextWord
    <3>3. /\ S32(c, 0) = 0 /\ Meeting(Skip(c, 4), x, seen, s, p, u, t, b)
          /\ But(Skip(c, 4), c, {"i"}) /\ Unread(Skip(c, 4)) = Unread(c) - 4
      BY <3>1, <3>2, SeenWord
    <3> QED BY <3>3 DEF b, count, d
  <2>2. Going(d) /\ d.version = c.version /\ d.tightVNC = c.tightVNC
    BY <2>1, SameFrame
  <2>3. But(d1, d, {"init"}) /\ d1.init = "SecurityResult"
    BY <2>1 DEF But, Fields
  <2>4. Meeting(d1, x, seen, s, p, u, t, a.bytes)
    BY <2>1, <2>3, Kept
  <2>5. Going(d1) /\ d1.version = d.version /\ d1.tightVNC = d.tightVNC
    BY <2>2, <2>3, SameFrame
  <2> HIDE DEF d, d1, count
  <2>6. Meeting(Yes(d1), x, seen, s, p, u, t, a.bytes) /\ But(Yes(d1), d1, {"ret"})
    BY <2>4, YesKept
  <2>7. /\ Going(Yes(d1)) /\ Yes(d1).version = d1.version /\ Yes(d1).tightVNC = d1.tightVNC
        /\ Yes(d1).init = d1.init
    BY <2>5, <2>6 DEF But, Fields, Going
  <2>8. Judging(Yes(d1), u, a.bytes, p)
    BY <1>3, <1>4, <1>7, <2>2, <2>3, <2>5, <2>7 DEF Judging, Says, a
  <2>9. Phase(Yes(d1), u, a.bytes, p)
    BY <2>2, <2>5, <2>7, <2>8 DEF Phase
  <2>10. Met(Yes(d1), x, seen, s, p)
    BY <2>6, <2>7, <2>9, Proceeds
  <2> QED BY <1>1, <1>7, <2>1, <2>10
<1>8. CASE ~Wait(c, 4) /\ n # 0
  <2>1. count = n /\ Meeting(d, x, seen, s, p, u, t, Caps(SubCaps(p))) /\ But(d, c, {"i"})
    <3> DEFINE b == Caps(SubCaps(p))
    <3> HIDE DEF count, d, d1, b
    <3>1. n \in Word /\ b \in Seq(Int) /\ w = B32(n) \o b /\ ~Wait(c, 4)
      BY <1>4, <1>5, <1>8 DEF b
    <3>2. NextWord(w, n, b)
      BY <3>1 DEF NextWord
    <3>3. /\ S32(c, 0) = n /\ Meeting(Skip(c, 4), x, seen, s, p, u, t, b)
          /\ But(Skip(c, 4), c, {"i"}) /\ Unread(Skip(c, 4)) = Unread(c) - 4
      BY <3>1, <3>2, SeenWord
    <3> QED BY <3>3 DEF b, count, d
  <2>2. Going(d) /\ d.version = c.version /\ d.tightVNC = c.tightVNC
    BY <2>1, SameFrame
  <2>3. d.init = c.init
    BY <2>1 DEF But, Fields
  <2> HIDE DEF count
  <2>4. CASE Wait(d, 16 * count)
    <3>1. 4 \in Int
      OBVIOUS
    <3>2. Met(Back(d, 4), x, seen, s, p)
      BY <1>2, <3>1, BackOn
    <3> QED BY <1>1, <1>8, <2>1, <2>4, <3>2
  <2>5. CASE ~Wait(d, 16 * count)
    <3>1. u.at = "subauth" /\ n = Len(p.subauths)
      BY <1>4, <1>8 DEF n
    <3> HIDE DEF d
    <3>2. Met(TightSubAuth(d, n), x, seen, s, p)
      BY <1>3, <2>1, <2>2, <2>3, <2>5, <3>1, SubAuthTaken
    <3> QED BY <1>1, <1>8, <2>1, <2>5, <3>2
  <2> QED BY <2>4, <2>5
<1> QED BY <1>6, <1>7, <1>8

\* Tunnels first, if there are any.
LEMMA TightStep ==
  ASSUME NEW c, NEW x, NEW seen, NEW s, NEW p, NEW u, NEW t, NEW w,
         Meeting(c, x, seen, s, p, u, t, w), Going(c), Beginning(c, u, w, p),
         c.version \in {33, 37, 38}, u.version = c.version, c.scheme = TypeTight
  PROVE  Met(NegotiateTightAuth(c), x, seen, s, p)
<1> DEFINE num == S32(c, 0)
           d == Skip(c, 4)
           d1 == [d EXCEPT !.tightVNC = TRUE]
           n == Len(p.tunnels)
           a == SubAuths(p, c.version)
           caps == Caps(p.tunnels)
<1>1. ~c.tightVNC /\ u.tight /\ c.init = "Authentication" /\ Says(u, Begin(p, c.version, TypeTight), w)
  BY DEF Beginning
<1>2. NegotiateTightAuth(c) =
           IF Wait(c, 4) THEN No(c)
           ELSE IF num > 0 /\ Wait(d, 16 * num) THEN Back(d, 4)
           ELSE IF num > 0 THEN No(NegotiateTightTunnels(d1, num))
           ELSE SecondPart(d1)
  BY <1>1, TightParts
<1>3. p \in Plans /\ Phase(c, u, w, p)
  BY DEF Meeting, Phase
<1>4. p.tunnels \in Seq(Word \X Byte) /\ n \in Word /\ n \in Nat /\ (p.tunnels = <<>> <=> n = 0)
  BY <1>3, PlanFacts
<1>5. /\ n = 0 => u.at = a.at /\ w = B32(0) \o a.bytes
      /\ n # 0 => u.at = "tunnel" /\ w = B32(n) \o caps
  BY <1>1, <1>4, BeginCases DEF Says, Answer
<1>6. a.bytes \in Seq(Int) /\ Sound(a)
  BY <1>3, SubAuthsFacts DEF Sound
<1>7. caps \in Seq(Int) /\ Len(caps) = 16 * n
  BY <1>4, CapsFacts
<1> HIDE DEF n, a, caps
<1>8. CASE Wait(c, 4)
  BY <1>2, <1>3, <1>8, WaitsOn
<1>9. ASSUME ~Wait(c, 4), NEW m, NEW b, NextWord(w, m, b)
      PROVE  /\ num = m /\ Meeting(d, x, seen, s, p, u, t, b) /\ But(d, c, {"i"})
             /\ Meeting(d1, x, seen, s, p, u, t, b) /\ But(d1, d, {"tightVNC"}) /\ d1.tightVNC
             /\ Going(d1) /\ d1.version = c.version /\ d1.init = c.init /\ d1.scheme = c.scheme
  <2> HIDE DEF num, d
  <2>1. num = m /\ Meeting(d, x, seen, s, p, u, t, b) /\ But(d, c, {"i"})
    BY <1>9, SeenWord DEF num, d
  <2>2. DOMAIN d = Fields
    BY <2>1 DEF But
  <2>3. But(d1, d, {"tightVNC"}) /\ d1.tightVNC
    BY <2>2 DEF But, Fields
  <2>4. Meeting(d1, x, seen, s, p, u, t, b)
    BY <2>1, <2>3, Kept
  <2> HIDE DEF d1
  <2>5. But(d1, c, {"i"} \cup {"tightVNC"})
    BY <2>1, <2>3, ButBut
  <2>6. Going(d1) /\ d1.version = c.version /\ d1.init = c.init /\ d1.scheme = c.scheme
    BY <2>5 DEF But, Fields, Going
  <2> QED BY <2>1, <2>3, <2>4, <2>6
<1> HIDE DEF num
<1>10. CASE ~Wait(c, 4) /\ n = 0
  <2> HIDE DEF d, d1
  <2>1. NextWord(w, 0, a.bytes)
    BY <1>5, <1>6, <1>10, ZeroWord DEF NextWord
  <2>2. /\ num = 0 /\ Meeting(d1, x, seen, s, p, u, t, a.bytes) /\ d1.tightVNC
        /\ Going(d1) /\ d1.version = c.version /\ d1.init = c.init /\ d1.scheme = c.scheme
    BY <1>9, <1>10, <2>1
  <2>3. Tightening(d1, u, a.bytes, p)
    BY <1>1, <1>5, <1>10, <2>2 DEF Tightening, Says, a
  <2>4. Met(SecondPart(d1), x, seen, s, p)
    BY <2>2, <2>3, SecondPartStep
  <2>5. ~(num > 0)
    BY <2>2
  <2> QED BY <1>2, <1>10, <2>4, <2>5 DEF d, d1
<1>11. CASE ~Wait(c, 4) /\ n # 0
  <2>1. NextWord(w, n, caps)
    BY <1>4, <1>5, <1>7, <1>11 DEF NextWord
  <2>2. /\ num = n /\ Meeting(d, x, seen, s, p, u, t, caps) /\ But(d, c, {"i"})
        /\ Meeting(d1, x, seen, s, p, u, t, caps) /\ But(d1, d, {"tightVNC"}) /\ d1.tightVNC
        /\ Going(d1) /\ d1.version = c.version /\ d1.init = c.init /\ d1.scheme = c.scheme
    BY <1>9, <1>11, <2>1
  <2>3. num > 0
    BY <1>4, <1>11, <2>2
  <2>4. CASE Wait(d, 16 * num)
    <3>1. 4 \in Int
      OBVIOUS
    <3>2. Met(Back(d, 4), x, seen, s, p)
      BY <1>3, <3>1, BackOn
    <3> QED BY <1>2, <1>11, <2>3, <2>4, <3>2
  <2>5. CASE ~Wait(d, 16 * num)
    <3> DEFINE k == 16 * num
               e == Skip(d1, k)
               r == Effect(e, "tunnel", 0)
    <3>1. k \in Nat /\ k <= Unread(d1) /\ Len(caps) = k
      <4>1. Unread(d1) = Unread(d) /\ Unread(d) \in Nat
        <5> HIDE DEF d, d1
        <5>1. {"tightVNC"} \cap {"rq", "i", "log", "key"} = {}
          OBVIOUS
        <5> QED BY <2>2, <5>1, Kept, Ways
      <4> QED BY <1>4, <1>7, <2>2, <2>5, <4>1 DEF Wait
    <3>2. NegotiateTightTunnels(d1, num) \in {No(r), Fail(e)}
      BY Zenon DEF NegotiateTightTunnels
    <3> HIDE DEF k, d, d1
    <3>3. Parted(caps, caps, <<>>, k)
      BY <1>7, <3>1, ConcatEmptySeq DEF Parted
    <3>4. Meeting(e, x, seen, s, p, u, t, <<>>) /\ But(e, d1, {"i"})
      BY <2>2, <3>1, <3>3, Used
    <3> HIDE DEF e
    <3>5. Going(e) /\ e.version = c.version /\ e.init = c.init /\ e.scheme = c.scheme /\ e.tightVNC
      BY <2>2, <3>4 DEF But, Fields, Going
    <3>6. CASE NegotiateTightTunnels(d1, num) = Fail(e)
      <4>1. Meeting(Fail(e), x, seen, s, p, u, t, <<>>) /\ But(Fail(e), e, {"log", "state", "ret"})
            /\ Fail(e).state = "disconnected"
        BY <3>4, FailFacts
      <4>2. Meeting(No(Fail(e)), x, seen, s, p, u, t, <<>>) /\ But(No(Fail(e)), Fail(e), {"ret"})
        BY <4>1, YesKept
      <4>3. No(Fail(e)).state = "disconnected" /\ ~No(Fail(e)).timer
        BY <3>5, <4>1, <4>2 DEF But, Fields, Going
      <4>4. Met(No(Fail(e)), x, seen, s, p)
        BY <4>2, <4>3, Ready DEF Stands, Mute
      <4> QED BY <1>2, <1>11, <2>3, <2>5, <3>6, <4>4 DEF d, d1
    <3>7. CASE NegotiateTightTunnels(d1, num) = No(r)
      <4>1. Replies(u, p, "tunnel", 0, a)
        <5>1. u.at = "tunnel"
          BY <1>5, <1>11
        <5> QED BY <5>1, Replying DEF a
      <4>2. Passed(No(r), e, x, seen, s, p, u, <<>> \o a.bytes, "tunnel", 0, a)
        BY <1>6, <3>4, <4>1, Passes
      <4>3. PICK z, y : /\ Meeting(No(r), x, seen, s, p, z, y, a.bytes)
                        /\ But(No(r), e, {"log", "ret"})
                        /\ z.at = a.at /\ z.version = u.version
                        /\ z.tight = (u.tight \/ SettlesTight(p, <<"tunnel", 0>>))
        BY <1>6, <4>2, ConcatEmptySeq DEF Passed
      <4> HIDE DEF r
      <4>4. Meeting(No(No(r)), x, seen, s, p, z, y, a.bytes) /\ But(No(No(r)), No(r), {"ret"})
        BY <4>3, YesKept
      <4>5. But(No(No(r)), e, {"log", "ret"} \cup {"ret"})
        BY <4>3, <4>4, ButBut
      <4> DEFINE f == No(No(r))
      <4> HIDE DEF f
      <4>6. Going(f) /\ f.version = c.version /\ f.init = c.init /\ f.scheme = c.scheme /\ f.tightVNC
        BY <3>5, <4>5 DEF But, Fields, Going, f
      <4>7. Tightening(f, z, a.bytes, p)
        BY <1>1, <4>3, <4>6 DEF Tightening, Says, a
      <4>8. Phase(f, z, a.bytes, p)
        BY <4>3, <4>6, <4>7 DEF Phase
      <4>9. Met(f, x, seen, s, p)
        BY <4>4, <4>6, <4>8, Proceeds DEF f
      <4> QED BY <1>2, <1>11, <2>3, <2>5, <3>7, <4>9 DEF d, d1, f
    <3> QED BY <3>2, <3>6, <3>7
  <2> QED BY <2>4, <2>5
<1> QED BY <1>8, <1>10, <1>11

-----------------------------------------------------------------------------
(* VeNCrypt.                                                               *)

\* A byte is next, and is read.
NextByte(w, n, b) == n \in Int /\ b \in Seq(Int) /\ w = <<n>> \o b

\* A byte is next: it is read, and the rest follows.
LEMMA SeenByte ==
  ASSUME NEW c, NEW x, NEW seen, NEW s, NEW p, NEW u, NEW t, NEW w,
         Meeting(c, x, seen, s, p, u, t, w), NEW n, NEW b, NextByte(w, n, b), ~Wait(c, 1)
  PROVE  /\ U8(c, 0) = n /\ Meeting(Skip(c, 1), x, seen, s, p, u, t, b)
         /\ But(Skip(c, 1), c, {"i"}) /\ Unread(Skip(c, 1)) = Unread(c) - 1
<1>1. n \in Int /\ b \in Seq(Int) /\ w = <<n>> \o b
  BY DEF NextByte
<1>2. <<n>> \in Seq(Int) /\ Len(<<n>>) = 1 /\ <<n>>[1] = n /\ 1 \in 1 .. Len(<<n>>)
  BY <1>1
<1>3. w[1] = n
  BY <1>1, <1>2, Joined
<1>4. 1 <= Unread(c) /\ 0 \in 0 .. Unread(c) - 1
  BY Ways DEF Wait
<1>5. U8(c, 0) = n
  <2>1. U8(c, 0) = w[0 + 1]
    BY <1>4, Seen
  <2> QED BY <1>3, <2>1
<1>6. Parted(w, <<n>>, b, 1)
  BY <1>1, <1>2 DEF Parted
<1> QED BY <1>4, <1>5, <1>6, Used

WordAt(w, at, n) ==
    /\ w[at + 1] = B32(n)[1] /\ w[at + 2] = B32(n)[2]
    /\ w[at + 3] = B32(n)[3] /\ w[at + 4] = B32(n)[4]

\* The subtypes read are those the server has.
LEMMA SubtypeFacts ==
  ASSUME NEW p \in Plans
  PROVE  /\ Subtypes(p) \in Seq(Int) /\ Len(p.subtypes) \in Nat /\ Len(Subtypes(p)) = 4 * Len(p.subtypes)
         /\ \A k \in 1 .. Len(p.subtypes) :
               /\ p.subtypes[k] \in Word /\ p.subtypes[k] \in ToSet(p.subtypes)
               /\ WordAt(Subtypes(p), 4 * (k - 1), p.subtypes[k])
<1>1. p.subtypes \in Seq(Word)
  BY PlanFacts
<1>2. /\ Subtypes(p) \in Seq(Int) /\ Len(Subtypes(p)) = 4 * Len(p.subtypes)
      /\ \A k \in 1 .. Len(p.subtypes) : \A m \in 1 .. 4 :
            Subtypes(p)[4 * (k - 1) + m] = B32(p.subtypes[k])[m]
  BY <1>1, CodesFacts DEF Subtypes
<1>3. Len(p.subtypes) \in Nat /\ \A k \in 1 .. Len(p.subtypes) :
         p.subtypes[k] \in Word /\ p.subtypes[k] \in ToSet(p.subtypes)
  BY <1>1 DEF ToSet
<1>4. 1 \in 1 .. 4 /\ 2 \in 1 .. 4 /\ 3 \in 1 .. 4 /\ 4 \in 1 .. 4
  OBVIOUS
<1>5. ASSUME NEW k \in 1 .. Len(p.subtypes) PROVE WordAt(Subtypes(p), 4 * (k - 1), p.subtypes[k])
  BY <1>2, <1>4, Zenon DEF WordAt
<1> QED BY <1>2, <1>3, <1>5

\* The last part: the client takes one of the subtypes.
LEMMA SubtypesPart ==
  ASSUME NEW c, NEW x, NEW seen, NEW s, NEW p, NEW u, NEW t, NEW w,
         Meeting(c, x, seen, s, p, u, t, w), Going(c), Subtyping(c, u, w, p),
         c.version \in {33, 37, 38}, u.version = c.version, c.ven = 3
  PROVE  Met(VeNCryptSubtypes(c), x, seen, s, p)
<1> DEFINE n == c.venTypes
           k == 4 * n
           d == Skip(c, k)
           types == [m \in 1 .. n |-> S32(c, 4 * (m - 1))]
           chosen == FirstOf(types, Supported \ {TypeVeNCrypt})
           d1 == [d EXCEPT !.ven = 4, !.scheme = chosen]
           r == Effect(d1, "subtype", chosen)
<1>1. VeNCryptSubtypes(c) = IF Wait(c, k) THEN No(c) ELSE IF chosen = None THEN Fail(d) ELSE Yes(r)
  BY DEF VeNCryptSubtypes
<1>2. p \in Plans /\ Phase(c, u, w, p)
  BY DEF Meeting, Phase
<1>3. /\ c.init = "Authentication" /\ ~c.tightVNC /\ ~u.tight
      /\ u.at = "subtype" /\ w = Subtypes(p) /\ n = Len(p.subtypes)
  BY DEF Subtyping
<1>4. /\ w \in Seq(Int) /\ n \in Nat /\ Len(w) = k /\ k \in Nat
      /\ \A j \in 1 .. n :
            /\ p.subtypes[j] \in Word /\ p.subtypes[j] \in ToSet(p.subtypes)
            /\ WordAt(w, 4 * (j - 1), p.subtypes[j])
  <2>1. p \in Plans
    BY <1>2
  <2> HIDE DEF n
  <2> QED BY <1>3, <2>1, SubtypeFacts
<1>5. Unread(c) \in Nat
  BY Ways
<1>6. CASE Wait(c, k)
  BY <1>1, <1>2, <1>6, WaitsOn
<1>7. ASSUME ~Wait(c, k)
      PROVE  /\ Meeting(d, x, seen, s, p, u, t, <<>>) /\ But(d, c, {"i"})
             /\ chosen # None => chosen \in ToSet(p.subtypes) /\ chosen # TypeVeNCrypt
  <2>1. k <= Unread(c)
    BY <1>4, <1>5, <1>7 DEF Wait
  <2>2. Meeting(d, x, seen, s, p, u, t, <<>>) /\ But(d, c, {"i"})
    <3> HIDE DEF k
    <3>1. Parted(w, w, <<>>, k)
      BY <1>4, ConcatEmptySeq DEF Parted
    <3> QED BY <2>1, <3>1, Used
  <2>3. ASSUME NEW j \in 1 .. n PROVE types[j] = p.subtypes[j]
    <3> DEFINE at == 4 * (j - 1)
               v == p.subtypes[j]
    <3>1. at \in Nat /\ at + 4 <= Unread(c)
      BY <1>4, <1>5, <2>1
    <3>2. v \in Word /\ w[at + 1] = B32(v)[1] /\ w[at + 2] = B32(v)[2] /\ w[at + 3] = B32(v)[3]
          /\ w[at + 4] = B32(v)[4]
      BY <1>4 DEF WordAt
    <3>3. types[j] = S32(c, at)
      OBVIOUS
    <3> HIDE DEF at, v
    <3>4. S32(c, at) = v
      BY <3>1, <3>2, SeenAt
    <3> QED BY <3>3, <3>4 DEF v
  <2>4. ASSUME chosen # None PROVE chosen \in ToSet(p.subtypes) /\ chosen # TypeVeNCrypt
    <3> DEFINE usable == Supported \ {TypeVeNCrypt}
    <3>1. DOMAIN types = 1 .. n
      OBVIOUS
    <3>2. usable \cap {TypeVeNCrypt} = {}
      OBVIOUS
    <3> HIDE DEF types, usable
    <3>3. \E j \in 1 .. n : FirstOf(types, usable) = types[j] /\ types[j] \in usable
      <4>1. FirstOf(types, usable) # None
        BY <2>4 DEF usable
      <4> QED BY <1>4, <3>1, <4>1, FirstOfFacts
    <3>4. chosen = FirstOf(types, usable)
      BY DEF usable
    <3> HIDE DEF chosen
    <3> QED BY <1>4, <2>3, <3>2, <3>3, <3>4
  <2> HIDE DEF chosen, d
  <2> QED BY <2>2, <2>4
<1> HIDE DEF d, chosen
<1>8. CASE ~Wait(c, k) /\ chosen = None
  <2>1. Meeting(d, x, seen, s, p, u, t, <<>>) /\ But(d, c, {"i"})
    BY <1>7, <1>8
  <2>2. ~d.timer
    BY <2>1 DEF But, Fields, Going
  <2> QED BY <1>1, <1>8, <2>1, <2>2, Fails
<1>9. CASE ~Wait(c, k) /\ chosen # None
  <2>1. /\ Meeting(d, x, seen, s, p, u, t, <<>>) /\ But(d, c, {"i"})
        /\ chosen \in ToSet(p.subtypes) /\ chosen # TypeVeNCrypt
    BY <1>7, <1>9
  <2>2. DOMAIN d = Fields
    BY <2>1 DEF But
  <2>3. But(d1, d, {"ven", "scheme"}) /\ d1.scheme = chosen
    BY <2>2 DEF But, Fields
  <2>4. Meeting(d1, x, seen, s, p, u, t, <<>>)
    BY <2>1, <2>3, Kept
  <2> HIDE DEF d1
  <2>5. But(d1, c, {"i"} \cup {"ven", "scheme"})
    BY <2>1, <2>3, ButBut
  <2>6. Going(d1) /\ d1.version = c.version /\ d1.init = c.init /\ d1.tightVNC = c.tightVNC
    BY <2>5 DEF But, Fields, Going
  <2> DEFINE a == Begin(p, c.version, chosen)
  <2>7. Replies(u, p, "subtype", chosen, a)
    BY <1>3, <2>1, Replying
  <2>8. Sound(a) /\ a.bytes \in Seq(Int)
    BY <1>2, BeginFacts DEF Sound
  <2>9. a = Begin(p, d1.version, d1.scheme)
    BY <2>3, <2>6
  <2> HIDE DEF a
  <2>10. Passed(Yes(r), d1, x, seen, s, p, u, <<>> \o a.bytes, "subtype", chosen, a)
    BY <2>4, <2>7, <2>8, Passes
  <2> HIDE DEF r
  <2>11. Passed(Yes(r), d1, x, seen, s, p, u, a.bytes, "subtype", chosen, a)
    BY <2>8, <2>10, ConcatEmptySeq
  <2>12. /\ d1.init = "Authentication" /\ d1.version \in {33, 37, 38} /\ u.version = d1.version
         /\ chosen = d1.scheme /\ (chosen = TypeVeNCrypt => d1.ven = 0) /\ ~d1.tightVNC /\ ~u.tight
    BY <1>3, <2>1, <2>3, <2>6
  <2>13. Met(Yes(r), x, seen, s, p)
    BY <2>6, <2>9, <2>11, <2>12, GoesOn
  <2> QED BY <1>1, <1>9, <2>13 DEF r, d1, d, chosen
<1> QED BY <1>6, <1>8, <1>9

\* The number of subtypes, and what comes after it.
LEMMA CountPart ==
  ASSUME NEW c, NEW x, NEW seen, NEW s, NEW p, NEW u, NEW t, NEW w,
         Meeting(c, x, seen, s, p, u, t, w), Going(c), Subtyping(c, u, w, p),
         c.version \in {33, 37, 38}, u.version = c.version, c.ven = 2
  PROVE  Met(VeNCryptCount(c), x, seen, s, p)
<1> DEFINE n == U8(c, 0)
           d == Skip(c, 1)
           d1 == [d EXCEPT !.ven = 3, !.venTypes = n]
<1>1. VeNCryptCount(c) = IF Wait(c, 1) THEN No(c) ELSE IF n < 1 THEN Fail(d) ELSE VeNCryptSubtypes(d1)
  BY DEF VeNCryptCount
<1>2. p \in Plans /\ Phase(c, u, w, p)
  BY DEF Meeting, Phase
<1>3. CASE Wait(c, 1)
  BY <1>1, <1>2, <1>3, WaitsOn
<1>4. CASE ~Wait(c, 1)
  <2> HIDE DEF n, d
  <2>1. NextByte(w, Len(p.subtypes), Subtypes(p))
    BY <1>2, SubtypeFacts DEF NextByte, Subtyping
  <2>2. n = Len(p.subtypes) /\ Meeting(d, x, seen, s, p, u, t, Subtypes(p)) /\ But(d, c, {"i"})
    BY <1>4, <2>1, SeenByte DEF n, d
  <2>3. DOMAIN d = Fields
    BY <2>2 DEF But
  <2>4. But(d1, d, {"ven", "venTypes"}) /\ d1.ven = 3 /\ d1.venTypes = n
    BY <2>3 DEF But, Fields
  <2>5. Meeting(d1, x, seen, s, p, u, t, Subtypes(p))
    BY <2>2, <2>4, Kept
  <2> HIDE DEF d1
  <2>6. But(d1, c, {"i"} \cup {"ven", "venTypes"})
    BY <2>2, <2>4, ButBut
  <2>7. Going(d1) /\ d1.version = c.version /\ d1.init = c.init /\ d1.tightVNC = c.tightVNC
        /\ d1.scheme = c.scheme
    BY <2>6 DEF But, Fields, Going
  <2>8. Subtyping(d1, u, Subtypes(p), p)
    BY <2>2, <2>4, <2>7 DEF Subtyping
  <2>9. Met(VeNCryptSubtypes(d1), x, seen, s, p)
    BY <2>4, <2>5, <2>7, <2>8, SubtypesPart
  <2>10. Met(Fail(d), x, seen, s, p)
    <3>1. ~d.timer
      BY <2>2 DEF But, Fields, Going
    <3> QED BY <2>2, <3>1, Fails
  <2> QED BY <1>1, <1>4, <2>9, <2>10 DEF d, d1
<1> QED BY <1>3, <1>4

\* The two bytes before it.
LEMMA PairParted ==
  ASSUME NEW m \in Int, NEW n \in Int, NEW b \in Seq(Int)
  PROVE  <<m, n>> \o b = <<m>> \o (<<n>> \o b) /\ <<n>> \o b \in Seq(Int)
<1> DEFINE e == <<m>>
           f == <<n>>
           g == <<m, n>>
<1>0. /\ e \in Seq(Int) /\ f \in Seq(Int) /\ g \in Seq(Int)
      /\ Len(e) = 1 /\ Len(f) = 1 /\ Len(g) = 2 /\ e[1] = m /\ f[1] = n /\ g[1] = m /\ g[2] = n
  OBVIOUS
<1> HIDE DEF e, f, g
<1>4. 1 \in 1 .. Len(e) /\ 1 \in 1 .. Len(f)
  BY <1>0
<1>5. /\ e \o f \in Seq(Int) /\ Len(e \o f) = 2 /\ (e \o f)[1] = m /\ (e \o f)[Len(e) + 1] = n
      /\ Len(e) + 1 = 2
  <2>1. /\ e \o f \in Seq(Int) /\ Len(e \o f) = Len(e) + Len(f)
        /\ \A k \in 1 .. Len(e) : (e \o f)[k] = e[k]
        /\ \A k \in 1 .. Len(f) : (e \o f)[Len(e) + k] = f[k]
    BY <1>0, Joined
  <2>2. (e \o f)[1] = e[1] /\ (e \o f)[Len(e) + 1] = f[1]
    BY <1>4, <2>1
  <2> QED BY <1>0, <2>1, <2>2
<1>6. \A k \in 1 .. Len(g) : (e \o f)[k] = g[k]
  <2>1. \A k \in 1 .. Len(g) : k = 1 \/ k = 2
    BY <1>0
  <2> QED BY <1>0, <1>5, <2>1
<1>7. e \o f = g
  BY <1>0, <1>5, <1>6, SeqEqual
<1> USE DEF e, f, g
<1>1. <<m>> \in Seq(Int) /\ <<n>> \in Seq(Int) /\ <<m>> \o <<n>> = <<m, n>>
  BY <1>0, <1>7
<1>2. (<<m>> \o <<n>>) \o b = <<m>> \o (<<n>> \o b)
  BY <1>1, Associative
<1>3. <<n>> \o b \in Seq(Int)
  BY <1>1, Joined
<1> QED BY <1>1, <1>2, <1>3

\* The server accepts the version of VeNCrypt ...
LEMMA AcceptedPart ==
  ASSUME NEW c, NEW x, NEW seen, NEW s, NEW p, NEW u, NEW t, NEW w,
         Meeting(c, x, seen, s, p, u, t, w), Going(c), Subtyping(c, u, w, p),
         c.version \in {33, 37, 38}, u.version = c.version, c.ven = 1
  PROVE  Met(VeNCryptAccepted(c), x, seen, s, p)
<1> DEFINE n == U8(c, 0)
           d == Skip(c, 1)
           d1 == [d EXCEPT !.ven = 2]
           b == <<Len(p.subtypes)>> \o Subtypes(p)
<1>1. VeNCryptAccepted(c) = IF Wait(c, 1) THEN No(c) ELSE IF n # 0 THEN Fail(d) ELSE VeNCryptCount(d1)
  BY DEF VeNCryptAccepted
<1>2. p \in Plans /\ Phase(c, u, w, p)
  BY DEF Meeting, Phase
<1>3. CASE Wait(c, 1)
  BY <1>1, <1>2, <1>3, WaitsOn
<1>4. CASE ~Wait(c, 1)
  <2> HIDE DEF n, d
  <2>1. NextByte(w, 0, b)
    <3>1. w = <<0, Len(p.subtypes)>> \o Subtypes(p)
      BY DEF Subtyping
    <3>2. 0 \in Int /\ Len(p.subtypes) \in Int /\ Subtypes(p) \in Seq(Int)
      BY <1>2, SubtypeFacts
    <3> QED BY <3>1, <3>2, PairParted DEF NextByte
  <2> HIDE DEF b
  <2>2. n = 0 /\ Meeting(d, x, seen, s, p, u, t, b) /\ But(d, c, {"i"})
    BY <1>4, <2>1, SeenByte DEF n, d
  <2>3. DOMAIN d = Fields
    BY <2>2 DEF But
  <2>4. But(d1, d, {"ven"}) /\ d1.ven = 2
    BY <2>3 DEF But, Fields
  <2>5. Meeting(d1, x, seen, s, p, u, t, b)
    BY <2>2, <2>4, Kept
  <2> HIDE DEF d1
  <2>6. But(d1, c, {"i"} \cup {"ven"})
    BY <2>2, <2>4, ButBut
  <2>7. Going(d1) /\ d1.version = c.version /\ d1.init = c.init /\ d1.tightVNC = c.tightVNC
        /\ d1.scheme = c.scheme
    BY <2>6 DEF But, Fields, Going
  <2>8. Subtyping(d1, u, b, p)
    BY <2>4, <2>7 DEF Subtyping, b
  <2>9. Met(VeNCryptCount(d1), x, seen, s, p)
    BY <2>4, <2>5, <2>7, <2>8, CountPart
  <2> QED BY <1>1, <1>4, <2>2, <2>9 DEF d, d1
<1> QED BY <1>3, <1>4

\* ... which was read before.
LEMMA VersionPart ==
  ASSUME NEW c, NEW x, NEW seen, NEW s, NEW p, NEW u, NEW t, NEW w,
         Meeting(c, x, seen, s, p, u, t, w), Going(c), Beginning(c, u, w, p),
         c.version \in {33, 37, 38}, u.version = c.version, c.scheme = TypeVeNCrypt
  PROVE  Met(VeNCryptVersion(c), x, seen, s, p)
<1> DEFINE n == U16(c, 0)
           d == Skip(c, 2)
           d1 == [d EXCEPT !.ven = 1]
           r == Effect(d1, "vencrypt", 2)
           a == Answer("subtype", <<0, Len(p.subtypes)>> \o Subtypes(p))
           two == <<0, 2>>
<1>1. VeNCryptVersion(c) = IF Wait(c, 2) THEN No(c) ELSE IF n # 2 THEN Fail(d) ELSE VeNCryptAccepted(r)
  BY DEF VeNCryptVersion
<1>2. p \in Plans /\ Phase(c, u, w, p)
  BY DEF Meeting, Phase
<1>3. CASE Wait(c, 2)
  BY <1>1, <1>2, <1>3, WaitsOn
<1>4. CASE ~Wait(c, 2)
  <2> HIDE DEF d
  <2>1. u.at = "vencrypt" /\ w = two /\ ~u.tight /\ ~c.tightVNC /\ c.ven = 0 /\ c.init = "Authentication"
    <3>1. c.scheme # TypeTight
      BY DEF TypeTight, TypeVeNCrypt
    <3> QED BY <3>1, BeginCases DEF Beginning, Says, Answer
  <2>2. Parted(w, two, <<>>, 2) /\ 2 <= Unread(c) /\ Unread(c) \in Nat
    <3>1. two \in Seq(Int) /\ Len(two) = 2 /\ <<>> \in Seq(Int) /\ two = two \o <<>>
      OBVIOUS
    <3>2. 2 <= Unread(c) /\ Unread(c) \in Nat
      BY <1>4, Ways DEF Wait
    <3> HIDE DEF two
    <3> QED BY <2>1, <3>1, <3>2 DEF Parted
  <2>3. Meeting(d, x, seen, s, p, u, t, <<>>) /\ But(d, c, {"i"})
    BY <2>2, Used DEF d
  <2>4. DOMAIN d = Fields
    BY <2>3 DEF But
  <2>5. But(d1, d, {"ven"}) /\ d1.ven = 1
    BY <2>4 DEF But, Fields
  <2>6. Meeting(d1, x, seen, s, p, u, t, <<>>)
    BY <2>3, <2>5, Kept
  <2> HIDE DEF d1
  <2>7. But(d1, c, {"i"} \cup {"ven"})
    BY <2>3, <2>5, ButBut
  <2>8. Going(d1) /\ d1.version = c.version /\ d1.init = c.init /\ d1.tightVNC = c.tightVNC
        /\ d1.scheme = c.scheme
    BY <2>7 DEF But, Fields, Going
  <2>9. Replies(u, p, "vencrypt", 2, a)
    BY <2>1, Replying DEF Subtypes
  <2>10. a.at = "subtype" /\ a.bytes = <<0, Len(p.subtypes)>> \o Subtypes(p)
    BY DEF Answer
  <2>11. a.bytes \in Seq(Int)
    <3>1. 0 \in Int /\ Len(p.subtypes) \in Int /\ Subtypes(p) \in Seq(Int)
      BY <1>2, SubtypeFacts
    <3>2. <<0, Len(p.subtypes)>> \in Seq(Int)
      BY <3>1
    <3> QED BY <2>10, <3>1, <3>2, Joined
  <2> HIDE DEF a
  <2>12. Advanced(r, d1, x, seen, s, p, u, <<>> \o a.bytes, "vencrypt", 2, a)
    BY <2>6, <2>9, <2>10, <2>11, Answered
  <2>13. PICK z, y : /\ Meeting(r, x, seen, s, p, z, y, a.bytes) /\ But(r, d1, {"log"})
                     /\ z.at = a.at /\ z.version = u.version
                     /\ z.tight = (u.tight \/ SettlesTight(p, <<"vencrypt", 2>>))
    BY <2>11, <2>12, ConcatEmptySeq DEF Advanced
  <2> HIDE DEF r
  <2>14. Going(r) /\ r.version = c.version /\ r.init = c.init /\ r.tightVNC = c.tightVNC
         /\ r.scheme = c.scheme /\ r.ven = 1
    BY <2>5, <2>8, <2>13 DEF But, Fields, Going
  <2>15. ~z.tight
    BY <2>1, <2>13 DEF SettlesTight
  <2>16. Subtyping(r, z, a.bytes, p)
    BY <2>1, <2>10, <2>13, <2>14, <2>15 DEF Subtyping
  <2>17. Met(VeNCryptAccepted(r), x, seen, s, p)
    BY <2>13, <2>14, <2>16, AcceptedPart
  <2>18. Met(Fail(d), x, seen, s, p)
    <3>1. ~d.timer
      BY <2>3 DEF But, Fields, Going
    <3> QED BY <2>3, <3>1, Fails
  <2> HIDE DEF n
  <2> QED BY <1>1, <1>4, <2>17, <2>18 DEF d, r, d1
<1> QED BY <1>3, <1>4

\* Where VeNCrypt goes on, by what has been read: _negotiateVeNCryptAuth.
LEMMA VeNCryptCases ==
  ASSUME NEW c
  PROVE  /\ c.ven = 0 => NegotiateVeNCryptAuth(c) = VeNCryptVersion(c)
         /\ c.ven = 1 => NegotiateVeNCryptAuth(c) = VeNCryptAccepted(c)
         /\ c.ven = 2 => NegotiateVeNCryptAuth(c) = VeNCryptCount(c)
         /\ c.ven = 3 => NegotiateVeNCryptAuth(c) = VeNCryptSubtypes(c)
<1>1. c.ven = 0 => NegotiateVeNCryptAuth(c) = VeNCryptVersion(c)
  BY SMT DEF NegotiateVeNCryptAuth
<1>2. c.ven = 1 => NegotiateVeNCryptAuth(c) = VeNCryptAccepted(c)
  BY SMT DEF NegotiateVeNCryptAuth
<1>3. c.ven = 2 => NegotiateVeNCryptAuth(c) = VeNCryptCount(c)
  BY SMT DEF NegotiateVeNCryptAuth
<1>4. c.ven = 3 => NegotiateVeNCryptAuth(c) = VeNCryptSubtypes(c)
  BY SMT DEF NegotiateVeNCryptAuth
<1> QED BY <1>1, <1>2, <1>3, <1>4

\* All the authentications a session can come out of.
LEMMA AuthenticationStep ==
  ASSUME NEW c, NEW x, NEW seen, NEW s, NEW p, NEW u, NEW t, NEW w,
         Meeting(c, x, seen, s, p, u, t, w), Going(c),
         Beginning(c, u, w, p) \/ Subtyping(c, u, w, p) \/ Tightening(c, u, w, p),
         c.version \in {33, 37, 38}, u.version = c.version
  PROVE  Met(NegotiateAuthentication(c), x, seen, s, p)
<1>1. CASE Beginning(c, u, w, p) /\ c.scheme = TypeNone
  BY <1>1, NoneStep
<1>2. CASE Beginning(c, u, w, p) /\ c.scheme = TypeVNCAuth
  BY <1>2, AnswersChallenge, AuthCases
<1>3. CASE Beginning(c, u, w, p) /\ c.scheme = TypeTight
  BY <1>3, TightStep, AuthCases
<1>4. CASE Beginning(c, u, w, p) /\ c.scheme = TypeVeNCrypt
  <2>1. c.ven = 0
    BY <1>4 DEF Beginning
  <2>2. NegotiateAuthentication(c) = VeNCryptVersion(c)
    BY <1>4, <2>1, AuthCases, VeNCryptCases
  <2> QED BY <1>4, <2>2, VersionPart
<1>5. CASE Subtyping(c, u, w, p)
  <2>1. c.scheme = TypeVeNCrypt /\ (c.ven = 1 \/ c.ven = 2 \/ c.ven = 3)
    BY <1>5 DEF Subtyping
  <2>2. NegotiateAuthentication(c) = NegotiateVeNCryptAuth(c)
    BY <2>1, AuthCases
  <2>3. CASE c.ven = 1
    BY <1>5, <2>2, <2>3, VeNCryptCases, AcceptedPart
  <2>4. CASE c.ven = 2
    BY <1>5, <2>2, <2>4, VeNCryptCases, CountPart
  <2>5. CASE c.ven = 3
    BY <1>5, <2>2, <2>5, VeNCryptCases, SubtypesPart
  <2> QED BY <2>1, <2>3, <2>4, <2>5
<1>6. CASE Tightening(c, u, w, p)
  <2>1. c.scheme = TypeTight /\ c.tightVNC
    BY <1>6 DEF Tightening
  <2>2. NegotiateAuthentication(c) = SecondPart(c)
    BY <2>1, AuthCases, TightParts
  <2> QED BY <1>6, <2>2, SecondPartStep
<1>7. Beginning(c, u, w, p) => c.scheme \in Deciders
  BY DEF Beginning
<1>8. Beginning(c, u, w, p) =>
        c.scheme = TypeNone \/ c.scheme = TypeVNCAuth \/ c.scheme = TypeTight \/ c.scheme = TypeVeNCrypt
  BY <1>7 DEF Deciders
<1> QED BY <1>1, <1>2, <1>3, <1>4, <1>5, <1>6, <1>8

-----------------------------------------------------------------------------
(* The judgement.                                                          *)

\* What the result says.
LEMMA ResultCases ==
  ASSUME NEW p, NEW v
  PROVE  LET r == Result(p, v)
         IN  /\ p.ok => r.at = "shared" /\ NextWord(r.bytes, 0, <<>>)
             /\ ~p.ok => NextWord(r.bytes, 1, IF v >= 38 THEN Refusal ELSE <<>>)
<1>1. 0 \in Word /\ 1 \in Word /\ <<>> \in Seq(Int) /\ Refusal \in Seq(Int)
  BY ZeroWord, NumberFacts, RefusalFacts, SMT DEF Byte
<1>2. B32(0) = B32(0) \o <<>> /\ B32(1) = B32(1) \o <<>>
  <2>1. B32(0) \in Seq(Int) /\ B32(1) \in Seq(Int)
    BY WordSeq
  <2> QED BY <2>1, ConcatEmptySeq
<1>3. p.ok => Result(p, v).at = "shared" /\ Result(p, v).bytes = B32(0)
  BY DEF Result, Answer
<1>4. ~p.ok => Result(p, v).bytes = IF v >= 38 THEN B32(1) \o Refusal ELSE B32(1)
  BY Zenon DEF Result, Answer
<1> QED BY <1>1, <1>2, <1>3, <1>4 DEF NextWord

\* The result: _handleSecurityResult.
LEMMA JudgingStep ==
  ASSUME NEW c, NEW x, NEW seen, NEW s, NEW p, NEW u, NEW t, NEW w,
         Meeting(c, x, seen, s, p, u, t, w), Going(c), Judging(c, u, w, p),
         c.version \in {33, 37, 38}, u.version = c.version
  PROVE  Met(HandleSecurityResult(c), x, seen, s, p)
<1> DEFINE status == S32(c, 0)
           d == Skip(c, 4)
           d1 == [d EXCEPT !.init = "ClientInitialisation"]
           r == Effect(d, "securityfailure", <<>>)
           late == IF c.version >= 38 THEN Refusal ELSE <<>>
<1>1. HandleSecurityResult(c) =
        IF Wait(c, 4) THEN No(c) ELSE IF status = 0 THEN Yes(d1)
        ELSE IF c.version >= 38 THEN Yes([d EXCEPT !.init = "SecurityReason"]) ELSE Fail(r)
  BY DEF HandleSecurityResult
<1>2. Phase(c, u, w, p)
  BY DEF Phase
<1>3. /\ c.tightVNC <=> u.tight
      /\ p.ok => u.at = "shared" /\ NextWord(w, 0, <<>>)
      /\ ~p.ok => NextWord(w, 1, late)
  BY ResultCases DEF Judging, Says
<1> HIDE DEF status, d, late
<1>4. CASE Wait(c, 4)
  BY <1>1, <1>2, <1>4, WaitsOn
<1>5. CASE ~Wait(c, 4) /\ p.ok
  <2>1. status = 0 /\ Meeting(d, x, seen, s, p, u, t, <<>>) /\ But(d, c, {"i"})
    BY <1>3, <1>5, SeenWord DEF status, d
  <2>2. DOMAIN d = Fields
    BY <2>1 DEF But
  <2>3. But(d1, d, {"init"}) /\ d1.init = "ClientInitialisation"
    BY <2>2 DEF But, Fields
  <2>4. Meeting(d1, x, seen, s, p, u, t, <<>>)
    BY <2>1, <2>3, Kept
  <2> HIDE DEF d1
  <2>5. But(d1, c, {"i"} \cup {"init"})
    BY <2>1, <2>3, ButBut
  <2>6. Going(d1) /\ d1.version = c.version /\ d1.tightVNC = c.tightVNC
    BY <2>5 DEF But, Fields, Going
  <2>7. Meeting(Yes(d1), x, seen, s, p, u, t, <<>>) /\ But(Yes(d1), d1, {"ret"})
    BY <2>4, YesKept
  <2>8. /\ Going(Yes(d1)) /\ Yes(d1).version = c.version /\ Yes(d1).tightVNC = c.tightVNC
        /\ Yes(d1).init = "ClientInitialisation"
    BY <2>3, <2>6, <2>7 DEF But, Fields, Going
  <2>9. Entering(Yes(d1), u, <<>>, p)
    BY <1>3, <1>5, <2>8 DEF Entering
  <2>10. Phase(Yes(d1), u, <<>>, p)
    BY <2>8, <2>9 DEF Phase
  <2>11. Met(Yes(d1), x, seen, s, p)
    BY <2>7, <2>8, <2>10, Proceeds
  <2> QED BY <1>1, <1>5, <2>1, <2>11 DEF d1
<1>6. CASE ~Wait(c, 4) /\ ~p.ok
  <2>1. status = 1 /\ Meeting(d, x, seen, s, p, u, t, late) /\ But(d, c, {"i"})
    BY <1>3, <1>6, SeenWord DEF status, d
  <2>2. Going(d)
    BY <2>1 DEF But, Fields, Going
  <2>3. CASE c.version >= 38
    <3>1. late = Refusal
      BY <2>3 DEF late
    <3>2. Met(Yes([d EXCEPT !.init = "SecurityReason"]), x, seen, s, p)
      BY <2>1, <2>2, <3>1, Refused
    <3> QED BY <1>1, <1>6, <2>1, <2>3, <3>2
  <2>4. CASE ~(c.version >= 38)
    <3>1. "securityfailure" \in ToPage
      BY DEF ToPage
    <3>2. Meeting(r, x, seen, s, p, u, t, late) /\ But(r, d, {"log"})
      BY <2>1, <3>1, Tells
    <3>3. ~r.timer
      BY <2>2, <3>2 DEF But, Fields, Going
    <3>4. Met(Fail(r), x, seen, s, p)
      BY <3>2, <3>3, Fails
    <3> QED BY <1>1, <1>6, <2>1, <2>4, <3>4
  <2> QED BY <2>3, <2>4
<1> QED BY <1>4, <1>5, <1>6

-----------------------------------------------------------------------------
(* The initialisation.                                                     *)

\* The client asks for a shared session: _initMsg.
LEMMA EnteringStep ==
  ASSUME NEW c, NEW x, NEW seen, NEW s, NEW p, NEW u, NEW t, NEW w,
         Meeting(c, x, seen, s, p, u, t, w), Going(c), Entering(c, u, w, p),
         c.version \in {33, 37, 38}, u.version = c.version
  PROVE  Met(Yes(Effect([c EXCEPT !.init = "ServerInitialisation"], "shared", 1)), x, seen, s, p)
<1> DEFINE d == [c EXCEPT !.init = "ServerInitialisation"]
           r == Effect(d, "shared", 1)
           a == Answer("pixelFormat", ServerInit(Scripts[p.script], u.tight))
<1>1. DOMAIN c = Fields /\ p \in Plans
  BY Ways DEF Meeting
<1>2. (c.tightVNC <=> u.tight) /\ u.at = "shared" /\ w = <<>>
  BY DEF Entering
<1>3. But(d, c, {"init"}) /\ d.init = "ServerInitialisation"
  BY <1>1 DEF But, Fields
<1>4. Meeting(d, x, seen, s, p, u, t, <<>>)
  BY <1>2, <1>3, Kept
<1> HIDE DEF d
<1>5. Going(d) /\ d.version = c.version /\ d.tightVNC = c.tightVNC
  BY <1>3 DEF But, Fields, Going
<1>6. Replies(u, p, "shared", 1, a)
  BY <1>2, Replying
<1>7. a.at = "pixelFormat" /\ a.bytes = ServerInit(Scripts[p.script], u.tight)
  BY DEF Answer
<1>8. a.bytes \in Seq(Int)
  <2> DEFINE name == Scripts[p.script].name
             end == IF u.tight THEN Knowledge ELSE <<>>
  <2>1. /\ name \in Seq(Int) /\ Len(name) \in Word
        /\ \E b \in Seq(Int) :
              ServerInit(Scripts[p.script], u.tight) = (b \o B32(Len(name))) \o (name \o end)
    BY <1>1, ServerInitFacts
  <2>2. end \in Seq(Int)
    BY KnowledgeFacts
  <2>3. Len(name) \in Nat
    BY <2>1
  <2>4. B32(Len(name)) \in Seq(Int)
    BY <2>3, WordSeq
  <2> HIDE DEF name, end
  <2>5. PICK b \in Seq(Int) :
          ServerInit(Scripts[p.script], u.tight) = (b \o B32(Len(name))) \o (name \o end)
    BY <2>1
  <2>6. b \o B32(Len(name)) \in Seq(Int) /\ name \o end \in Seq(Int)
    BY <2>1, <2>2, <2>4, Joined
  <2>7. (b \o B32(Len(name))) \o (name \o end) \in Seq(Int)
    BY <2>6, Joined
  <2> QED BY <1>7, <2>5, <2>7
<1>9. Sound(a)
  BY <1>7, <1>8 DEF Sound
<1> HIDE DEF a
<1>10. Passed(Yes(r), d, x, seen, s, p, u, <<>> \o a.bytes, "shared", 1, a)
  BY <1>4, <1>6, <1>9, Passes
<1>11. PICK z, y : /\ Meeting(Yes(r), x, seen, s, p, z, y, a.bytes)
                   /\ But(Yes(r), d, {"log", "ret"})
                   /\ z.at = a.at /\ z.version = u.version
                   /\ z.tight = (u.tight \/ SettlesTight(p, <<"shared", 1>>))
  BY <1>8, <1>10, ConcatEmptySeq DEF Passed
<1> HIDE DEF r
<1>12. /\ Going(Yes(r)) /\ Yes(r).version = c.version /\ Yes(r).tightVNC = c.tightVNC
       /\ Yes(r).init = "ServerInitialisation"
  BY <1>3, <1>5, <1>11 DEF But, Fields, Going
<1>13. z.tight <=> u.tight
  BY <1>11 DEF SettlesTight
<1>14. Awaiting(Yes(r), z, a.bytes, p)
  <2>1. u.tight = z.tight \/ ServerInit(Scripts[p.script], u.tight) = ServerInit(Scripts[p.script], z.tight)
    BY <1>13 DEF ServerInit
  <2>2. a.bytes = ServerInit(Scripts[p.script], z.tight)
    BY <1>7, <2>1
  <2> QED BY <1>2, <1>7, <1>11, <1>12, <1>13, <2>2 DEF Awaiting
<1>15. Phase(Yes(r), z, a.bytes, p)
  BY <1>11, <1>12, <1>14 DEF Phase
<1>16. Met(Yes(r), x, seen, s, p)
  BY <1>11, <1>12, <1>15, Proceeds
<1> QED BY <1>16 DEF r, d

\* The end of the handshake: what the page and the server are told.
Finished(e, name, w, h, depth) ==
    LET sized == ResizeFb(Effect(e, "name", name), w, h)
        told == Effect(Effect(Effect([sized EXCEPT !.depth = depth], "pixelFormat", depth),
                              "encodings", depth), "FramebufferUpdateRequest", <<>>)
    IN  Yes(Effect([told EXCEPT !.state = "connected"], "connect", <<>>))

\* After the last messages the server waits for no particular one.
LEMMA FinishedStep ==
  ASSUME NEW e, NEW x, NEW seen, NEW s, NEW p, NEW u, NEW t,
         Meeting(e, x, seen, s, p, u, t, <<>>), Going(e), u.at = "pixelFormat",
         NEW name, NEW w, NEW h, NEW depth
  PROVE  Met(Finished(e, name, w, h, depth), x, seen, s, p)
<1> DEFINE none == <<>>
           e1 == Effect(e, "name", name)
           fb == [q \in FbOf(w, h) |-> IF q \in DOMAIN e1.fb THEN e1.fb[q] ELSE Black]
           e2 == [e1 EXCEPT !.fb = fb]
           size == <<w, h>>
           e3 == Effect(e2, "resize", size)
           e4 == [e3 EXCEPT !.depth = depth]
           e5 == Effect(e4, "pixelFormat", depth)
           e6 == Effect(e5, "encodings", depth)
           e7 == Effect(e6, "FramebufferUpdateRequest", none)
           e8 == [e7 EXCEPT !.state = "connected"]
           e9 == Effect(e8, "connect", none)
           a5 == Answer("encodings", none)
           a6 == Answer("connected", none)
<1>1. "name" \in ToPage /\ "resize" \in ToPage /\ "connect" \in ToPage
  BY DEF ToPage
<1>2. Meeting(e1, x, seen, s, p, u, t, none) /\ But(e1, e, {"log"})
  BY <1>1, Tells
<1>3. ResizeFb(e1, w, h) = IF e2.cont THEN Effect(e3, "EnableContinuousUpdates", size) ELSE e3
  <2>1. DOMAIN e1 = Fields
    BY <1>2 DEF But
  <2> HIDE DEF e1
  <2>2. e2.cont = e1.cont
    BY <2>1 DEF Fields
  <2>3. e2 = [e1 EXCEPT !.fb = [q \in FbOf(w, h) |-> IF q \in DOMAIN @ THEN @[q] ELSE Black]]
    OBVIOUS
  <2> QED BY <2>2, <2>3, Zenon DEF ResizeFb
<1>4. But(e2, e1, {"fb"})
  BY <1>2 DEF But, Fields
<1>5. Meeting(e2, x, seen, s, p, u, t, none)
  BY <1>2, <1>4, Kept
<1>6. But(e2, e, {"log"} \cup {"fb"})
  BY <1>2, <1>4, ButBut
<1> HIDE DEF e1, e2, size
<1>7. Meeting(e3, x, seen, s, p, u, t, none) /\ But(e3, e2, {"log"})
  BY <1>1, <1>5, Tells
<1>8. Going(e2)
  BY <1>6 DEF But, Fields, Going
<1>9. ResizeFb(e1, w, h) = e3
  BY <1>3, <1>8 DEF Going
<1>10. But(e4, e3, {"depth"})
  BY <1>7 DEF But, Fields
<1>11. Meeting(e4, x, seen, s, p, u, t, none)
  BY <1>7, <1>10, Kept
<1>12. But(e4, e2, {"log"} \cup {"depth"})
  BY <1>7, <1>10, ButBut
<1>13. Going(e4)
  BY <1>8, <1>12 DEF But, Fields, Going
<1>14. Replies(u, p, "pixelFormat", depth, a5)
  BY Replying
<1>15. /\ a5.at = "encodings" /\ a5.bytes = none /\ a6.at = "connected" /\ a6.bytes = none
       /\ none \in Seq(Int) /\ none \o none = none
  BY DEF Answer
<1> HIDE DEF e3, e4, a5, a6, none
<1>16. Advanced(e5, e4, x, seen, s, p, u, none \o a5.bytes, "pixelFormat", depth, a5)
  BY <1>11, <1>14, <1>15, Answered
<1>17. PICK z, y : /\ Meeting(e5, x, seen, s, p, z, y, none) /\ But(e5, e4, {"log"}) /\ z.at = "encodings"
  BY <1>15, <1>16 DEF Advanced
<1>18. Going(e5)
  BY <1>13, <1>17 DEF But, Fields, Going
<1>19. Replies(z, p, "encodings", depth, a6)
  BY <1>17, Replying DEF a6, none
<1> HIDE DEF e5
<1>20. Advanced(e6, e5, x, seen, s, p, z, none \o a6.bytes, "encodings", depth, a6)
  BY <1>15, <1>17, <1>19, Answered
<1>21. PICK z2, y2 : /\ Meeting(e6, x, seen, s, p, z2, y2, none) /\ But(e6, e5, {"log"})
                     /\ z2.at = "connected"
  BY <1>15, <1>20 DEF Advanced
<1>22. Going(e6)
  BY <1>18, <1>21 DEF But, Fields, Going
<1> HIDE DEF e6
<1>23. Meeting(e7, x, seen, s, p, z2, y2, none) /\ But(e7, e6, {"log"})
  BY <1>21, Tells
<1> HIDE DEF e7
<1>24. DOMAIN e7 = Fields
  BY <1>23 DEF But
<1>25. But(e8, e7, {"state"}) /\ e8.state = "connected"
  BY <1>24 DEF But, Fields
<1>26. Meeting(e8, x, seen, s, p, z2, y2, none)
  BY <1>23, <1>25, Kept
<1>27. But(e8, e6, {"log"} \cup {"state"})
  BY <1>23, <1>25, ButBut
<1>28. ~e8.timer
  BY <1>22, <1>27 DEF But, Fields, Going
<1> HIDE DEF e8
<1>29. Meeting(e9, x, seen, s, p, z2, y2, none) /\ But(e9, e8, {"log"})
  BY <1>1, <1>26, Tells
<1> HIDE DEF e9
<1>30. Meeting(Yes(e9), x, seen, s, p, z2, y2, none) /\ But(Yes(e9), e9, {"ret"})
  BY <1>29, YesKept
<1>31. But(Yes(e9), e8, {"log"} \cup {"ret"})
  BY <1>29, <1>30, ButBut
<1>32. Yes(e9).state = "connected" /\ ~Yes(e9).timer
  BY <1>25, <1>28, <1>31 DEF But, Fields
<1>33. Established(Yes(e9), z2, none)
  BY <1>21, <1>32 DEF Established, none
<1>34. Met(Yes(e9), x, seen, s, p)
  BY <1>30, <1>33, Ready DEF Stands
<1>35. Finished(e, name, w, h, depth) = Yes(e9)
  BY <1>9, Zenon DEF Finished, e1, e3, e4, e5, e6, e7, e8, e9, none
<1> QED BY <1>34, <1>35

\* Reading on twice.
LEMMA SkipSkip ==
  ASSUME NEW c, IsClient(c), NEW m \in Int, NEW n \in Int
  PROVE  Skip(Skip(c, m), n) = Skip(c, m + n)
<1>1. DOMAIN c = Fields /\ c.i \in Int
  BY DEF IsClient
<1> DEFINE d == Skip(c, m)
           e == Skip(d, n)
           f == Skip(c, m + n)
<1>2. /\ d = [g \in Fields |-> d[g]] /\ d.i = c.i + m
      /\ \A g \in Fields \ {"i"} : d[g] = c[g]
  BY <1>1 DEF Skip, Fields
<1>3. /\ f = [g \in Fields |-> f[g]] /\ f.i = c.i + (m + n)
      /\ \A g \in Fields \ {"i"} : f[g] = c[g]
  BY <1>1 DEF Skip, Fields
<1>4. DOMAIN d = Fields
  BY <1>2
<1> HIDE DEF d, f
<1>5. /\ e = [g \in Fields |-> e[g]] /\ e.i = d.i + n
      /\ \A g \in Fields \ {"i"} : e[g] = d[g]
  BY <1>4 DEF Skip, Fields
<1> HIDE DEF e
<1>6. e.i = f.i
  BY <1>1, <1>2, <1>3, <1>5
<1>7. \A g \in Fields : e[g] = f[g]
  BY <1>2, <1>3, <1>5, <1>6
<1>8. e = f
  BY <1>3, <1>5, <1>7
<1> QED BY <1>8 DEF d, e, f

\* What the client reads when tight security was settled.
LEMMA KnowledgeRead ==
  ASSUME NEW c, NEW x, NEW seen, NEW s, NEW p, NEW u, NEW t,
         Meeting(c, x, seen, s, p, u, t, Knowledge), ~Wait(c, 8)
  PROVE  16 * (U16(c, 0) + U16(c, 2) + U16(c, 4)) = 32
<1>1. Unread(c) \in Nat /\ 8 <= Unread(c)
  BY Ways DEF Wait
<1>2. \A k \in 0 .. Unread(c) - 1 : U8(c, k) = Knowledge[k + 1]
  BY Seen
<1>3. /\ U8(c, 0) = 0 /\ U8(c, 1) = 1 /\ U8(c, 2) = 0 /\ U8(c, 3) = 0 /\ U8(c, 4) = 0 /\ U8(c, 5) = 1
  <2>1. /\ 0 \in 0 .. Unread(c) - 1 /\ 1 \in 0 .. Unread(c) - 1 /\ 2 \in 0 .. Unread(c) - 1
        /\ 3 \in 0 .. Unread(c) - 1 /\ 4 \in 0 .. Unread(c) - 1 /\ 5 \in 0 .. Unread(c) - 1
    BY <1>1
  <2>2. /\ U8(c, 0) = Knowledge[0 + 1] /\ U8(c, 1) = Knowledge[1 + 1] /\ U8(c, 2) = Knowledge[2 + 1]
        /\ U8(c, 3) = Knowledge[3 + 1] /\ U8(c, 4) = Knowledge[4 + 1] /\ U8(c, 5) = Knowledge[5 + 1]
    BY <1>2, <2>1, Zenon
  <2> QED BY <2>2, KnowledgeFacts
<1>4. U8(c, 0 + 1) = 1 /\ U8(c, 2 + 1) = 0 /\ U8(c, 4 + 1) = 1
  BY <1>3
<1>5. U16(c, 0) = 1 /\ U16(c, 2) = 0 /\ U16(c, 4) = 1
  BY <1>3, <1>4 DEF U16
<1> QED BY <1>5

\* The bytes of the desktop's size, its pixel format, its name's length and
\* its name.
LEMMA InitRead ==
  ASSUME NEW c, NEW x, NEW seen, NEW s, NEW p, NEW u, NEW t, NEW w,
         Meeting(c, x, seen, s, p, u, t, w), NEW tight, w = ServerInit(Scripts[p.script], tight),
         ~Wait(c, 24), NEW name, name = Scripts[p.script].name,
         NEW end, end = IF tight THEN Knowledge ELSE <<>>
  PROVE  /\ S32(c, 20) = Len(name) /\ Len(name) \in Nat /\ name \in Seq(Int) /\ end \in Seq(Int)
         /\ Meeting(Skip(c, 24), x, seen, s, p, u, t, name \o end) /\ But(Skip(c, 24), c, {"i"})
<1> DEFINE n == Len(name)
           b == B32(n)
<1>1. p \in Plans
  BY DEF Meeting
<1>2. /\ name \in Seq(Int) /\ n \in Word
      /\ \E a \in Seq(Int) :
            Len(a) = 20 /\ ServerInit(Scripts[p.script], tight) = (a \o B32(n)) \o (name \o end)
  BY <1>1, ServerInitFacts
<1>3. PICK a \in Seq(Int) : Len(a) = 20 /\ w = (a \o b) \o (name \o end)
  BY <1>2
<1>4. n \in Nat /\ b \in Seq(Int) /\ Len(b) = 4 /\ end \in Seq(Int)
  <2>1. n \in Nat
    BY <1>2
  <2>2. end \in Seq(Int)
    BY KnowledgeFacts
  <2> HIDE DEF n
  <2> QED BY <2>1, <2>2, WordSeq
<1>5. Unread(c) \in Nat /\ 24 <= Unread(c)
  BY Ways DEF Wait
<1> HIDE DEF n, b
<1> DEFINE ab == a \o b
           rest == name \o end
<1>6. /\ ab \in Seq(Int) /\ Len(ab) = 24 /\ rest \in Seq(Int)
      /\ \A k \in 1 .. Len(b) : ab[Len(a) + k] = b[k]
  <2>1. /\ ab \in Seq(Int) /\ Len(ab) = Len(a) + Len(b)
        /\ \A k \in 1 .. Len(b) : ab[Len(a) + k] = b[k]
    BY <1>4, Joined
  <2>2. rest \in Seq(Int)
    BY <1>2, <1>4, Joined
  <2> HIDE DEF ab, rest
  <2> QED BY <1>3, <1>4, <2>1, <2>2
<1>7. \A k \in 1 .. Len(ab) : (ab \o rest)[k] = ab[k]
  <2> HIDE DEF ab, rest
  <2> QED BY <1>6, Joined
<1>8. w = ab \o rest
  BY <1>3
<1> HIDE DEF ab, rest
<1>9. ASSUME NEW k \in 1 .. Len(b) PROVE w[20 + k] = b[k]
  <2>1. 20 + k \in 1 .. Len(ab) /\ ab[20 + k] = b[k]
    BY <1>3, <1>4, <1>6
  <2> QED BY <1>7, <1>8, <2>1
<1>10. WordAt(w, 20, n)
  <2>1. 1 \in 1 .. Len(b) /\ 2 \in 1 .. Len(b) /\ 3 \in 1 .. Len(b) /\ 4 \in 1 .. Len(b)
    BY <1>4
  <2> QED BY <1>9, <2>1, Zenon DEF WordAt, b
<1>11. S32(c, 20) = n
  <2> DEFINE at == 20
  <2>1. at \in Nat /\ at + 4 <= Unread(c)
    BY <1>5
  <2>2. w[at + 1] = B32(n)[1] /\ w[at + 2] = B32(n)[2] /\ w[at + 3] = B32(n)[3]
        /\ w[at + 4] = B32(n)[4]
    BY <1>10 DEF WordAt
  <2>4. n \in Word
    BY <1>2 DEF n
  <2> HIDE DEF at
  <2>3. S32(c, at) = n
    BY <2>1, <2>2, <2>4, SeenAt
  <2> QED BY <2>3 DEF at
<1>12. Meeting(Skip(c, 24), x, seen, s, p, u, t, rest) /\ But(Skip(c, 24), c, {"i"})
  <2>1. Parted(w, ab, rest, 24)
    BY <1>6, <1>8 DEF Parted
  <2> QED BY <1>5, <2>1, Used
<1> QED BY <1>2, <1>4, <1>11, <1>12 DEF n, rest

\* The size and the name: _negotiateServerInit.
LEMMA AwaitingStep ==
  ASSUME NEW c, NEW x, NEW seen, NEW s, NEW p, NEW u, NEW t, NEW w,
         Meeting(c, x, seen, s, p, u, t, w), Going(c), Awaiting(c, u, w, p),
         c.version \in {33, 37, 38}, u.version = c.version
  PROVE  Met(NegotiateServerInit(c), x, seen, s, p)
<1> DEFINE n == S32(c, 20)
           d == Skip(c, 24)
           said == Bytes(d, 0, n)
           e == Skip(d, n)
           caps == 16 * (U16(e, 0) + U16(e, 2) + U16(e, 4))
           f == IF c.tightVNC THEN Skip(e, 8 + caps) ELSE e
           name == Scripts[p.script].name
           end == IF u.tight THEN Knowledge ELSE <<>>
           depth == IF said = IntelAMT THEN 8 ELSE 24
           r == Finished(f, said, U16(c, 0), U16(c, 2), depth)
<1>1. NegotiateServerInit(c) =
        IF Wait(c, 24) THEN No(c)
        ELSE IF Wait(d, n) THEN Back(d, 24)
        ELSE IF c.tightVNC /\ Wait(e, 8) THEN Back(e, 24 + n)
        ELSE IF c.tightVNC /\ Wait(Skip(e, 8), caps) THEN Back(Skip(e, 8), 32 + n)
        ELSE r
  BY Zenon DEF NegotiateServerInit, Finished
<1>2. Phase(c, u, w, p) /\ IsClient(c)
  BY DEF Phase, Meeting
<1>3. (c.tightVNC <=> u.tight) /\ u.at = "pixelFormat" /\ w = ServerInit(Scripts[p.script], u.tight)
  BY DEF Awaiting
<1> HIDE DEF r, said, caps, f
<1>4. CASE Wait(c, 24)
  BY <1>1, <1>2, <1>4, WaitsOn
<1>5. ASSUME ~Wait(c, 24)
      PROVE  /\ n = Len(name) /\ n \in Nat /\ name \in Seq(Int) /\ end \in Seq(Int)
             /\ Meeting(d, x, seen, s, p, u, t, name \o end) /\ But(d, c, {"i"})
  <2> HIDE DEF d, n, name, end
  <2>1. name = Scripts[p.script].name /\ end = IF u.tight THEN Knowledge ELSE <<>>
    BY DEF name, end
  <2> QED BY <1>3, <1>5, <2>1, InitRead DEF d, n
<1>6. ASSUME ~Wait(c, 24), NEW k \in Int PROVE Met(Back(Skip(d, k), 24 + k), x, seen, s, p)
  <2>1. 24 \in Int /\ 24 + k \in Int
    OBVIOUS
  <2>2. Skip(d, k) = Skip(c, 24 + k)
    BY <1>2, <2>1, SkipSkip
  <2> HIDE DEF d
  <2>3. Met(Back(Skip(c, 24 + k), 24 + k), x, seen, s, p)
    BY <1>2, <2>1, BackOn
  <2> QED BY <2>2, <2>3
<1> HIDE DEF name, end, n
<1>7. CASE ~Wait(c, 24) /\ Wait(d, n)
  <2>1. 24 \in Int
    OBVIOUS
  <2>2. Met(Back(d, 24), x, seen, s, p)
    BY <1>2, <2>1, BackOn
  <2> QED BY <1>1, <1>7, <2>2
<1>8. ASSUME ~Wait(c, 24), ~Wait(d, n)
      PROVE  Meeting(e, x, seen, s, p, u, t, end) /\ But(e, c, {"i"})
  <2> HIDE DEF d
  <2>1. /\ n = Len(name) /\ n \in Nat /\ name \in Seq(Int) /\ end \in Seq(Int)
        /\ Meeting(d, x, seen, s, p, u, t, name \o end) /\ But(d, c, {"i"})
    BY <1>5, <1>8
  <2>2. n <= Unread(d)
    BY <1>8, <2>1, Ways DEF Wait
  <2>3. Parted(name \o end, name, end, n)
    BY <2>1 DEF Parted
  <2>4. Meeting(e, x, seen, s, p, u, t, end) /\ But(e, d, {"i"})
    BY <2>1, <2>2, <2>3, Used
  <2>5. But(e, c, {"i"} \cup {"i"})
    BY <2>1, <2>4, ButBut
  <2>6. {"i"} \cup {"i"} = {"i"}
    OBVIOUS
  <2> QED BY <2>4, <2>5, <2>6
<1>9. CASE ~Wait(c, 24) /\ ~Wait(d, n) /\ c.tightVNC /\ Wait(e, 8)
  <2>1. n \in Int
    BY <1>5, <1>9
  <2>2. Met(Back(e, 24 + n), x, seen, s, p)
    BY <1>6, <1>9, <2>1
  <2> QED BY <1>1, <1>9, <2>2
<1>10. CASE ~Wait(c, 24) /\ ~Wait(d, n) /\ c.tightVNC /\ ~Wait(e, 8) /\ Wait(Skip(e, 8), caps)
  <2>1. n \in Int /\ IsClient(d)
    BY <1>5, <1>10 DEF Meeting
  <2>2. Skip(e, 8) = Skip(d, n + 8)
    <3> HIDE DEF d
    <3>1. 8 \in Int
      OBVIOUS
    <3> QED BY <2>1, <3>1, SkipSkip
  <2>3. n + 8 \in Int /\ 24 + (n + 8) = 32 + n
    BY <2>1
  <2>4. Met(Back(Skip(d, n + 8), 24 + (n + 8)), x, seen, s, p)
    BY <1>6, <1>10, <2>3
  <2> QED BY <1>1, <1>10, <2>2, <2>3, <2>4
<1>11. CASE /\ ~Wait(c, 24) /\ ~Wait(d, n)
            /\ c.tightVNC => ~Wait(e, 8) /\ ~Wait(Skip(e, 8), caps)
  <2>1. Meeting(e, x, seen, s, p, u, t, end) /\ But(e, c, {"i"})
    BY <1>8, <1>11
  <2> HIDE DEF e, d
  <2>2. Meeting(f, x, seen, s, p, u, t, <<>>) /\ But(f, c, {"i"})
    <3>1. CASE ~c.tightVNC
      <4>1. end = <<>> /\ f = e
        BY <1>3, <3>1 DEF end, f
      <4> QED BY <2>1, <4>1
    <3>2. CASE c.tightVNC
      <4>1. Meeting(e, x, seen, s, p, u, t, Knowledge)
        BY <1>3, <2>1, <3>2 DEF end
      <4>2. caps = 32
        BY <1>11, <3>2, <4>1, KnowledgeRead DEF caps
      <4>3. f = Skip(e, 40)
        BY <3>2, <4>2 DEF f
      <4>4. 40 <= Unread(e)
        <5>1. Unread(e) \in Nat /\ 8 <= Unread(e)
          BY <1>11, <3>2, <4>1, Ways DEF Wait
        <5>2. Unread(Skip(e, 8)) = Unread(e) - 8
          <6>1. IsClient(e) /\ 8 \in 0 .. Unread(e)
            BY <2>1, <5>1 DEF Meeting
          <6>2. Skip(e, 8).i = e.i + 8 /\ Skip(e, 8).rq = e.rq
            BY <6>1, SkipFacts DEF Fields
          <6> QED BY <6>1, <6>2 DEF Unread, IsClient
        <5> QED BY <1>11, <3>2, <4>2, <5>1, <5>2 DEF Wait
      <4>5. Parted(Knowledge, Knowledge, <<>>, 40)
        BY KnowledgeFacts, ConcatEmptySeq DEF Parted
      <4>6. Meeting(f, x, seen, s, p, u, t, <<>>) /\ But(f, e, {"i"})
        BY <4>1, <4>3, <4>4, <4>5, Used
      <4>7. But(f, c, {"i"} \cup {"i"})
        BY <2>1, <4>6, ButBut
      <4>8. {"i"} \cup {"i"} = {"i"}
        OBVIOUS
      <4> QED BY <4>6, <4>7, <4>8
    <3> QED BY <3>1, <3>2
  <2>3. Going(f)
    BY <2>2 DEF But, Fields, Going
  <2> DEFINE w1 == U16(c, 0)
             h1 == U16(c, 2)
  <2> HIDE DEF depth, w1, h1
  <2>4. Met(Finished(f, said, w1, h1, depth), x, seen, s, p)
    BY <1>3, <2>2, <2>3, FinishedStep
  <2>5. Met(r, x, seen, s, p)
    BY <2>4 DEF r, w1, h1
  <2> QED BY <1>1, <1>11, <2>5 DEF d, e
<1> QED BY <1>4, <1>7, <1>9, <1>10, <1>11

-----------------------------------------------------------------------------
(* The ways that lead nowhere.                                             *)

\* What is read are numbers, whatever it is.
LEMMA ByteFacts ==
  ASSUME NEW c, IsClient(c)
  PROVE  (\A at \in Nat : U8(c, at) \in Int) /\ S32(c, 0) \in Int
<1>1. c.rq \in Seq(Int) /\ c.i \in Nat /\ Len(c.rq) \in Nat
  BY DEF IsClient
<1>2. ASSUME NEW at \in Nat PROVE U8(c, at) \in Int
  <2>1. c.i + at + 1 \in Nat /\ c.i + at + 1 >= 1
    BY <1>1
  <2>2. CASE c.i + at < Len(c.rq)
    <3>1. c.i + at + 1 \in 1 .. Len(c.rq)
      BY <1>1, <2>1, <2>2
    <3>2. c.rq[c.i + at + 1] \in Int
      BY <1>1, <3>1
    <3> QED BY <2>2, <3>2 DEF U8
  <2>3. CASE ~(c.i + at < Len(c.rq))
    BY <2>3 DEF U8
  <2> QED BY <2>2, <2>3
<1>3. U8(c, 0) \in Int /\ U8(c, 0 + 1) \in Int /\ U8(c, 0 + 2) \in Int /\ U8(c, 0 + 2 + 1) \in Int
  BY <1>2
<1>4. S32(c, 0) \in Int
  BY <1>3 DEF S32, U16
<1> QED BY <1>2, <1>4

\* Bytes are read of which nothing is known.
LEMMA SkipsOn ==
  ASSUME NEW c, NEW x, NEW seen, NEW s, NEW p, NEW u, NEW t, NEW w,
         Meeting(c, x, seen, s, p, u, t, w), NEW k \in 0 .. Unread(c)
  PROVE  /\ \E b : Meeting(Skip(c, k), x, seen, s, p, u, t, b)
         /\ But(Skip(c, k), c, {"i"})
<1> DEFINE d == Skip(c, k)
<1>1. IsClient(c)
  BY DEF Meeting
<1>2. IsClient(d) /\ \A f \in Fields \ {"i"} : d[f] = c[f]
  BY <1>1, SkipFacts
<1> HIDE DEF d
<1>3. But(d, c, {"i"})
  BY <1>2 DEF But, IsClient
<1>4. d.log = c.log
  BY <1>3 DEF But, Fields
<1>5. Meeting(d, x, seen, s, p, u, t, Unused(d) \o (x \o t))
  BY <1>2, <1>4 DEF Meeting
<1> QED BY <1>3, <1>5 DEF d

\* The reason of a refusal: _handleSecurityReason.
LEMMA ReasonStep ==
  ASSUME NEW c, NEW x, NEW seen, NEW s, NEW p, NEW u, NEW t, NEW w,
         Meeting(c, x, seen, s, p, u, t, w), c.init = "SecurityReason", c.state = "connecting",
         ~c.timer, w = Refusal
  PROVE  Met(HandleSecurityReason(c), x, seen, s, p)
<1> DEFINE n == S32(c, 0)
           d == Skip(c, 4)
           e == Skip(c, 4 + n)
           said == Bytes(c, 4, n)
           r == Effect(e, "securityfailure", said)
<1>1. HandleSecurityReason(c) =
        IF Wait(c, 4) THEN No(c) ELSE IF Wait(d, n) THEN Back(d, 4) ELSE Fail(r)
  BY DEF HandleSecurityReason
<1>2. Mute(c, w) /\ Stands(c, u, w, p) /\ IsClient(c)
  BY DEF Mute, Stands, Meeting
<1>3. CASE Wait(c, 4)
  BY <1>1, <1>2, <1>3, Waits
<1>4. CASE ~Wait(c, 4) /\ Wait(d, n)
  <2>1. 4 \in Int
    OBVIOUS
  <2>2. But(Back(d, 4), c, {"ret"})
    BY <1>2, <2>1, BackFacts
  <2> DEFINE f == Back(d, 4)
  <2> HIDE DEF f
  <2>3. Meeting(f, x, seen, s, p, u, t, w)
    BY <2>2, Kept DEF f
  <2>4. f.init = c.init /\ f.state = c.state /\ f.timer = c.timer
    BY <2>2 DEF But, Fields, f
  <2>5. Mute(f, w)
    BY <2>4 DEF Mute
  <2>6. Met(f, x, seen, s, p)
    BY <2>3, <2>5, Ready DEF Stands
  <2> QED BY <1>1, <1>4, <2>6 DEF f
<1>5. CASE ~Wait(c, 4) /\ ~Wait(d, n)
  <2>1. Reason \in Seq(Int) /\ Len(Reason) = 2
    BY DEF Reason
  <2>2. 2 \in Word
    BY NumberFacts, SMT DEF Byte
  <2> HIDE DEF n, d, said
  <2>3. NextWord(w, 2, Reason)
    BY <2>1, <2>2 DEF NextWord, Refusal
  <2>4. n = 2 /\ Meeting(d, x, seen, s, p, u, t, Reason) /\ But(d, c, {"i"})
    BY <1>5, <2>3, SeenWord DEF n, d
  <2>5. n \in 0 .. Unread(d)
    <3>1. Unread(d) \in Nat
      BY <2>4, Ways
    <3> QED BY <1>5, <2>4, <3>1 DEF Wait
  <2>6. e = Skip(d, n)
    <3>1. 4 \in Int /\ n \in Int
      BY <2>4
    <3> QED BY <1>2, <3>1, SkipSkip DEF d
  <2> HIDE DEF e
  <2>7. PICK b : Meeting(e, x, seen, s, p, u, t, b)
    BY <2>4, <2>5, <2>6, SkipsOn
  <2>8. But(e, d, {"i"})
    BY <2>4, <2>5, <2>6, SkipsOn
  <2>9. "securityfailure" \in ToPage
    BY DEF ToPage
  <2>10. Meeting(r, x, seen, s, p, u, t, b) /\ But(r, e, {"log"})
    BY <2>7, <2>9, Tells
  <2>11. But(e, c, {"i"} \cup {"i"})
    BY <2>4, <2>8, ButBut
  <2>12. ~r.timer
    BY <2>10, <2>11 DEF But, Fields
  <2>13. Met(Fail(r), x, seen, s, p)
    BY <2>10, <2>12, Fails
  <2> QED BY <1>1, <1>5, <2>13 DEF d, e, said
<1> QED BY <1>3, <1>4, <1>5

\* A client that has started an authentication it cannot finish.
Stuck(c) ==
    /\ c.init = "Authentication" /\ c.scheme \notin Deciders
    /\ c.state \in {"connecting", "disconnected"}

\* Stuck, the client may stop, wait or give up.
LEMMA StuckStays ==
  ASSUME NEW c, NEW x, NEW seen, NEW s, NEW p, NEW u, NEW t, NEW w,
         Meeting(c, x, seen, s, p, u, t, w), Stuck(c)
  PROVE  Met(c, x, seen, s, p) /\ Met(No(c), x, seen, s, p) /\ Met(Fail(c), x, seen, s, p)
<1>1. Stands(c, u, w, p)
  BY DEF Stuck, Mute, Stands
<1>2. Met(c, x, seen, s, p) /\ Met(No(c), x, seen, s, p)
  BY <1>1, Ready, Waits
<1>3. /\ Meeting(Fail(c), x, seen, s, p, u, t, w) /\ But(Fail(c), c, {"log", "state", "ret"})
      /\ Fail(c).state = "disconnected"
  BY FailFacts
<1>4. Fail(c).init = c.init /\ Fail(c).scheme = c.scheme
  BY <1>3 DEF But, Fields
<1>5. Stands(Fail(c), u, w, p)
  BY <1>3, <1>4 DEF Stuck, Mute, Stands
<1>6. Met(Fail(c), x, seen, s, p)
  BY <1>3, <1>5, Ready
<1> QED BY <1>2, <1>6

\* Or ask the page for a name it will not be given.
LEMMA NeedsStep ==
  ASSUME NEW c, NEW x, NEW seen, NEW s, NEW p, NEW u, NEW t, NEW w,
         Meeting(c, x, seen, s, p, u, t, w), Stuck(c)
  PROVE  Met(NeedsUsername(c), x, seen, s, p)
<1> DEFINE q == [c EXCEPT !.creds = {"password"}, !.timer = TRUE]
<1>1. NeedsUsername(c) = IF "username" \notin c.creds THEN No(q) ELSE c
  BY DEF NeedsUsername, AskPage
<1>2. DOMAIN c = Fields
  BY Ways
<1>3. But(q, c, {"creds", "timer"})
  BY <1>2 DEF But, Fields
<1>4. Meeting(q, x, seen, s, p, u, t, w)
  BY <1>3, Kept
<1> HIDE DEF q
<1>5. Stuck(q)
  BY <1>3 DEF But, Fields, Stuck
<1> QED BY <1>1, <1>4, <1>5, StuckStays

\* Or read the length of a key.
LEMMA KeyKept ==
  ASSUME NEW c, NEW x, NEW seen, NEW s, NEW p, NEW u, NEW t, NEW w,
         Meeting(c, x, seen, s, p, u, t, w), NEW k \in Nat
  PROVE  LET d == [c EXCEPT !.ra2 = "key", !.key = k]
         IN  Meeting(d, x, seen, s, p, u, t, w) /\ But(d, c, {"ra2", "key"})
<1> DEFINE d == [c EXCEPT !.ra2 = "key", !.key = k]
<1>1. DOMAIN c = Fields
  BY Ways
<1>2. But(d, c, {"ra2", "key"}) /\ d.key = k
  BY <1>1 DEF But, Fields
<1> HIDE DEF d
<1>3. d.rq = c.rq /\ d.i = c.i /\ d.log = c.log /\ d = [f \in Fields |-> d[f]]
  BY <1>2 DEF But, Fields
<1>4. IsClient(d)
  <2>1. IsClient(c)
    BY DEF Meeting
  <2>2. /\ d.rq \in Seq(Int) /\ d.i \in 0 .. Len(d.rq)
        /\ d.log = [j \in 1 .. Len(d.log) |-> d.log[j]] /\ Len(d.log) \in Nat
    BY <1>3, <2>1 DEF IsClient
  <2> QED BY <1>2, <1>3, <2>2 DEF IsClient
<1>5. Unused(d) = Unused(c)
  BY <1>3 DEF Unused
<1>6. Meeting(d, x, seen, s, p, u, t, w)
  BY <1>3, <1>4, <1>5 DEF Meeting
<1> QED BY <1>2, <1>6 DEF d

\* The server's key, up to where somebody would have to approve it.
LEMMA KeyStep ==
  ASSUME NEW c, NEW x, NEW seen, NEW s, NEW p, NEW u, NEW t, NEW w,
         Meeting(c, x, seen, s, p, u, t, w), Stuck(c)
  PROVE  Met(NegotiateRA2neAuth(c), x, seen, s, p)
<1> DEFINE bits == S32(c, 0)
           k == (bits + 7) \div 8
           c1 == [c EXCEPT !.ra2 = "length"]
           d == Skip(c, 4)
           d1 == [d EXCEPT !.ra2 = "key", !.key = k]
           e == Skip(c, 4 + 2 * k)
           e1 == [e EXCEPT !.ra2 = "approve"]
           f == Skip(c, 2 * c.key)
           f1 == [f EXCEPT !.ra2 = "approve"]
           first == IF Wait(c, 4) THEN No(c1)
                    ELSE IF bits < 1024 \/ bits > 8192 THEN Fail(d)
                    ELSE IF Wait(d, 2 * k) THEN No(d1) ELSE No(e1)
           second == IF Wait(c, 2 * c.key) THEN No(c) ELSE No(f1)
<1>1. NegotiateRA2neAuth(c) =
        CASE c.ra2 \in {"none", "length"} -> first [] c.ra2 = "key" -> second [] OTHER -> No(c)
  BY Zenon DEF NegotiateRA2neAuth
<1>2. IsClient(c) /\ Unread(c) \in Nat /\ DOMAIN c = Fields
  <2> HIDE DEF bits, k, c1, d, d1, e, e1, f, f1, first, second
  <2>1. IsClient(c)
    BY DEF Meeting
  <2> QED BY <2>1, Ways
<1>3. bits \in Int
  BY <1>2, ByteFacts
<1>4. Met(No(c), x, seen, s, p)
  BY StuckStays
<1>5. Met(second, x, seen, s, p)
  <2>1. CASE Wait(c, 2 * c.key)
    BY <1>4, <2>1
  <2>2. CASE ~Wait(c, 2 * c.key)
    <3> DEFINE m == 2 * c.key
    <3>1. m \in 0 .. Unread(c)
      BY <1>2, <2>2 DEF Wait, IsClient
    <3> HIDE DEF m
    <3>2. (\E b : Meeting(Skip(c, m), x, seen, s, p, u, t, b)) /\ But(Skip(c, m), c, {"i"})
      BY <3>1, SkipsOn
    <3>3. PICK b : Meeting(f, x, seen, s, p, u, t, b)
      BY <3>2 DEF m
    <3>4. But(f, c, {"i"})
      BY <3>2 DEF m
    <3> HIDE DEF f
    <3>5. DOMAIN f = Fields
      BY <3>4 DEF But
    <3>6. But(f1, f, {"ra2"})
      BY <3>5 DEF But, Fields
    <3>7. Meeting(f1, x, seen, s, p, u, t, b)
      BY <3>3, <3>6, Kept
    <3> HIDE DEF f1
    <3>8. But(f1, c, {"i"} \cup {"ra2"})
      BY <3>4, <3>6, ButBut
    <3>9. Stuck(f1)
      BY <3>8 DEF But, Fields, Stuck
    <3>10. Met(No(f1), x, seen, s, p)
      BY <3>7, <3>9, StuckStays
    <3> QED BY <2>2, <3>10 DEF f1, f
  <2> QED BY <2>1, <2>2
<1>6. Met(first, x, seen, s, p)
  <2>1. CASE Wait(c, 4)
    <3>1. But(c1, c, {"ra2"})
      BY <1>2 DEF But, Fields
    <3>2. Meeting(c1, x, seen, s, p, u, t, w)
      BY <3>1, Kept
    <3> HIDE DEF c1
    <3>3. Stuck(c1)
      BY <3>1 DEF But, Fields, Stuck
    <3>4. Met(No(c1), x, seen, s, p)
      BY <3>2, <3>3, StuckStays
    <3> QED BY <2>1, <3>4 DEF c1
  <2>2. CASE ~Wait(c, 4)
    <3>1. 4 \in 0 .. Unread(c)
      BY <1>2, <2>2 DEF Wait
    <3>2. PICK b : Meeting(d, x, seen, s, p, u, t, b)
      BY <3>1, SkipsOn
    <3>3. But(d, c, {"i"})
      BY <3>1, SkipsOn
    <3> HIDE DEF d
    <3>4. Stuck(d) /\ IsClient(d) /\ Unread(d) \in Nat
      BY <3>2, <3>3, Ways DEF But, Fields, Stuck, Meeting
    <3>5. CASE bits < 1024 \/ bits > 8192
      <4>1. Met(Fail(d), x, seen, s, p)
        BY <3>2, <3>4, StuckStays
      <4> QED BY <2>2, <3>5, <4>1 DEF d
    <3>6. CASE ~(bits < 1024 \/ bits > 8192)
      <4>1. k \in Nat
        BY <1>3, <3>6, SMT
      <4> HIDE DEF k
      <4>2. CASE Wait(d, 2 * k)
        <5>1. Meeting(d1, x, seen, s, p, u, t, b) /\ But(d1, d, {"ra2", "key"})
          BY <3>2, <4>1, KeyKept
        <5> HIDE DEF d1
        <5>2. Stuck(d1)
          BY <3>4, <5>1 DEF But, Fields, Stuck
        <5>3. Met(No(d1), x, seen, s, p)
          BY <5>1, <5>2, StuckStays
        <5> QED BY <2>2, <3>6, <4>2, <5>3 DEF d1, d, k
      <4>3. CASE ~Wait(d, 2 * k)
        <5> DEFINE m == 2 * k
        <5>1. m \in 0 .. Unread(d) /\ m \in Int /\ 4 \in Int
          BY <3>4, <4>1, <4>3 DEF Wait
        <5>2. e = Skip(d, m)
          <6>1. e = Skip(c, 4 + m)
            OBVIOUS
          <6> HIDE DEF m, e
          <6> QED BY <1>2, <5>1, <6>1, SkipSkip DEF d
        <5> HIDE DEF m, e
        <5>3. PICK b2 : Meeting(e, x, seen, s, p, u, t, b2)
          BY <3>2, <5>1, <5>2, SkipsOn
        <5>4. But(e, d, {"i"})
          BY <3>2, <5>1, <5>2, SkipsOn
        <5>5. DOMAIN e = Fields
          BY <5>4 DEF But
        <5>6. But(e1, e, {"ra2"})
          BY <5>5 DEF But, Fields
        <5>7. Meeting(e1, x, seen, s, p, u, t, b2)
          BY <5>3, <5>6, Kept
        <5> HIDE DEF e1
        <5>8. But(e1, d, {"i"} \cup {"ra2"})
          BY <5>4, <5>6, ButBut
        <5>9. Stuck(e1)
          BY <3>4, <5>8 DEF But, Fields, Stuck
        <5>10. Met(No(e1), x, seen, s, p)
          BY <5>7, <5>9, StuckStays
        <5> QED BY <2>2, <3>6, <4>3, <5>10 DEF e1, e, d, k, m
      <4> QED BY <4>2, <4>3
    <3> QED BY <3>5, <3>6
  <2> QED BY <2>1, <2>2
<1> HIDE DEF first, second
<1>7. NegotiateRA2neAuth(c) = first \/ NegotiateRA2neAuth(c) = second \/ NegotiateRA2neAuth(c) = No(c)
  BY <1>1, SMT
<1> QED BY <1>4, <1>5, <1>6, <1>7

\* What a client that is stuck does is one of these.
LEMMA OtherCases ==
  ASSUME NEW c, c.scheme \notin Deciders
  PROVE  \/ NegotiateAuthentication(c) = NeedsUsername(c)
         \/ NegotiateAuthentication(c) = NegotiateMSLogonIIAuth(c)
         \/ NegotiateAuthentication(c) = NegotiateRA2neAuth(c)
         \/ NegotiateAuthentication(c) = Fail(c)
<1> DEFINE d == Yes([c EXCEPT !.init = IF c.version >= 38 THEN "SecurityResult" ELSE "ClientInitialisation"])
<1>1. NegotiateAuthentication(c) =
        CASE c.scheme = TypeNone -> d
          [] c.scheme \in {TypeXVP, TypeARD, TypePlain, TypeUnixLogon} -> NeedsUsername(c)
          [] c.scheme = TypeMSLogonII -> NegotiateMSLogonIIAuth(c)
          [] c.scheme = TypeVNCAuth -> NegotiateStdVNCAuth(c)
          [] c.scheme = TypeTight -> NegotiateTightAuth(c)
          [] c.scheme = TypeVeNCrypt -> NegotiateVeNCryptAuth(c)
          [] c.scheme = TypeRA2ne -> NegotiateRA2neAuth(c)
          [] OTHER -> Fail(c)
  BY DEF NegotiateAuthentication
<1> HIDE DEF d
<1>2. c.scheme # TypeNone /\ c.scheme # TypeVNCAuth /\ c.scheme # TypeTight /\ c.scheme # TypeVeNCrypt
  BY DEF Deciders
<1> QED BY <1>1, <1>2, SMT

\* A type the server takes no further part in: _negotiateAuthentication.
LEMMA StuckStep ==
  ASSUME NEW c, NEW x, NEW seen, NEW s, NEW p, NEW u, NEW t, NEW w,
         Meeting(c, x, seen, s, p, u, t, w), Stuck(c)
  PROVE  Met(NegotiateAuthentication(c), x, seen, s, p)
<1>1. Met(NeedsUsername(c), x, seen, s, p)
  BY NeedsStep
<1>2. Met(NegotiateMSLogonIIAuth(c), x, seen, s, p)
  BY <1>1, StuckStays DEF NegotiateMSLogonIIAuth
<1>3. Met(NegotiateRA2neAuth(c), x, seen, s, p)
  BY KeyStep
<1>4. Met(Fail(c), x, seen, s, p)
  BY StuckStays
<1>5. c.scheme \notin Deciders
  BY DEF Stuck
<1> QED BY <1>1, <1>2, <1>3, <1>4, <1>5, OtherCases

-----------------------------------------------------------------------------
(* One step after another.                                                 *)

\* The client goes on, or only the page will be told anything.
Able(c, u, w, p) ==
    \/ Going(c) /\ (Greeting(c, u, w, p) \/ Phase(c, u, w, p))
    \/ c.init = "SecurityReason" /\ c.state = "connecting" /\ ~c.timer /\ w = Refusal
    \/ Stuck(c)

\* The handler of each phase.
LEMMA InitCases ==
  ASSUME NEW c
  PROVE  /\ c.init = "ProtocolVersion" => InitMsg(c) = NegotiateProtocolVersion(c)
         /\ c.init = "Security" => InitMsg(c) = NegotiateSecurity(c)
         /\ c.init = "Authentication" => InitMsg(c) = NegotiateAuthentication(c)
         /\ c.init = "SecurityResult" => InitMsg(c) = HandleSecurityResult(c)
         /\ c.init = "SecurityReason" => InitMsg(c) = HandleSecurityReason(c)
         /\ c.init = "ClientInitialisation" =>
              InitMsg(c) = Yes(Effect([c EXCEPT !.init = "ServerInitialisation"], "shared", 1))
         /\ c.init = "ServerInitialisation" => InitMsg(c) = NegotiateServerInit(c)
<1> DEFINE d == Yes(Effect([c EXCEPT !.init = "ServerInitialisation"], "shared", 1))
<1>1. InitMsg(c) =
        CASE c.init = "ProtocolVersion" -> NegotiateProtocolVersion(c)
          [] c.init = "Security" -> NegotiateSecurity(c)
          [] c.init = "Authentication" -> NegotiateAuthentication(c)
          [] c.init = "SecurityResult" -> HandleSecurityResult(c)
          [] c.init = "SecurityReason" -> HandleSecurityReason(c)
          [] c.init = "ClientInitialisation" -> d
          [] c.init = "ServerInitialisation" -> NegotiateServerInit(c)
  BY DEF InitMsg
<1> HIDE DEF d
<1>2. /\ c.init = "ProtocolVersion" => InitMsg(c) = NegotiateProtocolVersion(c)
      /\ c.init = "Security" => InitMsg(c) = NegotiateSecurity(c)
      /\ c.init = "Authentication" => InitMsg(c) = NegotiateAuthentication(c)
      /\ c.init = "SecurityResult" => InitMsg(c) = HandleSecurityResult(c)
      /\ c.init = "SecurityReason" => InitMsg(c) = HandleSecurityReason(c)
      /\ c.init = "ClientInitialisation" => InitMsg(c) = d
      /\ c.init = "ServerInitialisation" => InitMsg(c) = NegotiateServerInit(c)
  BY <1>1, SMT
<1> QED BY <1>2 DEF d

\* One step of the handshake, whatever it is at.
LEMMA InitStep ==
  ASSUME NEW c, NEW x, NEW seen, NEW s, NEW p, NEW u, NEW t, NEW w,
         Meeting(c, x, seen, s, p, u, t, w), Able(c, u, w, p)
  PROVE  Met(InitMsg(c), x, seen, s, p)
<1>1. CASE Going(c) /\ Greeting(c, u, w, p)
  <2>1. c.init = "ProtocolVersion"
    BY <1>1 DEF Greeting
  <2> QED BY <1>1, <2>1, GreetingStep, InitCases
<1>2. CASE Going(c) /\ Phase(c, u, w, p)
  <2>1. c.version \in {33, 37, 38} /\ u.version = c.version
    BY <1>2 DEF Phase
  <2>2. CASE Choosing(c, u, w, p)
    <3>1. c.init = "Security"
      BY <2>2 DEF Choosing
    <3>2. Met(NegotiateSecurity(c), x, seen, s, p)
      BY <1>2, <2>1, <2>2, ChoosingStep, DecidedStep
    <3> QED BY <3>1, <3>2, InitCases
  <2>3. CASE Beginning(c, u, w, p) \/ Subtyping(c, u, w, p) \/ Tightening(c, u, w, p)
    <3>1. c.init = "Authentication"
      BY <2>3 DEF Beginning, Subtyping, Tightening
    <3>2. Met(NegotiateAuthentication(c), x, seen, s, p)
      BY <1>2, <2>1, <2>3, AuthenticationStep
    <3> QED BY <3>1, <3>2, InitCases
  <2>4. CASE Judging(c, u, w, p)
    <3>1. c.init = "SecurityResult"
      BY <2>4 DEF Judging
    <3>2. Met(HandleSecurityResult(c), x, seen, s, p)
      BY <1>2, <2>1, <2>4, JudgingStep
    <3> QED BY <3>1, <3>2, InitCases
  <2>5. CASE Entering(c, u, w, p)
    <3>1. c.init = "ClientInitialisation"
      BY <2>5 DEF Entering
    <3>2. Met(Yes(Effect([c EXCEPT !.init = "ServerInitialisation"], "shared", 1)), x, seen, s, p)
      BY <1>2, <2>1, <2>5, EnteringStep
    <3> QED BY <3>1, <3>2, InitCases
  <2>6. CASE Awaiting(c, u, w, p)
    <3>1. c.init = "ServerInitialisation"
      BY <2>6 DEF Awaiting
    <3>2. Met(NegotiateServerInit(c), x, seen, s, p)
      BY <1>2, <2>1, <2>6, AwaitingStep
    <3> QED BY <3>1, <3>2, InitCases
  <2> QED BY <1>2, <2>2, <2>3, <2>4, <2>5, <2>6, Zenon DEF Phase
<1>3. CASE c.init = "SecurityReason" /\ c.state = "connecting" /\ ~c.timer /\ w = Refusal
  <2>1. Met(HandleSecurityReason(c), x, seen, s, p)
    BY <1>3, ReasonStep
  <2> QED BY <1>3, <2>1, InitCases
<1>4. CASE Stuck(c)
  <2>1. c.init = "Authentication"
    BY <1>4 DEF Stuck
  <2>2. Met(NegotiateAuthentication(c), x, seen, s, p)
    BY <1>4, StuckStep
  <2> QED BY <2>1, <2>2, InitCases
<1> QED BY <1>1, <1>2, <1>3, <1>4, Zenon DEF Able

\* What Met says, for the next step.
LEMMA MetMeeting ==
  ASSUME NEW c, NEW x \in Seq(Int), NEW seen \in Nat, NEW s, NEW p \in Plans,
         Met(c, x, seen, s, p)
  PROVE  \E u, t, w : Meeting(c, x, seen, s, p, u, t, w) /\ Stands(c, u, w, p)
<1>1. PICK u, t : /\ t \in Seq(Int) /\ Leads(c.log, seen, s, p, u, t)
                  /\ Stands(c, u, Unused(c) \o (x \o t), p)
  BY DEF Met, Joint
<1>2. IsClient(c) /\ seen <= Len(c.log)
  BY DEF Met
<1>3. Len(c.log) \in seen .. Len(c.log)
  BY <1>2 DEF IsClient
<1>4. u.at # "confused"
  BY <1>1, <1>3 DEF Leads, Follows
<1> DEFINE w == Unused(c) \o (x \o t)
<1>5. Meeting(c, x, seen, s, p, u, t, w)
  BY <1>1, <1>2, <1>4 DEF Meeting
<1> QED BY <1>1, <1>5

\* A step that succeeded is followed by another.
LEMMA OneMore ==
  ASSUME NEW c, NEW x \in Seq(Int), NEW seen \in Nat, NEW s, NEW p \in Plans,
         Met(c, x, seen, s, p), c.ret, c.state = "connecting"
  PROVE  Met(InitMsg(c), x, seen, s, p)
<1>1. PICK u, t, w : Meeting(c, x, seen, s, p, u, t, w) /\ Stands(c, u, w, p)
  BY MetMeeting
<1>2. CASE Live(c, u, w, p)
  <2>1. ~c.timer
    BY <1>2 DEF Live, Timed
  <2>2. Able(c, u, w, p)
    BY <1>2, <2>1 DEF Live, Able, Going
  <2> QED BY <1>1, <2>2, InitStep
<1>3. CASE Mute(c, w)
  <2>1. Able(c, u, w, p)
    BY <1>3, SMT DEF Mute, Able, Stuck
  <2> QED BY <1>1, <2>1, InitStep
<1>4. ~Established(c, u, w)
  BY SMT DEF Established
<1> QED BY <1>1, <1>2, <1>3, <1>4 DEF Stands

\* The handler's step, if there is another.
OneStep(m) == IF m.ret /\ m.state = "connecting" THEN InitMsg(m) ELSE m

\* f is what becomes of m in up to k steps.
Steps(f, m, k) == f = [n \in 0 .. k |-> IF n = 0 THEN m ELSE OneStep(f[n - 1])]

\* The function of While exists: it is built one step at a time.
LEMMA StepsExist ==
  ASSUME NEW m, NEW k \in Nat
  PROVE  \E f : Steps(f, m, k)
<1> DEFINE S == {j \in Nat : \E f : Steps(f, m, j)}
<1>1. 0 \in S
  <2> DEFINE f == [n \in 0 .. 0 |-> m]
  <2>1. Steps(f, m, 0)
    <3>1. \A n \in 0 .. 0 : n = 0
      OBVIOUS
    <3> QED BY <3>1 DEF Steps
  <2> QED BY <2>1
<1>2. ASSUME NEW j \in Nat, j \in S PROVE j + 1 \in S
  <2>1. PICK f : Steps(f, m, j)
    BY <1>2
  <2> DEFINE g == [n \in 0 .. j + 1 |-> IF n = j + 1 THEN OneStep(f[j]) ELSE f[n]]
             h == [n \in 0 .. j + 1 |-> IF n = 0 THEN m ELSE OneStep(g[n - 1])]
  <2>2. ASSUME NEW n \in 0 .. j + 1
        PROVE  g[n] = IF n = 0 THEN m ELSE OneStep(g[n - 1])
    <3>1. CASE n = j + 1
      <4>1. n # 0 /\ n - 1 = j /\ j \in 0 .. j + 1 /\ j # j + 1
        BY <3>1
      <4>2. g[j] = f[j] /\ g[n] = OneStep(f[j])
        BY <3>1, <4>1
      <4> QED BY <4>1, <4>2
    <3>2. CASE n # j + 1
      <4>1. n \in 0 .. j /\ g[n] = f[n]
        BY <3>2
      <4>2. f[n] = IF n = 0 THEN m ELSE OneStep(f[n - 1])
        <5> HIDE DEF g, h
        <5> QED BY <2>1, <4>1 DEF Steps
      <4>3. n # 0 => n - 1 \in 0 .. j + 1 /\ n - 1 # j + 1
        BY <4>1
      <4>4. n # 0 => g[n - 1] = f[n - 1]
        BY <4>3
      <4> QED BY <4>1, <4>2, <4>4
    <3> QED BY <3>1, <3>2
  <2>3. g = h
    BY <2>2
  <2>4. Steps(g, m, j + 1)
    <3> HIDE DEF g
    <3> QED BY <2>3 DEF Steps
  <2> QED BY <2>4
<1>3. Nat \subseteq S
  <2> HIDE DEF S
  <2> QED BY <1>1, <1>2, Induction
<1> QED BY <1>3

\* And so on to the last of them.
LEMMA ManyMore ==
  ASSUME NEW c, NEW x \in Seq(Int), NEW seen \in Nat, NEW s, NEW p \in Plans,
         Met(InitMsg(c), x, seen, s, p), Unread(c) \in Nat
  PROVE  Met(AllInitMsgs(c), x, seen, s, p)
<1> DEFINE k == Unread(c) + Unreading
           m == InitMsg(c)
           run == CHOOSE f : Steps(f, m, k)
           last == CHOOSE n \in 0 .. k : n = k \/ ~(run[n].ret /\ run[n].state = "connecting")
           Good == {n \in Nat : n <= k => Met(run[n], x, seen, s, p)}
<1>1. AllInitMsgs(c) = run[last]
  BY DEF AllInitMsgs, While, Steps, OneStep
<1>2. k \in Nat
  BY DEF Unreading
<1> HIDE DEF k, m
<1>3. Steps(run, m, k)
  BY <1>2, StepsExist
<1>4. last \in 0 .. k
  <2>1. k \in 0 .. k
    BY <1>2
  <2> HIDE DEF run
  <2> QED BY <2>1
<1> HIDE DEF run, last
<1>5. ASSUME NEW n \in 0 .. k PROVE run[n] = IF n = 0 THEN m ELSE OneStep(run[n - 1])
  BY <1>3 DEF Steps
<1>6. 0 \in Good
  <2>1. 0 \in 0 .. k
    BY <1>2
  <2>2. run[0] = m
    BY <1>5, <2>1
  <2> QED BY <2>2 DEF m
<1>7. ASSUME NEW n \in Nat, n \in Good PROVE n + 1 \in Good
  <2> SUFFICES ASSUME n + 1 <= k PROVE Met(run[n + 1], x, seen, s, p)
    OBVIOUS
  <2>1. n + 1 \in 0 .. k /\ n <= k /\ n + 1 # 0 /\ (n + 1) - 1 = n
    BY <1>2
  <2>2. Met(run[n], x, seen, s, p)
    BY <1>7, <2>1
  <2>3. run[n + 1] = OneStep(run[n])
    BY <1>5, <2>1
  <2>4. Met(OneStep(run[n]), x, seen, s, p)
    BY <2>2, OneMore DEF OneStep
  <2> QED BY <2>3, <2>4
<1>8. Nat \subseteq Good
  <2> HIDE DEF Good
  <2> QED BY <1>6, <1>7, Induction
<1>9. last \in Nat /\ last <= k
  BY <1>2, <1>4
<1> QED BY <1>1, <1>8, <1>9

-----------------------------------------------------------------------------
(* What arrives.                                                           *)

\* d has received b after all it had.
LEMMA Arrived ==
  ASSUME NEW c, IsClient(c), NEW b \in Seq(Int)
  PROVE  LET d == RecvMessage(c, b)
         IN  /\ IsClient(d) /\ Unused(d) = Unused(c) \o b /\ Unread(d) = Unread(c) + Len(b)
             /\ But(d, c, {"rq", "i", "size"})
<1> DEFINE reset == IF Unread(c) = 0 THEN [c EXCEPT !.rq = <<>>, !.i = 0] ELSE c
           packed == ExpandCompact(reset, Len(b))
           fit == IF Len(b) > reset.size - Len(reset.rq) THEN packed ELSE reset
           d == [fit EXCEPT !.rq = @ \o b]
<1>1. d = RecvMessage(c, b)
  BY DEF RecvMessage
<1>2. DOMAIN c = Fields
  BY DEF IsClient
<1>3. /\ IsClient(reset) /\ Unused(reset) = Unused(c) /\ But(reset, c, {"rq", "i", "size"})
  <2>1. CASE Unread(c) = 0
    <3> DEFINE z == [c EXCEPT !.rq = <<>>, !.i = 0]
    <3>1. reset = z
      BY <2>1
    <3> HIDE DEF reset
    <3>2. But(z, c, {"rq", "i", "size"}) /\ z.rq = <<>> /\ z.i = 0 /\ z.log = c.log /\ z.key = c.key
      BY <1>2 DEF But, Fields
    <3> HIDE DEF z
    <3>3. <<>> \in Seq(Int) /\ 0 \in 0 .. Len(<<>>)
      OBVIOUS
    <3>4. z = [f \in Fields |-> z[f]]
      BY <3>2 DEF But
    <3>5. IsClient(z)
      BY <3>2, <3>3, <3>4 DEF IsClient
    <3>6. Unread(z) = 0
      BY <3>2 DEF Unread
    <3>7. Unused(z) \in Seq(Int) /\ Len(Unused(z)) = 0 /\ Unused(c) \in Seq(Int) /\ Len(Unused(c)) = 0
      BY <2>1, <3>5, <3>6, UnusedFacts
    <3>8. Unused(z) = Unused(c)
      BY <3>7, EmptySeq
    <3> QED BY <3>1, <3>2, <3>5, <3>8
  <2>2. CASE Unread(c) # 0
    <3>1. reset = c
      BY <2>2
    <3> QED BY <3>1 DEF But, IsClient
  <2> QED BY <2>1, <2>2
<1> HIDE DEF reset
<1>4. ASSUME NEW y, IsClient(y)
      PROVE  /\ IsClient(ExpandCompact(y, Len(b))) /\ Unused(ExpandCompact(y, Len(b))) = Unused(y)
             /\ But(ExpandCompact(y, Len(b)), y, {"rq", "i", "size"})
  <2> DEFINE z == ExpandCompact(y, Len(b))
             r == Unused(y)
             required == (Unread(y) + Len(b)) * 8
             size == IF y.size < required THEN Max({2 * y.size, required}) ELSE y.size
  <2>1. DOMAIN y = Fields
    BY <1>4 DEF IsClient
  <2>2. z = [y EXCEPT !.size = size, !.rq = r, !.i = 0]
    BY DEF ExpandCompact, Unused
  <2> HIDE DEF z, size, r
  <2>3. But(z, y, {"rq", "i", "size"}) /\ z.rq = r /\ z.i = 0 /\ z.log = y.log /\ z.key = y.key
    BY <2>1, <2>2 DEF But, Fields
  <2>4. r \in Seq(Int) /\ 0 \in 0 .. Len(r)
    <3>1. r \in Seq(Int)
      BY <1>4, UnusedFacts DEF r
    <3> QED BY <3>1
  <2>5. z = [f \in Fields |-> z[f]]
    BY <2>3 DEF But
  <2>6. IsClient(z)
    BY <1>4, <2>3, <2>4, <2>5 DEF IsClient
  <2>7. Unused(z) = r
    <3>1. Unread(z) = Len(r) /\ Len(r) \in Nat
      BY <2>3, <2>4 DEF Unread
    <3>2. /\ Unused(z) \in Seq(Int) /\ Len(Unused(z)) = Len(r)
          /\ \A j \in 1 .. Len(r) : Unused(z)[j] = z.rq[z.i + j]
      BY <2>6, <3>1, UnusedFacts
    <3>3. \A j \in 1 .. Len(r) : z.rq[z.i + j] = r[j]
      BY <2>3
    <3> QED BY <2>4, <3>1, <3>2, <3>3, SeqEqual
  <2> QED BY <2>3, <2>6, <2>7 DEF z, r
<1>5. /\ IsClient(fit) /\ Unused(fit) = Unused(c) /\ But(fit, c, {"rq", "i", "size"})
  <2>1. /\ IsClient(packed) /\ Unused(packed) = Unused(reset) /\ But(packed, reset, {"rq", "i", "size"})
    BY <1>3, <1>4
  <2> HIDE DEF packed
  <2>2. But(packed, c, {"rq", "i", "size"})
    BY <1>3, <2>1 DEF But
  <2> QED BY <1>3, <2>1, <2>2
<1> HIDE DEF fit, packed
<1>6. fit.rq \in Seq(Int) /\ fit.i \in 0 .. Len(fit.rq) /\ DOMAIN fit = Fields /\ fit.i \in Nat
  BY <1>5 DEF IsClient
<1>7. But(d, fit, {"rq"}) /\ d.rq = fit.rq \o b /\ d.i = fit.i /\ d.log = fit.log /\ d.key = fit.key
  BY <1>6 DEF But, Fields
<1> HIDE DEF d
<1>8. d.rq \in Seq(Int) /\ Len(d.rq) = Len(fit.rq) + Len(b) /\ Len(b) \in Nat /\ Len(fit.rq) \in Nat
  BY <1>6, <1>7, Joined
<1>9. IsClient(d)
  <2>1. d = [f \in Fields |-> d[f]]
    BY <1>7 DEF But
  <2>2. d.i \in 0 .. Len(d.rq)
    BY <1>6, <1>7, <1>8
  <2> QED BY <1>5, <1>7, <1>8, <2>1, <2>2 DEF IsClient
<1>10. Unread(d) = Unread(fit) + Len(b) /\ Unread(fit) \in Nat /\ Unread(fit) = Len(fit.rq) - fit.i
  BY <1>6, <1>7, <1>8 DEF Unread
<1>11. Unread(fit) = Unread(c)
  <2>1. IsClient(c)
    OBVIOUS
  <2>2. Len(Unused(fit)) = Unread(fit)
    BY <1>5, UnusedFacts
  <2>3. Len(Unused(c)) = Unread(c)
    BY <2>1, UnusedFacts
  <2> QED BY <1>5, <2>2, <2>3
<1>12. Unused(d) = Unused(fit) \o b
  <2> DEFINE r == Unused(fit)
             q == Unused(d)
             n == Unread(fit)
             i == fit.i
             len == Len(fit.rq)
  <2>1. /\ r \in Seq(Int) /\ Len(r) = n
        /\ \A j \in 1 .. n : r[j] = fit.rq[i + j]
    BY <1>5, UnusedFacts
  <2>2. /\ q \in Seq(Int) /\ Len(q) = n + Len(b)
        /\ \A j \in 1 .. n + Len(b) : q[j] = d.rq[i + j]
    <3>1. /\ q \in Seq(Int) /\ Len(q) = Unread(d)
          /\ \A j \in 1 .. Unread(d) : q[j] = d.rq[d.i + j]
      BY <1>9, UnusedFacts
    <3> HIDE DEF r, q
    <3> QED BY <1>7, <1>10, <3>1
  <2>3. /\ r \o b \in Seq(Int) /\ Len(r \o b) = n + Len(b)
        /\ \A j \in 1 .. n : (r \o b)[j] = r[j]
        /\ \A j \in 1 .. Len(b) : (r \o b)[n + j] = b[j]
    <3> HIDE DEF r, n
    <3> QED BY <2>1, Joined
  <2>4. /\ \A j \in 1 .. len : d.rq[j] = fit.rq[j]
        /\ \A j \in 1 .. Len(b) : d.rq[len + j] = b[j]
    BY <1>6, <1>7, Joined
  <2>5. n \in Nat /\ i \in Nat /\ len \in Nat /\ n = len - i /\ Len(b) \in Nat
    BY <1>6, <1>8, <1>10
  <2> HIDE DEF r, q, n, i, len
  <2>6. ASSUME NEW j \in 1 .. n + Len(b) PROVE q[j] = (r \o b)[j]
    <3>1. CASE j <= n
      <4>1. j \in 1 .. n /\ i + j \in 1 .. len
        BY <2>5, <3>1
      <4> QED BY <2>1, <2>2, <2>3, <2>4, <4>1
    <3>2. CASE j > n
      <4> DEFINE h == j - n
      <4>1. h \in 1 .. Len(b) /\ n + h = j /\ i + j = len + h
        BY <2>5, <3>2
      <4> HIDE DEF h
      <4>2. (r \o b)[n + h] = b[h] /\ d.rq[len + h] = b[h]
        BY <2>3, <2>4, <4>1
      <4>3. q[j] = d.rq[i + j]
        BY <2>2
      <4> QED BY <4>1, <4>2, <4>3
    <3>3. j \in Int /\ n \in Int
      BY <2>5
    <3>4. j <= n \/ j > n
      BY <3>3
    <3> QED BY <3>1, <3>2, <3>4
  <2>7. q = r \o b
    BY <2>2, <2>3, <2>6, SeqEqual
  <2> QED BY <2>7 DEF q, r
<1>13. But(d, c, {"rq", "i", "size"})
  BY <1>5, <1>7 DEF But
<1> QED BY <1>1, <1>5, <1>9, <1>10, <1>11, <1>12, <1>13

\* The smaller of two numbers.
LEMMA Smaller ==
  ASSUME NEW a \in Nat, NEW b \in Nat
  PROVE  Min({a, b}) \in {a, b} /\ Min({a, b}) <= a /\ Min({a, b}) <= b
<1> DEFINE S == {a, b}
<1>1. \E n \in S : \A m \in S : n <= m
  <2>1. a <= b \/ b <= a
    OBVIOUS
  <2>2. CASE a <= b
    BY <2>2
  <2>3. CASE b <= a
    BY <2>3
  <2> QED BY <2>1, <2>2, <2>3
<1>2. Min(S) \in S /\ \A m \in S : Min(S) <= m
  <2> HIDE DEF S
  <2> QED BY <1>1 DEF Min
<1> QED BY <1>2

\* A message is cut in two.
LEMMA Cut ==
  ASSUME NEW w \in Seq(Int), NEW k \in 1 .. Len(w)
  PROVE  LET a == SubSeq(w, 1, k)
             b == SubSeq(w, k + 1, Len(w))
         IN  a \in Seq(Int) /\ b \in Seq(Int) /\ Len(a) = k /\ w = a \o b
<1> DEFINE n == Len(w)
           a == SubSeq(w, 1, k)
           b == SubSeq(w, k + 1, n)
<1>1. n \in Nat /\ k \in Nat /\ k >= 1 /\ k <= n /\ \A j \in 1 .. n : w[j] \in Int
  OBVIOUS
<1>2. /\ a \in Seq(Int) /\ Len(a) = IF 1 <= k THEN k - 1 + 1 ELSE 0
      /\ \A j \in 1 .. k - 1 + 1 : a[j] = w[1 + j - 1]
  <2>1. \A j \in 1 .. k : w[j] \in Int
    BY <1>1
  <2>2. 1 \in Int /\ k \in Int
    BY <1>1
  <2> HIDE DEF n
  <2> QED BY <2>1, <2>2, SubSeqProperties
<1>3. /\ b \in Seq(Int) /\ Len(b) = IF k + 1 <= n THEN n - (k + 1) + 1 ELSE 0
      /\ \A j \in 1 .. n - (k + 1) + 1 : b[j] = w[(k + 1) + j - 1]
  <2>1. \A j \in k + 1 .. n : w[j] \in Int
    BY <1>1
  <2>2. k + 1 \in Int /\ n \in Int
    BY <1>1
  <2> HIDE DEF n
  <2> QED BY <2>1, <2>2, SubSeqProperties
<1> HIDE DEF a, b
<1>4. Len(a) = k /\ \A j \in 1 .. k : a[j] = w[j]
  <2>1. k - 1 + 1 = k /\ \A j \in 1 .. k : 1 + j - 1 = j
    BY <1>1
  <2> QED BY <1>1, <1>2, <2>1
<1>5. Len(b) = n - k /\ \A j \in 1 .. n - k : b[j] = w[k + j]
  <2>1. n - (k + 1) + 1 = n - k /\ \A j \in 1 .. n - k : (k + 1) + j - 1 = k + j
    BY <1>1
  <2>2. ~(k + 1 <= n) => n - k = 0
    BY <1>1
  <2> HIDE DEF n
  <2> QED BY <1>3, <2>1, <2>2
<1>6. /\ a \o b \in Seq(Int) /\ Len(a \o b) = Len(a) + Len(b)
      /\ \A j \in 1 .. Len(a) : (a \o b)[j] = a[j]
      /\ \A j \in 1 .. Len(b) : (a \o b)[Len(a) + j] = b[j]
  BY <1>2, <1>3, Joined
<1>7. Len(a \o b) = n
  BY <1>1, <1>4, <1>5, <1>6
<1>8. ASSUME NEW j \in 1 .. n PROVE (a \o b)[j] = w[j]
  <2>1. CASE j <= k
    <3>1. j \in 1 .. k
      BY <1>1, <2>1
    <3> QED BY <1>4, <1>6, <3>1
  <2>2. CASE j > k
    <3> DEFINE h == j - k
    <3>1. h \in 1 .. n - k /\ k + h = j
      BY <1>1, <2>2
    <3> HIDE DEF h, n
    <3>2. (a \o b)[k + h] = b[h] /\ b[h] = w[k + h]
      BY <1>4, <1>5, <1>6, <3>1
    <3> QED BY <3>1, <3>2
  <2>3. j \in Int /\ k \in Int
    BY <1>1
  <2>4. j <= k \/ j > k
    BY <2>3
  <2> QED BY <2>1, <2>2, <2>4
<1>9. w = a \o b
  BY <1>6, <1>7, <1>8, SeqEqual
<1> QED BY <1>2, <1>3, <1>4, <1>9 DEF a, b

\* Bytes move from the net to the client.
LEMMA Arrives ==
  ASSUME NEW c, NEW x, NEW seen, NEW s, NEW p, NEW u, NEW t, NEW w,
         Meeting(c, x, seen, s, p, u, t, w), NEW a \in Seq(Int), NEW b \in Seq(Int), x = a \o b
  PROVE  /\ Meeting(RecvMessage(c, a), b, seen, s, p, u, t, w)
         /\ But(RecvMessage(c, a), c, {"rq", "i", "size"})
<1> DEFINE d == RecvMessage(c, a)
<1>1. /\ IsClient(c) /\ t \in Seq(Int) /\ w = Unused(c) \o ((a \o b) \o t)
  BY DEF Meeting
<1>2. IsClient(d) /\ Unused(d) = Unused(c) \o a /\ But(d, c, {"rq", "i", "size"})
  BY <1>1, Arrived
<1> HIDE DEF d
<1>3. d.log = c.log
  BY <1>2 DEF But, Fields
<1>4. Unused(c) \in Seq(Int) /\ b \o t \in Seq(Int)
  BY <1>1, UnusedFacts, Joined
<1>5. w = Unused(d) \o (b \o t)
  <2>1. (a \o b) \o t = a \o (b \o t)
    BY <1>1, Associative
  <2>2. (Unused(c) \o a) \o (b \o t) = Unused(c) \o (a \o (b \o t))
    BY <1>4, Associative
  <2> QED BY <1>1, <1>2, <2>1, <2>2
<1>6. Meeting(d, b, seen, s, p, u, t, w)
  BY <1>2, <1>3, <1>5 DEF Meeting
<1> QED BY <1>2, <1>6 DEF d

\* All the client has is what it will get while the page is asked, and when
\* the session is established.
LEMMA NoMore ==
  ASSUME NEW c, NEW x, NEW seen, NEW s, NEW p, NEW u, NEW t, NEW w,
         Meeting(c, x, seen, s, p, u, t, w), Len(x) > 0
  PROVE  ~(Live(c, u, w, p) /\ c.timer) /\ ~Established(c, u, w)
<1>1. Len(w) > Unread(c) /\ Unread(c) \in Nat
  <2>1. /\ IsClient(c) /\ x \in Seq(Int) /\ t \in Seq(Int) /\ w = Unused(c) \o (x \o t)
    BY DEF Meeting
  <2>2. /\ Unused(c) \in Seq(Int) /\ Len(Unused(c)) = Unread(c) /\ Unread(c) \in Nat
    BY <2>1, UnusedFacts
  <2>3. x \o t \in Seq(Int) /\ Len(x \o t) = Len(x) + Len(t)
    BY <2>1, Joined
  <2> DEFINE r == Unused(c)
             y == x \o t
             n == Unread(c)
  <2>4. w = r \o y /\ r \in Seq(Int) /\ y \in Seq(Int) /\ Len(r) = n /\ Len(y) = Len(x) + Len(t)
    BY <2>1, <2>2, <2>3
  <2>5. Len(x) \in Nat /\ Len(t) \in Nat /\ n \in Nat
    BY <2>1, <2>2
  <2> HIDE DEF r, y, n
  <2>6. Len(w) = n + (Len(x) + Len(t))
    BY <2>4, Joined
  <2>7. Len(w) > n
    BY <2>5, <2>6
  <2> QED BY <2>2, <2>7 DEF n
<1>2. ASSUME Live(c, u, w, p), c.timer PROVE FALSE
  <2>1. c.init = "Authentication" /\ c.scheme = TypeVNCAuth /\ ~Wait(c, 16)
    BY <1>2 DEF Live, Timed
  <2>2. TypeVNCAuth # TypeVeNCrypt /\ TypeVNCAuth # TypeTight
    BY DEF TypeVNCAuth, TypeVeNCrypt, TypeTight
  <2>3. Beginning(c, u, w, p)
    BY <1>2, <2>1, <2>2, SMT DEF Live, Phase, Greeting, Choosing, Subtyping, Tightening, Judging,
                                 Entering, Awaiting
  <2>4. w = Response
    BY <2>1, <2>3, BeginCases DEF Beginning, Says, Answer
  <2>5. Len(w) = 16
    BY <2>4, ResponseFacts
  <2> QED BY <1>1, <2>1, <2>5 DEF Wait
<1>3. ASSUME Established(c, u, w) PROVE FALSE
  BY <1>1, <1>3 DEF Established
<1> QED BY <1>2, <1>3

\* What the two stand at depends on some of the fields only.
LEMMA SameStanding ==
  ASSUME NEW c, NEW d, NEW u, NEW w, NEW p,
         d.init = c.init, d.scheme = c.scheme, d.tightVNC = c.tightVNC, d.ven = c.ven,
         d.venTypes = c.venTypes, d.version = c.version, Greeting(c, u, w, p) \/ Phase(c, u, w, p)
  PROVE  Greeting(d, u, w, p) \/ Phase(d, u, w, p)
BY DEF Phase, Greeting, Choosing, Beginning, Subtyping, Tightening, Judging, Entering, Awaiting

\* A message from the server is handled.
LEMMA DeliverStep ==
  ASSUME NEW c, NEW x \in Seq(Int), NEW seen \in Nat, NEW s, NEW p \in Plans,
         Met(c, x, seen, s, p), c.state # "disconnected",
         NEW a \in Seq(Int), NEW b \in Seq(Int), x = a \o b, Len(a) > 0
  PROVE  Met(HandleMessage(RecvMessage(c, a)), b, seen, s, p)
<1> DEFINE d == RecvMessage(c, a)
<1>1. PICK u, t, w : Meeting(c, x, seen, s, p, u, t, w) /\ Stands(c, u, w, p)
  BY MetMeeting
<1>2. Meeting(d, b, seen, s, p, u, t, w) /\ But(d, c, {"rq", "i", "size"})
  BY <1>1, Arrives
<1>3. Len(x) > 0
  <2>1. Len(a \o b) = Len(a) + Len(b) /\ Len(a) \in Nat /\ Len(b) \in Nat
    BY Joined
  <2> QED BY <2>1
<1>4. ~(Live(c, u, w, p) /\ c.timer) /\ ~Established(c, u, w)
  BY <1>1, <1>3, NoMore
<1>5. Unread(d) >= 1 /\ Unread(d) \in Nat
  <2>1. IsClient(c)
    BY <1>1 DEF Meeting
  <2>2. Unread(d) = Unread(c) + Len(a)
    BY <2>1, Arrived
  <2>3. Unread(c) \in Nat /\ Len(a) \in Nat
    BY <2>1, UnusedFacts
  <2> QED BY <2>2, <2>3
<1> HIDE DEF d
<1>6. /\ d.state = c.state /\ d.cont = c.cont /\ d.timer = c.timer /\ d.init = c.init
      /\ d.scheme = c.scheme /\ d.tightVNC = c.tightVNC /\ d.ven = c.ven
      /\ d.venTypes = c.venTypes /\ d.version = c.version
  BY <1>2 DEF But, Fields
<1>7. Able(d, u, w, p) /\ d.state = "connecting"
  <2>1. CASE Live(c, u, w, p)
    <3>1. Going(d)
      BY <1>4, <1>6, <2>1 DEF Live, Going
    <3>2. Greeting(d, u, w, p) \/ Phase(d, u, w, p)
      BY <1>6, <2>1, SameStanding DEF Live
    <3> QED BY <3>1, <3>2 DEF Able, Going
  <2>2. CASE Mute(c, w)
    BY <1>6, <2>2, SMT DEF Mute, Able, Stuck
  <2> QED BY <1>1, <1>4, <2>1, <2>2 DEF Stands
<1>8. Met(InitMsg(d), b, seen, s, p)
  BY <1>2, <1>7, InitStep
<1>9. Met(AllInitMsgs(d), b, seen, s, p)
  BY <1>5, <1>8, ManyMore
<1>10. HandleMessage(d) = AllInitMsgs(d)
  <2>1. ~Wait(d, 1)
    BY <1>5 DEF Wait
  <2>2. HandleMessage(d) = CASE d.state = "connected" -> AllMessages(d)
                             [] d.state = "connecting" -> AllInitMsgs(d)
                             [] OTHER -> d
    BY <2>1 DEF HandleMessage
  <2> QED BY <1>7, <2>2, SMT
<1> QED BY <1>9, <1>10 DEF d

\* The timer runs out.
LEMMA ResumeStep ==
  ASSUME NEW c, NEW x \in Seq(Int), NEW seen \in Nat, NEW s, NEW p \in Plans,
         Met(c, x, seen, s, p), c.timer
  PROVE  Met(InitMsg([c EXCEPT !.timer = FALSE]), x, seen, s, p)
<1> DEFINE d == [c EXCEPT !.timer = FALSE]
<1>1. PICK u, t, w : Meeting(c, x, seen, s, p, u, t, w) /\ Stands(c, u, w, p)
  BY MetMeeting
<1>2. DOMAIN c = Fields
  BY <1>1, Ways
<1>3. But(d, c, {"timer"}) /\ ~d.timer
  BY <1>2 DEF But, Fields
<1> HIDE DEF d
<1>4. Meeting(d, x, seen, s, p, u, t, w)
  BY <1>1, <1>3, Kept
<1>5. /\ d.state = c.state /\ d.cont = c.cont /\ d.init = c.init
      /\ d.scheme = c.scheme /\ d.tightVNC = c.tightVNC /\ d.ven = c.ven
      /\ d.venTypes = c.venTypes /\ d.version = c.version
  BY <1>3 DEF But, Fields
<1>6. Able(d, u, w, p)
  <2>1. CASE Live(c, u, w, p)
    <3>1. Going(d)
      BY <1>3, <1>5, <2>1 DEF Live, Going
    <3>2. Greeting(d, u, w, p) \/ Phase(d, u, w, p)
      BY <1>5, <2>1, SameStanding DEF Live
    <3> QED BY <3>1, <3>2 DEF Able
  <2>2. CASE Mute(c, w)
    BY <1>5, <2>2, SMT DEF Mute, Able, Stuck
  <2>3. ~Established(c, u, w)
    BY DEF Established
  <2> QED BY <1>1, <2>1, <2>2, <2>3 DEF Stands
<1>7. Met(InitMsg(d), x, seen, s, p)
  BY <1>4, <1>6, InitStep
<1> QED BY <1>7 DEF d

-----------------------------------------------------------------------------
(* The session.                                                            *)

ServerFields == {"at", "version", "tight", "seen", "parts", "batch", "cont"}

\* Before anything is said.
LEMMA InvInit == Init => IInv
<1> SUFFICES ASSUME Init PROVE IInv
  OBVIOUS
<1> DEFINE s == Party(server)
           w == VersionMsg(plan.version)
<1>1. /\ plan \in Plans /\ client = NewClient(Buffer) /\ net = w
      /\ server = [at |-> IF plan.version = 0 THEN "repeater" ELSE "version",
                   version |-> 0, tight |-> FALSE, parts |-> 0, batch |-> 0, cont |-> FALSE, seen |-> 0]
  BY DEF Init
<1>2. IsServer(server) /\ server.seen = 0
  BY <1>1 DEF IsServer
<1>3. /\ s.at = (IF plan.version = 0 THEN "repeater" ELSE "version") /\ ~s.tight
      /\ s.at # "confused"
  BY <1>1 DEF Party
<1>4. plan.version \in Versions
  BY <1>1, PlanFacts
<1>5. /\ client.rq = <<>> /\ client.i = 0 /\ client.log = <<>> /\ client.key = 0
      /\ client.state = "connecting" /\ client.cont = FALSE /\ client.timer = FALSE
      /\ client.init = "ProtocolVersion" /\ client.tightVNC = FALSE /\ client.ven = 0
      /\ client = [f \in Fields |-> client[f]]
  BY <1>1 DEF NewClient, Fields
<1> HIDE DEF s, w
<1>6. <<>> \in Seq(Int) /\ 0 \in 0 .. Len(<<>>) /\ <<>> = [k \in 1 .. Len(<<>>) |-> <<>>[k]] /\ Len(<<>>) = 0
  OBVIOUS
<1>7. IsClient(client)
  BY <1>5, <1>6 DEF IsClient
<1>8. w \in Seq(Int)
  BY <1>4, VersionFacts DEF w
<1>9. Unused(client) = <<>>
  <2>1. Unread(client) = 0
    BY <1>5 DEF Unread
  <2>2. Unused(client) \in Seq(Int) /\ Len(Unused(client)) = 0
    BY <1>7, <2>1, UnusedFacts
  <2> QED BY <2>2, EmptySeq
<1>10. Leads(client.log, 0, s, plan, s, <<>>)
  BY <1>3, <1>5, <1>6, NothingSent
<1>11. w \o <<>> = w /\ <<>> \o w = w
  BY <1>8, ConcatEmptySeq
<1>12. Greeting(client, s, w, plan)
  BY <1>3, <1>4, <1>5 DEF Greeting, w
<1>13. Stands(client, s, Unused(client) \o (w \o <<>>), plan)
  BY <1>5, <1>9, <1>11, <1>12 DEF Stands, Live
<1>14. Joint(client, net, 0, s, plan)
  BY <1>1, <1>6, <1>10, <1>13 DEF Joint
<1> QED BY <1>1, <1>2, <1>5, <1>6, <1>7, <1>8, <1>14 DEF IInv, s

\* What the server answers depends on some of its fields only.
LEMMA SameAnswer ==
  ASSUME NEW s, NEW p, NEW what, NEW v
  PROVE  HandshakeAnswer(Party(s), p, what, v) = HandshakeAnswer(s, p, what, v)
<1> DEFINE z == Party(s)
<1>1. z.at = s.at /\ z.version = s.version /\ z.tight = s.tight
  BY DEF Party
<1> HIDE DEF z
<1>2. HandshakeAnswer(z, p, what, v) = HandshakeAnswer(s, p, what, v)
  BY <1>1, SMT DEF HandshakeAnswer
<1> QED BY <1>2 DEF z

\* The server reads.
LEMMA ServeStep == IInv /\ Serve => IInv'
<1> SUFFICES ASSUME IInv, Serve PROVE IInv'
  OBVIOUS
<1> DEFINE seen == server.seen
           m == client.log[seen + 1]
           a == HandshakeAnswer(server, plan, m[1], m[2])
           s == Party(server)
           z == After(s, plan, m)
           r == Reply(s, plan, m)
<1>1. /\ server.seen < Len(client.log) /\ UNCHANGED <<client, plan>>
      /\ IF m[1] \in ToPage THEN server' = [server EXCEPT !.seen = @ + 1] /\ UNCHANGED net
         ELSE IF server.at = "connected"
         THEN IF m[1] = "FramebufferUpdateRequest" THEN NextBatch
              ELSE /\ server' = [server EXCEPT !.seen = @ + 1,
                                               !.cont = @ \/ m[1] = "EnableContinuousUpdates"]
                   /\ UNCHANGED net
         ELSE /\ server' = [server EXCEPT !.seen = @ + 1, !.at = a.at,
                                          !.version = IF m[1] = "version" THEN m[2] ELSE @,
                                          !.tight = @ \/ SettlesTight(plan, m)]
              /\ net' = net \o a.bytes
  BY Zenon DEF Serve
<1>2. plan \in Plans /\ IsServer(server) /\ DOMAIN server = ServerFields
  BY DEF IInv, IsServer, ServerFields
<1> HIDE DEF m, a
<1>3. CASE server.at = "connected"
  <2>1. DOMAIN server' = ServerFields /\ server'.at = "connected"
        /\ server' = [f \in ServerFields |-> server'[f]]
    BY <1>1, <1>2, <1>3 DEF NextBatch, ServerFields
  <2>2. IsServer(server')
    BY <2>1 DEF IsServer, ServerFields
  <2> QED BY <1>1, <1>2, <2>1, <2>2 DEF IInv, IsServer
<1>4. CASE server.at # "connected"
  <2>1. /\ IsClient(client) /\ seen <= Len(client.log) /\ net \in Seq(Int) /\ seen \in Nat
        /\ Joint(client, net, seen, s, plan)
    BY <1>2, <1>4 DEF IInv, IsServer
  <2>2. PICK u, t : /\ t \in Seq(Int) /\ Leads(client.log, seen, s, plan, u, t)
                    /\ Stands(client, u, Unused(client) \o (net \o t), plan)
    BY <2>1 DEF Joint
  <2>3. Len(client.log) \in Nat /\ seen < Len(client.log)
    BY <1>1, <2>1 DEF IsClient
  <2> HIDE DEF seen, s, z, r
  <2>4. r \in Seq(Int) /\ \E y \in Seq(Int) : t = r \o y /\ Leads(client.log, seen + 1, z, plan, u, y)
    BY <2>1, <2>2, <2>3, Heard DEF z, r, m, seen
  <2>5. PICK y \in Seq(Int) : t = r \o y /\ Leads(client.log, seen + 1, z, plan, u, y)
    BY <2>4
  <2>6. net \o r \in Seq(Int) /\ net \o (r \o y) = (net \o r) \o y
    <3>1. net \o r \in Seq(Int)
      BY <2>1, <2>4, Joined
    <3>2. (net \o r) \o y = net \o (r \o y)
      BY <2>1, <2>4, <2>5, Associative
    <3> QED BY <3>1, <3>2
  <2>7. Joint(client, net \o r, seen + 1, z, plan)
    BY <2>2, <2>5, <2>6 DEF Joint
  <2>8. s.at = server.at /\ s.version = server.version /\ s.tight = server.tight
    BY DEF s, Party
  <2>9. /\ server' = [f \in ServerFields |-> server'[f]] /\ server'.seen = seen + 1
        /\ Party(server') = z /\ net' = net \o r
    <3>1. CASE m[1] \in ToPage
      <4>1. z = s /\ r = <<>>
        BY <3>1 DEF z, r, After, Reply, Ignored
      <4>2. server' = [server EXCEPT !.seen = @ + 1] /\ net' = net
        BY <1>1, <3>1
      <4>3. /\ server' = [f \in ServerFields |-> server'[f]] /\ server'.seen = seen + 1
            /\ server'.at = server.at /\ server'.version = server.version /\ server'.tight = server.tight
        BY <1>2, <4>2 DEF ServerFields, seen
      <4>4. net \o <<>> = net
        BY <2>1, ConcatEmptySeq
      <4> QED BY <4>1, <4>2, <4>3, <4>4 DEF Party, s
    <3>2. CASE m[1] \notin ToPage
      <4>1. ~Ignored(s, m)
        BY <1>4, <2>8, <3>2 DEF Ignored
      <4>2. HandshakeAnswer(s, plan, m[1], m[2]) = a
        BY SameAnswer DEF s, a
      <4>3. /\ z = [at |-> a.at, version |-> IF m[1] = "version" THEN m[2] ELSE s.version,
                    tight |-> s.tight \/ SettlesTight(plan, m)]
            /\ r = a.bytes
        BY <4>1, <4>2, Zenon DEF z, r, After, Reply
      <4> DEFINE ver == IF m[1] = "version" THEN m[2] ELSE server.version
                 settled == SettlesTight(plan, m)
      <4>4. /\ server' = [server EXCEPT !.seen = @ + 1, !.at = a.at, !.version = ver,
                                        !.tight = @ \/ settled]
            /\ net' = net \o a.bytes
        BY <1>1, <1>4, <3>2
      <4>5. z = [at |-> a.at, version |-> ver, tight |-> server.tight \/ settled]
        BY <2>8, <4>3
      <4> HIDE DEF ver, settled
      <4>6. /\ server' = [f \in ServerFields |-> server'[f]] /\ server'.seen = seen + 1
            /\ server'.at = a.at /\ server'.version = ver /\ server'.tight = (server.tight \/ settled)
        BY <1>2, <4>4 DEF ServerFields, seen
      <4> QED BY <4>3, <4>4, <4>5, <4>6 DEF Party
    <3> QED BY <3>1, <3>2
  <2>10. IsServer(server') /\ seen + 1 <= Len(client.log)
    BY <2>1, <2>3, <2>9 DEF IsServer, ServerFields
  <2> QED BY <1>1, <1>2, <2>1, <2>6, <2>7, <2>9, <2>10 DEF IInv
<1> QED BY <1>3, <1>4

\* The server sends by itself, which it does once connected.
LEMMA PushStep == IInv /\ Push => IInv'
<1> SUFFICES ASSUME IInv, Push PROVE IInv'
  OBVIOUS
<1>1. plan \in Plans /\ IsServer(server) /\ DOMAIN server = ServerFields
  BY DEF IInv, IsServer, ServerFields
<1>2. server.at = "connected" /\ UNCHANGED <<client, plan>> /\ NextBatch
  BY DEF Push
<1>3. server' = [f \in ServerFields |-> server'[f]] /\ server'.at = "connected"
  BY <1>1, <1>2 DEF NextBatch, ServerFields
<1>4. IsServer(server')
  BY <1>3 DEF IsServer, ServerFields
<1> QED BY <1>1, <1>2, <1>3, <1>4 DEF IInv

\* The client gets a message, or its timer runs out.
LEMMA ClientStep == IInv /\ (Deliver \/ ResumeAuthentication) => IInv'
<1> SUFFICES ASSUME IInv, Deliver \/ ResumeAuthentication PROVE IInv'
  OBVIOUS
<1> DEFINE s == Party(server)
           seen == server.seen
<1>1. plan \in Plans /\ IsServer(server) /\ UNCHANGED <<server, plan>>
  BY DEF IInv, Deliver, ResumeAuthentication
<1>2. CASE server.at = "connected"
  BY <1>1, <1>2 DEF IInv
<1>3. CASE server.at # "connected"
  <2>1. Met(client, net, seen, s, plan) /\ net \in Seq(Int) /\ seen \in Nat
    BY <1>1, <1>3 DEF IInv, IsServer, Met
  <2>2. Met(client', net', seen, s, plan) /\ net' \in Seq(Int)
    <3>1. CASE Deliver
      <4>1. net # <<>> /\ client.state # "disconnected"
        BY <3>1 DEF Deliver
      <4>2. PICK n \in Chunks :
              LET k == Min({n, Len(net)})
              IN  /\ client' = HandleMessage(RecvMessage(client, SubSeq(net, 1, k)))
                  /\ net' = SubSeq(net, k + 1, Len(net))
        BY <3>1 DEF Deliver
      <4> DEFINE k == Min({n, Len(net)})
                 a == SubSeq(net, 1, k)
                 b == SubSeq(net, k + 1, Len(net))
      <4>3. k \in 1 .. Len(net)
        <5>1. n \in Nat /\ n # 0
          BY SessionAssumption
        <5>2. Len(net) \in Nat /\ Len(net) # 0
          BY <2>1, <4>1, EmptySeq
        <5>3. k \in {n, Len(net)} /\ k <= Len(net)
          BY <5>1, <5>2, Smaller
        <5> HIDE DEF k
        <5> QED BY <5>1, <5>2, <5>3
      <4>4. client' = HandleMessage(RecvMessage(client, a)) /\ net' = b
        BY <4>2
      <4> HIDE DEF k
      <4>5. a \in Seq(Int) /\ b \in Seq(Int) /\ Len(a) = k /\ net = a \o b
        BY <2>1, <4>3, Cut
      <4>6. Len(a) > 0
        BY <4>3, <4>5
      <4> HIDE DEF a, b
      <4> QED BY <1>1, <2>1, <4>1, <4>4, <4>5, <4>6, DeliverStep
    <3>2. CASE ResumeAuthentication
      <4>1. client.timer /\ client' = InitMsg([client EXCEPT !.timer = FALSE]) /\ net' = net
        BY <3>2 DEF ResumeAuthentication
      <4> HIDE DEF s, seen
      <4>2. Met(InitMsg([client EXCEPT !.timer = FALSE]), net, seen, s, plan)
        BY <1>1, <2>1, <4>1, ResumeStep
      <4> QED BY <2>1, <4>1, <4>2
    <3> QED BY <3>1, <3>2
  <2> QED BY <1>1, <2>2 DEF IInv, Met
<1> QED BY <1>2, <1>3

\* Every step keeps the invariant.
LEMMA InvStep == IInv /\ [Next]_vars => IInv'
<1>1. CASE UNCHANGED vars
  BY <1>1 DEF vars, IInv
<1> QED BY <1>1, ServeStep, PushStep, ClientStep DEF Next

\* A server that is to be confused later is not confused now.
LEMMA InvImplies == IInv => ServerFollows
<1> SUFFICES ASSUME IInv PROVE ServerFollows
  OBVIOUS
<1>1. CASE server.at = "connected"
  BY <1>1, SMT DEF ServerFollows
<1>2. CASE server.at # "connected"
  <2>1. /\ IsClient(client) /\ server.seen <= Len(client.log) /\ server.seen \in Nat
        /\ Joint(client, net, server.seen, Party(server), plan)
    BY <1>2 DEF IInv, IsServer
  <2>2. PICK u, t : Leads(client.log, server.seen, Party(server), plan, u, t)
    BY <2>1 DEF Joint
  <2>3. server.seen \in server.seen .. Len(client.log)
    BY <2>1 DEF IsClient
  <2>4. Party(server).at # "confused"
    BY <2>2, <2>3 DEF Leads, Follows
  <2> QED BY <2>4 DEF Party, ServerFollows
<1> QED BY <1>1, <1>2

\* Whatever the server offers, however its bytes are cut and whenever the
\* page answers, the client never sends the server what it does not wait for
\* (rfb.js: _initMsg and all it calls, _handleMessage, _resumeAuthentication).
THEOREM RfbServerFollows == Spec => []ServerFollows
<1>1. Init => IInv
  BY InvInit
<1>2. IInv /\ [Next]_vars => IInv'
  BY InvStep
<1>3. IInv => ServerFollows
  BY InvImplies
<1> QED BY <1>1, <1>2, <1>3, PTL DEF Spec
=============================================================================
