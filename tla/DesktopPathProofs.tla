------------------------- MODULE DesktopPathProofs -------------------------
(***************************************************************************)
(* Proofs about DesktopPath: four connections and three processes between  *)
(* the browser and the VNC server are one pipe, and a connection that is   *)
(* closed in order has delivered every key.  They hold for any number of   *)
(* keys and updates, any window and any number of faults.                  *)
(***************************************************************************)
EXTENDS DesktopPath, SequenceTheorems, TLAPS

(***************************************************************************)
(* What a stream carries, numbered.  The request and its answer open the   *)
(* two ways, so they come first, as number 1; key i, or update i, is       *)
(* number i + 1.                                                           *)
(***************************************************************************)
EndKinds == {"fin", "rst"}
Late == {"ping", "pong", "close"}

Numbered(x) == x.kind \in {"get", "accept", "data"}
Rank(x) == x.n + 1

Items == {x \in Item : x.kind = "data" <=> x.n # 0}
Flows == [Conns -> [Ways -> Seq(Items)]]

\* The numbers in s are a + 1 to b, in this order; nothing but the end of a
\* stream is in front of number 1.
Carries(s, a, b) ==
    /\ a <= b
    /\ \A i \in 1 .. Len(s) : Numbered(s[i]) => Rank(s[i]) \in a + 1 .. b
    /\ \A m \in a + 1 .. b : \E i \in 1 .. Len(s) : Numbered(s[i]) /\ Rank(s[i]) = m
    /\ \A i, j \in 1 .. Len(s) : i < j /\ Numbered(s[i]) /\ Numbered(s[j]) => Rank(s[i]) < Rank(s[j])
    /\ a = 0 /\ s # <<>> => s[1].kind \notin Late

\* What became of a stream: it carries what it did, or its end is missing.
Same(s, t) == \A a, b \in Nat : Carries(s, a, b) => Carries(t, a, b)
Fades(s, t) == \A a, b \in Nat : Carries(s, a, b) => \E m \in 0 .. b : Carries(t, a, m)

-----------------------------------------------------------------------------
(* Streams.                                                                *)

LEMMA ItemFacts ==
  /\ \A k \in Kinds \ {"data"} : Msg(k) \in Items
  /\ \A i \in Nat \ {0} : Data(i) \in Items /\ Numbered(Data(i)) /\ Rank(Data(i)) = i + 1
  /\ \A x \in Items : x.kind \in Kinds /\ x.n \in Nat /\ (x.kind = "data" <=> x.n # 0)
  /\ \A x \in Items : Numbered(x) \/ x.kind \in Late \/ x.kind \in EndKinds
  /\ \A x \in Items : Rank(x) \in Nat
BY DEF Items, Item, Kinds, Msg, Data, Numbered, Rank, Late, EndKinds

LEMMA CarriesNothing ==
  ASSUME NEW a \in Nat
  PROVE  Carries(<<>>, a, a) /\ Carries(<<Msg("rst")>>, a, a)
BY DEF Carries, Msg, Numbered, Late

LEMMA CarriesSilent ==
  ASSUME NEW s \in Seq(Items), NEW x \in Items, NEW a \in Nat, NEW b \in Nat, Carries(s, a, b),
         ~Numbered(x), x.kind \in Late => b >= 1
  PROVE  Carries(Append(s, x), a, b)
<1> DEFINE t == Append(s, x)
<1>1. Len(t) = Len(s) + 1 /\ Len(s) \in Nat /\ t[Len(t)] = x /\ \A i \in 1 .. Len(s) : t[i] = s[i]
  OBVIOUS
<1>2. s = <<>> => Len(s) = 0
  OBVIOUS
<1>3. a = 0 /\ s = <<>> => b = 0
  <2> SUFFICES ASSUME a = 0, s = <<>>, b # 0 PROVE FALSE
    OBVIOUS
  <2>1. 1 \in a + 1 .. b
    OBVIOUS
  <2> QED
    BY <1>2, <2>1 DEF Carries
<1> HIDE DEF t
<1>4. \A i \in 1 .. Len(t) : Numbered(t[i]) => i \in 1 .. Len(s) /\ t[i] = s[i]
  BY <1>1
<1>5. \A i \in 1 .. Len(s) : i \in 1 .. Len(t) /\ t[i] = s[i]
  BY <1>1
<1>6. a <= b
  BY DEF Carries
<1>7. \A i \in 1 .. Len(t) : Numbered(t[i]) => Rank(t[i]) \in a + 1 .. b
  BY <1>4 DEF Carries
<1>8. \A m \in a + 1 .. b : \E i \in 1 .. Len(t) : Numbered(t[i]) /\ Rank(t[i]) = m
  BY <1>5 DEF Carries
<1>9. \A i, j \in 1 .. Len(t) : i < j /\ Numbered(t[i]) /\ Numbered(t[j]) => Rank(t[i]) < Rank(t[j])
  BY <1>4 DEF Carries
<1>10. a = 0 => t[1].kind \notin Late
  <2>1. CASE s = <<>>
    BY <1>1, <1>2, <1>3, <2>1
  <2>2. CASE s # <<>>
    <3>1. 1 \in 1 .. Len(s)
      BY <2>2
    <3> QED
      BY <1>5, <2>2, <3>1 DEF Carries
  <2> QED
    BY <2>1, <2>2
<1> QED
  BY <1>6, <1>7, <1>8, <1>9, <1>10 DEF Carries, t

LEMMA CarriesNext ==
  ASSUME NEW s \in Seq(Items), NEW x \in Items, NEW a \in Nat, NEW b \in Nat, Carries(s, a, b),
         Numbered(x), Rank(x) = b + 1
  PROVE  Carries(Append(s, x), a, b + 1)
<1> DEFINE t == Append(s, x)
<1>1. Len(t) = Len(s) + 1 /\ Len(s) \in Nat /\ t[Len(t)] = x /\ \A i \in 1 .. Len(s) : t[i] = s[i]
  OBVIOUS
<1>2. s = <<>> => Len(s) = 0
  OBVIOUS
<1> HIDE DEF t
<1>3. \A i \in 1 .. Len(t) : (i \in 1 .. Len(s) /\ t[i] = s[i]) \/ (i = Len(t) /\ t[i] = x)
  BY <1>1
<1>4. \A i \in 1 .. Len(s) : i \in 1 .. Len(t) /\ t[i] = s[i]
  BY <1>1
<1>5. a <= b + 1
  BY DEF Carries
<1>6. \A i \in 1 .. Len(t) : Numbered(t[i]) => Rank(t[i]) \in a + 1 .. b + 1
  <2> TAKE i \in 1 .. Len(t)
  <2>1. CASE i \in 1 .. Len(s) /\ t[i] = s[i]
    BY <2>1 DEF Carries
  <2>2. CASE t[i] = x
    BY <2>2 DEF Carries
  <2> QED
    BY <1>3, <2>1, <2>2
<1>7. \A m \in a + 1 .. b + 1 : \E i \in 1 .. Len(t) : Numbered(t[i]) /\ Rank(t[i]) = m
  <2> TAKE m \in a + 1 .. b + 1
  <2>1. CASE m = b + 1
    BY <1>1, <2>1
  <2>2. CASE m # b + 1
    <3>1. m \in a + 1 .. b
      BY <2>2
    <3> QED
      BY <1>4, <3>1 DEF Carries
  <2> QED
    BY <2>1, <2>2
<1>8. \A i, j \in 1 .. Len(t) : i < j /\ Numbered(t[i]) /\ Numbered(t[j]) => Rank(t[i]) < Rank(t[j])
  <2> SUFFICES ASSUME NEW i \in 1 .. Len(t), NEW j \in 1 .. Len(t),
                      i < j, Numbered(t[i]), Numbered(t[j])
               PROVE  Rank(t[i]) < Rank(t[j])
    OBVIOUS
  <2>1. i \in 1 .. Len(s) /\ t[i] = s[i]
    BY <1>1
  <2>2. CASE j \in 1 .. Len(s) /\ t[j] = s[j]
    BY <2>1, <2>2 DEF Carries
  <2>3. CASE t[j] = x
    <3>1. Rank(s[i]) \in a + 1 .. b
      BY <2>1 DEF Carries
    <3> QED
      BY <2>1, <2>3, <3>1
  <2> QED
    BY <1>3, <2>2, <2>3
<1>9. a = 0 => t[1].kind \notin Late
  <2>1. CASE s = <<>>
    BY <1>1, <1>2, <2>1 DEF Numbered, Late
  <2>2. CASE s # <<>>
    <3>1. 1 \in 1 .. Len(s)
      BY <2>2
    <3> QED
      BY <1>4, <2>2, <3>1 DEF Carries
  <2> QED
    BY <2>1, <2>2
<1> QED
  BY <1>5, <1>6, <1>7, <1>8, <1>9 DEF Carries, t

LEMMA CarriesTail ==
  ASSUME NEW s \in Seq(Items), NEW a \in Nat, NEW b \in Nat, Carries(s, a, b), s # <<>>,
         Head(s).kind \notin EndKinds
  PROVE  /\ Numbered(Head(s)) => Rank(Head(s)) = a + 1 /\ Carries(Tail(s), a + 1, b)
         /\ ~Numbered(Head(s)) => a >= 1 /\ Carries(Tail(s), a, b)
<1> DEFINE t == Tail(s)
<1>1. /\ Len(s) \in Nat /\ Len(s) >= 1 /\ Len(t) = Len(s) - 1 /\ Head(s) = s[1] /\ s[1] \in Items
      /\ \A i \in 1 .. Len(t) : t[i] = s[i + 1]
      /\ t \in Seq(Items)
  OBVIOUS
<1> HIDE DEF t
<1>2. \A i \in 1 .. Len(t) : i + 1 \in 1 .. Len(s) /\ t[i] = s[i + 1]
  BY <1>1
<1>3. \A i \in 1 .. Len(s) : i # 1 => i - 1 \in 1 .. Len(t) /\ t[i - 1] = s[i]
  BY <1>1
<1>4. \A i, j \in 1 .. Len(t) : i < j /\ Numbered(t[i]) /\ Numbered(t[j]) => Rank(t[i]) < Rank(t[j])
  <2> SUFFICES ASSUME NEW i \in 1 .. Len(t), NEW j \in 1 .. Len(t),
                      i < j, Numbered(t[i]), Numbered(t[j])
               PROVE  Rank(t[i]) < Rank(t[j])
    OBVIOUS
  <2>1. i + 1 \in 1 .. Len(s) /\ j + 1 \in 1 .. Len(s) /\ i + 1 < j + 1
    BY <1>2
  <2>2. t[i] = s[i + 1] /\ t[j] = s[j + 1]
    BY <1>2
  <2> QED
    BY <2>1, <2>2 DEF Carries
<1>5. CASE Numbered(s[1])
  <2>1. Rank(s[1]) \in a + 1 .. b /\ 1 \in 1 .. Len(s)
    BY <1>1, <1>5 DEF Carries
  <2>2. Rank(s[1]) = a + 1
    <3>1. a + 1 \in a + 1 .. b
      BY <2>1
    <3>2. PICK i \in 1 .. Len(s) : Numbered(s[i]) /\ Rank(s[i]) = a + 1
      BY <3>1 DEF Carries
    <3>3. i # 1 => Rank(s[1]) < Rank(s[i])
      BY <1>5, <2>1, <3>2 DEF Carries
    <3> QED
      BY <2>1, <3>2, <3>3
  <2>3. \A i \in 1 .. Len(t) : Numbered(t[i]) => Rank(t[i]) \in a + 2 .. b
    <3> TAKE i \in 1 .. Len(t)
    <3> HAVE Numbered(t[i])
    <3>1. t[i] = s[i + 1] /\ i + 1 \in 1 .. Len(s) /\ 1 < i + 1
      BY <1>2
    <3>2. Rank(s[i + 1]) \in a + 1 .. b
      BY <3>1 DEF Carries
    <3>3. Rank(s[1]) < Rank(s[i + 1])
      BY <1>5, <2>1, <3>1 DEF Carries
    <3> QED
      BY <2>2, <3>1, <3>2, <3>3
  <2>4. \A m \in a + 2 .. b : \E i \in 1 .. Len(t) : Numbered(t[i]) /\ Rank(t[i]) = m
    <3> TAKE m \in a + 2 .. b
    <3>1. m \in a + 1 .. b /\ m # a + 1
      OBVIOUS
    <3>2. PICK i \in 1 .. Len(s) : Numbered(s[i]) /\ Rank(s[i]) = m
      BY <3>1 DEF Carries
    <3>3. i # 1
      BY <2>2, <3>1, <3>2
    <3> QED
      BY <1>3, <3>2, <3>3
  <2>5. a + 1 <= b /\ a + 1 # 0 /\ (a + 1) + 1 = a + 2
    BY <2>1
  <2>6. Carries(t, a + 1, b)
    BY <1>4, <2>3, <2>4, <2>5 DEF Carries
  <2> QED
    BY <1>1, <1>5, <2>2, <2>6 DEF t
<1>6. CASE ~Numbered(s[1])
  <2>1. s[1].kind \in Late
    BY <1>1, <1>6, ItemFacts
  <2>2. a # 0
    BY <2>1 DEF Carries
  <2>3. \A i \in 1 .. Len(t) : Numbered(t[i]) => Rank(t[i]) \in a + 1 .. b
    BY <1>2 DEF Carries
  <2>4. \A m \in a + 1 .. b : \E i \in 1 .. Len(t) : Numbered(t[i]) /\ Rank(t[i]) = m
    <3> TAKE m \in a + 1 .. b
    <3>1. PICK i \in 1 .. Len(s) : Numbered(s[i]) /\ Rank(s[i]) = m
      BY DEF Carries
    <3>2. i # 1
      BY <1>6, <3>1
    <3> QED
      BY <1>3, <3>1, <3>2
  <2>5. a <= b
    BY DEF Carries
  <2>6. Carries(t, a, b)
    BY <1>4, <2>2, <2>3, <2>4, <2>5 DEF Carries
  <2> QED
    BY <1>1, <1>6, <2>2, <2>6 DEF t
<1> QED
  BY <1>5, <1>6

LEMMA FrontFacts ==
  ASSUME NEW s \in Seq(Items), Len(s) >= 1
  PROVE  /\ SubSeq(s, 1, Len(s) - 1) \in Seq(Items)
         /\ Len(SubSeq(s, 1, Len(s) - 1)) = Len(s) - 1
         /\ \A i \in 1 .. Len(SubSeq(s, 1, Len(s) - 1)) : SubSeq(s, 1, Len(s) - 1)[i] = s[i]
<1> DEFINE n == Len(s) - 1
<1>1. n \in Nat /\ 1 \in Int /\ n \in Int /\ \A i \in 1 .. n : s[i] \in Items
  OBVIOUS
<1> HIDE DEF n
<1>2. /\ SubSeq(s, 1, n) \in Seq(Items)
      /\ Len(SubSeq(s, 1, n)) = IF 1 <= n THEN n - 1 + 1 ELSE 0
      /\ \A i \in 1 .. n - 1 + 1 : SubSeq(s, 1, n)[i] = s[1 + i - 1]
  BY <1>1, SubSeqProperties
<1>3. Len(SubSeq(s, 1, n)) = n
  BY <1>1, <1>2
<1>4. \A i \in 1 .. n : SubSeq(s, 1, n)[i] = s[i]
  <2> TAKE i \in 1 .. n
  <2>1. i \in 1 .. n - 1 + 1 /\ 1 + i - 1 = i
    BY <1>1
  <2> QED
    BY <1>2, <2>1
<1> QED
  BY <1>2, <1>3, <1>4 DEF n

\* A stream that breaks after it has ended carries what it did.
LEMMA CarriesBroken ==
  ASSUME NEW s \in Seq(Items), NEW a \in Nat, NEW b \in Nat, Carries(s, a, b), Ended(s)
  PROVE  /\ Append(SubSeq(s, 1, Len(s) - 1), Msg("rst")) \in Seq(Items)
         /\ Carries(Append(SubSeq(s, 1, Len(s) - 1), Msg("rst")), a, b)
<1> DEFINE f == SubSeq(s, 1, Len(s) - 1)
<1> DEFINE t == Append(f, Msg("rst"))
<1>1. Len(s) \in Nat /\ Len(s) >= 1
  BY DEF Ended
<1>12. s # <<>> /\ ~Numbered(s[Len(s)])
  BY DEF Ended, Numbered
<1>2. f \in Seq(Items) /\ Len(f) = Len(s) - 1 /\ \A i \in 1 .. Len(f) : f[i] = s[i]
  BY <1>1, FrontFacts
<1>3. Msg("rst") \in Items /\ ~Numbered(Msg("rst")) /\ Msg("rst").kind \notin Late
  BY ItemFacts DEF Msg, Kinds, Numbered, Late
<1> HIDE DEF f
<1>4. t \in Seq(Items) /\ Len(t) = Len(s) /\ t[Len(s)] = Msg("rst") /\ \A i \in 1 .. Len(s) - 1 : t[i] = s[i]
  BY <1>1, <1>2, <1>3
<1> HIDE DEF t
<1>5. \A i \in 1 .. Len(t) : Numbered(t[i]) => i \in 1 .. Len(s) /\ t[i] = s[i]
  BY <1>3, <1>4
<1>6. \A i \in 1 .. Len(s) : Numbered(s[i]) => i \in 1 .. Len(t) /\ t[i] = s[i]
  BY <1>1, <1>4, <1>12
<1>7. a <= b
  BY DEF Carries
<1>8. \A i \in 1 .. Len(t) : Numbered(t[i]) => Rank(t[i]) \in a + 1 .. b
  BY <1>5 DEF Carries
<1>9. \A m \in a + 1 .. b : \E i \in 1 .. Len(t) : Numbered(t[i]) /\ Rank(t[i]) = m
  BY <1>6 DEF Carries
<1>10. \A i, j \in 1 .. Len(t) : i < j /\ Numbered(t[i]) /\ Numbered(t[j]) => Rank(t[i]) < Rank(t[j])
  BY <1>5 DEF Carries
<1>11. a = 0 => t[1].kind \notin Late
  <2>1. CASE Len(s) = 1
    BY <1>3, <1>4, <2>1
  <2>2. CASE Len(s) # 1
    <3>1. 1 \in 1 .. Len(s) - 1 /\ 1 \in 1 .. Len(s)
      <4>1. \A n \in Nat : n >= 1 /\ n # 1 => 1 \in 1 .. n - 1 /\ 1 \in 1 .. n
        OBVIOUS
      <4> QED
        BY <1>1, <2>2, <4>1
    <3> QED
      BY <1>4, <1>12, <3>1 DEF Carries
  <2> QED
    BY <2>1, <2>2
<1> QED
  BY <1>4, <1>7, <1>8, <1>9, <1>10, <1>11 DEF Carries, t, f

LEMMA CarriesNone ==
  ASSUME NEW s, NEW a \in Nat, NEW b \in Nat, Carries(s, a, b),
         \A i \in 1 .. Len(s) : ~Numbered(s[i])
  PROVE  a = b
<1>1. a <= b
  BY DEF Carries
<1>2. ASSUME a # b PROVE FALSE
  <2>1. a + 1 \in a + 1 .. b
    BY <1>1, <1>2
  <2>2. PICK i \in 1 .. Len(s) : Numbered(s[i]) /\ Rank(s[i]) = a + 1
    BY <2>1 DEF Carries
  <2> QED
    BY <2>2
<1> QED
  BY <1>2

-----------------------------------------------------------------------------
(* Stations: browser (0), forwarder (1), tunnel (2), bridge (3), VNC server *)
(* (4).  Station j reads way w on connection From(j, w) and writes it on    *)
(* connection Onto(j, w).                                                   *)

Stations == 0 .. 4
Reader(c, w) == IF w = "up" THEN c + 1 ELSE c
Writer(c, w) == IF w = "up" THEN c ELSE c + 1

\* Station j still passes way w on; once it has stopped it never does again.
Passing(j, w) ==
    /\ j = 0 => browser # "closed"
    /\ j \in Copies => node[j] # "gone"
    /\ j = 3 => web # "gone"
    /\ j = 4 => vnc # "closed"
    /\ j \in 1 .. 3 => w \notin half[j]

\* What j reads of way w can still arrive at its end.
Onward(j, w) == IF w = "up" THEN j .. 4 ELSE 0 .. j
Reaches(j, w) == \A k \in Onward(j, w) : Passing(k, w)

Source(w) == IF w = "up" THEN "client" ELSE "agent"

\* The highest number sent so far, and how many requests the bridge has seen.
Top(w) == sent[Source(w)] + 1
Greeted == IF web \in {"idle", "http"} THEN 0 ELSE 1

\* num[j] is the highest number station j has passed on.  What is in flight
\* starts with the next number of the reader; it stops at the writer's, but
\* what a writer that has gone left may stop before that.
Holds(c, w, num) ==
    Reaches(Reader(c, w), w) =>
        \E m \in 0 .. Top(w) :
            /\ Carries(flow[c][w], num[Reader(c, w)], m)
            /\ Reaches(Writer(c, w), w) => m = num[Writer(c, w)]

Chain(w, num) == \A c \in Conns : Holds(c, w, num)

\* What a step never takes back.
OneWay ==
    /\ \A j \in Stations, w \in Ways : Passing(j, w)' => Passing(j, w)
    /\ \A w \in Ways : Top(w) \in Nat /\ Top(w)' \in Nat /\ Top(w) <= Top(w)'

\* The stream is what it was for a reader that still passes it on.
Keeps(c, w) ==
    \/ ~Passing(Reader(c, w), w)'
    \/ Same(flow[c][w], flow'[c][w])
    \/ ~Passing(Writer(c, w), w)' /\ Fades(flow[c][w], flow'[c][w])

LEMMA ConnStations ==
  ASSUME NEW c \in Conns, NEW w \in Ways
  PROVE  /\ Reader(c, w) \in Stations /\ Writer(c, w) \in Stations
         /\ Reader(c, w) # Writer(c, w)
         /\ Reader(c, w) = Writer(c, Rev(w)) /\ Writer(c, w) = Reader(c, Rev(w))
         /\ Rev(w) \in Ways /\ Rev(w) # w /\ Rev(Rev(w)) = w
         /\ Onward(Writer(c, w), w) = {Writer(c, w)} \cup Onward(Reader(c, w), w)
         /\ Reader(c, w) \in Onward(Reader(c, w), w)
         /\ Onward(Reader(c, w), w) \subseteq Stations
BY DEF Conns, Ways, Stations, Reader, Writer, Rev, Onward

LEMMA StationConns ==
  ASSUME NEW j \in 1 .. 3, NEW w \in Ways
  PROVE  /\ From(j, w) \in Conns /\ Onto(j, w) \in Conns /\ From(j, w) # Onto(j, w)
         /\ Reader(From(j, w), w) = j /\ Writer(Onto(j, w), w) = j
         /\ \A c \in Conns : Reader(c, w) = j => c = From(j, w)
         /\ \A c \in Conns : Writer(c, w) = j => c = Onto(j, w)
         /\ From(j, Rev(w)) = Onto(j, w) /\ Onto(j, Rev(w)) = From(j, w)
BY DEF Conns, Ways, From, Onto, Reader, Writer, Rev

LEMMA ReachesNext ==
  ASSUME NEW c \in Conns, NEW w \in Ways
  PROVE  /\ Reaches(Writer(c, w), w) <=> Passing(Writer(c, w), w) /\ Reaches(Reader(c, w), w)
         /\ Reaches(Reader(c, w), w) => Passing(Reader(c, w), w)
BY ConnStations DEF Reaches

LEMMA ReachesStays ==
  ASSUME OneWay, NEW j \in Stations, NEW w \in Ways, Reaches(j, w)'
  PROVE  Reaches(j, w)
<1>1. Onward(j, w) \subseteq Stations
  BY DEF Onward, Stations, Ways
<1>2. ASSUME NEW k \in Onward(j, w) PROVE Passing(k, w)
  <2>1. Passing(k, w)'
    BY DEF Reaches
  <2> QED
    BY <1>1, <2>1 DEF OneWay
<1> QED
  BY <1>2 DEF Reaches

\* A step that keeps a stream keeps what it carries.
LEMMA HoldsKept ==
  ASSUME OneWay, NEW c \in Conns, NEW w \in Ways, Keeps(c, w),
         NEW num \in [Stations -> Nat], Holds(c, w, num),
         NEW new \in [Stations -> Nat],
         new[Reader(c, w)] = num[Reader(c, w)],
         Passing(Writer(c, w), w)' => new[Writer(c, w)] = num[Writer(c, w)]
  PROVE  Holds(c, w, new)'
<1> DEFINE r == Reader(c, w)
<1> DEFINE p == Writer(c, w)
<1>1. r \in Stations /\ p \in Stations /\ num[r] \in Nat
  BY ConnStations
<1>2. SUFFICES ASSUME Reaches(r, w)'
               PROVE  \E m \in 0 .. Top(w)' :
                         /\ Carries(flow'[c][w], num[r], m)
                         /\ Reaches(p, w)' => m = new[p]
  BY DEF Holds
<1>3. Reaches(r, w) /\ Passing(r, w)'
  BY <1>1, <1>2, ReachesStays, ConnStations DEF Reaches
<1>4. PICK m \in 0 .. Top(w) : /\ Carries(flow[c][w], num[r], m)
                               /\ Reaches(p, w) => m = num[p]
  BY <1>3 DEF Holds
<1>5. m \in Nat /\ 0 .. m \subseteq 0 .. Top(w)' /\ m \in 0 .. Top(w)'
  BY <1>4 DEF OneWay
<1>6. CASE Same(flow[c][w], flow'[c][w])
  <2>1. Carries(flow'[c][w], num[r], m)
    BY <1>1, <1>4, <1>5, <1>6 DEF Same
  <2>2. ASSUME Reaches(p, w)' PROVE m = new[p]
    <3>1. Reaches(p, w) /\ Passing(p, w)'
      BY <1>1, <2>2, ReachesStays, ConnStations DEF Reaches
    <3> QED
      BY <1>4, <3>1
  <2> QED
    BY <1>5, <2>1, <2>2
<1>7. CASE ~Passing(p, w)' /\ Fades(flow[c][w], flow'[c][w])
  <2>1. PICK k \in 0 .. m : Carries(flow'[c][w], num[r], k)
    BY <1>1, <1>4, <1>5, <1>7 DEF Fades
  <2>2. ~Reaches(p, w)'
    BY <1>7, ConnStations DEF Reaches
  <2> QED
    BY <1>5, <2>1, <2>2
<1> QED
  BY <1>3, <1>6, <1>7 DEF Keeps

\* The reader takes the first item: it has then passed it on.
Taken(c, w, num, new) ==
    /\ new[Reader(c, w)] = IF Numbered(Head(flow[c][w])) THEN Rank(Head(flow[c][w]))
                                                        ELSE num[Reader(c, w)]
    /\ new[Writer(c, w)] = num[Writer(c, w)]

Pops(c, w) ==
    /\ flow[c][w] # <<>> /\ Head(flow[c][w]).kind \notin EndKinds
    /\ \/ flow'[c][w] = Tail(flow[c][w])
       \/ ~Passing(Writer(c, w), w)' /\ Fades(Tail(flow[c][w]), flow'[c][w])

\* What the reader finds is the number it expects, and none that was not sent.
LEMMA PopFacts ==
  ASSUME OneWay, NEW c \in Conns, NEW w \in Ways, flow[c][w] \in Seq(Items), Pops(c, w),
         NEW num \in [Stations -> Nat], Holds(c, w, num), Reaches(Reader(c, w), w)
  PROVE  /\ Numbered(Head(flow[c][w])) => /\ Rank(Head(flow[c][w])) = num[Reader(c, w)] + 1
                                          /\ Rank(Head(flow[c][w])) <= Top(w)
         /\ ~Numbered(Head(flow[c][w])) => num[Reader(c, w)] >= 1
<1> DEFINE s == flow[c][w]
<1> DEFINE r == Reader(c, w)
<1>1. r \in Stations /\ num[r] \in Nat
  BY ConnStations
<1>2. PICK m \in 0 .. Top(w) : Carries(s, num[r], m)
  BY DEF Holds
<1>3. m \in Nat /\ m <= Top(w) /\ Top(w) \in Nat
  BY <1>2 DEF OneWay
<1>4. s \in Seq(Items) /\ s # <<>> /\ Head(s).kind \notin EndKinds
  BY DEF Pops
<1>5. /\ Numbered(Head(s)) => Rank(Head(s)) = num[r] + 1 /\ Carries(Tail(s), num[r] + 1, m)
      /\ ~Numbered(Head(s)) => num[r] >= 1
  <2> HIDE DEF s, r
  <2> QED
    BY <1>1, <1>2, <1>3, <1>4, CarriesTail
<1>6. Numbered(Head(s)) => num[r] + 1 <= m
  BY <1>5 DEF Carries
<1>7. ASSUME Numbered(Head(s)) PROVE Rank(Head(s)) <= Top(w)
  <2>1. Rank(Head(s)) = num[r] + 1 /\ num[r] + 1 <= m
    BY <1>5, <1>6, <1>7
  <2> QED
    BY <1>1, <1>3, <2>1
<1> QED
  BY <1>5, <1>7

LEMMA HoldsPopped ==
  ASSUME OneWay, NEW c \in Conns, NEW w \in Ways, flow[c][w] \in Seq(Items), Pops(c, w),
         NEW num \in [Stations -> Nat], Holds(c, w, num),
         NEW new \in [Stations -> Nat], Taken(c, w, num, new)
  PROVE  Holds(c, w, new)'
<1> DEFINE s == flow[c][w]
<1> DEFINE t == flow'[c][w]
<1> DEFINE r == Reader(c, w)
<1> DEFINE p == Writer(c, w)
<1>1. r \in Stations /\ p \in Stations /\ num[r] \in Nat /\ new[r] \in Nat
  BY ConnStations
<1>2. SUFFICES ASSUME Reaches(r, w)'
               PROVE  \E m \in 0 .. Top(w)' :
                         /\ Carries(t, new[r], m)
                         /\ Reaches(p, w)' => m = new[p]
  BY DEF Holds
<1>3. Reaches(r, w)
  BY <1>1, <1>2, ReachesStays
<1>4. PICK m \in 0 .. Top(w) : /\ Carries(s, num[r], m)
                               /\ Reaches(p, w) => m = num[p]
  BY <1>3 DEF Holds
<1>5. m \in Nat /\ 0 .. m \subseteq 0 .. Top(w)' /\ m \in 0 .. Top(w)'
  BY <1>4 DEF OneWay
<1>6. s \in Seq(Items) /\ s # <<>> /\ Head(s).kind \notin EndKinds
  BY DEF Pops
<1>7. /\ Numbered(Head(s)) => Rank(Head(s)) = num[r] + 1 /\ Carries(Tail(s), num[r] + 1, m)
      /\ ~Numbered(Head(s)) => Carries(Tail(s), num[r], m)
  <2> HIDE DEF s, r
  <2> QED
    BY <1>1, <1>4, <1>5, <1>6, CarriesTail
<1>8. /\ Numbered(Head(s)) => new[r] = Rank(Head(s))
      /\ ~Numbered(Head(s)) => new[r] = num[r]
      /\ new[p] = num[p]
  BY DEF Taken
<1>9. Carries(Tail(s), new[r], m)
  BY <1>7, <1>8
<1>10. CASE t = Tail(s)
  <2>1. ASSUME Reaches(p, w)' PROVE m = new[p]
    <3>1. Reaches(p, w)
      BY <1>1, <2>1, ReachesStays
    <3> QED
      BY <1>4, <1>8, <3>1
  <2> QED
    BY <1>5, <1>9, <1>10, <2>1
<1>11. CASE ~Passing(p, w)' /\ Fades(Tail(s), t)
  <2>1. PICK k \in 0 .. m : Carries(t, new[r], k)
    BY <1>1, <1>5, <1>9, <1>11 DEF Fades
  <2>2. ~Reaches(p, w)'
    BY <1>11, ConnStations DEF Reaches
  <2> QED
    BY <1>5, <2>1, <2>2
<1> QED
  BY <1>10, <1>11 DEF Pops

\* A station writes x, the next number or an item without one.
Follows(c, w, x, num, new) ==
    /\ Numbered(x) => Rank(x) = num[Writer(c, w)] + 1 /\ Rank(x) <= Top(w)'
                      /\ new[Writer(c, w)] = Rank(x)
    /\ ~Numbered(x) => new[Writer(c, w)] = num[Writer(c, w)]
    /\ x.kind \in Late => num[Writer(c, w)] >= 1

LEMMA HoldsPushed ==
  ASSUME OneWay, NEW c \in Conns, NEW w \in Ways, flow[c][w] \in Seq(Items), NEW x \in Items,
         flow'[c][w] = Append(flow[c][w], x) \/ ~Passing(Reader(c, w), w)',
         NEW num \in [Stations -> Nat], Holds(c, w, num), Passing(Writer(c, w), w),
         NEW new \in [Stations -> Nat], new[Reader(c, w)] = num[Reader(c, w)],
         Reaches(Writer(c, w), w) => Follows(c, w, x, num, new)
  PROVE  Holds(c, w, new)'
<1> DEFINE s == flow[c][w]
<1> DEFINE t == flow'[c][w]
<1> DEFINE r == Reader(c, w)
<1> DEFINE p == Writer(c, w)
<1>1. r \in Stations /\ p \in Stations /\ num[r] \in Nat /\ new[r] \in Nat /\ num[p] \in Nat
  BY ConnStations
<1>2. SUFFICES ASSUME Reaches(r, w)'
               PROVE  \E m \in 0 .. Top(w)' :
                         /\ Carries(t, new[r], m)
                         /\ Reaches(p, w)' => m = new[p]
  BY DEF Holds
<1>3. Reaches(r, w) /\ Passing(r, w)'
  BY <1>1, <1>2, ReachesStays, ConnStations DEF Reaches
<1>4. Reaches(p, w)
  BY <1>3, ReachesNext
<1>5. num[p] \in 0 .. Top(w) /\ Carries(s, num[r], num[p])
  BY <1>3, <1>4 DEF Holds
<1>6. Follows(c, w, x, num, new) /\ s \in Seq(Items)
  BY <1>4
<1>7. t = Append(s, x)
  BY <1>3
<1>8. CASE Numbered(x)
  <2>1. Rank(x) = num[p] + 1 /\ Rank(x) <= Top(w)' /\ new[p] = num[p] + 1
    BY <1>6, <1>8 DEF Follows
  <2>2. Carries(t, num[r], num[p] + 1)
    <3> HIDE DEF s, t, r, p
    <3> QED
      BY <1>1, <1>5, <1>6, <1>7, <1>8, <2>1, CarriesNext
  <2>3. num[p] + 1 \in 0 .. Top(w)'
    BY <1>1, <2>1 DEF OneWay
  <2> QED
    BY <2>1, <2>2, <2>3
<1>9. CASE ~Numbered(x)
  <2>1. new[p] = num[p] /\ (x.kind \in Late => num[p] >= 1)
    BY <1>6, <1>9 DEF Follows
  <2>2. Carries(t, num[r], num[p])
    <3> HIDE DEF s, t, r, p
    <3> QED
      BY <1>1, <1>5, <1>6, <1>7, <1>9, <2>1, CarriesSilent
  <2>3. num[p] \in 0 .. Top(w)'
    BY <1>1, <1>5 DEF OneWay
  <2> QED
    BY <2>1, <2>2, <2>3
<1> QED
  BY <1>8, <1>9

-----------------------------------------------------------------------------
(* What writes and closed sockets do to the streams.                        *)

LEMMA SameFades ==
  ASSUME NEW s, NEW t, Same(s, t)
  PROVE  Fades(s, t)
<1> SUFFICES ASSUME NEW a \in Nat, NEW b \in Nat, Carries(s, a, b)
             PROVE  \E m \in 0 .. b : Carries(t, a, m)
  BY DEF Fades
<1>1. Carries(t, a, b) /\ b \in 0 .. b
  BY DEF Same
<1> QED
  BY <1>1

LEMMA SameSame == ASSUME NEW s PROVE Same(s, s) /\ Fades(s, s)
BY SameFades DEF Same

LEMMA FadesNothing == ASSUME NEW s PROVE Fades(s, <<>>) /\ Fades(s, <<Msg("rst")>>)
<1> SUFFICES ASSUME NEW a \in Nat, NEW b \in Nat, Carries(s, a, b)
             PROVE  /\ \E m \in 0 .. b : Carries(<<>>, a, m)
                    /\ \E m \in 0 .. b : Carries(<<Msg("rst")>>, a, m)
  BY DEF Fades
<1>1. a \in 0 .. b
  BY DEF Carries
<1> QED
  BY <1>1, CarriesNothing

LEMMA SameEnd ==
  ASSUME NEW s \in Seq(Items), NEW k \in EndKinds
  PROVE  Append(s, Msg(k)) \in Seq(Items) /\ Same(s, Append(s, Msg(k))) /\ Fades(s, Append(s, Msg(k)))
<1>1. Msg(k) \in Items /\ ~Numbered(Msg(k)) /\ Msg(k).kind \notin Late
  BY DEF Items, Item, Msg, Kinds, Numbered, Late, EndKinds
<1>2. Append(s, Msg(k)) \in Seq(Items)
  BY <1>1
<1>3. Same(s, Append(s, Msg(k)))
  BY <1>1, CarriesSilent DEF Same
<1> QED
  BY <1>2, <1>3, SameFades

LEMMA BrokenFades ==
  ASSUME NEW c, NEW s \in Seq(Items), NEW t \in Broken(c, s)
  PROVE  t \in Seq(Items) /\ Fades(s, t)
<1>1. CASE t = <<Msg("rst")>>
  <2>1. Msg("rst") \in Items
    BY DEF Items, Item, Msg, Kinds
  <2> QED
    BY <1>1, <2>1, FadesNothing
<1>2. CASE Ended(s) /\ t = Append(SubSeq(s, 1, Len(s) - 1), Msg("rst"))
  <2>1. Same(s, t)
    BY <1>2, CarriesBroken DEF Same
  <2>2. Carries(<<>>, 0, 0) => TRUE
    OBVIOUS
  <2>3. t \in Seq(Items)
    <3>1. Len(s) >= 1
      BY <1>2 DEF Ended
    <3>2. SubSeq(s, 1, Len(s) - 1) \in Seq(Items)
      BY <3>1, FrontFacts
    <3>3. Msg("rst") \in Items
      BY DEF Items, Item, Msg, Kinds
    <3> QED
      BY <1>2, <3>2, <3>3
  <2> QED
    BY <2>1, <2>3, SameFades
<1>3. CASE t = Append(s, Msg("rst"))
  BY <1>3, SameEnd DEF EndKinds
<1> QED
  BY <1>1, <1>2, <1>3 DEF Broken

Edit(f, c, w, s) == [f EXCEPT ![c][w] = s]

LEMMA FlowEdit ==
  ASSUME NEW f \in Flows, NEW c \in Conns, NEW w \in Ways, NEW s \in Seq(Items),
         NEW g, g = Edit(f, c, w, s)
  PROVE  /\ g \in Flows /\ g[c][w] = s
         /\ \A v \in Ways : v # w => g[c][v] = f[c][v]
         /\ \A d \in Conns : d # c => g[d] = f[d]
BY DEF Flows, Edit

\* What a write to connection c leaves: the item at the end of the stream,
\* or nothing and a broken stream the other way.
Written(f, g, c, w, x) ==
    /\ g \in Flows
    /\ \A d \in Conns : d # c => g[d] = f[d]
    /\ \/ /\ g[c][w] = Append(f[c][w], x)
          /\ g[c][Rev(w)] = f[c][Rev(w)]
       \/ /\ Deaf(c, w)
          /\ g[c][w] = f[c][w]
          /\ Fades(f[c][Rev(w)], g[c][Rev(w)])

LEMMA PutsFacts ==
  ASSUME NEW f \in Flows, NEW c \in Conns, NEW w \in Ways, NEW x \in Items, NEW g \in Puts(f, c, w, x)
  PROVE  Written(f, g, c, w, x)
<1>1. Rev(w) \in Ways /\ Rev(w) # w
  BY ConnStations
<1>2. f[c][w] \in Seq(Items) /\ f[c][Rev(w)] \in Seq(Items)
  BY <1>1 DEF Flows
<1>3. CASE Deaf(c, w) /\ ~(c = 1 /\ cut)
  <2>1. PICK s \in Broken(c, f[c][Rev(w)]) : g = Edit(f, c, Rev(w), s)
    BY <1>3 DEF Puts, Edit
  <2>2. s \in Seq(Items) /\ Fades(f[c][Rev(w)], s)
    BY <1>2, BrokenFades
  <2>3. /\ g \in Flows /\ g[c][Rev(w)] = s /\ g[c][w] = f[c][w]
        /\ \A d \in Conns : d # c => g[d] = f[d]
    BY <1>1, <2>1, <2>2, FlowEdit
  <2> QED
    BY <1>3, <2>2, <2>3 DEF Written
<1>4. CASE ~(Deaf(c, w) /\ ~(c = 1 /\ cut))
  <2> DEFINE s == Append(f[c][w], x)
  <2>1. g = Edit(f, c, w, s)
    BY <1>4 DEF Puts, Edit
  <2>2. s \in Seq(Items)
    BY <1>2
  <2> HIDE DEF s
  <2>3. /\ g \in Flows /\ g[c][w] = s /\ g[c][Rev(w)] = f[c][Rev(w)]
        /\ \A d \in Conns : d # c => g[d] = f[d]
    BY <1>1, <2>1, <2>2, FlowEdit
  <2> QED
    BY <2>3 DEF Written, s
<1> QED
  BY <1>3, <1>4

\* Given-up sockets: the streams of connection c may have lost their end.
Dropped(f, g, c) ==
    /\ g \in Flows
    /\ \A d \in Conns : d # c => g[d] = f[d]
    /\ \A v \in Ways : Fades(f[c][v], g[c][v])

LEMMA DropsFacts ==
  ASSUME NEW f \in Flows, NEW c \in Conns, NEW w \in Ways, NEW how \in EndKinds,
         NEW g \in Drops(f, c, w, how)
  PROVE  Dropped(f, g, c)
<1>1. Rev(w) \in Ways /\ Rev(w) # w /\ Ways = {w, Rev(w)}
  BY DEF Ways, Rev
<1>2. f[c][w] \in Seq(Items) /\ f[c][Rev(w)] \in Seq(Items)
  BY <1>1 DEF Flows
<1> DEFINE out == f[c][w]
<1> DEFINE unread == {f[c][Rev(w)][i].kind : i \in 1 .. Len(f[c][Rev(w)])}
<1> DEFINE end == IF Ended(out) THEN out ELSE Append(out, Msg(how))
<1>3. end \in Seq(Items) /\ Fades(out, end)
  BY <1>2, SameSame, SameEnd
<1>4. CASE c = 1 /\ cut
  <2>1. g = Edit(f, c, w, end)
    BY <1>4 DEF Drops, Edit
  <2>2. /\ g \in Flows /\ g[c][w] = end /\ g[c][Rev(w)] = f[c][Rev(w)]
        /\ \A d \in Conns : d # c => g[d] = f[d]
    <3> HIDE DEF end
    <3> QED
      BY <1>1, <1>3, <2>1, FlowEdit
  <2> QED
    BY <1>1, <1>3, <2>2, SameSame DEF Dropped
<1>5. CASE ~(c = 1 /\ cut)
  <2>1. PICK s \in IF Deaf(c, w) THEN {<<>>}
                   ELSE {end} \cup (IF unread \subseteq {"fin", "rst"} THEN {} ELSE Broken(c, out)) :
            g = Edit(Edit(f, c, w, s), c, Rev(w), <<>>)
    BY <1>5 DEF Drops, Edit
  <2>2. s \in Seq(Items) /\ Fades(out, s)
    <3>1. s = <<>> \/ s = end \/ s \in Broken(c, out)
      BY <2>1
    <3>2. <<>> \in Seq(Items) /\ Fades(out, <<>>)
      BY FadesNothing
    <3>3. s \in Broken(c, out) => s \in Seq(Items) /\ Fades(out, s)
      BY <1>2, BrokenFades
    <3> HIDE DEF end, out
    <3> QED
      BY <1>3, <3>1, <3>2, <3>3
  <2> DEFINE h == Edit(f, c, w, s)
  <2> DEFINE none == <<>>
  <2>3. g = Edit(h, c, Rev(w), none)
    BY <2>1
  <2>4. none \in Seq(Items)
    OBVIOUS
  <2>5. h \in Flows /\ h[c][w] = s /\ \A d \in Conns : d # c => h[d] = f[d]
    BY <2>2, FlowEdit
  <2> HIDE DEF h, none
  <2>6. g \in Flows /\ g[c][w] = s /\ g[c][Rev(w)] = none /\ \A d \in Conns : d # c => g[d] = h[d]
    BY <1>1, <2>3, <2>4, <2>5, FlowEdit
  <2> QED
    BY <1>1, <2>2, <2>5, <2>6, FadesNothing DEF Dropped, none
<1> QED
  BY <1>4, <1>5

\* A station that has given up both its sockets.
LEMMA QuitsFacts ==
  ASSUME NEW f \in Flows, NEW c \in Copies, NEW tls \in EndKinds, NEW g \in Quits(f, c, tls)
  PROVE  /\ g \in Flows
         /\ \A d \in Conns : d \notin {c - 1, c} => g[d] = f[d]
         /\ \A d \in Conns, v \in Ways : Fades(f[d][v], g[d][v])
<1>1. c \in Conns /\ c - 1 \in Conns /\ c # c - 1 /\ "up" \in Ways /\ "down" \in Ways
  BY DEF Copies, Conns, Ways
<1> DEFINE how(k) == IF k = 1 THEN tls ELSE "fin"
<1>2. how(c) \in EndKinds /\ how(c - 1) \in EndKinds
  BY DEF EndKinds
<1>3. PICK h \in Drops(f, c - 1, "down", how(c - 1)) : g \in Drops(h, c, "up", how(c))
  BY DEF Quits
<1> HIDE DEF how
<1>4. Dropped(f, h, c - 1)
  BY <1>1, <1>2, <1>3, DropsFacts
<1>5. Dropped(h, g, c)
  BY <1>1, <1>2, <1>3, <1>4, DropsFacts DEF Dropped
<1>6. \A d \in Conns, v \in Ways : Fades(f[d][v], g[d][v])
  BY <1>1, <1>4, <1>5, SameSame DEF Dropped
<1> QED
  BY <1>4, <1>5, <1>6 DEF Dropped

-----------------------------------------------------------------------------
(* What an action does to the streams, seen from each of them.              *)

TypeInv == TypeOK /\ flow \in Flows

LEMMA PopFlow ==
  ASSUME NEW f \in Flows, NEW c \in Conns, NEW w \in Ways, f[c][w] # <<>>
  PROVE  /\ Pop(f, c, w) \in Flows /\ Pop(f, c, w)[c][w] = Tail(f[c][w])
         /\ \A v \in Ways : v # w => Pop(f, c, w)[c][v] = f[c][v]
         /\ \A d \in Conns : d # c => Pop(f, c, w)[d] = f[d]
         /\ Head(f[c][w]) \in Items
<1>1. f[c][w] \in Seq(Items)
  BY DEF Flows
<1> DEFINE s == Tail(f[c][w])
<1>2. s \in Seq(Items) /\ Head(f[c][w]) \in Items
  BY <1>1
<1>3. Pop(f, c, w) = Edit(f, c, w, s)
  BY DEF Pop, Edit
<1> HIDE DEF s
<1>4. /\ Pop(f, c, w) \in Flows /\ Pop(f, c, w)[c][w] = s
      /\ \A v \in Ways : v # w => Pop(f, c, w)[c][v] = f[c][v]
      /\ \A d \in Conns : d # c => Pop(f, c, w)[d] = f[d]
  BY <1>2, <1>3, FlowEdit
<1> QED
  BY <1>2, <1>4 DEF s

LEMMA DeafPasses ==
  ASSUME NEW c \in Conns, NEW w \in Ways, Deaf(c, w)
  PROVE  \A v \in Ways : ~Passing(Reader(c, w), v)
<1> DEFINE k == Reader(c, w)
<1>1. CASE k = 0
  BY <1>1 DEF Deaf, Passing, Reader
<1>2. CASE k \in {1, 2}
  BY <1>2 DEF Deaf, Passing, Reader, Copies
<1>3. CASE k = 3
  BY <1>3 DEF Deaf, Passing, Reader, Copies
<1>4. CASE k = 4
  BY <1>4 DEF Deaf, Passing, Reader, Copies
<1>5. k \in {0, 1, 2, 3, 4}
  BY DEF Reader, Conns, Ways
<1> QED
  BY <1>1, <1>2, <1>3, <1>4, <1>5

LEMMA DeafStops ==
  ASSUME OneWay, NEW c \in Conns, NEW w \in Ways, Deaf(c, w)
  PROVE  \A v \in Ways : ~Passing(Reader(c, w), v)'
<1>1. \A v \in Ways : ~Passing(Reader(c, w), v)
  BY DeafPasses
<1>2. Reader(c, w) \in Stations
  BY ConnStations
<1> QED
  BY <1>1, <1>2 DEF OneWay

LEMMA StillKeeps ==
  ASSUME NEW c, NEW w, flow'[c][w] = flow[c][w]
  PROVE  Keeps(c, w)
BY SameSame DEF Keeps

\* A station that has gone and its two connections.
LEMMA GoneKeeps ==
  ASSUME NEW c \in Conns, NEW j \in {c, c + 1}, \A v \in Ways : ~Passing(j, v)',
         \A v \in Ways : Fades(flow[c][v], flow'[c][v])
  PROVE  \A v \in Ways : Keeps(c, v)
BY DEF Keeps, Ways, Reader, Writer

LEMMA DroppedKeeps ==
  ASSUME NEW c \in Conns, NEW j \in {c, c + 1}, \A v \in Ways : ~Passing(j, v)',
         Dropped(flow, flow', c)
  PROVE  \A d \in Conns, v \in Ways : Keeps(d, v)
<1>1. \A v \in Ways : Keeps(c, v)
  BY GoneKeeps DEF Dropped
<1>2. \A d \in Conns : d # c => flow'[d] = flow[d]
  BY DEF Dropped
<1> QED
  BY <1>1, <1>2, StillKeeps

\* The reader stops with the item it takes, and gives up its socket.
LEMMA ReadDropped ==
  ASSUME flow \in Flows, NEW c \in Conns, NEW w \in Ways, flow[c][w] # <<>>,
         \A v \in Ways : ~Passing(Reader(c, w), v)',
         Dropped(Pop(flow, c, w), flow', c)
  PROVE  \A d \in Conns, v \in Ways : Keeps(d, v)
<1>1. Keeps(c, w)
  BY DEF Keeps
<1>2. ASSUME NEW v \in Ways, v # w PROVE Keeps(c, v)
  <2>1. Writer(c, v) = Reader(c, w)
    BY <1>2 DEF Reader, Writer, Ways
  <2>2. Fades(flow[c][v], flow'[c][v])
    BY <1>2, PopFlow DEF Dropped
  <2> QED
    BY <2>1, <2>2 DEF Keeps
<1>3. \A d \in Conns : d # c => flow'[d] = flow[d]
  <2>1. \A d \in Conns : d # c => Pop(flow, c, w)[d] = flow[d]
    BY PopFlow
  <2> QED
    BY <2>1 DEF Dropped
<1> QED
  BY <1>1, <1>2, <1>3, StillKeeps

\* A station takes the first item of one stream and writes one to another.
LEMMA ReadWrites ==
  ASSUME OneWay, flow \in Flows, NEW d \in Conns, NEW v \in Ways, flow[d][v] # <<>>,
         NEW c \in Conns, NEW w \in Ways, NEW x \in Items, c = d => v = Rev(w),
         Written(Pop(flow, d, v), flow', c, w, x)
  PROVE  /\ Head(flow[d][v]).kind \notin EndKinds => Pops(d, v)
         /\ \A e \in Conns, u \in Ways : (e # d \/ u # v) /\ (e # c \/ u # w) => Keeps(e, u)
         /\ flow'[c][w] = Append(flow[c][w], x) \/ ~Passing(Reader(c, w), w)'
         /\ x.kind \in {"fin", "rst"} /\ x.n = 0 => Keeps(c, w)
<1> DEFINE rest == Pop(flow, d, v)
<1>1. /\ rest \in Flows /\ rest[d][v] = Tail(flow[d][v])
      /\ \A u \in Ways : u # v => rest[d][u] = flow[d][u]
      /\ \A e \in Conns : e # d => rest[e] = flow[e]
  BY PopFlow
<1>2. Written(rest, flow', c, w, x)
  OBVIOUS
<1> HIDE DEF rest
<1>3. /\ Rev(w) \in Ways /\ Rev(w) # w /\ \A u \in Ways : u = w \/ u = Rev(w)
      /\ Writer(c, Rev(w)) = Reader(c, w)
  BY ConnStations DEF Ways, Rev
<1>4. rest[c][w] = flow[c][w]
  BY <1>1, <1>3
<1>5. \A e \in Conns : e # c => flow'[e] = rest[e]
  BY <1>2 DEF Written
<1>6. Deaf(c, w) => \A u \in Ways : ~Passing(Reader(c, w), u)'
  BY DeafStops
<1>7. \/ flow'[c][w] = Append(flow[c][w], x) /\ flow'[c][Rev(w)] = rest[c][Rev(w)]
      \/ /\ \A u \in Ways : ~Passing(Reader(c, w), u)'
         /\ flow'[c][w] = flow[c][w]
         /\ Fades(rest[c][Rev(w)], flow'[c][Rev(w)])
  BY <1>2, <1>4, <1>6 DEF Written
<1>8. ASSUME Head(flow[d][v]).kind \notin EndKinds PROVE Pops(d, v)
  <2>1. CASE c = d
    BY <1>1, <1>3, <1>7, <1>8, <2>1 DEF Pops
  <2>2. CASE c # d
    BY <1>1, <1>5, <1>8, <2>2 DEF Pops
  <2> QED
    BY <2>1, <2>2
<1>9. ASSUME NEW e \in Conns, NEW u \in Ways, e # d \/ u # v, e # c \/ u # w
      PROVE  Keeps(e, u)
  <2>1. rest[e][u] = flow[e][u]
    BY <1>1, <1>9
  <2>2. CASE e # c
    BY <1>5, <2>1, <2>2, StillKeeps
  <2>3. CASE e = c
    <3>1. u = Rev(w)
      BY <1>3, <1>9, <2>3
    <3> QED
      BY <1>3, <1>7, <2>1, <2>3, <3>1, StillKeeps DEF Keeps
  <2> QED
    BY <2>2, <2>3
<1>10. ASSUME x.kind \in {"fin", "rst"}, x.n = 0 PROVE Keeps(c, w)
  <2>1. x = Msg(x.kind) /\ x.kind \in EndKinds
    BY <1>10 DEF Items, Item, Msg, EndKinds
  <2>2. Same(flow[c][w], Append(flow[c][w], x))
    <3>1. flow[c][w] \in Seq(Items)
      BY DEF Flows
    <3> QED
      BY <2>1, <3>1, SameEnd
  <2> QED
    BY <1>7, <2>2 DEF Keeps
<1> QED
  BY <1>7, <1>8, <1>9, <1>10

\* A station writes one item.
LEMMA Writes ==
  ASSUME OneWay, flow \in Flows, NEW c \in Conns, NEW w \in Ways, NEW x \in Items,
         Written(flow, flow', c, w, x)
  PROVE  /\ \A e \in Conns, u \in Ways : e # c \/ u # w => Keeps(e, u)
         /\ flow'[c][w] = Append(flow[c][w], x) \/ ~Passing(Reader(c, w), w)'
         /\ x.kind \in {"fin", "rst"} /\ x.n = 0 => Keeps(c, w)
<1>1. /\ Rev(w) \in Ways /\ Rev(w) # w /\ \A u \in Ways : u = w \/ u = Rev(w)
      /\ Writer(c, Rev(w)) = Reader(c, w)
  BY ConnStations DEF Ways, Rev
<1>2. \A e \in Conns : e # c => flow'[e] = flow[e]
  BY DEF Written
<1>3. \/ flow'[c][w] = Append(flow[c][w], x) /\ flow'[c][Rev(w)] = flow[c][Rev(w)]
      \/ /\ \A u \in Ways : ~Passing(Reader(c, w), u)'
         /\ flow'[c][w] = flow[c][w]
         /\ Fades(flow[c][Rev(w)], flow'[c][Rev(w)])
  BY DeafStops DEF Written
<1>4. Keeps(c, Rev(w))
  BY <1>1, <1>3, StillKeeps DEF Keeps
<1>5. ASSUME x.kind \in {"fin", "rst"}, x.n = 0 PROVE Keeps(c, w)
  <2>1. x = Msg(x.kind) /\ x.kind \in EndKinds
    BY <1>5 DEF Items, Item, Msg, EndKinds
  <2>2. Same(flow[c][w], Append(flow[c][w], x))
    <3>1. flow[c][w] \in Seq(Items)
      BY DEF Flows
    <3> QED
      BY <2>1, <3>1, SameEnd
  <2> QED
    BY <1>3, <2>2 DEF Keeps
<1> QED
  BY <1>1, <1>2, <1>3, <1>4, <1>5, StillKeeps

-----------------------------------------------------------------------------
(* The invariant of a way, and the steps that move along it.                *)

\* The VNC server has got what it has passed on, the browser has sent all.
UpOK(num) ==
    /\ Chain("up", num)
    /\ num[4] = Len(got["agent"]) + Greeted
    /\ Reaches(0, "up") => num[0] = Top("up")

\* The browser has got what it has passed on, the VNC server has sent all,
\* and the bridge answers the request before it passes anything on.
DownOK(num) ==
    /\ Chain("down", num)
    /\ browser = "connecting" => num[0] = 0
    /\ browser = "open" => num[0] = Len(got["client"]) + 1
    /\ browser = "closing" => num[0] >= 1
    /\ Reaches(4, "down") => num[4] = sent["agent"] + Greeted
    /\ Greeted = 1 /\ Reaches(3, "down") => num[3] >= 1

UpInv == \E num \in [Stations -> Nat] : UpOK(num)
DownInv == \E num \in [Stations -> Nat] : DownOK(num)

\* The hops are made one after the other, the bridge's last.
SetUp ==
    /\ node[1] = "dialling" => node[2] = "idle"
    /\ node[2] \in {"idle", "dialling"} => web = "idle"
    /\ browser = "connecting" => got["client"] = <<>> /\ sent["client"] = 0
    /\ vnc = "idle" => got["agent"] = <<>> /\ sent["agent"] = 0
    /\ web \in {"idle", "http", "dialling"} =>
         /\ vnc = "idle" /\ half[3] = {}
         /\ \A w \in Ways : flow[3][w] = <<>>

\* What can become of one stream in a step that moves num to new.
Moves(c, w, num, new) ==
    \/ /\ Keeps(c, w)
       /\ new[Reader(c, w)] = num[Reader(c, w)]
       /\ Passing(Writer(c, w), w)' => new[Writer(c, w)] = num[Writer(c, w)]
    \/ Pops(c, w) /\ Taken(c, w, num, new)
    \/ \E x \in Items :
         /\ flow'[c][w] = Append(flow[c][w], x) \/ ~Passing(Reader(c, w), w)'
         /\ Passing(Writer(c, w), w)
         /\ new[Reader(c, w)] = num[Reader(c, w)]
         /\ Reaches(Writer(c, w), w) => Follows(c, w, x, num, new)

LEMMA ChainMoves ==
  ASSUME OneWay, flow \in Flows, NEW w \in Ways,
         NEW num \in [Stations -> Nat], NEW new \in [Stations -> Nat],
         Chain(w, num), \A c \in Conns : Moves(c, w, num, new)
  PROVE  Chain(w, new)'
<1>1. ASSUME NEW c \in Conns PROVE Holds(c, w, new)'
  <2>1. Holds(c, w, num) /\ flow[c][w] \in Seq(Items)
    BY DEF Chain, Flows
  <2>2. CASE /\ Keeps(c, w)
             /\ new[Reader(c, w)] = num[Reader(c, w)]
             /\ Passing(Writer(c, w), w)' => new[Writer(c, w)] = num[Writer(c, w)]
    BY <2>1, <2>2, HoldsKept
  <2>3. CASE Pops(c, w) /\ Taken(c, w, num, new)
    BY <2>1, <2>3, HoldsPopped
  <2>4. ASSUME NEW x \in Items,
               flow'[c][w] = Append(flow[c][w], x) \/ ~Passing(Reader(c, w), w)',
               Passing(Writer(c, w), w),
               new[Reader(c, w)] = num[Reader(c, w)],
               Reaches(Writer(c, w), w) => Follows(c, w, x, num, new)
        PROVE  Holds(c, w, new)'
    BY <2>1, <2>4, HoldsPushed
  <2> QED
    BY <2>2, <2>3, <2>4 DEF Moves
<1> QED
  BY <1>1 DEF Chain

\* A step that moves nothing along.
LEMMA UpQuiet ==
  ASSUME OneWay, flow \in Flows, UpInv, \A c \in Conns : Keeps(c, "up"),
         sent'["client"] = sent["client"], got'["agent"] = got["agent"], Greeted' = Greeted
  PROVE  UpInv'
<1>1. PICK num \in [Stations -> Nat] : UpOK(num)
  BY DEF UpInv
<1>2. "up" \in Ways /\ 0 \in Stations
  BY DEF Ways, Stations
<1>3. \A c \in Conns : Moves(c, "up", num, num)
  BY DEF Moves
<1>4. Chain("up", num)'
  BY <1>1, <1>2, <1>3, ChainMoves DEF UpOK
<1>5. Top("up")' = Top("up")
  BY DEF Top, Source
<1>6. Reaches(0, "up")' => Reaches(0, "up")
  BY <1>2, ReachesStays
<1>7. UpOK(num)'
  BY <1>1, <1>4, <1>5, <1>6 DEF UpOK
<1> QED
  BY <1>7 DEF UpInv

LEMMA DownQuiet ==
  ASSUME OneWay, flow \in Flows, DownInv, \A c \in Conns : Keeps(c, "down"),
         sent'["agent"] = sent["agent"], got'["client"] = got["client"],
         Greeted' = Greeted,
         browser' \in {browser, "closed"} \/ (browser = "open" /\ browser' = "closing"),
         got["client"] \in Seq(Nat)
  PROVE  DownInv'
<1>1. PICK num \in [Stations -> Nat] : DownOK(num)
  BY DEF DownInv
<1>2. "down" \in Ways /\ 0 \in Stations /\ 3 \in Stations /\ 4 \in Stations
  BY DEF Ways, Stations
<1>3. \A c \in Conns : Moves(c, "down", num, num)
  BY DEF Moves
<1>4. Chain("down", num)'
  BY <1>1, <1>2, <1>3, ChainMoves DEF DownOK
<1>5. \A j \in {3, 4} : Reaches(j, "down")' => Reaches(j, "down")
  BY <1>2, ReachesStays
<1>6. /\ browser' = "connecting" => num[0] = 0
      /\ browser' = "open" => num[0] = Len(got["client"]) + 1
      /\ browser' = "closing" => num[0] >= 1
  BY <1>1 DEF DownOK
<1>7. DownOK(num)'
  BY <1>1, <1>4, <1>5, <1>6 DEF DownOK
<1> QED
  BY <1>7 DEF DownInv

\* Station j passes one item on.
LEMMA ChainRelay ==
  ASSUME OneWay, flow \in Flows, NEW w \in Ways, NEW j \in 1 .. 3, Passing(j, w),
         Pops(From(j, w), w),
         \/ flow'[Onto(j, w)][w] = Append(flow[Onto(j, w)][w], Head(flow[From(j, w)][w]))
         \/ ~Passing(Reader(Onto(j, w), w), w)',
         \A c \in Conns : c \notin {From(j, w), Onto(j, w)} => Keeps(c, w),
         NEW num \in [Stations -> Nat], Chain(w, num)
  PROVE  \E new \in [Stations -> Nat] :
            /\ Chain(w, new)'
            /\ \A k \in Stations : k # j => new[k] = num[k]
            /\ num[j] >= 1 => new[j] >= 1
<1> DEFINE a == From(j, w)
<1> DEFINE z == Onto(j, w)
<1> DEFINE x == Head(flow[a][w])
<1>1. /\ a \in Conns /\ z \in Conns /\ a # z /\ Reader(a, w) = j /\ Writer(z, w) = j
      /\ \A c \in Conns : Reader(c, w) = j => c = a
      /\ \A c \in Conns : Writer(c, w) = j => c = z
  BY StationConns
<1>2. flow[a][w] \in Seq(Items) /\ flow[a][w] # <<>>
  BY <1>1 DEF Flows, Pops
<1>3. x \in Items
  BY <1>2
<1>4. j \in Stations /\ \A c \in Conns : Reader(c, w) \in Stations /\ Writer(c, w) \in Stations
  <2>1. j \in Stations
    BY DEF Stations
  <2> QED
    BY <2>1, ConnStations
<1>5. Rank(x) \in Nat /\ Rank(x) >= 1
  BY <1>3 DEF Rank, Items, Item
<1>6. PICK new \in [Stations -> Nat] :
         /\ \A k \in Stations : k # j => new[k] = num[k]
         /\ new[j] = IF Numbered(x) THEN Rank(x) ELSE num[j]
  <2> DEFINE r == IF Numbered(x) THEN Rank(x) ELSE num[j]
  <2>1. r \in Nat
    BY <1>4, <1>5
  <2> HIDE DEF r
  <2>2. [num EXCEPT ![j] = r] \in [Stations -> Nat]
    BY <2>1
  <2>3. [num EXCEPT ![j] = r][j] = r /\ \A k \in Stations : k # j => [num EXCEPT ![j] = r][k] = num[k]
    BY <1>4
  <2> QED
    BY <2>2, <2>3 DEF r
<1>7. Pops(a, w) /\ Taken(a, w, num, new)
  <2>1. new[j] = IF Numbered(x) THEN Rank(x) ELSE num[j]
    BY <1>6
  <2>2. Writer(a, w) \in Stations /\ Writer(a, w) # j
    BY <1>1, <1>4
  <2>3. new[Writer(a, w)] = num[Writer(a, w)]
    BY <1>6, <2>2
  <2> QED
    BY <1>1, <2>1, <2>3 DEF Taken
<1>8. Reaches(j, w) => Follows(z, w, x, num, new)
  <2> SUFFICES ASSUME Reaches(j, w) PROVE Follows(z, w, x, num, new)
    OBVIOUS
  <2>1. /\ Numbered(x) => Rank(x) = num[j] + 1 /\ Rank(x) <= Top(w)
        /\ ~Numbered(x) => num[j] >= 1
    <3>1. Holds(a, w, num)
      BY <1>1 DEF Chain
    <3> QED
      BY <1>1, <1>2, <1>7, <3>1, PopFacts
  <2>2. x.kind \in Late => ~Numbered(x)
    BY DEF Late, Numbered
  <2>3. Numbered(x) => Rank(x) <= Top(w)'
    BY <1>5, <2>1 DEF OneWay
  <2> QED
    BY <1>1, <1>6, <2>1, <2>2, <2>3 DEF Follows
<1>9. ASSUME NEW c \in Conns PROVE Moves(c, w, num, new)
  <2>1. CASE c = a
    BY <1>7, <2>1 DEF Moves
  <2>2. CASE c = z
    <3>1. Reader(z, w) # j /\ Reader(z, w) \in Stations
      BY <1>1, <1>4
    <3>2. new[Reader(z, w)] = num[Reader(z, w)]
      BY <1>6, <3>1
    <3>3. flow'[z][w] = Append(flow[z][w], x) \/ ~Passing(Reader(z, w), w)'
      OBVIOUS
    <3> QED
      BY <1>1, <1>3, <1>8, <2>2, <3>2, <3>3 DEF Moves
  <2>3. CASE c # a /\ c # z
    <3>1. /\ Reader(c, w) # j /\ Reader(c, w) \in Stations
          /\ Writer(c, w) # j /\ Writer(c, w) \in Stations
      BY <1>1, <1>4, <2>3
    <3> QED
      BY <1>6, <2>3, <3>1 DEF Moves
  <2> QED
    BY <2>1, <2>2, <2>3
<1>10. Chain(w, new)'
  BY <1>6, <1>9, ChainMoves
<1>11. num[j] >= 1 => new[j] >= 1
  <2>1. CASE Numbered(x)
    BY <1>5, <1>6, <2>1
  <2>2. CASE ~Numbered(x)
    BY <1>6, <2>2
  <2> QED
    BY <2>1, <2>2
<1> QED
  BY <1>6, <1>10, <1>11

LEMMA WaysRelay ==
  ASSUME OneWay, flow \in Flows, UpInv, DownInv, NEW w \in Ways, NEW j \in 1 .. 3, Passing(j, w),
         Pops(From(j, w), w),
         \/ flow'[Onto(j, w)][w] = Append(flow[Onto(j, w)][w], Head(flow[From(j, w)][w]))
         \/ ~Passing(Reader(Onto(j, w), w), w)',
         \A c \in Conns : c \notin {From(j, w), Onto(j, w)} => Keeps(c, w),
         sent' = sent, got' = got, Greeted' = Greeted, browser' = browser
  PROVE  /\ w = "up" => UpInv'
         /\ w = "down" => DownInv'
<1>1. ASSUME w = "up" PROVE UpInv'
  <2>1. PICK num \in [Stations -> Nat] : UpOK(num)
    BY DEF UpInv
  <2>2. PICK new \in [Stations -> Nat] :
            /\ Chain(w, new)'
            /\ \A k \in Stations : k # j => new[k] = num[k]
    BY <1>1, <2>1, ChainRelay DEF UpOK
  <2>3. new[0] = num[0] /\ new[4] = num[4] /\ 0 \in Stations
    BY <2>2 DEF Stations
  <2>4. Reaches(0, "up")' => Reaches(0, "up")
    BY <2>3, ReachesStays DEF Ways
  <2>5. Top("up")' = Top("up")
    BY DEF Top, Source
  <2>6. UpOK(new)'
    BY <1>1, <2>1, <2>2, <2>3, <2>4, <2>5 DEF UpOK
  <2> QED
    BY <2>6 DEF UpInv
<1>2. ASSUME w = "down" PROVE DownInv'
  <2>1. PICK num \in [Stations -> Nat] : DownOK(num)
    BY DEF DownInv
  <2>2. PICK new \in [Stations -> Nat] :
            /\ Chain(w, new)'
            /\ \A k \in Stations : k # j => new[k] = num[k]
            /\ num[j] >= 1 => new[j] >= 1
    BY <1>2, <2>1, ChainRelay DEF DownOK
  <2>3. new[0] = num[0] /\ new[4] = num[4] /\ 3 \in Stations /\ 4 \in Stations
    BY <2>2 DEF Stations
  <2>4. \A k \in {3, 4} : Reaches(k, "down")' => Reaches(k, "down")
    BY <2>3, ReachesStays DEF Ways
  <2>5. num[3] >= 1 => new[3] >= 1
    BY <2>2, <2>3
  <2>6. DownOK(new)'
    BY <1>2, <2>1, <2>2, <2>3, <2>4, <2>5 DEF DownOK
  <2> QED
    BY <2>6 DEF DownInv
<1> QED
  BY <1>1, <1>2

-----------------------------------------------------------------------------
(* Types.                                                                   *)

LEMMA FlowInit == Init => flow \in Flows
<1> SUFFICES ASSUME Init PROVE flow \in Flows
  OBVIOUS
<1>1. <<Msg("get")>> \in Seq(Items) /\ <<>> \in Seq(Items)
  BY ItemFacts DEF Kinds
<1> QED
  BY <1>1 DEF Init, Flows

\* Reading one item and writing another, or giving the socket up.
LEMMA ReadTypes ==
  ASSUME flow \in Flows, NEW d \in Conns, NEW v \in Ways, flow[d][v] # <<>>
  PROVE  LET rest == Pop(flow, d, v)
         IN  /\ rest \in Flows
             /\ Head(flow[d][v]) \in Items
             /\ \A c \in Conns, w \in Ways, x \in Items : \A g \in Puts(rest, c, w, x) :
                   Written(rest, g, c, w, x) /\ g \in Flows
             /\ \A c \in Conns, w \in Ways, how \in EndKinds : \A g \in Drops(rest, c, w, how) :
                   Dropped(rest, g, c) /\ g \in Flows
             /\ \A c \in Copies, tls \in EndKinds : \A g \in Quits(rest, c, tls) : g \in Flows
BY PopFlow, PutsFacts, DropsFacts, QuitsFacts DEF Written, Dropped

LEMMA WriteTypes ==
  ASSUME flow \in Flows
  PROVE  /\ \A c \in Conns, w \in Ways, x \in Items : \A g \in Puts(flow, c, w, x) :
               Written(flow, g, c, w, x) /\ g \in Flows
         /\ \A c \in Conns, w \in Ways, how \in EndKinds : \A g \in Drops(flow, c, w, how) :
               Dropped(flow, g, c) /\ g \in Flows
         /\ \A c \in Copies, tls \in EndKinds : \A g \in Quits(flow, c, tls) : g \in Flows
BY PutsFacts, DropsFacts, QuitsFacts DEF Written, Dropped

LEMMA MsgItems ==
  /\ \A k \in {"get", "accept", "ping", "pong", "close", "fin", "rst"} : Msg(k) \in Items /\ Msg(k).kind = k /\ Msg(k).n = 0
  /\ 0 \in Conns /\ 1 \in Conns /\ 2 \in Conns /\ 3 \in Conns /\ "up" \in Ways /\ "down" \in Ways
  /\ 1 \in Copies /\ 2 \in Copies /\ "fin" \in EndKinds /\ "rst" \in EndKinds
  /\ Rev("up") = "down" /\ Rev("down") = "up"
BY DEF Items, Item, Msg, Kinds, Conns, Ways, Copies, EndKinds, Rev

LEMMA CopyConns ==
  ASSUME NEW c \in Copies, NEW w \in Ways
  PROVE  From(c, w) \in Conns /\ Onto(c, w) \in Conns /\ c \in 1 .. 3 /\ c \in Conns /\ c - 1 \in Conns
BY DEF From, Onto, Copies, Conns, Ways

LEMMA ViewerFlow ==
  ASSUME TypeInv, SendKey \/ Disconnect \/ Leave \/ CloseTimeout \/ BrowserReads
  PROVE  flow' \in Flows
<1>1. CASE SendKey
  <2>1. Data(sent'["client"]) \in Items
    <3>1. sent'["client"] \in Nat \ {0}
      BY <1>1 DEF SendKey, TypeInv, TypeOK, Ends
    <3> QED
      BY <3>1, ItemFacts
  <2> QED
    BY <1>1, <2>1, WriteTypes, MsgItems DEF SendKey, TypeInv
<1>2. CASE Disconnect \/ Leave \/ CloseTimeout
  <2>1. flow' \in Puts(flow, 0, "up", Msg("close")) \/ flow' \in Drops(flow, 0, "up", "fin")
    BY <1>2 DEF Disconnect, Leave, CloseTimeout, LeaveFrom
  <2> QED
    BY <2>1, WriteTypes, MsgItems DEF TypeInv
<1>3. CASE BrowserReads
  <2> DEFINE rest == Pop(flow, 0, "down")
  <2>1. flow[0]["down"] # <<>>
    BY <1>3 DEF BrowserReads, Readable
  <2>2. \/ flow' = rest
        \/ flow' \in Puts(rest, 0, "up", Msg("pong"))
        \/ flow' \in Puts(rest, 0, "up", Msg("close"))
        \/ flow' \in Drops(rest, 0, "up", "fin")
    BY <1>3 DEF BrowserReads
  <2> QED
    BY <2>1, <2>2, ReadTypes, MsgItems DEF TypeInv
<1> QED
  BY <1>1, <1>2, <1>3

LEMMA CopyFlow ==
  ASSUME TypeInv, NEW c \in Copies, CopyStep(c)
  PROVE  flow' \in Flows
<1>1. CASE Dial(c)
  BY <1>1 DEF Dial, TypeInv
<1>2. CASE DialFails(c)
  <2>1. flow' \in Drops(flow, c - 1, "down", IF c = 2 THEN "rst" ELSE "fin")
    BY <1>2 DEF DialFails
  <2>2. (IF c = 2 THEN "rst" ELSE "fin") \in EndKinds
    BY DEF EndKinds
  <2> QED
    BY <2>1, <2>2, WriteTypes, MsgItems, CopyConns DEF TypeInv
<1>3. CASE CopyFails(c) \/ CopyReturns(c)
  <2>1. PICK tls \in EndKinds : flow' \in Quits(flow, c, tls)
    BY <1>3 DEF CopyFails, CopyReturns, EndKinds
  <2> QED
    BY <2>1, WriteTypes DEF TypeInv
<1>4. ASSUME NEW w \in Ways, CopyData(c, w) \/ CopyEnd(c, w) PROVE flow' \in Flows
  <2> DEFINE rest == Pop(flow, From(c, w), w)
  <2> DEFINE x == Head(flow[From(c, w)][w])
  <2>1. flow[From(c, w)][w] # <<>>
    BY <1>4 DEF CopyData, CopyEnd, Readable
  <2>2. \/ flow' \in Puts(rest, Onto(c, w), w, x)
        \/ flow' \in Puts(rest, Onto(c, w), w, Msg("fin"))
        \/ flow' \in Quits(rest, c, "fin")
    BY <1>4 DEF CopyData, CopyEnd
  <2> QED
    BY <2>1, <2>2, ReadTypes, MsgItems, CopyConns DEF TypeInv
<1> QED
  BY <1>1, <1>2, <1>3, <1>4 DEF CopyStep

LEMMA BridgeFlow ==
  ASSUME TypeInv, BridgeStep
  PROVE  flow' \in Flows
<1>1. CASE Upgrade
  <2> DEFINE rest == Pop(flow, 2, "up")
  <2>1. flow[2]["up"] # <<>>
    BY <1>1 DEF Upgrade, Readable
  <2>2. flow' \in Puts(rest, 2, "down", Msg("accept")) \/ flow' \in Drops(rest, 2, "down", "fin")
    BY <1>1 DEF Upgrade
  <2> QED
    BY <2>1, <2>2, ReadTypes, MsgItems DEF TypeInv
<1>2. CASE DialVnc
  <2>1. flow' = flow \/ flow' \in Drops(flow, 2, "down", "fin")
    BY <1>2 DEF DialVnc
  <2> QED
    BY <2>1, WriteTypes, MsgItems DEF TypeInv
<1>3. CASE ToVnc
  <2> DEFINE rest == Pop(flow, 2, "up")
  <2> DEFINE x == Head(flow[2]["up"])
  <2>1. flow[2]["up"] # <<>>
    BY <1>3 DEF ToVnc, Readable
  <2>2. \/ flow' \in Puts(rest, 3, "up", x)
        \/ flow' \in Puts(rest, 3, "up", Msg("fin"))
        \/ flow' = rest
    BY <1>3 DEF ToVnc, ToVncEnds
  <2> QED
    BY <2>1, <2>2, ReadTypes, MsgItems DEF TypeInv
<1>4. CASE FromVnc
  <2> DEFINE rest == Pop(flow, 3, "down")
  <2> DEFINE x == Head(flow[3]["down"])
  <2>1. flow[3]["down"] # <<>>
    BY <1>4 DEF FromVnc, Readable
  <2>2. flow' \in Puts(rest, 2, "down", x) \/ flow' \in Puts(rest, 2, "down", Msg("close"))
    BY <1>4 DEF FromVnc, FromVncEnds
  <2> QED
    BY <2>1, <2>2, ReadTypes, MsgItems DEF TypeInv
<1>5. CASE Ping
  <2>1. flow' \in Puts(flow, 2, "down", Msg("ping")) \/ flow' \in Puts(flow, 2, "down", Msg("close"))
    BY <1>5 DEF Ping, FromVncEnds
  <2> QED
    BY <2>1, WriteTypes, MsgItems DEF TypeInv
<1>6. CASE BridgeReturns
  <2>1. PICK g \in Drops(flow, 2, "down", "fin") : flow' \in Drops(g, 3, "up", "fin")
    BY <1>6 DEF BridgeReturns
  <2>2. g \in Flows
    BY <2>1, WriteTypes, MsgItems DEF TypeInv
  <2> QED
    BY <2>1, <2>2, DropsFacts, MsgItems DEF Dropped
<1> QED
  BY <1>1, <1>2, <1>3, <1>4, <1>5, <1>6 DEF BridgeStep

LEMMA ServerFlow ==
  ASSUME TypeInv, VncReads \/ SendUpdate \/ VncDies \/ KillForwarder \/ CutNetwork
  PROVE  flow' \in Flows
<1>1. CASE VncReads
  <2> DEFINE rest == Pop(flow, 3, "up")
  <2>1. flow[3]["up"] # <<>>
    BY <1>1 DEF VncReads, Readable
  <2>2. flow' = rest \/ flow' \in Drops(rest, 3, "down", "fin")
    BY <1>1 DEF VncReads
  <2> QED
    BY <2>1, <2>2, ReadTypes, MsgItems DEF TypeInv
<1>2. CASE SendUpdate
  <2>1. sent'["agent"] \in Nat \ {0}
    BY <1>2 DEF SendUpdate, TypeInv, TypeOK, Ends
  <2>2. Data(sent'["agent"]) \in Items
    BY <2>1, ItemFacts
  <2> QED
    BY <1>2, <2>2, WriteTypes, MsgItems DEF SendUpdate, TypeInv
<1>3. CASE VncDies \/ KillForwarder
  <2>1. \/ flow' \in Drops(flow, 3, "down", "fin")
        \/ flow' \in Quits(flow, 1, "rst")
        \/ flow' \in Drops(flow, 0, "down", "fin")
    BY <1>3 DEF VncDies, KillForwarder
  <2> QED
    BY <2>1, WriteTypes, MsgItems DEF TypeInv
<1>4. CASE CutNetwork
  BY <1>4 DEF CutNetwork, TypeInv
<1> QED
  BY <1>1, <1>2, <1>3, <1>4

LEMMA FlowsTyped == Flows \subseteq [Conns -> [Ways -> Seq(Item)]]
<1>1. Seq(Items) \subseteq Seq(Item)
  <2>1. ASSUME NEW s \in Seq(Items) PROVE s \in Seq(Item)
    <3>1. Items \subseteq Item
      BY DEF Items
    <3>2. s \in [1 .. Len(s) -> Item] /\ Len(s) \in Nat
      BY <3>1
    <3> QED
      BY <3>2
  <2> QED
    BY <2>1
<1> QED
  BY <1>1 DEF Flows

LEMMA FlowStep ==
  ASSUME TypeInv, Next
  PROVE  flow' \in Flows
BY ViewerFlow, CopyFlow, BridgeFlow, ServerFlow DEF Next

LEMMA TypeStep ==
  ASSUME TypeInv, [Next]_vars
  PROVE  TypeInv'
<1> USE DEF TypeInv
<1>1. CASE UNCHANGED vars
  BY <1>1 DEF vars, TypeOK
<1>2. CASE Next
  <2>1. flow' \in Flows /\ flow' \in [Conns -> [Ways -> Seq(Item)]]
    BY <1>2, FlowStep, FlowsTyped
  <2>2. CASE SendKey \/ Disconnect \/ Leave \/ CloseTimeout
    BY <2>1, <2>2 DEF TypeOK, SendKey, Disconnect, Leave, CloseTimeout, LeaveFrom, envVars,
       dataVars, Ends
  <2>3. CASE BrowserReads
    <3>1. flow[0]["down"] # <<>>
      BY <2>3 DEF BrowserReads, Readable
    <3>2. Head(flow[0]["down"]).n \in Nat
      BY <3>1, ReadTypes, MsgItems, ItemFacts
    <3> QED
      <4>1. got' \in [Ends -> Seq(Nat)]
        <5>1. \/ got' = got
              \/ got' = [got EXCEPT !["client"] = Append(got["client"], Head(flow[0]["down"]).n)]
          BY <2>3 DEF BrowserReads
        <5>2. Append(got["client"], Head(flow[0]["down"]).n) \in Seq(Nat)
          BY <3>2 DEF TypeOK, Ends
        <5> QED
          BY <5>1, <5>2 DEF TypeOK
      <4>2. browser' \in {"connecting", "open", "closing", "closed"}
        BY <2>3 DEF BrowserReads, TypeOK
      <4>3. UNCHANGED <<envVars, node, web, vnc, half, asked, sent>>
        BY <2>3 DEF BrowserReads
      <4> QED
        BY <2>1, <4>1, <4>2, <4>3 DEF TypeOK, envVars
  <2>4. ASSUME NEW c \in Copies, CopyStep(c) PROVE TypeInv'
    <3>1. CASE Dial(c) \/ DialFails(c) \/ CopyFails(c) \/ CopyReturns(c)
      BY <2>1, <3>1 DEF TypeOK, Dial, DialFails, CopyFails, CopyReturns, envVars, dataVars, Copies
    <3>2. ASSUME NEW w \in Ways, CopyData(c, w) PROVE TypeInv'
      BY <2>1, <3>2 DEF TypeOK, CopyData, envVars, dataVars
    <3>3. ASSUME NEW w \in Ways, CopyEnd(c, w) PROVE TypeInv'
      <4>1. \/ UNCHANGED <<node, half>>
            \/ node' = [node EXCEPT ![c] = "gone"] /\ UNCHANGED half
            \/ half' = [half EXCEPT ![c] = half[c] \cup {w}] /\ UNCHANGED node
        BY <3>3 DEF CopyEnd
      <4>2. UNCHANGED <<envVars, browser, web, vnc, asked, dataVars>>
        BY <3>3 DEF CopyEnd
      <4>3. c \in 1 .. 3
        BY CopyConns, MsgItems
      <4> QED
        BY <2>1, <4>1, <4>2, <4>3 DEF TypeOK, envVars, dataVars
    <3> QED
      BY <2>4, <3>1, <3>2, <3>3 DEF CopyStep
  <2>5. CASE BridgeStep
    <3>1. CASE Upgrade \/ DialVnc \/ BridgeReturns
      BY <2>1, <3>1 DEF TypeOK, Upgrade, DialVnc, BridgeReturns, envVars, dataVars
    <3>2. CASE ToVnc
      <4>1. asked' \in BOOLEAN
        BY <3>2 DEF ToVnc, TypeOK
      <4>2. half' \in [1 .. 3 -> SUBSET Ways]
        BY <3>2 DEF ToVnc, ToVncEnds, TypeOK, Ways
      <4>3. UNCHANGED <<envVars, browser, node, web, vnc, dataVars>>
        BY <3>2 DEF ToVnc
      <4> QED
        BY <2>1, <4>1, <4>2, <4>3 DEF TypeOK, envVars, dataVars
    <3>3. CASE FromVnc \/ Ping
      BY <2>1, <3>3 DEF TypeOK, FromVnc, Ping, FromVncEnds, envVars, dataVars, Ways
    <3> QED
      BY <2>5, <3>1, <3>2, <3>3 DEF BridgeStep
  <2>6. CASE VncReads
    <3>1. flow[3]["up"] # <<>>
      BY <2>6 DEF VncReads, Readable
    <3>2. Head(flow[3]["up"]).n \in Nat
      BY <3>1, ReadTypes, MsgItems, ItemFacts
    <3> QED
      <4>1. got' \in [Ends -> Seq(Nat)]
        <5>1. \/ got' = got
              \/ got' = [got EXCEPT !["agent"] = Append(got["agent"], Head(flow[3]["up"]).n)]
          BY <2>6 DEF VncReads
        <5>2. Append(got["agent"], Head(flow[3]["up"]).n) \in Seq(Nat)
          BY <3>2 DEF TypeOK, Ends
        <5> QED
          BY <5>1, <5>2 DEF TypeOK
      <4>2. vnc' \in {"idle", "open", "closed"}
        BY <2>6 DEF VncReads, TypeOK
      <4>3. UNCHANGED <<envVars, browser, node, web, half, asked, sent>>
        BY <2>6 DEF VncReads
      <4> QED
        BY <2>1, <4>1, <4>2, <4>3 DEF TypeOK, envVars
  <2>7. CASE SendUpdate \/ VncDies \/ KillForwarder \/ CutNetwork
    <3>1. CASE SendUpdate
      BY <2>1, <3>1 DEF TypeOK, SendUpdate, envVars, Ends
    <3>2. CASE VncDies \/ CutNetwork
      <4>1. vnc' \in {vnc, "closed"} /\ faults' = faults + 1
        BY <3>2 DEF VncDies, CutNetwork
      <4>3. cut' \in BOOLEAN
        BY <3>2 DEF VncDies, CutNetwork, TypeOK
      <4>2. UNCHANGED <<fwdKind, browser, node, web, half, asked, dataVars>>
        BY <3>2 DEF VncDies, CutNetwork
      <4> QED
        BY <2>1, <4>1, <4>2, <4>3 DEF TypeOK, dataVars
    <3>3. CASE KillForwarder
      <4>1. node' = [node EXCEPT ![1] = "gone"] /\ faults' = faults + 1
        BY <3>3 DEF KillForwarder
      <4>2. UNCHANGED <<fwdKind, cut, browser, web, vnc, half, asked, dataVars>>
        BY <3>3 DEF KillForwarder
      <4> QED
        BY <2>1, <4>1, <4>2 DEF TypeOK, dataVars, Copies
    <3> QED
      BY <2>7, <3>1, <3>2, <3>3
  <2> QED
    BY <1>2, <2>2, <2>3, <2>4, <2>5, <2>6, <2>7 DEF Next
<1> QED
  BY <1>1, <1>2

LEMMA TypeInit == Init => TypeInv
<1> SUFFICES ASSUME Init PROVE TypeInv
  OBVIOUS
<1>1. flow \in Flows /\ flow \in [Conns -> [Ways -> Seq(Item)]]
  BY FlowInit, FlowsTyped
<1> QED
  <2>1. /\ node \in [Copies -> {"idle", "dialling", "run", "gone"}]
        /\ half \in [1 .. 3 -> SUBSET Ways]
    BY DEF Init, Copies
  <2>2. sent \in [Ends -> Nat] /\ got \in [Ends -> Seq(Nat)]
    BY DEF Init
  <2> QED
    BY <1>1, <2>1, <2>2 DEF Init, TypeInv, TypeOK

\* TypesHold: every variable keeps its type, for any number of keys, updates
\* and faults; an item is numbered exactly when it is data.
THEOREM TypesHold == Spec => []TypeOK
<1>1. TypeInv => TypeOK
  BY DEF TypeInv
<1> QED
  BY <1>1, TypeInit, TypeStep, PTL DEF Spec

-----------------------------------------------------------------------------
(* What has stopped stays stopped.                                          *)

Lasting ==
    /\ browser = "closed" => browser' = "closed"
    /\ \A k \in Copies : node[k] = "gone" => node'[k] = "gone"
    /\ web = "gone" => web' = "gone"
    /\ vnc = "closed" => vnc' = "closed"
    /\ \A k \in 1 .. 3 : half[k] \subseteq half'[k]
    /\ \A e \in Ends : sent[e] <= sent'[e]

LEMMA LastingOneWay ==
  ASSUME TypeInv, TypeInv', Lasting
  PROVE  OneWay
<1>1. ASSUME NEW j \in Stations, NEW w \in Ways, Passing(j, w)' PROVE Passing(j, w)
  BY <1>1 DEF Passing, Lasting
<1>2. ASSUME NEW w \in Ways PROVE Top(w) \in Nat /\ Top(w)' \in Nat /\ Top(w) <= Top(w)'
  <2>1. Source(w) \in Ends
    BY DEF Source, Ends
  <2> QED
    BY <2>1 DEF Top, TypeInv, TypeOK, Lasting
<1> QED
  BY <1>1, <1>2 DEF OneWay

LEMMA LastingStep ==
  ASSUME TypeInv, SetUp, Next
  PROVE  Lasting
<1> USE DEF TypeInv, TypeOK
<1>1. CASE SendKey \/ Disconnect \/ Leave \/ CloseTimeout \/ BrowserReads
  BY <1>1 DEF Lasting, SendKey, Disconnect, Leave, CloseTimeout, LeaveFrom, BrowserReads,
     envVars, dataVars, Ends
<1>2. ASSUME NEW c \in Copies, CopyStep(c) PROVE Lasting
  <2>1. CASE Dial(c)
    BY <2>1 DEF Dial, SetUp, Lasting, envVars, dataVars, Copies
  <2>2. CASE DialFails(c) \/ CopyFails(c) \/ CopyReturns(c)
    BY <2>2 DEF DialFails, CopyFails, CopyReturns, Lasting, envVars, dataVars, Copies
  <2>3. ASSUME NEW w \in Ways, CopyData(c, w) PROVE Lasting
    BY <2>3 DEF CopyData, Lasting, envVars, dataVars
  <2>4. ASSUME NEW w \in Ways, CopyEnd(c, w) PROVE Lasting
    <3>1. \/ node' = [node EXCEPT ![c] = "gone"] /\ UNCHANGED half
          \/ half' = [half EXCEPT ![c] = half[c] \cup {w}] /\ UNCHANGED node
      BY <2>4 DEF CopyEnd
    <3>2. UNCHANGED <<browser, web, vnc, sent>>
      BY <2>4 DEF CopyEnd, dataVars
    <3>3. c \in 1 .. 3
      BY CopyConns, MsgItems
    <3> QED
      BY <3>1, <3>2, <3>3 DEF Lasting
  <2> QED
    BY <1>2, <2>1, <2>2, <2>3, <2>4 DEF CopyStep
<1>3. CASE BridgeStep
  <2>1. CASE Upgrade \/ DialVnc \/ BridgeReturns
    <3>1. web # "gone" /\ vnc' \in {vnc, "open"} /\ UNCHANGED <<browser, node, half, sent>>
      BY <2>1 DEF Upgrade, DialVnc, BridgeReturns, dataVars
    <3>2. vnc' = vnc \/ vnc = "idle"
      BY <2>1 DEF Upgrade, DialVnc, BridgeReturns, SetUp
    <3> QED
      BY <3>1, <3>2 DEF Lasting
  <2>2. CASE ToVnc \/ FromVnc \/ Ping
    BY <2>2 DEF Lasting, ToVnc, ToVncEnds, FromVnc, Ping, FromVncEnds, envVars, dataVars
  <2> QED
    BY <1>3, <2>1, <2>2 DEF BridgeStep
<1>4. CASE VncReads \/ SendUpdate \/ VncDies \/ KillForwarder \/ CutNetwork
  BY <1>4 DEF Lasting, VncReads, SendUpdate, VncDies, KillForwarder, CutNetwork, envVars, dataVars, Ends
<1> QED
  BY <1>1, <1>2, <1>3, <1>4 DEF Next

-----------------------------------------------------------------------------
(* Each action keeps the invariant of both ways.                            *)

WaysInv == TypeInv /\ SetUp /\ UpInv /\ DownInv

LEMMA Quiet ==
  ASSUME OneWay, WaysInv, \A c \in Conns, w \in Ways : Keeps(c, w),
         sent' = sent, got' = got, Greeted' = Greeted,
         browser' \in {browser, "closed"} \/ (browser = "open" /\ browser' = "closing")
  PROVE  UpInv' /\ DownInv'
<1>1. "up" \in Ways /\ "down" \in Ways /\ flow \in Flows /\ got["client"] \in Seq(Nat)
  BY DEF Ways, WaysInv, TypeInv, TypeOK, Ends
<1>2. UpInv'
  BY <1>1, UpQuiet DEF WaysInv
<1>3. DownInv'
  BY <1>1, DownQuiet DEF WaysInv
<1> QED
  BY <1>2, <1>3

\* An end takes an item.
LEMMA ChainTaken ==
  ASSUME OneWay, flow \in Flows, NEW c \in Conns, NEW w \in Ways, Pops(c, w),
         \A d \in Conns : d # c => Keeps(d, w),
         \A d \in Conns : Writer(d, w) # Reader(c, w),
         NEW num \in [Stations -> Nat], Chain(w, num), Reaches(Reader(c, w), w)
  PROVE  \E new \in [Stations -> Nat] :
            /\ Chain(w, new)'
            /\ \A k \in Stations : k # Reader(c, w) => new[k] = num[k]
            /\ Numbered(Head(flow[c][w])) =>
                 /\ Rank(Head(flow[c][w])) = num[Reader(c, w)] + 1
                 /\ Rank(Head(flow[c][w])) <= Top(w)
                 /\ new[Reader(c, w)] = num[Reader(c, w)] + 1
            /\ ~Numbered(Head(flow[c][w])) =>
                 num[Reader(c, w)] >= 1 /\ new[Reader(c, w)] = num[Reader(c, w)]
<1> DEFINE r == Reader(c, w)
<1> DEFINE x == Head(flow[c][w])
<1>1. flow[c][w] \in Seq(Items) /\ Holds(c, w, num) /\ r \in Stations /\ num[r] \in Nat
  BY ConnStations DEF Flows, Chain
<1>2. /\ Numbered(x) => Rank(x) = num[r] + 1 /\ Rank(x) <= Top(w)
      /\ ~Numbered(x) => num[r] >= 1
  BY <1>1, PopFacts
<1>3. PICK new \in [Stations -> Nat] :
         /\ \A k \in Stations : k # r => new[k] = num[k]
         /\ Numbered(x) => new[r] = num[r] + 1
         /\ ~Numbered(x) => new[r] = num[r]
  <2> DEFINE n == IF Numbered(x) THEN num[r] + 1 ELSE num[r]
  <2> DEFINE m == [num EXCEPT ![r] = n]
  <2>1. n \in Nat
    BY <1>1
  <2> HIDE DEF n, r
  <2>2. m \in [Stations -> Nat] /\ m[r] = n /\ \A k \in Stations : k # r => m[k] = num[k]
    BY <1>1, <2>1
  <2> HIDE DEF m
  <2> QED
    BY <2>2 DEF n
<1>4. Writer(c, w) # r /\ Writer(c, w) \in Stations
  BY <1>1, ConnStations
<1>5. Taken(c, w, num, new)
  BY <1>2, <1>3, <1>4 DEF Taken
<1>6. ASSUME NEW d \in Conns PROVE Moves(d, w, num, new)
  <2>1. CASE d = c
    BY <1>5, <2>1 DEF Moves
  <2>2. CASE d # c
    <3>1. Reader(d, w) # r
      BY <2>2 DEF Reader, Conns, Ways
    <3>2. /\ Reader(d, w) \in Stations /\ Writer(d, w) \in Stations
          /\ Writer(d, w) # r
      BY ConnStations
    <3> QED
      BY <1>3, <2>2, <3>1, <3>2 DEF Moves
  <2> QED
    BY <2>1, <2>2
<1>7. Chain(w, new)'
  BY <1>6, ChainMoves
<1> QED
  BY <1>2, <1>3, <1>7

\* A station writes an item; num only changes there.
LEMMA ChainWrites ==
  ASSUME OneWay, flow \in Flows, NEW c \in Conns, NEW w \in Ways, NEW x \in Items,
         flow'[c][w] = Append(flow[c][w], x) \/ ~Passing(Reader(c, w), w)',
         Passing(Writer(c, w), w),
         \A d \in Conns : d # c => Keeps(d, w),
         NEW num \in [Stations -> Nat], Chain(w, num),
         NEW new \in [Stations -> Nat],
         \A k \in Stations : k # Writer(c, w) => new[k] = num[k],
         Reaches(Writer(c, w), w) => Follows(c, w, x, num, new),
         \A d \in Conns : Reader(d, w) # Writer(c, w) \/ new = num
  PROVE  Chain(w, new)'
<1>1. ASSUME NEW d \in Conns PROVE Moves(d, w, num, new)
  <2>1. /\ Reader(d, w) \in Stations /\ Writer(d, w) \in Stations /\ Reader(c, w) \in Stations
        /\ Reader(c, w) # Writer(c, w)
    BY ConnStations
  <2>2. CASE d = c
    BY <2>1, <2>2 DEF Moves
  <2>3. CASE d # c
    <3>1. Writer(d, w) # Writer(c, w)
      BY <2>3 DEF Writer, Conns, Ways
    <3>2. new[Reader(d, w)] = num[Reader(d, w)] /\ new[Writer(d, w)] = num[Writer(d, w)]
      BY <2>1, <3>1
    <3> QED
      BY <2>3, <3>2 DEF Moves
  <2> QED
    BY <2>2, <2>3
<1> QED
  BY <1>1, ChainMoves

\* The browser answers a ping or a Close.
LEMMA BrowserAnswers ==
  ASSUME OneWay, WaysInv, NEW x \in Items, x.kind \in {"pong", "close"}, browser # "closed",
         flow'[0]["up"] = Append(flow[0]["up"], x) \/ ~Passing(1, "up")',
         \A d \in Conns : d # 0 => Keeps(d, "up"),
         sent' = sent, got' = got, Greeted' = Greeted
  PROVE  UpInv'
<1>1. PICK num \in [Stations -> Nat] : UpOK(num)
  BY DEF WaysInv, UpInv
<1>2. Writer(0, "up") = 0 /\ Reader(0, "up") = 1 /\ 0 \in Stations /\ 0 \in Conns /\ "up" \in Ways
  BY DEF Writer, Reader, Stations, Conns, Ways
<1>3. Passing(0, "up")
  BY DEF Passing, Copies
<1>4. Reaches(0, "up") => Follows(0, "up", x, num, num)
  <2> SUFFICES ASSUME Reaches(0, "up") PROVE Follows(0, "up", x, num, num)
    OBVIOUS
  <2>1. num[0] = Top("up")
    BY <1>1 DEF UpOK
  <2>2. Top("up") >= 1
    BY <1>2 DEF Top, Source, WaysInv, TypeInv, TypeOK, Ends
  <2>3. ~Numbered(x)
    BY DEF Numbered
  <2> QED
    BY <1>2, <2>1, <2>2, <2>3 DEF Follows
<1>5. Chain("up", num)'
  BY <1>1, <1>2, <1>3, <1>4, ChainWrites DEF UpOK, WaysInv, TypeInv
<1>6. Top("up")' = Top("up") /\ (Reaches(0, "up")' => Reaches(0, "up"))
  BY <1>2, ReachesStays DEF Top, Source
<1>7. UpOK(num)'
  BY <1>1, <1>5, <1>6 DEF UpOK
<1> QED
  BY <1>7 DEF UpInv

LEMMA SendKeyWays ==
  ASSUME OneWay, WaysInv, SendKey
  PROVE  UpInv' /\ DownInv'
<1> DEFINE x == Data(sent'["client"])
<1>1. /\ sent["client"] \in Nat /\ sent'["client"] = sent["client"] + 1
      /\ sent'["agent"] = sent["agent"]
  BY DEF SendKey, WaysInv, TypeInv, TypeOK, Ends
<1>2. x \in Items /\ Numbered(x) /\ Rank(x) = sent["client"] + 2
  BY <1>1, ItemFacts
<1>3. flow \in Flows /\ 0 \in Conns /\ "up" \in Ways /\ "down" \in Ways
  BY MsgItems DEF WaysInv, TypeInv
<1>4. Written(flow, flow', 0, "up", x)
  BY <1>2, <1>3, WriteTypes DEF SendKey
<1> HIDE DEF x
<1>5. /\ \A e \in Conns, u \in Ways : e # 0 \/ u # "up" => Keeps(e, u)
      /\ flow'[0]["up"] = Append(flow[0]["up"], x) \/ ~Passing(Reader(0, "up"), "up")'
  BY <1>2, <1>3, <1>4, Writes
<1>6. UNCHANGED <<envVars, browser, node, web, vnc, half, asked, got>> /\ browser = "open"
  BY DEF SendKey
<1>7. Greeted' = Greeted
  BY <1>6 DEF Greeted
<1>8. DownInv'
  <2>1. \A c \in Conns : Keeps(c, "down")
    BY <1>3, <1>5
  <2>2. got["client"] \in Seq(Nat) /\ DownInv
    BY DEF WaysInv, TypeInv, TypeOK, Ends
  <2>3. browser' \in {browser, "closed"} /\ got'["client"] = got["client"]
    BY <1>6
  <2>4. sent'["agent"] = sent["agent"] /\ flow \in Flows
    BY <1>1, <1>3
  <2>5. got'["client"] = got["client"]
    BY <2>3
  <2>6. browser' \in {browser, "closed"} \/ (browser = "open" /\ browser' = "closing")
    BY <2>3
  <2> QED
    BY <1>7, <2>1, <2>2, <2>4, <2>5, <2>6, DownQuiet
<1>9. UpInv'
  <2>1. PICK num \in [Stations -> Nat] : UpOK(num)
    BY DEF WaysInv, UpInv
  <2>2. Writer(0, "up") = 0 /\ 0 \in Stations /\ 4 \in Stations /\ \A d \in Conns : Reader(d, "up") # 0
    BY DEF Writer, Reader, Stations, Conns
  <2>3. Top("up") = sent["client"] + 1 /\ Top("up")' = sent["client"] + 2
    BY <1>1 DEF Top, Source
  <2>4. PICK new \in [Stations -> Nat] :
           new[0] = sent["client"] + 2 /\ \A k \in Stations : k # 0 => new[k] = num[k]
    <3> DEFINE n == sent["client"] + 2
    <3>1. n \in Nat
      BY <1>1
    <3> HIDE DEF n
    <3>2. /\ [num EXCEPT ![0] = n] \in [Stations -> Nat] /\ [num EXCEPT ![0] = n][0] = n
          /\ \A k \in Stations : k # 0 => [num EXCEPT ![0] = n][k] = num[k]
      BY <2>2, <3>1
    <3> QED
      BY <3>2 DEF n
  <2>5. Reaches(0, "up") => Follows(0, "up", x, num, new)
    <3>1. x.kind \notin Late
      BY <1>2 DEF Numbered, Late
    <3>2. Reaches(0, "up") => num[0] = sent["client"] + 1
      BY <2>1, <2>3 DEF UpOK
    <3>3. Reaches(0, "up") => Rank(x) = num[0] + 1 /\ Rank(x) <= Top("up")' /\ new[0] = Rank(x)
      BY <1>1, <1>2, <2>3, <2>4, <3>2
    <3> QED
      BY <1>2, <2>2, <3>1, <3>3 DEF Follows
  <2>6. Passing(0, "up")
    BY <1>6 DEF Passing, Copies
  <2>7. Chain("up", new)'
    BY <1>2, <1>3, <1>5, <2>1, <2>2, <2>4, <2>5, <2>6, ChainWrites DEF UpOK
  <2>8. new[4] = num[4]
    BY <2>2, <2>4
  <2>9. UpOK(new)'
    BY <1>6, <1>7, <2>1, <2>3, <2>4, <2>7, <2>8 DEF UpOK
  <2> QED
    BY <2>9 DEF UpInv
<1> QED
  BY <1>8, <1>9

LEMMA LeavingWays ==
  ASSUME OneWay, WaysInv, Disconnect \/ Leave \/ CloseTimeout
  PROVE  UpInv' /\ DownInv'
<1>1. UNCHANGED <<node, web, vnc, half, sent, got>> /\ browser # "closed"
  BY DEF Disconnect, Leave, CloseTimeout, LeaveFrom, dataVars
<1>2. Greeted' = Greeted
  BY <1>1 DEF Greeted
<1>3. flow \in Flows /\ 0 \in Conns /\ "up" \in Ways /\ "down" \in Ways /\ Msg("close") \in Items
  BY MsgItems DEF WaysInv, TypeInv
<1>4. CASE browser' = "closed" /\ flow' \in Drops(flow, 0, "up", "fin")
  <2>1. \A v \in Ways : ~Passing(0, v)'
    BY <1>4 DEF Passing
  <2>2. Dropped(flow, flow', 0)
    BY <1>3, <1>4, WriteTypes, MsgItems
  <2>3. \A c \in Conns, w \in Ways : Keeps(c, w)
    BY <1>3, <2>1, <2>2, DroppedKeeps
  <2> QED
    BY <1>1, <1>2, <1>4, <2>3, Quiet
<1>5. CASE browser = "open" /\ browser' = "closing" /\ flow' \in Puts(flow, 0, "up", Msg("close"))
  <2>1. Written(flow, flow', 0, "up", Msg("close"))
    BY <1>3, <1>5, WriteTypes
  <2>2. /\ \A e \in Conns, u \in Ways : e # 0 \/ u # "up" => Keeps(e, u)
        /\ flow'[0]["up"] = Append(flow[0]["up"], Msg("close")) \/ ~Passing(Reader(0, "up"), "up")'
    BY <1>3, <2>1, Writes
  <2>3. Reader(0, "up") = 1 /\ Msg("close").kind = "close"
    BY DEF Reader, Msg
  <2>4. UpInv'
    BY <1>1, <1>2, <1>3, <2>2, <2>3, BrowserAnswers
  <2>5. \A c \in Conns : Keeps(c, "down")
    BY <1>3, <2>2
  <2>6. DownInv'
    <3>1. got["client"] \in Seq(Nat) /\ DownInv
      BY DEF WaysInv, TypeInv, TypeOK, Ends
    <3> QED
      BY <1>1, <1>2, <1>3, <1>5, <2>5, <3>1, DownQuiet
  <2> QED
    BY <2>4, <2>6
<1> QED
  BY <1>4, <1>5 DEF Disconnect, Leave, CloseTimeout, LeaveFrom

\* What the browser finds: the answer first, and then update by update.
LEMMA BrowserFinds ==
  ASSUME OneWay, WaysInv, BrowserReads, Head(flow[0]["down"]).kind \notin EndKinds
  PROVE  /\ UpInv' /\ DownInv'
         /\ browser' = "open" => browser \in {"connecting", "open"}
         /\ browser = "open" /\ Head(flow[0]["down"]).kind = "data" =>
              /\ Head(flow[0]["down"]).n = Len(got["client"]) + 1
              /\ Head(flow[0]["down"]).n <= sent["agent"]
<1> DEFINE rest == Pop(flow, 0, "down")
<1> DEFINE x == Head(flow[0]["down"])
<1>1. flow[0]["down"] # <<>> /\ browser # "closed"
  BY DEF BrowserReads, Readable
<1>2. flow \in Flows /\ 0 \in Conns /\ "up" \in Ways /\ "down" \in Ways /\ Rev("up") = "down"
  BY MsgItems DEF WaysInv, TypeInv
<1>3. UNCHANGED <<node, web, vnc, half, sent>> /\ got'["agent"] = got["agent"]
  BY DEF BrowserReads, WaysInv, TypeInv, TypeOK, Ends
<1>4. Greeted' = Greeted
  BY <1>3 DEF Greeted
<1>5. ASSUME flow' = rest
      PROVE  /\ Pops(0, "down") /\ UpInv'
             /\ \A e \in Conns, u \in Ways : e # 0 /\ u = "down" => Keeps(e, u)
  <2>1. Pops(0, "down")
    BY <1>1, <1>2, <1>5, PopFlow DEF Pops
  <2>2. \A e \in Conns, u \in Ways : e # 0 \/ u # "down" => Keeps(e, u)
    BY <1>1, <1>2, <1>5, PopFlow, StillKeeps
  <2>3. \A c \in Conns : Keeps(c, "up")
    BY <1>2, <2>2
  <2>4. UpInv'
    <3>1. sent'["client"] = sent["client"] /\ UpInv
      BY <1>3 DEF WaysInv
    <3> QED
      BY <1>2, <1>3, <1>4, <2>3, <3>1, UpQuiet
  <2> QED
    BY <2>1, <2>2, <2>4
<1>6. ASSUME NEW k \in {"pong", "close"}, flow' \in Puts(rest, 0, "up", Msg(k)), got' = got
      PROVE  /\ Pops(0, "down") /\ UpInv'
             /\ \A e \in Conns, u \in Ways : e # 0 /\ u = "down" => Keeps(e, u)
  <2>1. Msg(k) \in Items /\ Msg(k).kind = k
    BY MsgItems
  <2>2. Written(rest, flow', 0, "up", Msg(k))
    BY <1>1, <1>2, <1>6, <2>1, ReadTypes
  <2> HIDE DEF rest
  <2>3. /\ x.kind \notin EndKinds => Pops(0, "down")
        /\ \A e \in Conns, u \in Ways : (e # 0 \/ u # "down") /\ (e # 0 \/ u # "up") => Keeps(e, u)
        /\ flow'[0]["up"] = Append(flow[0]["up"], Msg(k)) \/ ~Passing(Reader(0, "up"), "up")'
    BY <1>1, <1>2, <2>1, <2>2, ReadWrites DEF rest
  <2>4. Reader(0, "up") = 1
    BY DEF Reader
  <2>5. UpInv'
    <3>1. sent' = sent /\ \A e \in Conns : e # 0 => Keeps(e, "up")
      BY <1>2, <1>3, <2>3
    <3> QED
      BY <1>1, <1>4, <1>6, <2>1, <2>3, <2>4, <3>1, BrowserAnswers
  <2> QED
    BY <2>3, <2>5
<1>7. /\ Pops(0, "down") /\ UpInv'
      /\ \A e \in Conns : e # 0 => Keeps(e, "down")
  <2>1. \/ flow' = rest
        \/ \E k \in {"pong", "close"} : flow' \in Puts(rest, 0, "up", Msg(k)) /\ got' = got
    BY DEF BrowserReads, EndKinds
  <2> QED
    BY <1>2, <1>5, <1>6, <2>1
<1>8. PICK num \in [Stations -> Nat] : DownOK(num)
  BY DEF WaysInv, DownInv
<1>9. /\ Reader(0, "down") = 0 /\ \A d \in Conns : Writer(d, "down") # 0
      /\ 0 \in Stations /\ 3 \in Stations /\ 4 \in Stations
  BY DEF Reader, Writer, Conns, Stations
<1>10. Reaches(0, "down")
  BY <1>1 DEF Reaches, Onward, Passing, Copies
<1>11. PICK new \in [Stations -> Nat] :
            /\ Chain("down", new)'
            /\ \A k \in Stations : k # 0 => new[k] = num[k]
            /\ Numbered(x) => Rank(x) = num[0] + 1 /\ Rank(x) <= Top("down") /\ new[0] = num[0] + 1
            /\ ~Numbered(x) => num[0] >= 1 /\ new[0] = num[0]
  BY <1>2, <1>7, <1>8, <1>9, <1>10, ChainTaken DEF DownOK
<1>12. num[0] \in Nat /\ new[0] \in Nat /\ new[3] = num[3] /\ new[4] = num[4]
  BY <1>9, <1>11
<1>13. x \in Items /\ Top("down") = sent["agent"] + 1 /\ sent["agent"] \in Nat
  BY <1>1, <1>2, PopFlow DEF Top, Source, WaysInv, TypeInv, TypeOK, Ends
<1>14. /\ browser = "connecting" => num[0] = 0 /\ got["client"] = <<>>
       /\ browser = "open" => num[0] = Len(got["client"]) + 1
       /\ browser = "closing" => num[0] >= 1
       /\ browser \in {"connecting", "open", "closing"}
       /\ got["client"] \in Seq(Nat)
  BY <1>1, <1>8 DEF DownOK, WaysInv, SetUp, TypeInv, TypeOK, Ends
<1>15. /\ browser' = "connecting" => new[0] = 0
       /\ browser' = "open" => new[0] = Len(got'["client"]) + 1
       /\ browser' = "closing" => new[0] >= 1
       /\ browser' = "open" => browser \in {"connecting", "open"}
       /\ browser = "open" /\ x.kind = "data" => x.n = Len(got["client"]) + 1 /\ x.n <= sent["agent"]
  <2>1. CASE x.kind = "accept"
    <3>1. Numbered(x) /\ Rank(x) = 1 /\ browser' = "open" /\ got' = got
      BY <1>13, <2>1 DEF BrowserReads, Numbered, Rank, Items, Item
    <3>2. num[0] = 0 /\ new[0] = 1
      BY <1>11, <1>12, <3>1
    <3>3. browser = "connecting" /\ got["client"] = <<>>
      BY <1>14, <3>2
    <3> QED
      BY <2>1, <3>1, <3>2, <3>3
  <2>2. CASE x.kind = "data"
    <3>1. Numbered(x) /\ Rank(x) = x.n + 1 /\ x.n \in Nat /\ x.n # 0 /\ browser' = browser
      BY <1>13, <2>2 DEF BrowserReads, Numbered, Rank, Items, Item
    <3>2. num[0] = x.n /\ new[0] = x.n + 1 /\ x.n <= sent["agent"]
      <4>1. Rank(x) = num[0] + 1 /\ Rank(x) <= Top("down") /\ new[0] = num[0] + 1
        BY <1>11, <3>1
      <4> QED
        BY <1>12, <1>13, <3>1, <4>1
    <3>3. browser # "connecting"
      BY <1>14, <3>1, <3>2
    <3>4. CASE browser = "open"
      <4>1. got' = [got EXCEPT !["client"] = Append(got["client"], x.n)]
        BY <2>2, <3>4 DEF BrowserReads, Listens
      <4>2. got'["client"] = Append(got["client"], x.n)
        BY <4>1 DEF WaysInv, TypeInv, TypeOK, Ends
      <4>3. Len(got'["client"]) = Len(got["client"]) + 1
        BY <1>14, <3>1, <4>2
      <4> QED
        BY <1>14, <3>1, <3>2, <3>4, <4>3
    <3>5. CASE browser = "closing"
      BY <3>1, <3>2, <3>5
    <3> QED
      BY <1>14, <3>3, <3>4, <3>5
  <2>3. CASE x.kind \in {"ping", "close"}
    <3>1. ~Numbered(x)
      BY <2>3 DEF Numbered
    <3>2. num[0] >= 1 /\ new[0] = num[0]
      BY <1>11, <3>1
    <3>3. got' = got /\ browser' \in {browser, "closing"}
      BY <2>3 DEF BrowserReads
    <3> QED
      BY <1>14, <2>3, <3>2, <3>3
  <2> QED
    BY <2>1, <2>2, <2>3 DEF BrowserReads, EndKinds
<1>16. \A j \in {3, 4} : Reaches(j, "down")' => Reaches(j, "down")
  BY <1>2, <1>9, ReachesStays
<1>17. DownOK(new)'
  BY <1>3, <1>4, <1>8, <1>11, <1>12, <1>15, <1>16 DEF DownOK
<1>18. DownInv'
  BY <1>17 DEF DownInv
<1> QED
  BY <1>7, <1>15, <1>18

LEMMA BrowserReadsWays ==
  ASSUME OneWay, WaysInv, BrowserReads
  PROVE  UpInv' /\ DownInv'
<1>1. CASE Head(flow[0]["down"]).kind \notin EndKinds
  BY <1>1, BrowserFinds
<1>2. CASE Head(flow[0]["down"]).kind \in EndKinds
  <2>1. /\ flow[0]["down"] # <<>> /\ browser' = "closed" /\ got' = got
        /\ flow' \in Drops(Pop(flow, 0, "down"), 0, "up", "fin")
    BY <1>2 DEF BrowserReads, Readable, EndKinds
  <2>2. flow \in Flows /\ 0 \in Conns /\ "up" \in Ways /\ "down" \in Ways
    BY MsgItems DEF WaysInv, TypeInv
  <2>3. Dropped(Pop(flow, 0, "down"), flow', 0)
    BY <2>1, <2>2, ReadTypes, MsgItems
  <2>4. \A v \in Ways : ~Passing(Reader(0, "down"), v)'
    BY <2>1 DEF Passing, Reader
  <2>5. \A d \in Conns, v \in Ways : Keeps(d, v)
    BY <2>1, <2>2, <2>3, <2>4, ReadDropped
  <2>6. UNCHANGED <<web, sent>>
    BY DEF BrowserReads
  <2>7. Greeted' = Greeted
    BY <2>6 DEF Greeted
  <2> QED
    BY <2>1, <2>5, <2>6, <2>7, Quiet
<1> QED
  BY <1>1, <1>2

\* A copy gives up both its sockets.
LEMMA QuitKeeps ==
  ASSUME flow \in Flows, NEW c \in Copies, NEW tls \in EndKinds, flow' \in Quits(flow, c, tls),
         \A v \in Ways : ~Passing(c, v)'
  PROVE  \A d \in Conns, v \in Ways : Keeps(d, v)
<1>1. /\ \A d \in Conns : d \notin {c - 1, c} => flow'[d] = flow[d]
      /\ \A d \in Conns, v \in Ways : Fades(flow[d][v], flow'[d][v])
  BY QuitsFacts
<1> TAKE d \in Conns
<1>2. CASE d \notin {c - 1, c}
  BY <1>1, <1>2, StillKeeps
<1>3. CASE d \in {c - 1, c}
  <2>1. c \in {d, d + 1}
    BY <1>3 DEF Copies, Conns
  <2> QED
    BY <1>1, <2>1, GoneKeeps
<1> QED
  BY <1>2, <1>3

LEMMA CopyEdgeWays ==
  ASSUME OneWay, WaysInv, NEW c \in Copies,
         Dial(c) \/ DialFails(c) \/ CopyFails(c) \/ CopyReturns(c)
  PROVE  UpInv' /\ DownInv'
<1>1. flow \in Flows /\ c \in 1 .. 3 /\ c - 1 \in Conns /\ "down" \in Ways
  BY CopyConns, MsgItems DEF WaysInv, TypeInv
<1>2. UNCHANGED <<browser, sent, got>>
  BY DEF Dial, DialFails, CopyFails, CopyReturns, dataVars
<1>3. Greeted' = Greeted
  <2>1. web' = web \/ (web' = "http" /\ node[2] = "dialling")
    BY DEF Dial, DialFails, CopyFails, CopyReturns
  <2>2. node[2] = "dialling" => web = "idle"
    BY DEF WaysInv, SetUp
  <2> QED
    BY <2>1, <2>2 DEF Greeted
<1>4. CASE flow' = flow
  <2>1. \A d \in Conns, w \in Ways : Keeps(d, w)
    BY <1>4, StillKeeps
  <2> QED
    BY <1>2, <1>3, <2>1, Quiet
<1>5. ASSUME node' = [node EXCEPT ![c] = "gone"] PROVE \A v \in Ways : ~Passing(c, v)'
  BY <1>5 DEF Passing, WaysInv, TypeInv, TypeOK, Copies
<1>6. CASE DialFails(c)
  <2>1. PICK how \in EndKinds : flow' \in Drops(flow, c - 1, "down", how)
    BY <1>6 DEF DialFails, EndKinds
  <2>2. Dropped(flow, flow', c - 1)
    BY <1>1, <2>1, WriteTypes
  <2>3. \A v \in Ways : ~Passing(c, v)'
    BY <1>5, <1>6 DEF DialFails
  <2>4. c \in {c - 1, (c - 1) + 1}
    BY <1>1
  <2>5. \A d \in Conns, w \in Ways : Keeps(d, w)
    BY <1>1, <2>2, <2>3, <2>4, DroppedKeeps
  <2> QED
    BY <1>2, <1>3, <2>5, Quiet
<1>7. CASE CopyFails(c) \/ CopyReturns(c)
  <2>1. PICK tls \in EndKinds : flow' \in Quits(flow, c, tls)
    BY <1>7 DEF CopyFails, CopyReturns, EndKinds
  <2>2. \A v \in Ways : ~Passing(c, v)'
    BY <1>5, <1>7 DEF CopyFails, CopyReturns
  <2>3. \A d \in Conns, w \in Ways : Keeps(d, w)
    BY <1>1, <2>1, <2>2, QuitKeeps
  <2> QED
    BY <1>2, <1>3, <2>3, Quiet
<1> QED
  BY <1>4, <1>6, <1>7 DEF Dial

LEMMA KillForwarderWays ==
  ASSUME OneWay, WaysInv, KillForwarder
  PROVE  UpInv' /\ DownInv'
<1>1. flow \in Flows /\ 0 \in Conns /\ "down" \in Ways /\ 1 \in Copies /\ "fin" \in EndKinds /\ "rst" \in EndKinds
  BY MsgItems DEF WaysInv, TypeInv
<1>2. UNCHANGED <<browser, web, sent, got>> /\ node' = [node EXCEPT ![1] = "gone"]
  BY DEF KillForwarder, dataVars
<1>3. Greeted' = Greeted
  BY <1>2 DEF Greeted
<1>4. \A v \in Ways : ~Passing(1, v)'
  BY <1>2 DEF Passing, WaysInv, TypeInv, TypeOK, Copies
<1>5. CASE flow' \in Quits(flow, 1, "rst")
  <2>1. \A d \in Conns, w \in Ways : Keeps(d, w)
    BY <1>1, <1>4, <1>5, QuitKeeps
  <2> QED
    BY <1>2, <1>3, <2>1, Quiet
<1>6. CASE flow' \in Drops(flow, 0, "down", "fin")
  <2>1. Dropped(flow, flow', 0)
    BY <1>1, <1>6, WriteTypes
  <2>2. 1 \in {0, 0 + 1}
    OBVIOUS
  <2>3. \A d \in Conns, w \in Ways : Keeps(d, w)
    BY <1>1, <1>4, <2>1, <2>2, DroppedKeeps
  <2> QED
    BY <1>2, <1>3, <2>3, Quiet
<1> QED
  BY <1>5, <1>6 DEF KillForwarder

\* Station j passes an item on and nothing else moves.
LEMMA RelayWays ==
  ASSUME OneWay, WaysInv, NEW j \in 1 .. 3, NEW w \in Ways, Passing(j, w),
         flow[From(j, w)][w] # <<>>, Head(flow[From(j, w)][w]).kind \notin EndKinds,
         flow' \in Puts(Pop(flow, From(j, w), w), Onto(j, w), w, Head(flow[From(j, w)][w])),
         sent' = sent, got' = got, Greeted' = Greeted, browser' = browser
  PROVE  UpInv' /\ DownInv'
<1> DEFINE x == Head(flow[From(j, w)][w])
<1>1. /\ flow \in Flows /\ From(j, w) \in Conns /\ Onto(j, w) \in Conns /\ From(j, w) # Onto(j, w)
      /\ got["client"] \in Seq(Nat)
  BY StationConns DEF WaysInv, TypeInv, TypeOK, Ends
<1>2. x \in Items
  BY <1>1, PopFlow
<1>3. Written(Pop(flow, From(j, w), w), flow', Onto(j, w), w, x)
  BY <1>1, <1>2, ReadTypes
<1>4. /\ Pops(From(j, w), w)
      /\ \A e \in Conns, u \in Ways : (e # From(j, w) \/ u # w) /\ (e # Onto(j, w) \/ u # w) => Keeps(e, u)
      /\ flow'[Onto(j, w)][w] = Append(flow[Onto(j, w)][w], x) \/ ~Passing(Reader(Onto(j, w), w), w)'
  BY <1>1, <1>2, <1>3, ReadWrites
<1>5. \A e \in Conns : e \notin {From(j, w), Onto(j, w)} => Keeps(e, w)
  BY <1>4
<1>6. /\ w = "up" => UpInv'
      /\ w = "down" => DownInv'
  BY <1>1, <1>4, <1>5, WaysRelay DEF WaysInv
<1>7. \A u \in Ways : u # w => \A e \in Conns : Keeps(e, u)
  BY <1>4
<1>8. w = "up" => DownInv'
  <2> SUFFICES ASSUME w = "up" PROVE DownInv'
    OBVIOUS
  <2>1. \A e \in Conns : Keeps(e, "down")
    BY <1>7 DEF Ways
  <2> QED
    BY <1>1, <2>1, DownQuiet DEF WaysInv
<1>9. w = "down" => UpInv'
  <2> SUFFICES ASSUME w = "down" PROVE UpInv'
    OBVIOUS
  <2>1. \A e \in Conns : Keeps(e, "up")
    BY <1>7 DEF Ways
  <2> QED
    BY <1>1, <2>1, UpQuiet DEF WaysInv
<1> QED
  BY <1>6, <1>8, <1>9 DEF Ways

\* Station j reads the end of way w and passes the end on.
LEMMA EndWays ==
  ASSUME OneWay, WaysInv, NEW j \in 1 .. 3, NEW w \in Ways, ~Passing(j, w)',
         flow[From(j, w)][w] # <<>>,
         flow' \in Puts(Pop(flow, From(j, w), w), Onto(j, w), w, Msg("fin")),
         sent' = sent, got' = got, Greeted' = Greeted, browser' = browser
  PROVE  UpInv' /\ DownInv'
<1>1. /\ flow \in Flows /\ From(j, w) \in Conns /\ Onto(j, w) \in Conns /\ From(j, w) # Onto(j, w)
      /\ Reader(From(j, w), w) = j
  BY StationConns DEF WaysInv, TypeInv
<1>2. Msg("fin") \in Items /\ Msg("fin").kind \in {"fin", "rst"} /\ Msg("fin").n = 0
  BY MsgItems
<1>3. Written(Pop(flow, From(j, w), w), flow', Onto(j, w), w, Msg("fin"))
  BY <1>1, <1>2, ReadTypes
<1>4. /\ \A e \in Conns, u \in Ways : (e # From(j, w) \/ u # w) /\ (e # Onto(j, w) \/ u # w) => Keeps(e, u)
      /\ Keeps(Onto(j, w), w)
  BY <1>1, <1>2, <1>3, ReadWrites
<1>5. Keeps(From(j, w), w)
  BY <1>1 DEF Keeps
<1>6. \A e \in Conns, u \in Ways : Keeps(e, u)
  BY <1>4, <1>5
<1> QED
  BY <1>6, Quiet

LEMMA CopyMoveWays ==
  ASSUME OneWay, WaysInv, NEW c \in Copies, NEW w \in Ways, CopyData(c, w) \/ CopyEnd(c, w)
  PROVE  UpInv' /\ DownInv'
<1>1. c \in 1 .. 3 /\ c \in Conns /\ flow[From(c, w)][w] # <<>>
  BY CopyConns DEF CopyData, CopyEnd, Readable
<1>2. UNCHANGED <<browser, web, sent, got>> /\ node[c] = "run" /\ w \notin half[c]
  BY DEF CopyData, CopyEnd, dataVars
<1>3. Greeted' = Greeted
  BY <1>2 DEF Greeted
<1>4. Passing(c, w)
  BY <1>1, <1>2 DEF Passing, Copies
<1>5. CASE CopyData(c, w)
  <2>1. /\ Head(flow[From(c, w)][w]).kind \notin EndKinds
        /\ flow' \in Puts(Pop(flow, From(c, w), w), Onto(c, w), w, Head(flow[From(c, w)][w]))
    BY <1>5 DEF CopyData, EndKinds
  <2> QED
    BY <1>1, <1>2, <1>3, <1>4, <2>1, RelayWays
<1>6. CASE /\ half' = [half EXCEPT ![c] = half[c] \cup {w}]
           /\ flow' \in Puts(Pop(flow, From(c, w), w), Onto(c, w), w, Msg("fin"))
  <2>1. ~Passing(c, w)'
    BY <1>1, <1>6 DEF Passing, WaysInv, TypeInv, TypeOK
  <2> QED
    BY <1>1, <1>2, <1>3, <1>6, <2>1, EndWays
<1>7. CASE /\ node' = [node EXCEPT ![c] = "gone"]
           /\ flow' \in Quits(Pop(flow, From(c, w), w), c, "fin")
  <2> DEFINE rest == Pop(flow, From(c, w), w)
  <2>1. flow \in Flows /\ From(c, w) \in Conns /\ Reader(From(c, w), w) = c /\ "fin" \in EndKinds
    BY StationConns, <1>1, MsgItems DEF WaysInv, TypeInv
  <2>2. /\ rest \in Flows
        /\ \A u \in Ways : u # w => rest[From(c, w)][u] = flow[From(c, w)][u]
        /\ \A e \in Conns : e # From(c, w) => rest[e] = flow[e]
    BY <1>1, <2>1, PopFlow
  <2>3. flow' \in Quits(rest, c, "fin")
    BY <1>7
  <2> HIDE DEF rest
  <2>4. /\ \A d \in Conns : d \notin {c - 1, c} => flow'[d] = rest[d]
        /\ \A d \in Conns, v \in Ways : Fades(rest[d][v], flow'[d][v])
    BY <2>1, <2>2, <2>3, QuitsFacts
  <2>5. \A v \in Ways : ~Passing(c, v)'
    BY <1>7 DEF Passing, WaysInv, TypeInv, TypeOK, Copies
  <2>6. ASSUME NEW d \in Conns, NEW v \in Ways PROVE Keeps(d, v)
    <3>1. CASE d = From(c, w) /\ v = w
      BY <2>1, <2>5, <3>1 DEF Keeps
    <3>2. CASE ~(d = From(c, w) /\ v = w)
      <4>1. rest[d][v] = flow[d][v]
        BY <2>2, <3>2
      <4>2. Fades(flow[d][v], flow'[d][v])
        BY <2>4, <4>1
      <4>3. CASE d \notin {c - 1, c}
        BY <2>4, <4>1, <4>3, StillKeeps
      <4>4. CASE d \in {c - 1, c}
        <5>1. Reader(d, v) = c \/ Writer(d, v) = c
          BY <1>1, <4>4 DEF Reader, Writer, Conns, Ways
        <5> QED
          BY <2>5, <4>2, <5>1 DEF Keeps
      <4> QED
        BY <4>3, <4>4
    <3> QED
      BY <3>1, <3>2
  <2> QED
    BY <1>2, <1>3, <2>6, Quiet
<1> QED
  BY <1>5, <1>6, <1>7 DEF CopyEnd

-----------------------------------------------------------------------------
(* The bridge.                                                              *)

LEMMA NumEdit ==
  ASSUME NEW num \in [Stations -> Nat], NEW lo \in {3, 4}
  PROVE  \E new \in [Stations -> Nat] : \A k \in 0 .. 4 : new[k] = IF k < lo THEN num[k] ELSE 1
<1> DEFINE new == [k \in Stations |-> IF k < lo THEN num[k] ELSE 1]
<1>1. new \in [Stations -> Nat]
  OBVIOUS
<1>2. \A k \in 0 .. 4 : new[k] = IF k < lo THEN num[k] ELSE 1
  BY DEF Stations
<1> HIDE DEF new
<1> QED
  BY <1>1, <1>2

\* Nothing has crossed the connection to the VNC server yet.
LEMMA QuietLink ==
  ASSUME OneWay, TypeInv, NEW w \in Ways, flow'[3][w] = <<>>,
         NEW new \in [Stations -> Nat], new[Reader(3, w)] = 1,
         Passing(3, w)' => new[3] = 1 /\ new[4] = 1
  PROVE  Holds(3, w, new)'
<1>1. Carries(<<>>, 1, 1)
  BY CarriesNothing
<1>2. 1 \in 0 .. Top(w)'
  <2>1. Top(w)' \in Nat /\ Top(w) \in Nat /\ Top(w) <= Top(w)'
    BY DEF OneWay
  <2>2. Top(w) >= 1
    BY DEF Top, Source, TypeInv, TypeOK, Ends
  <2> QED
    BY <2>1, <2>2
<1>3. Reaches(Writer(3, w), w)' => 1 = new[Writer(3, w)]
  <2>1. Writer(3, w) \in {3, 4} /\ 3 \in Onward(Writer(3, w), w)
    BY DEF Writer, Ways, Onward
  <2>2. Reaches(Writer(3, w), w)' => Passing(3, w)'
    BY <2>1 DEF Reaches
  <2> QED
    BY <2>1, <2>2
<1> QED
  BY <1>1, <1>2, <1>3 DEF Holds

LEMMA UpgradeFacts ==
  ASSUME WaysInv, Upgrade
  PROVE  /\ web = "http" /\ vnc = "idle" /\ half[3] = {} /\ got["agent"] = <<>> /\ sent["agent"] = 0
         /\ UNCHANGED <<browser, node, vnc, half, sent, got>>
         /\ flow[2]["up"] # <<>> /\ flow[3]["up"] = <<>> /\ flow[3]["down"] = <<>>
         /\ Greeted = 0 /\ Greeted' = 1
         /\ TypeInv /\ flow \in Flows
         /\ 2 \in Conns /\ 3 \in Conns /\ "up" \in Ways /\ "down" \in Ways
BY DEF Upgrade, WaysInv, TypeInv, SetUp, Readable, dataVars, Greeted, Ways, Conns

LEMMA UpgradeAccepts ==
  ASSUME OneWay, WaysInv, Upgrade, web' = "dialling"
  PROVE  UpInv' /\ DownInv'
<1>1. /\ Head(flow[2]["up"]).kind = "get"
      /\ flow' \in Puts(Pop(flow, 2, "up"), 2, "down", Msg("accept"))
  BY DEF Upgrade
<1>2. Head(flow[2]["up"]) \in Items /\ Numbered(Head(flow[2]["up"])) /\ Rank(Head(flow[2]["up"])) = 1
  <2>1. Head(flow[2]["up"]) \in Items
    BY UpgradeFacts, PopFlow
  <2> QED
    BY <1>1, <2>1 DEF Items, Item, Numbered, Rank
<1>3. Msg("accept") \in Items /\ Numbered(Msg("accept")) /\ Rank(Msg("accept")) = 1 /\ Msg("accept").kind \notin Late
  BY MsgItems DEF Numbered, Rank, Late
<1>4. Written(Pop(flow, 2, "up"), flow', 2, "down", Msg("accept"))
  BY <1>1, <1>3, UpgradeFacts, ReadTypes
<1>5. /\ Pops(2, "up")
      /\ \A e \in Conns, u \in Ways : e # 2 => Keeps(e, u)
      /\ flow'[2]["down"] = Append(flow[2]["down"], Msg("accept")) \/ ~Passing(Reader(2, "down"), "down")'
  BY <1>1, <1>3, <1>4, UpgradeFacts, MsgItems, ReadWrites DEF EndKinds
<1>6. flow'[3] = flow[3]
  BY <1>4, UpgradeFacts, PopFlow DEF Written
<1>7. /\ Reader(2, "up") = 3 /\ Writer(2, "up") = 2 /\ Reader(3, "up") = 4
      /\ Reader(2, "down") = 2 /\ Writer(2, "down") = 3 /\ Reader(3, "down") = 3 /\ Writer(3, "down") = 4
      /\ \A k \in 0 .. 4 : k \in Stations /\ {3, 4} \in SUBSET Stations
      /\ Conns = {0, 1, 2, 3}
  BY DEF Reader, Writer, Stations, Conns
<1>8. UpInv'
  <2>1. PICK num \in [Stations -> Nat] : UpOK(num)
    BY DEF WaysInv, UpInv
  <2>2. PICK new \in [Stations -> Nat] :
            /\ new[3] = 1 /\ new[4] = 1
            /\ new[0] = num[0] /\ new[1] = num[1] /\ new[2] = num[2]
    <3>1. PICK new \in [Stations -> Nat] : \A k \in 0 .. 4 : new[k] = IF k < 3 THEN num[k] ELSE 1
      BY NumEdit
    <3> QED
      BY <3>1
  <2>3. \A c \in Conns : Holds(c, "up", num) /\ flow[c]["up"] \in Seq(Items)
    BY <2>1, UpgradeFacts DEF UpOK, Chain, Flows
  <2>4. ASSUME NEW c \in {0, 1} PROVE Holds(c, "up", new)'
    <3>1. c \in Conns /\ Reader(c, "up") \in {1, 2} /\ Writer(c, "up") \in {0, 1} /\ Keeps(c, "up")
      BY <1>5, <1>7, UpgradeFacts DEF Reader, Writer
    <3> QED
      BY <2>2, <2>3, <3>1, UpgradeFacts, HoldsKept
  <2>5. Holds(2, "up", new)'
    <3>1. Taken(2, "up", num, new)
      BY <1>2, <1>7, <2>2 DEF Taken
    <3> QED
      BY <1>5, <2>3, <3>1, UpgradeFacts, HoldsPopped
  <2>6. Holds(3, "up", new)'
    BY <1>6, <1>7, <2>2, UpgradeFacts, QuietLink
  <2>7. Chain("up", new)'
    BY <1>7, <2>4, <2>5, <2>6 DEF Chain
  <2>8. Top("up")' = Top("up") /\ (Reaches(0, "up")' => Reaches(0, "up"))
    BY <1>7, UpgradeFacts, ReachesStays DEF Top, Source
  <2>9. new[4] = Len(got'["agent"]) + Greeted'
    BY <2>2, UpgradeFacts
  <2>10. UpOK(new)'
    BY <2>1, <2>2, <2>7, <2>8, <2>9 DEF UpOK
  <2> QED
    BY <2>10 DEF UpInv
<1>9. DownInv'
  <2>1. PICK num \in [Stations -> Nat] : DownOK(num)
    BY DEF WaysInv, DownInv
  <2>2. PICK new \in [Stations -> Nat] :
            /\ new[3] = 1 /\ new[4] = 1
            /\ new[0] = num[0] /\ new[1] = num[1] /\ new[2] = num[2]
    <3>1. PICK new \in [Stations -> Nat] : \A k \in 0 .. 4 : new[k] = IF k < 3 THEN num[k] ELSE 1
      BY NumEdit
    <3> QED
      BY <3>1
  <2>3. \A c \in Conns : Holds(c, "down", num) /\ flow[c]["down"] \in Seq(Items)
    BY <2>1, UpgradeFacts DEF DownOK, Chain, Flows
  <2>4. ASSUME NEW c \in {0, 1} PROVE Holds(c, "down", new)'
    <3>1. c \in Conns /\ Reader(c, "down") \in {0, 1} /\ Writer(c, "down") \in {1, 2} /\ Keeps(c, "down")
      BY <1>5, <1>7, UpgradeFacts DEF Reader, Writer
    <3> QED
      BY <2>2, <2>3, <3>1, UpgradeFacts, HoldsKept
  <2>5. Passing(3, "down") /\ Passing(4, "down")
    BY UpgradeFacts DEF Passing, Copies
  <2>6. Reaches(3, "down") => num[3] = 0
    <3> SUFFICES ASSUME Reaches(3, "down") PROVE num[3] = 0
      OBVIOUS
    <3>1. Reaches(4, "down")
      BY <1>7, <2>5, UpgradeFacts, ReachesNext
    <3>2. num[4] = 0
      BY <2>1, <3>1, UpgradeFacts DEF DownOK
    <3>3. PICK m \in 0 .. Top("down") : Carries(flow[3]["down"], num[3], m) /\ m = num[4]
      BY <1>7, <2>3, <3>1, UpgradeFacts DEF Holds
    <3>4. num[3] <= 0 /\ num[3] \in Nat
      BY <1>7, <3>2, <3>3 DEF Carries
    <3> QED
      BY <3>4
  <2>7. Top("down")' = 1
    BY UpgradeFacts DEF Top, Source
  <2>8. Reaches(3, "down") => Follows(2, "down", Msg("accept"), num, new)
    BY <1>3, <1>7, <2>2, <2>6, <2>7 DEF Follows
  <2>9. Holds(2, "down", new)'
    BY <1>3, <1>5, <1>7, <2>2, <2>3, <2>5, <2>8, UpgradeFacts, HoldsPushed
  <2>10. Holds(3, "down", new)'
    BY <1>6, <1>7, <2>2, UpgradeFacts, QuietLink
  <2>11. Chain("down", new)'
    BY <1>7, <2>4, <2>9, <2>10 DEF Chain
  <2>12. new[4] = sent'["agent"] + Greeted' /\ new[3] >= 1
    BY <2>2, UpgradeFacts
  <2>13. DownOK(new)'
    BY <2>1, <2>2, <2>11, <2>12, UpgradeFacts DEF DownOK
  <2> QED
    BY <2>13 DEF DownInv
<1> QED
  BY <1>8, <1>9

LEMMA UpgradeFails ==
  ASSUME OneWay, WaysInv, Upgrade, web' # "dialling"
  PROVE  UpInv' /\ DownInv'
<1>1. web' = "gone" /\ flow' \in Drops(Pop(flow, 2, "up"), 2, "down", "fin")
  BY DEF Upgrade
<1>2. Dropped(Pop(flow, 2, "up"), flow', 2)
  BY <1>1, UpgradeFacts, MsgItems, ReadTypes
<1>3. \A w \in Ways : ~Passing(3, w)'
  BY <1>1 DEF Passing
<1>4. Reader(2, "up") = 3
  BY DEF Reader
<1>5. \A c \in Conns, w \in Ways : Keeps(c, w)
  BY <1>2, <1>3, <1>4, UpgradeFacts, ReadDropped
<1>6. flow'[3] = flow[3]
  BY <1>2, UpgradeFacts, PopFlow DEF Dropped
<1>7. /\ Conns = {0, 1, 2, 3} /\ 0 \in Stations /\ 4 \in Stations /\ {4} \in SUBSET Stations
      /\ \A k \in 0 .. 3 : k \in Stations /\ k \notin {4}
      /\ Reader(3, "up") = 4
  BY DEF Conns, Stations, Reader
<1>8. UpInv'
  <2>1. PICK num \in [Stations -> Nat] : UpOK(num)
    BY DEF WaysInv, UpInv
  <2>2. PICK new \in [Stations -> Nat] : new[4] = 1 /\ \A k \in 0 .. 3 : new[k] = num[k]
    <3>1. PICK new \in [Stations -> Nat] : \A k \in 0 .. 4 : new[k] = IF k < 4 THEN num[k] ELSE 1
      BY NumEdit
    <3> QED
      BY <3>1
  <2>3. ASSUME NEW c \in {0, 1, 2} PROVE Holds(c, "up", new)'
    <3>1. c \in Conns /\ Holds(c, "up", num)
      BY <1>7, <2>1 DEF UpOK, Chain
    <3>2. Reader(c, "up") \in 0 .. 3 /\ Writer(c, "up") \in 0 .. 3
      BY DEF Reader, Writer
    <3> QED
      BY <1>5, <2>2, <3>1, <3>2, UpgradeFacts, HoldsKept
  <2>4. Holds(3, "up", new)'
    BY <1>3, <1>6, <1>7, <2>2, UpgradeFacts, QuietLink
  <2>5. Chain("up", new)'
    BY <1>7, <2>3, <2>4 DEF Chain
  <2>6. Top("up")' = Top("up") /\ (Reaches(0, "up")' => Reaches(0, "up")) /\ new[0] = num[0]
    BY <1>7, <2>2, UpgradeFacts, ReachesStays DEF Top, Source
  <2>7. new[4] = Len(got'["agent"]) + Greeted'
    BY <2>2, UpgradeFacts
  <2>8. UpOK(new)'
    BY <2>1, <2>5, <2>6, <2>7 DEF UpOK
  <2> QED
    BY <2>8 DEF UpInv
<1>9. DownInv'
  <2>1. PICK num \in [Stations -> Nat] : DownOK(num)
    BY DEF WaysInv, DownInv
  <2>2. \A c \in Conns : Moves(c, "down", num, num)
    BY <1>5, UpgradeFacts DEF Moves
  <2>3. Chain("down", num)'
    BY <2>1, <2>2, UpgradeFacts, ChainMoves DEF DownOK
  <2>4. ~Reaches(3, "down")' /\ ~Reaches(4, "down")'
    BY <1>3, UpgradeFacts DEF Reaches, Onward
  <2>5. DownOK(num)'
    BY <2>1, <2>3, <2>4, UpgradeFacts DEF DownOK
  <2> QED
    BY <2>5 DEF DownInv
<1> QED
  BY <1>8, <1>9

LEMMA DialVncWays ==
  ASSUME OneWay, WaysInv, DialVnc
  PROVE  UpInv' /\ DownInv'
<1>1. UNCHANGED <<browser, sent, got>> /\ web = "dialling" /\ web' \in {"run", "gone"}
  BY DEF DialVnc, dataVars
<1>2. Greeted' = Greeted
  BY <1>1 DEF Greeted
<1>3. flow \in Flows /\ 2 \in Conns /\ "down" \in Ways /\ "fin" \in EndKinds
  BY MsgItems DEF WaysInv, TypeInv
<1>4. CASE flow' = flow
  <2>1. \A c \in Conns, w \in Ways : Keeps(c, w)
    BY <1>4, StillKeeps
  <2> QED
    BY <1>1, <1>2, <2>1, Quiet
<1>5. CASE web' = "gone" /\ flow' \in Drops(flow, 2, "down", "fin")
  <2>1. \A v \in Ways : ~Passing(3, v)'
    BY <1>5 DEF Passing
  <2>2. Dropped(flow, flow', 2)
    BY <1>3, <1>5, WriteTypes
  <2>3. 3 \in {2, 2 + 1}
    OBVIOUS
  <2>4. \A c \in Conns, w \in Ways : Keeps(c, w)
    BY <1>3, <2>1, <2>2, <2>3, DroppedKeeps
  <2> QED
    BY <1>1, <1>2, <2>4, Quiet
<1> QED
  BY <1>4, <1>5 DEF DialVnc

LEMMA ToVncWays ==
  ASSUME OneWay, WaysInv, ToVnc
  PROVE  UpInv' /\ DownInv'
<1> DEFINE x == Head(flow[2]["up"])
<1> DEFINE rest == Pop(flow, 2, "up")
<1>1. /\ UNCHANGED <<browser, web, node, vnc, sent, got>> /\ web = "run" /\ "up" \notin half[3]
      /\ flow[2]["up"] # <<>>
  BY DEF ToVnc, dataVars, Readable
<1>2. Greeted' = Greeted
  BY <1>1 DEF Greeted
<1>3. From(3, "up") = 2 /\ Onto(3, "up") = 3 /\ 3 \in 1 .. 3 /\ "up" \in Ways
  BY DEF From, Onto, Ways
<1>4. Passing(3, "up")
  BY <1>1 DEF Passing, Copies
<1>5. CASE x.kind = "data" /\ flow' \in Puts(rest, 3, "up", x)
  <2>1. x.kind \notin EndKinds
    BY <1>5 DEF EndKinds
  <2> QED
    BY <1>1, <1>2, <1>3, <1>4, <1>5, <2>1, RelayWays
<1>6. CASE ToVncEnds(rest)
  <2>1. /\ half' = [half EXCEPT ![3] = half[3] \cup {"up"}]
        /\ flow' \in Puts(rest, 3, "up", Msg("fin"))
    BY <1>6 DEF ToVncEnds
  <2>2. ~Passing(3, "up")'
    BY <2>1 DEF Passing, WaysInv, TypeInv, TypeOK
  <2> QED
    BY <1>1, <1>2, <1>3, <2>1, <2>2, EndWays
<1>7. CASE x.kind = "pong" /\ flow' = rest
  <2>1. /\ flow \in Flows /\ 2 \in Conns /\ Reader(2, "up") = 3 /\ ~Numbered(x) /\ x.kind \notin EndKinds
        /\ "up" \in Ways /\ "down" \in Ways
    BY <1>7 DEF WaysInv, TypeInv, Conns, Ways, Reader, Numbered, EndKinds
  <2>2. /\ flow'[2]["up"] = Tail(flow[2]["up"])
        /\ \A e \in Conns, u \in Ways : e # 2 \/ u # "up" => flow'[e][u] = flow[e][u]
    BY <1>1, <1>7, <2>1, PopFlow
  <2>3. Pops(2, "up")
    BY <1>1, <2>1, <2>2 DEF Pops
  <2>4. \A e \in Conns, u \in Ways : e # 2 \/ u # "up" => Keeps(e, u)
    BY <2>2, StillKeeps
  <2>5. DownInv'
    <3>1. \A c \in Conns : Keeps(c, "down")
      BY <2>1, <2>4
    <3>2. got["client"] \in Seq(Nat) /\ DownInv
      BY DEF WaysInv, TypeInv, TypeOK, Ends
    <3> QED
      BY <1>1, <1>2, <2>1, <3>1, <3>2, DownQuiet
  <2>6. UpInv'
    <3>1. PICK num \in [Stations -> Nat] : UpOK(num)
      BY DEF WaysInv, UpInv
    <3>2. Taken(2, "up", num, num)
      BY <2>1 DEF Taken
    <3>3. \A c \in Conns : Moves(c, "up", num, num)
      BY <2>1, <2>3, <2>4, <3>2 DEF Moves
    <3>4. Chain("up", num)'
      BY <2>1, <3>1, <3>3, ChainMoves DEF UpOK
    <3>5. Top("up")' = Top("up") /\ (Reaches(0, "up")' => Reaches(0, "up"))
      BY <1>1, <2>1, ReachesStays DEF Top, Source, Stations
    <3>6. UpOK(num)'
      BY <1>1, <1>2, <3>1, <3>4, <3>5 DEF UpOK
    <3> QED
      BY <3>6 DEF UpInv
  <2> QED
    BY <2>5, <2>6
<1> QED
  BY <1>5, <1>6, <1>7 DEF ToVnc

\* The bridge sends a ping or a Close to the browser.
LEMMA BridgeSays ==
  ASSUME OneWay, WaysInv, NEW x \in Items, x.kind \in {"ping", "close"},
         Passing(3, "down"), web = "run",
         flow'[2]["down"] = Append(flow[2]["down"], x) \/ ~Passing(Reader(2, "down"), "down")',
         \A d \in Conns : d # 2 => Keeps(d, "down"),
         \A d \in Conns : Keeps(d, "up"),
         sent' = sent, got' = got, web' = web, browser' = browser
  PROVE  UpInv' /\ DownInv'
<1>1. Greeted' = Greeted /\ Greeted = 1
  BY DEF Greeted
<1>2. PICK num \in [Stations -> Nat] : DownOK(num)
  BY DEF WaysInv, DownInv
<1>3. /\ Writer(2, "down") = 3 /\ 3 \in Stations /\ 4 \in Stations /\ 2 \in Conns /\ "down" \in Ways
      /\ flow \in Flows
  BY DEF Writer, Stations, Conns, Ways, WaysInv, TypeInv
<1>4. Reaches(3, "down") => Follows(2, "down", x, num, num)
  <2> SUFFICES ASSUME Reaches(3, "down") PROVE Follows(2, "down", x, num, num)
    OBVIOUS
  <2>1. num[3] >= 1
    BY <1>1, <1>2 DEF DownOK
  <2>2. ~Numbered(x)
    BY DEF Numbered
  <2> QED
    BY <1>3, <2>1, <2>2 DEF Follows
<1>5. Chain("down", num)'
  BY <1>2, <1>3, <1>4, ChainWrites DEF DownOK
<1>6. \A j \in {3, 4} : Reaches(j, "down")' => Reaches(j, "down")
  BY <1>3, ReachesStays
<1>7. DownOK(num)'
  BY <1>1, <1>2, <1>5, <1>6 DEF DownOK
<1>8. UpInv'
  BY <1>1, <1>3, UpQuiet DEF WaysInv
<1> QED
  BY <1>7, <1>8 DEF DownInv

LEMMA FromVncWays ==
  ASSUME OneWay, WaysInv, FromVnc
  PROVE  UpInv' /\ DownInv'
<1> DEFINE x == Head(flow[3]["down"])
<1> DEFINE rest == Pop(flow, 3, "down")
<1>1. /\ UNCHANGED <<browser, web, node, vnc, sent, got>> /\ web = "run" /\ "down" \notin half[3]
      /\ flow[3]["down"] # <<>>
  BY DEF FromVnc, dataVars, Readable
<1>2. Greeted' = Greeted
  BY <1>1 DEF Greeted
<1>3. From(3, "down") = 3 /\ Onto(3, "down") = 2 /\ 3 \in 1 .. 3 /\ "down" \in Ways
  BY DEF From, Onto, Ways
<1>4. Passing(3, "down")
  BY <1>1 DEF Passing, Copies
<1>5. CASE x.kind = "data" /\ flow' \in Puts(rest, 2, "down", x)
  <2>1. x.kind \notin EndKinds
    BY <1>5 DEF EndKinds
  <2> QED
    BY <1>1, <1>2, <1>3, <1>4, <1>5, <2>1, RelayWays
<1>6. CASE FromVncEnds(rest)
  <2>1. /\ half' = [half EXCEPT ![3] = half[3] \cup {"down"}]
        /\ flow' \in Puts(rest, 2, "down", Msg("close"))
    BY <1>6 DEF FromVncEnds
  <2>2. ~Passing(3, "down")'
    BY <2>1 DEF Passing, WaysInv, TypeInv, TypeOK
  <2>3. /\ flow \in Flows /\ 2 \in Conns /\ 3 \in Conns /\ Reader(3, "down") = 3 /\ "up" \in Ways
        /\ Msg("close") \in Items /\ Msg("close").kind = "close"
    BY MsgItems DEF WaysInv, TypeInv, Reader
  <2>4. Written(rest, flow', 2, "down", Msg("close"))
    BY <1>1, <1>3, <2>1, <2>3, ReadTypes
  <2>5. /\ \A e \in Conns, u \in Ways : (e # 3 \/ u # "down") /\ (e # 2 \/ u # "down") => Keeps(e, u)
        /\ flow'[2]["down"] = Append(flow[2]["down"], Msg("close")) \/ ~Passing(Reader(2, "down"), "down")'
    BY <1>1, <1>3, <2>3, <2>4, ReadWrites
  <2>6. Keeps(3, "down")
    BY <2>2, <2>3 DEF Keeps
  <2>7. /\ \A d \in Conns : d # 2 => Keeps(d, "down")
        /\ \A d \in Conns : Keeps(d, "up")
    BY <1>3, <2>3, <2>5, <2>6
  <2> QED
    BY <1>1, <1>4, <2>3, <2>5, <2>7, BridgeSays
<1> QED
  BY <1>5, <1>6 DEF FromVnc

LEMMA PingWays ==
  ASSUME OneWay, WaysInv, Ping
  PROVE  UpInv' /\ DownInv'
<1>1. /\ UNCHANGED <<browser, web, sent, got>> /\ web = "run" /\ "down" \notin half[3]
  BY DEF Ping, dataVars
<1>2. PICK k \in {"ping", "close"} : flow' \in Puts(flow, 2, "down", Msg(k))
  BY DEF Ping, FromVncEnds
<1>3. /\ Msg(k) \in Items /\ Msg(k).kind = k /\ flow \in Flows /\ 2 \in Conns
      /\ "up" \in Ways /\ "down" \in Ways
  BY MsgItems DEF WaysInv, TypeInv
<1>4. Written(flow, flow', 2, "down", Msg(k))
  BY <1>2, <1>3, WriteTypes
<1>5. /\ \A e \in Conns, u \in Ways : e # 2 \/ u # "down" => Keeps(e, u)
      /\ flow'[2]["down"] = Append(flow[2]["down"], Msg(k)) \/ ~Passing(Reader(2, "down"), "down")'
  BY <1>3, <1>4, Writes
<1>6. /\ \A d \in Conns : d # 2 => Keeps(d, "down")
      /\ \A d \in Conns : Keeps(d, "up")
  BY <1>3, <1>5
<1>7. Passing(3, "down")
  BY <1>1 DEF Passing, Copies
<1> QED
  BY <1>1, <1>3, <1>5, <1>6, <1>7, BridgeSays

LEMMA BridgeReturnsWays ==
  ASSUME OneWay, WaysInv, BridgeReturns
  PROVE  UpInv' /\ DownInv'
<1>1. /\ UNCHANGED <<browser, sent, got>> /\ web = "run" /\ web' = "gone"
  BY DEF BridgeReturns, dataVars
<1>2. Greeted' = Greeted
  BY <1>1 DEF Greeted
<1>3. PICK g \in Drops(flow, 2, "down", "fin") : flow' \in Drops(g, 3, "up", "fin")
  BY DEF BridgeReturns
<1>4. /\ flow \in Flows /\ 2 \in Conns /\ 3 \in Conns /\ "fin" \in EndKinds
      /\ "up" \in Ways /\ "down" \in Ways
  BY MsgItems DEF WaysInv, TypeInv
<1>5. Dropped(flow, g, 2)
  BY <1>3, <1>4, WriteTypes
<1>6. Dropped(g, flow', 3)
  BY <1>3, <1>4, <1>5, DropsFacts DEF Dropped
<1>7. \A v \in Ways : ~Passing(3, v)'
  BY <1>1 DEF Passing
<1>8. \A v \in Ways : Keeps(2, v)
  <2>1. \A v \in Ways : Fades(flow[2][v], flow'[2][v])
    BY <1>4, <1>5, <1>6 DEF Dropped
  <2>2. 3 \in {2, 2 + 1}
    OBVIOUS
  <2> QED
    BY <1>4, <1>7, <2>1, <2>2, GoneKeeps
<1>9. \A v \in Ways : Keeps(3, v)
  <2>1. \A v \in Ways : Fades(flow[3][v], flow'[3][v])
    <3>1. g[3] = flow[3]
      BY <1>4, <1>5 DEF Dropped
    <3> QED
      BY <1>6, <3>1 DEF Dropped
  <2>2. 3 \in {3, 3 + 1}
    OBVIOUS
  <2> QED
    BY <1>4, <1>7, <2>1, <2>2, GoneKeeps
<1>10. \A c \in Conns : c # 2 /\ c # 3 => flow'[c] = flow[c]
  BY <1>5, <1>6 DEF Dropped
<1>11. \A c \in Conns, w \in Ways : Keeps(c, w)
  BY <1>8, <1>9, <1>10, StillKeeps
<1> QED
  BY <1>1, <1>2, <1>11, Quiet

-----------------------------------------------------------------------------
(* The VNC server, and what the world does.                                 *)

\* What the VNC server finds: key after key.
LEMMA VncFinds ==
  ASSUME OneWay, WaysInv, VncReads, Head(flow[3]["up"]).kind \notin EndKinds
  PROVE  /\ UpInv' /\ DownInv'
         /\ vnc' = vnc /\ got' = [got EXCEPT !["agent"] = Append(got["agent"], Len(got["agent"]) + 1)]
         /\ Len(got["agent"]) + 1 <= sent["client"]
<1> DEFINE x == Head(flow[3]["up"])
<1>1. flow[3]["up"] # <<>> /\ vnc = "open" /\ UNCHANGED <<browser, node, web, half, sent>>
  BY DEF VncReads, Readable
<1>2. /\ x.kind = "data" /\ flow' = Pop(flow, 3, "up") /\ vnc' = vnc
      /\ got' = [got EXCEPT !["agent"] = Append(got["agent"], x.n)]
  BY DEF VncReads, EndKinds
<1>3. /\ flow \in Flows /\ 3 \in Conns /\ "up" \in Ways /\ "down" \in Ways
      /\ got["agent"] \in Seq(Nat) /\ sent["client"] \in Nat /\ got \in [Ends -> Seq(Nat)] /\ "agent" \in Ends
  BY MsgItems DEF WaysInv, TypeInv, TypeOK, Ends
<1>4. Greeted' = Greeted /\ Greeted = 1
  <2>1. web \notin {"idle", "http"}
    BY <1>1 DEF WaysInv, SetUp
  <2> QED
    BY <1>1, <2>1 DEF Greeted
<1>5. x \in Items /\ Numbered(x) /\ Rank(x) = x.n + 1 /\ x.n \in Nat
  <2>1. x \in Items
    BY <1>1, <1>3, PopFlow
  <2> QED
    BY <1>2, <2>1 DEF Items, Item, Numbered, Rank
<1>6. /\ flow'[3]["up"] = Tail(flow[3]["up"])
      /\ \A e \in Conns, u \in Ways : e # 3 \/ u # "up" => flow'[e][u] = flow[e][u]
  BY <1>1, <1>2, <1>3, PopFlow
<1>7. Pops(3, "up")
  BY <1>1, <1>6 DEF Pops
<1>8. \A e \in Conns, u \in Ways : e # 3 \/ u # "up" => Keeps(e, u)
  BY <1>6, StillKeeps
<1>9. /\ Reader(3, "up") = 4 /\ \A d \in Conns : Writer(d, "up") # 4
      /\ 0 \in Stations /\ 4 \in Stations
  BY DEF Reader, Writer, Conns, Stations
<1>10. Reaches(4, "up")
  BY <1>1 DEF Reaches, Onward, Passing, Copies
<1>11. PICK num \in [Stations -> Nat] : UpOK(num)
  BY DEF WaysInv, UpInv
<1>12. PICK new \in [Stations -> Nat] :
          /\ Chain("up", new)'
          /\ \A k \in Stations : k # 4 => new[k] = num[k]
          /\ Rank(x) = num[4] + 1 /\ Rank(x) <= Top("up") /\ new[4] = num[4] + 1
  <2>1. \A d \in Conns : d # 3 => Keeps(d, "up")
    BY <1>3, <1>8
  <2>2. Chain("up", num) /\ Reaches(Reader(3, "up"), "up") /\ \A d \in Conns : Writer(d, "up") # Reader(3, "up")
    BY <1>9, <1>10, <1>11 DEF UpOK
  <2>3. PICK new \in [Stations -> Nat] :
            /\ Chain("up", new)'
            /\ \A k \in Stations : k # Reader(3, "up") => new[k] = num[k]
            /\ Numbered(x) =>
                 /\ Rank(x) = num[Reader(3, "up")] + 1
                 /\ Rank(x) <= Top("up")
                 /\ new[Reader(3, "up")] = num[Reader(3, "up")] + 1
    BY <1>3, <1>7, <2>1, <2>2, ChainTaken
  <2> QED
    BY <1>5, <1>9, <2>3
<1>13. num[4] = Len(got["agent"]) + 1 /\ Top("up") = sent["client"] + 1
  BY <1>4, <1>11 DEF UpOK, Top, Source
<1>14. x.n = Len(got["agent"]) + 1 /\ Len(got["agent"]) + 1 <= sent["client"]
  BY <1>3, <1>5, <1>12, <1>13
<1>15. Len(got'["agent"]) = Len(got["agent"]) + 1 /\ got'["client"] = got["client"]
  <2>1. got'["agent"] = Append(got["agent"], x.n)
    BY <1>2, <1>3
  <2>2. Len(got'["agent"]) = Len(got["agent"]) + 1
    BY <1>3, <1>5, <2>1
  <2>3. got'["client"] = got["client"]
    BY <1>2, <1>3 DEF Ends
  <2> QED
    BY <2>2, <2>3
<1>16. UpInv'
  <2>1. new[4] = Len(got'["agent"]) + Greeted'
    BY <1>4, <1>12, <1>13, <1>15
  <2>2. new[0] = num[0]
    BY <1>9, <1>12
  <2>3. Top("up")' = Top("up") /\ (Reaches(0, "up")' => Reaches(0, "up"))
    BY <1>1, <1>3, <1>9, ReachesStays DEF Top, Source
  <2>4. UpOK(new)'
    BY <1>11, <1>12, <2>1, <2>2, <2>3 DEF UpOK
  <2> QED
    BY <2>4 DEF UpInv
<1>17. DownInv'
  <2>1. \A c \in Conns : Keeps(c, "down")
    BY <1>3, <1>8
  <2>2. got["client"] \in Seq(Nat) /\ DownInv /\ sent'["agent"] = sent["agent"] /\ browser' \in {browser, "closed"}
    BY <1>1 DEF WaysInv, TypeInv, TypeOK, Ends
  <2> QED
    BY <1>3, <1>4, <1>15, <2>1, <2>2, DownQuiet
<1> QED
  BY <1>2, <1>14, <1>16, <1>17

LEMMA VncReadsWays ==
  ASSUME OneWay, WaysInv, VncReads
  PROVE  UpInv' /\ DownInv'
<1>1. CASE Head(flow[3]["up"]).kind \notin EndKinds
  BY <1>1, VncFinds
<1>2. CASE Head(flow[3]["up"]).kind \in EndKinds
  <2>1. /\ flow[3]["up"] # <<>> /\ vnc' = "closed" /\ got' = got
        /\ flow' \in Drops(Pop(flow, 3, "up"), 3, "down", "fin")
    BY <1>2 DEF VncReads, Readable, EndKinds
  <2>2. flow \in Flows /\ 3 \in Conns /\ "up" \in Ways /\ "down" \in Ways
    BY MsgItems DEF WaysInv, TypeInv
  <2>3. Dropped(Pop(flow, 3, "up"), flow', 3)
    BY <2>1, <2>2, ReadTypes, MsgItems
  <2>4. \A v \in Ways : ~Passing(Reader(3, "up"), v)'
    BY <2>1 DEF Passing, Reader
  <2>5. \A d \in Conns, v \in Ways : Keeps(d, v)
    BY <2>1, <2>2, <2>3, <2>4, ReadDropped
  <2>6. UNCHANGED <<browser, web, sent>>
    BY DEF VncReads
  <2>7. Greeted' = Greeted
    BY <2>6 DEF Greeted
  <2> QED
    BY <2>1, <2>5, <2>6, <2>7, Quiet
<1> QED
  BY <1>1, <1>2

LEMMA SendUpdateWays ==
  ASSUME OneWay, WaysInv, SendUpdate
  PROVE  UpInv' /\ DownInv'
<1> DEFINE x == Data(sent'["agent"])
<1>1. /\ sent["agent"] \in Nat /\ sent'["agent"] = sent["agent"] + 1
      /\ sent'["client"] = sent["client"]
  BY DEF SendUpdate, WaysInv, TypeInv, TypeOK, Ends
<1>2. x \in Items /\ Numbered(x) /\ Rank(x) = sent["agent"] + 2
  BY <1>1, ItemFacts
<1>3. flow \in Flows /\ 3 \in Conns /\ "up" \in Ways /\ "down" \in Ways
  BY MsgItems DEF WaysInv, TypeInv
<1>4. Written(flow, flow', 3, "down", x)
  BY <1>2, <1>3, WriteTypes DEF SendUpdate
<1> HIDE DEF x
<1>5. /\ \A e \in Conns, u \in Ways : e # 3 \/ u # "down" => Keeps(e, u)
      /\ flow'[3]["down"] = Append(flow[3]["down"], x) \/ ~Passing(Reader(3, "down"), "down")'
  BY <1>2, <1>3, <1>4, Writes
<1>6. UNCHANGED <<browser, node, web, vnc, half, got>> /\ vnc = "open"
  BY DEF SendUpdate
<1>7. Greeted' = Greeted /\ Greeted = 1
  <2>1. web \notin {"idle", "http"}
    BY <1>6 DEF WaysInv, SetUp
  <2> QED
    BY <1>6, <2>1 DEF Greeted
<1>8. UpInv'
  <2>1. \A c \in Conns : Keeps(c, "up")
    BY <1>3, <1>5
  <2>2. UpInv /\ got'["agent"] = got["agent"]
    BY <1>6 DEF WaysInv
  <2> QED
    BY <1>1, <1>3, <1>7, <2>1, <2>2, UpQuiet
<1>9. DownInv'
  <2>1. PICK num \in [Stations -> Nat] : DownOK(num)
    BY DEF WaysInv, DownInv
  <2>2. /\ Writer(3, "down") = 4 /\ \A d \in Conns : Reader(d, "down") # 4
        /\ \A k \in {0, 3, 4} : k \in Stations
    BY DEF Writer, Reader, Stations, Conns
  <2>3. Top("down") = sent["agent"] + 1 /\ Top("down")' = sent["agent"] + 2
    BY <1>1 DEF Top, Source
  <2>4. PICK new \in [Stations -> Nat] :
           new[4] = sent["agent"] + 2 /\ \A k \in Stations : k # 4 => new[k] = num[k]
    <3> DEFINE n == sent["agent"] + 2
    <3>1. n \in Nat
      BY <1>1
    <3> HIDE DEF n
    <3>2. /\ [num EXCEPT ![4] = n] \in [Stations -> Nat] /\ [num EXCEPT ![4] = n][4] = n
          /\ \A k \in Stations : k # 4 => [num EXCEPT ![4] = n][k] = num[k]
      BY <2>2, <3>1
    <3> QED
      BY <3>2 DEF n
  <2>5. Reaches(4, "down") => Follows(3, "down", x, num, new)
    <3>1. x.kind \notin Late
      BY <1>2 DEF Numbered, Late
    <3>2. Reaches(4, "down") => num[4] = sent["agent"] + 1
      BY <1>7, <2>1 DEF DownOK
    <3>3. Reaches(4, "down") => Rank(x) = num[4] + 1 /\ Rank(x) <= Top("down")' /\ new[4] = Rank(x)
      BY <1>1, <1>2, <2>3, <2>4, <3>2
    <3> QED
      BY <1>2, <2>2, <3>1, <3>3 DEF Follows
  <2>6. Passing(4, "down")
    BY <1>6 DEF Passing, Copies
  <2>7. Chain("down", new)'
    <3>1. \A d \in Conns : d # 3 => Keeps(d, "down")
      BY <1>3, <1>5
    <3> QED
      BY <1>2, <1>3, <1>5, <2>1, <2>2, <2>4, <2>5, <2>6, <3>1, ChainWrites DEF DownOK
  <2>8. new[0] = num[0] /\ new[3] = num[3] /\ new[4] = sent'["agent"] + Greeted'
    BY <1>1, <1>7, <2>2, <2>4
  <2>9. Reaches(3, "down")' => Reaches(3, "down")
    BY <1>3, <2>2, ReachesStays
  <2>10. DownOK(new)'
    BY <1>6, <1>7, <2>1, <2>7, <2>8, <2>9 DEF DownOK
  <2> QED
    BY <2>10 DEF DownInv
<1> QED
  BY <1>8, <1>9

LEMMA VncDiesWays ==
  ASSUME OneWay, WaysInv, VncDies \/ CutNetwork
  PROVE  UpInv' /\ DownInv'
<1>1. UNCHANGED <<browser, web, sent, got>>
  BY DEF VncDies, CutNetwork, dataVars
<1>2. Greeted' = Greeted
  BY <1>1 DEF Greeted
<1>3. \A c \in Conns, w \in Ways : Keeps(c, w)
  <2>1. CASE VncDies
    <3>1. flow \in Flows /\ 3 \in Conns /\ "down" \in Ways /\ "fin" \in EndKinds
      BY MsgItems DEF WaysInv, TypeInv
    <3>2. Dropped(flow, flow', 3)
      BY <2>1, <3>1, WriteTypes DEF VncDies
    <3>3. \A v \in Ways : ~Passing(4, v)'
      BY <2>1 DEF VncDies, Passing
    <3>4. 4 \in {3, 3 + 1}
      OBVIOUS
    <3> QED
      BY <3>1, <3>2, <3>3, <3>4, DroppedKeeps
  <2>2. CASE CutNetwork
    BY <2>2, StillKeeps DEF CutNetwork
  <2> QED
    BY <2>1, <2>2
<1> QED
  BY <1>1, <1>2, <1>3, Quiet

-----------------------------------------------------------------------------
(* The invariant.                                                           *)

LEMMA WaysStep ==
  ASSUME OneWay, WaysInv, Next
  PROVE  UpInv' /\ DownInv'
<1>1. CASE SendKey \/ Disconnect \/ Leave \/ CloseTimeout \/ BrowserReads
  BY <1>1, SendKeyWays, LeavingWays, BrowserReadsWays
<1>2. ASSUME NEW c \in Copies, CopyStep(c) PROVE UpInv' /\ DownInv'
  BY <1>2, CopyEdgeWays, CopyMoveWays DEF CopyStep
<1>3. CASE BridgeStep
  BY <1>3, UpgradeAccepts, UpgradeFails, DialVncWays, ToVncWays, FromVncWays, PingWays,
     BridgeReturnsWays DEF BridgeStep
<1>4. CASE VncReads \/ SendUpdate \/ VncDies \/ KillForwarder \/ CutNetwork
  BY <1>4, VncReadsWays, SendUpdateWays, VncDiesWays, KillForwarderWays
<1> QED
  BY <1>1, <1>2, <1>3, <1>4 DEF Next

\* Who does not touch the connection to the VNC server.
LEMMA FarFlow ==
  ASSUME TypeInv, Next, ~ToVnc, ~FromVnc, ~BridgeReturns, ~VncReads, ~SendUpdate, ~VncDies
  PROVE  flow'[3] = flow[3]
<1>1. /\ flow \in Flows /\ "up" \in Ways /\ "down" \in Ways /\ 3 \in Conns
      /\ \A c \in 0 .. 2 : c \in Conns /\ 3 # c
  BY DEF TypeInv, Ways, Conns
<1>2. ASSUME NEW c \in 0 .. 2, NEW w \in Ways, NEW x \in Items, flow' \in Puts(flow, c, w, x)
      PROVE  flow'[3] = flow[3]
  BY <1>1, <1>2, WriteTypes DEF Written
<1>3. ASSUME NEW c \in 0 .. 2, NEW w \in Ways, NEW how \in EndKinds, flow' \in Drops(flow, c, w, how)
      PROVE  flow'[3] = flow[3]
  BY <1>1, <1>3, WriteTypes DEF Dropped
<1>4. ASSUME NEW c \in Copies, NEW tls \in EndKinds, flow' \in Quits(flow, c, tls)
      PROVE  flow'[3] = flow[3]
  <2>1. 3 \notin {c - 1, c}
    BY DEF Copies
  <2> QED
    BY <1>1, <1>4, <2>1, QuitsFacts
<1>5. ASSUME NEW d \in 0 .. 2, NEW v \in Ways, flow[d][v] # <<>>
      PROVE  /\ Pop(flow, d, v) \in Flows /\ Pop(flow, d, v)[3] = flow[3] /\ Head(flow[d][v]) \in Items
  BY <1>1, <1>5, PopFlow
<1>6. ASSUME NEW d \in 0 .. 2, NEW v \in Ways, flow[d][v] # <<>>,
             NEW c \in 0 .. 2, NEW w \in Ways, NEW x \in Items, flow' \in Puts(Pop(flow, d, v), c, w, x)
      PROVE  flow'[3] = flow[3]
  <2>1. Written(Pop(flow, d, v), flow', c, w, x)
    BY <1>1, <1>5, <1>6, PutsFacts
  <2> QED
    BY <1>1, <1>5, <1>6, <2>1 DEF Written
<1>7. ASSUME NEW c \in Copies, CopyStep(c) PROVE flow'[3] = flow[3]
  <2>1. CASE Dial(c)
    BY <2>1 DEF Dial
  <2>2. CASE DialFails(c)
    <3>1. PICK how \in EndKinds : flow' \in Drops(flow, c - 1, "down", how)
      BY <2>2 DEF DialFails, EndKinds
    <3>2. c - 1 \in 0 .. 2
      BY DEF Copies
    <3> QED
      BY <1>1, <1>3, <3>1, <3>2
  <2>3. CASE CopyFails(c) \/ CopyReturns(c)
    <3>1. PICK tls \in EndKinds : flow' \in Quits(flow, c, tls)
      BY <2>3 DEF CopyFails, CopyReturns, EndKinds
    <3> QED
      BY <1>4, <3>1
  <2>4. ASSUME NEW w \in Ways, CopyData(c, w) \/ CopyEnd(c, w) PROVE flow'[3] = flow[3]
    <3> DEFINE d == From(c, w)
    <3>1. d \in 0 .. 2 /\ Onto(c, w) \in 0 .. 2 /\ flow[d][w] # <<>>
      BY <2>4 DEF From, Onto, Copies, Ways, CopyData, CopyEnd, Readable
    <3>2. CASE flow' \in Quits(Pop(flow, d, w), c, "fin")
      <4>1. 3 \notin {c - 1, c} /\ "fin" \in EndKinds
        BY DEF Copies, EndKinds
      <4> DEFINE rest == Pop(flow, d, w)
      <4>2. rest \in Flows /\ rest[3] = flow[3]
        BY <1>5, <3>1
      <4>3. flow' \in Quits(rest, c, "fin")
        BY <3>2
      <4> HIDE DEF rest
      <4>4. \A k \in Conns : k \notin {c - 1, c} => flow'[k] = rest[k]
        BY <4>1, <4>2, <4>3, QuitsFacts
      <4> QED
        BY <1>1, <4>1, <4>2, <4>4
    <3>3. CASE flow' \in Puts(Pop(flow, d, w), Onto(c, w), w, Msg("fin"))
      BY <1>6, <3>1, <3>3, MsgItems
    <3>4. CASE flow' \in Puts(Pop(flow, d, w), Onto(c, w), w, Head(flow[d][w]))
      BY <1>5, <1>6, <3>1, <3>4
    <3> QED
      BY <2>4, <3>2, <3>3, <3>4 DEF CopyData, CopyEnd
  <2> QED
    BY <1>7, <2>1, <2>2, <2>3, <2>4 DEF CopyStep
<1>8. CASE SendKey
  <2>1. sent'["client"] \in Nat \ {0}
    BY <1>8 DEF SendKey, TypeInv, TypeOK, Ends
  <2>2. Data(sent'["client"]) \in Items /\ 0 \in 0 .. 2
    BY <2>1, ItemFacts
  <2>3. flow' \in Puts(flow, 0, "up", Data(sent'["client"]))
    BY <1>8 DEF SendKey
  <2> QED
    BY <1>1, <1>2, <2>2, <2>3
<1>9. CASE Disconnect \/ Leave \/ CloseTimeout
  <2>1. flow' \in Puts(flow, 0, "up", Msg("close")) \/ flow' \in Drops(flow, 0, "up", "fin")
    BY <1>9 DEF Disconnect, Leave, CloseTimeout, LeaveFrom
  <2>2. 0 \in 0 .. 2
    OBVIOUS
  <2> QED
    BY <1>1, <1>2, <1>3, <2>1, <2>2, MsgItems
<1>10. CASE BrowserReads
  <2> DEFINE rest == Pop(flow, 0, "down")
  <2>1. flow[0]["down"] # <<>> /\ 0 \in 0 .. 2
    BY <1>10 DEF BrowserReads, Readable
  <2>2. \/ flow' = rest
        \/ flow' \in Puts(rest, 0, "up", Msg("pong"))
        \/ flow' \in Puts(rest, 0, "up", Msg("close"))
        \/ flow' \in Drops(rest, 0, "up", "fin")
    BY <1>10 DEF BrowserReads
  <2>3. flow' \in Drops(rest, 0, "up", "fin") => flow'[3] = flow[3]
    <3>1. flow' \in Drops(rest, 0, "up", "fin") => Dropped(rest, flow', 0)
      BY <1>1, <1>5, <2>1, DropsFacts, MsgItems
    <3> QED
      BY <1>1, <1>5, <2>1, <3>1 DEF Dropped
  <2> QED
    BY <1>1, <1>5, <1>6, <2>1, <2>2, <2>3, MsgItems
<1>11. CASE Upgrade \/ DialVnc \/ Ping
  <2> DEFINE rest == Pop(flow, 2, "up")
  <2>1. 2 \in 0 .. 2
    OBVIOUS
  <2>2. \/ flow' = flow
        \/ flow' \in Puts(flow, 2, "down", Msg("ping"))
        \/ flow' \in Puts(flow, 2, "down", Msg("close"))
        \/ flow' \in Drops(flow, 2, "down", "fin")
        \/ flow[2]["up"] # <<>> /\ flow' \in Puts(rest, 2, "down", Msg("accept"))
        \/ flow[2]["up"] # <<>> /\ flow' \in Drops(rest, 2, "down", "fin")
    BY <1>11 DEF Upgrade, DialVnc, Ping, FromVncEnds, Readable
  <2>3. flow[2]["up"] # <<>> /\ flow' \in Drops(rest, 2, "down", "fin") => flow'[3] = flow[3]
    <3>1. flow[2]["up"] # <<>> /\ flow' \in Drops(rest, 2, "down", "fin") => Dropped(rest, flow', 2)
      BY <1>1, <1>5, <2>1, DropsFacts, MsgItems
    <3> QED
      BY <1>1, <1>5, <2>1, <3>1 DEF Dropped
  <2>4. flow' \in Drops(flow, 2, "down", "fin") => flow'[3] = flow[3]
    BY <1>1, <1>3, <2>1, MsgItems
  <2>5. flow[2]["up"] # <<>> /\ flow' \in Puts(rest, 2, "down", Msg("accept")) => flow'[3] = flow[3]
    BY <1>1, <1>6, <2>1, MsgItems
  <2>6. flow' \in Puts(flow, 2, "down", Msg("ping")) \/ flow' \in Puts(flow, 2, "down", Msg("close"))
            => flow'[3] = flow[3]
    BY <1>1, <1>2, <2>1, MsgItems
  <2> QED
    BY <2>2, <2>3, <2>4, <2>5, <2>6
<1>12. CASE KillForwarder
  <2>1. flow' \in Quits(flow, 1, "rst") \/ flow' \in Drops(flow, 0, "down", "fin")
    BY <1>12 DEF KillForwarder
  <2>2. 0 \in 0 .. 2
    OBVIOUS
  <2> QED
    BY <1>1, <1>3, <1>4, <2>1, <2>2, MsgItems
<1>13. CASE CutNetwork
  BY <1>13 DEF CutNetwork
<1> QED
  BY <1>7, <1>8, <1>9, <1>10, <1>11, <1>12, <1>13 DEF Next, BridgeStep

LEMMA SetUpStep ==
  ASSUME TypeInv, SetUp, Next
  PROVE  SetUp'
<1> USE DEF TypeInv, TypeOK
<1> DEFINE early == {"idle", "http", "dialling"}
<1>1. /\ node'[1] = "dialling" => node'[2] = "idle"
      /\ node'[2] \in {"idle", "dialling"} => web' = "idle"
  <2>1. ASSUME UNCHANGED node
        PROVE  /\ node'[1] = "dialling" => node'[2] = "idle"
               /\ node'[2] \in {"idle", "dialling"} => web' = "idle"
    <3>1. web = "idle" => web' = "idle"
      BY <2>1 DEF Next, CopyStep, BridgeStep, SendKey, Disconnect, Leave, CloseTimeout, LeaveFrom,
         BrowserReads, Dial, DialFails, CopyData, CopyEnd, CopyFails, CopyReturns, Upgrade, DialVnc,
         ToVnc, FromVnc, Ping, BridgeReturns, VncReads, SendUpdate, VncDies, KillForwarder, CutNetwork, Copies
    <3> QED
      BY <2>1, <3>1 DEF SetUp
  <2>2. ASSUME NEW c \in Copies, node' = [node EXCEPT ![c] = "gone"], node[c] \notin {"idle", "gone"}, web' = web
        PROVE  /\ node'[1] = "dialling" => node'[2] = "idle"
               /\ node'[2] \in {"idle", "dialling"} => web' = "idle"
    BY <2>2 DEF SetUp, Copies
  <2>3. ASSUME NEW c \in Copies, Dial(c)
        PROVE  /\ node'[1] = "dialling" => node'[2] = "idle"
               /\ node'[2] \in {"idle", "dialling"} => web' = "idle"
    BY <2>3 DEF Dial, SetUp, Copies
  <2>4. \/ UNCHANGED node
        \/ \E c \in Copies : node' = [node EXCEPT ![c] = "gone"] /\ node[c] \notin {"idle", "gone"} /\ web' = web
        \/ \E c \in Copies : Dial(c)
    <3>1. CASE \E c \in Copies : CopyStep(c)
      BY <3>1 DEF CopyStep, DialFails, CopyData, CopyEnd, CopyFails, CopyReturns
    <3>2. CASE KillForwarder
      BY <3>2 DEF KillForwarder, Copies
    <3>3. CASE SendKey \/ Disconnect \/ Leave \/ CloseTimeout \/ BrowserReads
      BY <3>3 DEF SendKey, Disconnect, Leave, CloseTimeout, LeaveFrom, BrowserReads
    <3>4. CASE BridgeStep
      BY <3>4 DEF BridgeStep, Upgrade, DialVnc, ToVnc, FromVnc, Ping, BridgeReturns
    <3>5. CASE VncReads \/ SendUpdate \/ VncDies \/ CutNetwork
      BY <3>5 DEF VncReads, SendUpdate, VncDies, CutNetwork
    <3> QED
      BY <3>1, <3>2, <3>3, <3>4, <3>5 DEF Next
  <2> QED
    BY <2>1, <2>2, <2>3, <2>4
<1>2. browser' = "connecting" => got'["client"] = <<>> /\ sent'["client"] = 0
  <2> SUFFICES ASSUME browser' = "connecting" PROVE got'["client"] = <<>> /\ sent'["client"] = 0
    OBVIOUS
  <2>1. CASE BrowserReads
    BY <2>1 DEF BrowserReads, SetUp, Listens
  <2>2. CASE VncReads
    BY <2>2 DEF VncReads, SetUp, Ends
  <2>3. CASE SendUpdate
    BY <2>3 DEF SendUpdate, SetUp, Ends
  <2>4. CASE ~BrowserReads /\ ~VncReads /\ ~SendUpdate
    <3>1. browser = "connecting" /\ UNCHANGED <<sent, got>>
      BY <2>4 DEF Next, CopyStep, BridgeStep, SendKey, Disconnect, Leave, CloseTimeout, LeaveFrom,
         Dial, DialFails, CopyData, CopyEnd, CopyFails, CopyReturns, Upgrade, DialVnc,
         ToVnc, FromVnc, Ping, BridgeReturns, VncDies, KillForwarder, CutNetwork, dataVars
    <3> QED
      BY <3>1 DEF SetUp
  <2> QED
    BY <2>1, <2>2, <2>3, <2>4
<1>3. vnc' = "idle" => got'["agent"] = <<>> /\ sent'["agent"] = 0
  <2> SUFFICES ASSUME vnc' = "idle" PROVE got'["agent"] = <<>> /\ sent'["agent"] = 0
    OBVIOUS
  <2>1. CASE BrowserReads
    BY <2>1 DEF BrowserReads, SetUp, Ends
  <2>2. CASE SendKey
    BY <2>2 DEF SendKey, SetUp, Ends
  <2>3. CASE ~BrowserReads /\ ~SendKey
    <3>1. vnc = "idle" /\ UNCHANGED <<sent, got>>
      BY <2>3 DEF Next, CopyStep, BridgeStep, Disconnect, Leave, CloseTimeout, LeaveFrom,
         Dial, DialFails, CopyData, CopyEnd, CopyFails, CopyReturns, Upgrade, DialVnc,
         ToVnc, FromVnc, Ping, BridgeReturns, VncReads, SendUpdate, VncDies, KillForwarder, CutNetwork, dataVars
    <3> QED
      BY <3>1 DEF SetUp
  <2> QED
    BY <2>1, <2>2, <2>3
<1>4. web' \in early => vnc' = "idle" /\ half'[3] = {} /\ \A w \in Ways : flow'[3][w] = <<>>
  <2> SUFFICES ASSUME web' \in early
               PROVE  vnc' = "idle" /\ half'[3] = {} /\ \A w \in Ways : flow'[3][w] = <<>>
    OBVIOUS
  <2>1. web \in early
    BY DEF Next, CopyStep, BridgeStep, SendKey, Disconnect, Leave, CloseTimeout, LeaveFrom,
       BrowserReads, Dial, DialFails, CopyData, CopyEnd, CopyFails, CopyReturns, Upgrade, DialVnc,
       ToVnc, FromVnc, Ping, BridgeReturns, VncReads, SendUpdate, VncDies, KillForwarder, CutNetwork, SetUp, Copies
  <2>2. vnc = "idle" /\ half[3] = {} /\ \A w \in Ways : flow[3][w] = <<>>
    BY <2>1 DEF SetUp
  <2>3. flow'[3] = flow[3]
    <3>1. ~ToVnc /\ ~FromVnc /\ ~BridgeReturns /\ ~VncReads /\ ~SendUpdate /\ ~VncDies
      BY <2>1, <2>2 DEF ToVnc, FromVnc, BridgeReturns, VncReads, SendUpdate, VncDies
    <3> QED
      BY <3>1, FarFlow
  <2>4. vnc' = "idle"
    BY <2>1, <2>2 DEF Next, CopyStep, BridgeStep, SendKey, Disconnect, Leave, CloseTimeout, LeaveFrom,
       BrowserReads, Dial, DialFails, CopyData, CopyEnd, CopyFails, CopyReturns, Upgrade, DialVnc,
       ToVnc, FromVnc, Ping, BridgeReturns, VncReads, SendUpdate, VncDies, KillForwarder, CutNetwork
  <2>5. half'[3] = half[3]
    <3>1. ASSUME NEW c \in Copies, NEW w \in Ways, CopyEnd(c, w) PROVE half'[3] = half[3]
      <4>1. UNCHANGED half \/ half' = [half EXCEPT ![c] = half[c] \cup {w}]
        BY <3>1 DEF CopyEnd
      <4> QED
        BY <4>1 DEF Copies
    <3>2. CASE ~\E c \in Copies, w \in Ways : CopyEnd(c, w)
      BY <2>1, <2>2, <3>2 DEF Next, CopyStep, BridgeStep, SendKey, Disconnect, Leave, CloseTimeout, LeaveFrom,
         BrowserReads, Dial, DialFails, CopyData, CopyFails, CopyReturns, Upgrade, DialVnc,
         ToVnc, FromVnc, Ping, BridgeReturns, VncReads, SendUpdate, VncDies, KillForwarder, CutNetwork
    <3> QED
      BY <3>1, <3>2
  <2> QED
    BY <2>2, <2>3, <2>4, <2>5
<1> QED
  BY <1>1, <1>2, <1>3, <1>4 DEF SetUp

\* At the beginning the request is on its way, and nothing is answered.
LEMMA WaysInit == Init => WaysInv
<1> SUFFICES ASSUME Init PROVE WaysInv
  OBVIOUS
<1>1. TypeInv
  BY TypeInit
<1>2. SetUp
  BY DEF SetUp, Init, Copies, Ends, Conns, Ways
<1>3. \A c \in Conns : flow[c]["down"] = <<>> /\ (c # 0 => flow[c]["up"] = <<>>)
  BY DEF Init, Conns, Ways
<1>4. flow[0]["up"] = <<Msg("get")>>
  BY DEF Init, Conns, Ways
<1>5. Greeted = 0 /\ Top("up") = 1 /\ Top("down") = 1 /\ \A e \in Ends : got[e] = <<>> /\ sent[e] = 0
  BY DEF Init, Greeted, Top, Source, Ends
<1>6. Carries(<<Msg("get")>>, 0, 1)
  BY DEF Carries, Msg, Numbered, Rank, Late
<1>7. Carries(<<>>, 0, 0)
  BY CarriesNothing
<1>8. UpInv
  <2> DEFINE num == [k \in Stations |-> IF k = 0 THEN 1 ELSE 0]
  <2>1. num \in [Stations -> Nat] /\ num[0] = 1 /\ \A k \in Stations : k # 0 => num[k] = 0
    BY DEF Stations
  <2>2. \A c \in Conns : /\ Reader(c, "up") \in Stations /\ Reader(c, "up") # 0
                         /\ Writer(c, "up") \in Stations /\ (Writer(c, "up") = 0 <=> c = 0)
    BY DEF Reader, Writer, Stations, Conns
  <2> HIDE DEF num
  <2>3. ASSUME NEW c \in Conns PROVE Holds(c, "up", num)
    <3>1. CASE c = 0
      BY <1>4, <1>5, <1>6, <2>1, <2>2, <3>1 DEF Holds
    <3>2. CASE c # 0
      BY <1>3, <1>5, <1>7, <2>1, <2>2, <3>2 DEF Holds
    <3> QED
      BY <3>1, <3>2
  <2>4. num[4] = 0 /\ Len(got["agent"]) = 0
    BY <1>5, <2>1 DEF Ends, Stations
  <2>5. UpOK(num)
    BY <1>5, <2>1, <2>3, <2>4 DEF UpOK, Chain
  <2> QED
    BY <2>1, <2>5 DEF UpInv
<1>9. DownInv
  <2> DEFINE num == [k \in Stations |-> 0]
  <2>1. num \in [Stations -> Nat] /\ \A k \in Stations : num[k] = 0
    OBVIOUS
  <2>2. \A c \in Conns : Reader(c, "down") \in Stations /\ Writer(c, "down") \in Stations
    BY DEF Reader, Writer, Stations, Conns
  <2>3. 0 \in Stations /\ 3 \in Stations /\ 4 \in Stations /\ "agent" \in Ends
    BY DEF Stations, Ends
  <2> HIDE DEF num
  <2>4. Chain("down", num)
    BY <1>3, <1>5, <1>7, <2>1, <2>2 DEF Chain, Holds
  <2>5. DownOK(num)
    BY <1>5, <2>1, <2>3, <2>4 DEF DownOK, Init
  <2> QED
    BY <2>1, <2>5 DEF DownInv
<1> QED
  BY <1>1, <1>2, <1>8, <1>9 DEF WaysInv

LEMMA InvStep == WaysInv /\ [Next]_vars => WaysInv'
<1> SUFFICES ASSUME WaysInv, [Next]_vars PROVE WaysInv'
  OBVIOUS
<1>1. CASE Next
  <2>1. TypeInv /\ TypeInv' /\ SetUp
    BY TypeStep DEF WaysInv
  <2>2. SetUp'
    BY <1>1, <2>1, SetUpStep
  <2>3. OneWay
    BY <1>1, <2>1, LastingStep, LastingOneWay
  <2> QED
    BY <1>1, <2>1, <2>2, <2>3, WaysStep DEF WaysInv
<1>2. CASE UNCHANGED vars
  <2>1. TypeInv'
    BY TypeStep DEF WaysInv
  <2>2. SetUp'
    BY <1>2 DEF vars, WaysInv, SetUp
  <2>3. OneWay
    BY <1>2, <2>1, LastingOneWay DEF vars, Lasting, WaysInv, TypeInv, TypeOK
  <2>4. /\ UNCHANGED <<browser, node, web, vnc, half, flow, sent, got>>
        /\ Greeted' = Greeted
    BY <1>2 DEF vars, Greeted
  <2>5. \A c \in Conns, w \in Ways : Keeps(c, w)
    BY <2>4, StillKeeps
  <2> QED
    BY <2>1, <2>2, <2>3, <2>4, <2>5, Quiet DEF WaysInv
<1> QED
  BY <1>1, <1>2

-----------------------------------------------------------------------------
(* Seen from its two ends the path is a pipe.                               *)

\* An end has got the items from the first one on, in order.
GotInv == \A e \in Ends : \A i \in 1 .. Len(got[e]) : got[e][i] = i

\* Where a step changes what an end has got, it adds the next item.
LEMMA GotStep ==
  ASSUME WaysInv, [Next]_vars
  PROVE  \/ UNCHANGED got
         \/ /\ BrowserReads /\ browser = "open" /\ browser' = "open" /\ vnc' = vnc /\ sent' = sent
            /\ got' = [got EXCEPT !["client"] = Append(got["client"], Len(got["client"]) + 1)]
            /\ Len(got["client"]) + 1 <= sent["agent"]
         \/ /\ VncReads /\ vnc = "open" /\ vnc' = "open" /\ browser' = browser /\ sent' = sent
            /\ got' = [got EXCEPT !["agent"] = Append(got["agent"], Len(got["agent"]) + 1)]
            /\ Len(got["agent"]) + 1 <= sent["client"]
<1>1. CASE ~UNCHANGED got
  <2>1. Next /\ (BrowserReads \/ VncReads)
    BY <1>1 DEF Next, vars, CopyStep, BridgeStep, SendKey, Disconnect, Leave, CloseTimeout, LeaveFrom,
       Dial, DialFails, CopyData, CopyEnd, CopyFails, CopyReturns, Upgrade, DialVnc,
       ToVnc, FromVnc, Ping, BridgeReturns, SendUpdate, VncDies, KillForwarder, CutNetwork, dataVars
  <2>2. OneWay
    BY <2>1, LastingStep, LastingOneWay, TypeStep DEF WaysInv
  <2>3. CASE BrowserReads
    <3>1. /\ Head(flow[0]["down"]).kind = "data" /\ browser = "open" /\ browser' = "open"
          /\ got' = [got EXCEPT !["client"] = Append(got["client"], Head(flow[0]["down"]).n)]
          /\ vnc' = vnc /\ sent' = sent
      BY <1>1, <2>3 DEF BrowserReads, Listens
    <3>2. /\ Head(flow[0]["down"]).n = Len(got["client"]) + 1
          /\ Head(flow[0]["down"]).n <= sent["agent"]
      BY <2>2, <2>3, <3>1, BrowserFinds DEF EndKinds
    <3> QED
      BY <2>3, <3>1, <3>2
  <2>4. CASE VncReads
    <3>1. Head(flow[3]["up"]).kind \notin EndKinds /\ vnc = "open" /\ browser' = browser /\ sent' = sent
      BY <1>1, <2>4 DEF VncReads, EndKinds
    <3> QED
      BY <2>2, <2>4, <3>1, VncFinds
  <2> QED
    BY <2>1, <2>3, <2>4
<1> QED
  BY <1>1

LEMMA GotKept == WaysInv /\ GotInv /\ [Next]_vars => GotInv'
<1> SUFFICES ASSUME WaysInv, GotInv, [Next]_vars PROVE GotInv'
  OBVIOUS
<1>1. got \in [Ends -> Seq(Nat)]
  BY DEF WaysInv, TypeInv, TypeOK
<1>2. ASSUME NEW d \in Ends, got' = [got EXCEPT ![d] = Append(got[d], Len(got[d]) + 1)]
      PROVE  GotInv'
  <2> SUFFICES ASSUME NEW e \in Ends, NEW i \in 1 .. Len(got'[e])
               PROVE  got'[e][i] = i
    BY DEF GotInv
  <2>1. CASE e = d
    <3>1. got'[e] = Append(got[e], Len(got[e]) + 1) /\ got[e] \in Seq(Nat)
      BY <1>1, <1>2, <2>1
    <3>2. CASE i \in 1 .. Len(got[e])
      BY <3>1, <3>2 DEF GotInv
    <3>3. CASE i = Len(got[e]) + 1
      BY <3>1, <3>3
    <3> QED
      BY <3>1, <3>2, <3>3
  <2>2. CASE e # d
    BY <1>1, <1>2, <2>2 DEF GotInv
  <2> QED
    BY <2>1, <2>2
<1>3. CASE UNCHANGED got
  BY <1>3 DEF GotInv
<1> QED
  BY <1>2, <1>3, GotStep DEF Ends

\* An end opens once and closes once, and a step moves only one of them.
LEMMA PhaseStep ==
  ASSUME WaysInv, [Next]_vars, UNCHANGED got
  PROVE  \/ UNCHANGED <<browser, vnc, sent>>
         \/ SendKey \/ SendUpdate
         \/ /\ UNCHANGED <<vnc, sent>>
            /\ \/ browser = "connecting"
               \/ browser \in {"open", "closing"} /\ browser' # "connecting"
                  /\ (browser' = "open" => browser = "open")
         \/ UNCHANGED <<browser, sent>> /\ vnc = "idle" /\ vnc' = "open"
         \/ UNCHANGED <<browser, sent>> /\ vnc = "open" /\ vnc' = "closed"
<1>1. CASE BrowserReads
  <2>1. /\ UNCHANGED <<vnc, sent>> /\ browser \in {"connecting", "open", "closing"}
        /\ browser' \in {browser, "open", "closing", "closed"}
    BY <1>1 DEF BrowserReads, WaysInv, TypeInv, TypeOK
  <2>2. browser' = "open" => browser \in {"connecting", "open"}
    <3>1. CASE Head(flow[0]["down"]).kind \in EndKinds
      BY <1>1, <3>1 DEF BrowserReads, EndKinds
    <3>2. CASE Head(flow[0]["down"]).kind \notin EndKinds
      <4>1. Next
        BY <1>1 DEF Next
      <4>2. OneWay
        BY <4>1, LastingStep, LastingOneWay, TypeStep DEF WaysInv
      <4> QED
        BY <1>1, <3>2, <4>2, BrowserFinds
    <3> QED
      BY <3>1, <3>2
  <2> QED
    BY <2>1, <2>2
<1>2. CASE Disconnect \/ Leave \/ CloseTimeout
  BY <1>2 DEF Disconnect, Leave, CloseTimeout, LeaveFrom, dataVars
<1>3. CASE DialVnc
  <2>1. vnc = "idle"
    BY <1>3 DEF DialVnc, WaysInv, SetUp
  <2> QED
    BY <1>3, <2>1 DEF DialVnc, dataVars
<1>4. CASE VncReads \/ VncDies
  BY <1>4 DEF VncReads, VncDies, dataVars
<1>5. CASE SendKey \/ SendUpdate
  BY <1>5
<1>6. CASE ~BrowserReads /\ ~Disconnect /\ ~Leave /\ ~CloseTimeout /\ ~DialVnc
           /\ ~VncReads /\ ~VncDies /\ ~SendKey /\ ~SendUpdate
  BY <1>6 DEF Next, vars, CopyStep, BridgeStep, Dial, DialFails, CopyData, CopyEnd, CopyFails,
     CopyReturns, Upgrade, ToVnc, FromVnc, Ping, BridgeReturns, KillForwarder, CutNetwork, dataVars
<1> QED
  BY <1>1, <1>2, <1>3, <1>4, <1>5, <1>6

\* A step of the path is a step of the pipe, or none.
LEMMA PipeStep ==
  ASSUME WaysInv, GotInv, [Next]_vars
  PROVE  [Pipe!Next]_(Pipe!pipeVars)
<1>1. /\ TypeOK /\ Pipe!Ends = Ends /\ "client" \in Ends /\ "agent" \in Ends
      /\ Pipe!Other("client") = "agent" /\ Pipe!Other("agent") = "client"
  BY DEF WaysInv, TypeInv, Pipe!Ends, Ends, Pipe!Other
<1>2. CASE UNCHANGED <<browser, vnc, sent, got>>
  BY <1>2 DEF Pipe!pipeVars, pipePhase
<1>3. ASSUME NEW d \in Ends, NEW e \in Ends, Pipe!Other(d) = e, pipePhase[d] = "open",
             UNCHANGED <<browser, vnc, sent>>,
             got' = [got EXCEPT ![d] = Append(got[d], Len(got[d]) + 1)],
             Len(got[d]) + 1 <= sent[e]
      PROVE  Pipe!Next
  <2> DEFINE n == Len(got[d]) + 1
  <2>1. got[d] \in Seq(Nat) /\ sent[e] \in Nat
    BY <1>1 DEF TypeOK
  <2>2. n \in 1 .. sent[Pipe!Other(d)]
    BY <1>3, <2>1
  <2>3. IF got[d] # <<>> THEN n = got[d][Len(got[d])] + 1 ELSE n = 1
    <3>1. CASE got[d] = <<>>
      BY <3>1
    <3>2. CASE got[d] # <<>>
      <4>1. Len(got[d]) \in 1 .. Len(got[d])
        BY <2>1, <3>2
      <4>2. got[d][Len(got[d])] = Len(got[d])
        BY <4>1 DEF GotInv
      <4> QED
        BY <3>2, <4>2
    <3> QED
      BY <3>1, <3>2
  <2>4. UNCHANGED pipePhase
    BY <1>3 DEF pipePhase
  <2>5. got' = [got EXCEPT ![d] = Append(got[d], n)] /\ sent' = sent
    BY <1>3
  <2> HIDE DEF n
  <2>6. Pipe!Take(d)
    BY <1>3, <2>2, <2>3, <2>4, <2>5 DEF Pipe!Take
  <2> QED
    BY <1>1, <2>6 DEF Pipe!Next
<1>4. ASSUME NEW d \in Ends, pipePhase[d] = "open", UNCHANGED <<browser, vnc, got>>,
             sent' = [sent EXCEPT ![d] = sent[d] + 1]
      PROVE  Pipe!Next
  <2>1. UNCHANGED pipePhase
    BY <1>4 DEF pipePhase
  <2>2. Pipe!Put(d)
    BY <1>4, <2>1 DEF Pipe!Put
  <2> QED
    BY <1>1, <2>2 DEF Pipe!Next
<1>5. ASSUME NEW d \in Ends, NEW s \in {"open", "closed"}, UNCHANGED <<sent, got>>,
             pipePhase' = [pipePhase EXCEPT ![d] = s],
             pipePhase[d] = "new" \/ (pipePhase[d] = "open" /\ s = "closed")
      PROVE  Pipe!Next
  <2>1. Pipe!Open(d) \/ Pipe!Close(d)
    BY <1>5 DEF Pipe!Open, Pipe!Close
  <2> QED
    BY <1>1, <2>1 DEF Pipe!Next
<1>6. CASE ~UNCHANGED got
  <2>1. browser = "open" => pipePhase["client"] = "open"
    BY <1>1 DEF pipePhase
  <2>2. vnc = "open" => pipePhase["agent"] = "open"
    BY <1>1 DEF pipePhase
  <2> QED
    BY <1>1, <1>3, <1>6, <2>1, <2>2, GotStep
<1>7. CASE SendKey
  <2>1. browser = "open" /\ UNCHANGED <<browser, vnc, got>>
        /\ sent' = [sent EXCEPT !["client"] = sent["client"] + 1]
    BY <1>7 DEF SendKey
  <2>2. pipePhase["client"] = "open"
    BY <1>1, <2>1 DEF pipePhase
  <2> QED
    BY <1>1, <1>4, <2>1, <2>2
<1>8. CASE SendUpdate
  <2>1. vnc = "open" /\ UNCHANGED <<browser, vnc, got>>
        /\ sent' = [sent EXCEPT !["agent"] = sent["agent"] + 1]
    BY <1>8 DEF SendUpdate
  <2>2. pipePhase["agent"] = "open"
    BY <1>1, <2>1 DEF pipePhase
  <2> QED
    BY <1>1, <1>4, <2>1, <2>2
<1>9. ASSUME UNCHANGED <<vnc, sent, got>>, browser = "connecting"
      PROVE  [Pipe!Next]_(Pipe!pipeVars)
  <2>1. CASE browser' = browser
    BY <1>2, <1>9, <2>1
  <2>2. CASE browser' # browser
    <3> DEFINE s == IF browser' = "open" THEN "open" ELSE "closed"
    <3>1. pipePhase["client"] = "new" /\ s \in {"open", "closed"}
      BY <1>1, <1>9 DEF pipePhase
    <3>2. pipePhase' = [pipePhase EXCEPT !["client"] = s]
      <4>1. \A e \in Ends : pipePhase'[e] = IF e = "client" THEN s ELSE pipePhase[e]
        BY <1>9, <2>2 DEF pipePhase, Ends
      <4> QED
        BY <4>1 DEF pipePhase
    <3> QED
      BY <1>1, <1>5, <1>9, <3>1, <3>2
  <2> QED
    BY <2>1, <2>2
<1>10. ASSUME UNCHANGED <<vnc, sent, got>>, browser \in {"open", "closing"}, browser' # "connecting",
              browser' = "open" => browser = "open"
       PROVE  [Pipe!Next]_(Pipe!pipeVars)
  <2>1. CASE browser = "open" /\ browser' # "open"
    <3>1. pipePhase["client"] = "open"
      BY <1>1, <2>1 DEF pipePhase
    <3>2. pipePhase' = [pipePhase EXCEPT !["client"] = "closed"]
      <4>1. \A e \in Ends : pipePhase'[e] = IF e = "client" THEN "closed" ELSE pipePhase[e]
        BY <1>10, <2>1 DEF pipePhase, Ends
      <4> QED
        BY <4>1 DEF pipePhase
    <3> QED
      BY <1>1, <1>5, <1>10, <3>1, <3>2
  <2>2. CASE browser = "closing" \/ browser' = "open"
    <3>1. UNCHANGED pipePhase
      BY <1>10, <2>2 DEF pipePhase
    <3> QED
      BY <1>10, <3>1 DEF Pipe!pipeVars
  <2> QED
    BY <1>10, <2>1, <2>2
<1>11. ASSUME UNCHANGED <<browser, sent, got>>,
              (vnc = "idle" /\ vnc' = "open") \/ (vnc = "open" /\ vnc' = "closed")
       PROVE  Pipe!Next
  <2>1. pipePhase' = [pipePhase EXCEPT !["agent"] = vnc'] /\ vnc' \in {"open", "closed"}
    BY <1>1, <1>11 DEF pipePhase
  <2>2. pipePhase["agent"] = (IF vnc = "idle" THEN "new" ELSE vnc)
    BY <1>1 DEF pipePhase
  <2> QED
    BY <1>1, <1>5, <1>11, <2>1, <2>2
<1> QED
  BY <1>2, <1>6, <1>7, <1>8, <1>9, <1>10, <1>11, PhaseStep

\* PathImplementsPipe: seen from the browser and from the VNC server the four
\* connections and the processes between them are one pipe: each end gets
\* what the other sent, in order and from the first item on, until an end
\* closes.
THEOREM PathImplementsPipe == Spec => PipeSpec
<1>1. Init => Pipe!Init
  <2> SUFFICES ASSUME Init PROVE Pipe!Init
    OBVIOUS
  <2>1. pipePhase = [e \in Ends |-> "new"]
    BY DEF Init, pipePhase, Ends
  <2> QED
    BY <2>1 DEF Init, Pipe!Init, Pipe!Ends, Ends
<1>2. Init => GotInv
  BY DEF Init, GotInv, Ends
<1>3. WaysInv /\ GotInv /\ [Next]_vars => [Pipe!Next]_(Pipe!pipeVars)
  BY PipeStep
<1> QED
  BY <1>1, <1>2, <1>3, WaysInit, InvStep, GotKept, PTL DEF Spec, PipeSpec, Pipe!Spec

-----------------------------------------------------------------------------
(* Closing in order.  While nobody has left without closing and nothing has *)
(* failed, every process of the path is at work and no key is behind a      *)
(* Close; so what the bridge reads before a Close, or before an end, are    *)
(* all the keys the browser has sent.                                       *)

Has(s, k) == \E i \in 1 .. Len(s) : s[i].kind = k
Unended(s) == \A i \in 1 .. Len(s) : s[i].kind \notin EndKinds

\* No key is behind a Close in one stream, or on its way to it in another.
Tidy(s) == \A i, j \in 1 .. Len(s) : i < j /\ s[i].kind = "close" => s[j].kind # "data"
Clean(f) ==
    /\ \A c \in Conns, w \in Ways : Unended(f[c][w])
    /\ \A c \in Conns : ~Has(f[c]["down"], "close") /\ Tidy(f[c]["up"])
    /\ \A c, d \in Conns : d < c /\ Has(f[c]["up"], "close") => ~Has(f[d]["up"], "data")

Typing == browser \in {"connecting", "open"}

\* Nobody has left, died or failed to connect, and there is a key to lose.
Untroubled ==
    /\ faults = 0 /\ vnc # "closed" /\ web # "gone" /\ "up" \notin half[3]
    /\ sent["client"] > 0 \/ Typing
    /\ web = "idle" => node[2] # "gone"
    /\ node[2] = "idle" => node[1] # "gone"

Intact ==
    /\ ~cut /\ ~asked /\ browser # "closed"
    /\ node[2] # "idle" => node[1] = "run"
    /\ web # "idle" => node[2] = "run"
    /\ \A c \in 1 .. 3 : half[c] = {}
    /\ Clean(flow)
    /\ Typing => \A c \in Conns : ~Has(flow[c]["up"], "close")

HeldInv == Untroubled => Intact

LEMMA HeadFacts ==
  ASSUME NEW s \in Seq(Items), s # <<>>
  PROVE  /\ Has(s, Head(s).kind)
         /\ Unended(s) => Head(s).kind \notin EndKinds /\ Unended(Tail(s))
         /\ Tidy(s) => Tidy(Tail(s)) /\ (Head(s).kind = "close" => ~Has(Tail(s), "data"))
         /\ \A k : Has(Tail(s), k) => Has(s, k)
<1> DEFINE t == Tail(s)
<1>1. Len(s) \in Nat /\ Len(s) >= 1 /\ Head(s) = s[1] /\ Len(t) = Len(s) - 1
  OBVIOUS
<1>2. \A i \in 1 .. Len(t) : t[i] = s[i + 1]
  OBVIOUS
<1>3. 1 \in 1 .. Len(s)
  BY <1>1
<1> HIDE DEF t
<1>4. \A i \in 1 .. Len(t) : i + 1 \in 1 .. Len(s) /\ 1 < i + 1 /\ t[i] = s[i + 1]
  BY <1>1, <1>2
<1>5. Has(s, Head(s).kind)
  BY <1>1, <1>3 DEF Has
<1>6. Unended(s) => Head(s).kind \notin EndKinds /\ Unended(t)
  BY <1>1, <1>3, <1>4 DEF Unended
<1>7. Tidy(s) => Tidy(t)
  <2> SUFFICES ASSUME Tidy(s), NEW i \in 1 .. Len(t), NEW j \in 1 .. Len(t), i < j, t[i].kind = "close"
               PROVE  t[j].kind # "data"
    BY DEF Tidy
  <2>1. i + 1 < j + 1
    BY <1>1
  <2> QED
    BY <1>4, <2>1 DEF Tidy
<1>8. Tidy(s) /\ Head(s).kind = "close" => ~Has(t, "data")
  BY <1>1, <1>3, <1>4 DEF Tidy, Has
<1>9. \A k : Has(t, k) => Has(s, k)
  BY <1>4 DEF Has
<1> QED
  BY <1>5, <1>6, <1>7, <1>8, <1>9 DEF t

LEMMA LastFacts ==
  ASSUME NEW s \in Seq(Items), NEW x \in Items
  PROVE  /\ Unended(s) /\ x.kind \notin EndKinds => Unended(Append(s, x))
         /\ Tidy(s) /\ (x.kind = "data" => ~Has(s, "close")) => Tidy(Append(s, x))
         /\ \A k : Has(Append(s, x), k) => Has(s, k) \/ x.kind = k
<1> DEFINE t == Append(s, x)
<1>1. Len(s) \in Nat /\ Len(t) = Len(s) + 1 /\ t[Len(s) + 1] = x /\ \A i \in 1 .. Len(s) : t[i] = s[i]
  OBVIOUS
<1> HIDE DEF t
<1>2. \A i \in 1 .. Len(t) : (i \in 1 .. Len(s) /\ t[i] = s[i]) \/ (i = Len(t) /\ t[i] = x)
  BY <1>1
<1>3. Unended(s) /\ x.kind \notin EndKinds => Unended(t)
  BY <1>2 DEF Unended
<1>4. Tidy(s) /\ (x.kind = "data" => ~Has(s, "close")) => Tidy(t)
  <2> SUFFICES ASSUME Tidy(s), x.kind = "data" => ~Has(s, "close"),
                      NEW i \in 1 .. Len(t), NEW j \in 1 .. Len(t), i < j, t[i].kind = "close"
               PROVE  t[j].kind # "data"
    BY DEF Tidy
  <2>1. i \in 1 .. Len(s) /\ s[i].kind = "close"
    BY <1>1
  <2>2. CASE j \in 1 .. Len(s) /\ t[j] = s[j]
    BY <2>1, <2>2 DEF Tidy
  <2>3. CASE t[j] = x
    BY <2>1, <2>3 DEF Has
  <2> QED
    BY <1>2, <2>2, <2>3
<1>5. \A k : Has(t, k) => Has(s, k) \/ x.kind = k
  BY <1>2 DEF Has
<1> QED
  BY <1>3, <1>4, <1>5 DEF t

LEMMA PopClean ==
  ASSUME NEW f \in Flows, Clean(f), NEW c \in Conns, NEW w \in Ways, f[c][w] # <<>>
  PROVE  /\ Clean(Pop(f, c, w))
         /\ \A d \in Conns, k \in Kinds : Has(Pop(f, c, w)[d]["up"], k) => Has(f[d]["up"], k)
<1> DEFINE g == Pop(f, c, w)
<1>1. /\ g \in Flows /\ g[c][w] = Tail(f[c][w])
      /\ \A v \in Ways : v # w => g[c][v] = f[c][v]
      /\ \A d \in Conns : d # c => g[d] = f[d]
  BY PopFlow
<1> HIDE DEF g
<1>2. f[c][w] \in Seq(Items) /\ "up" \in Ways /\ "down" \in Ways
  BY DEF Flows, Ways
<1>3. /\ Unended(f[c][w]) => Unended(g[c][w])
      /\ Tidy(f[c][w]) => Tidy(g[c][w])
      /\ \A k : Has(g[c][w], k) => Has(f[c][w], k)
  BY <1>1, <1>2, HeadFacts
<1>4. \A d \in Conns, v \in Ways : g[d][v] = f[d][v] \/ (d = c /\ v = w)
  BY <1>1
<1>5. \A d \in Conns, v \in Ways : /\ Unended(f[d][v]) => Unended(g[d][v])
                                   /\ Tidy(f[d][v]) => Tidy(g[d][v])
  BY <1>3, <1>4
<1>6. \A d \in Conns, v \in Ways, k \in Kinds : Has(g[d][v], k) => Has(f[d][v], k)
  BY <1>3, <1>4
<1>7. "close" \in Kinds /\ "data" \in Kinds
  BY DEF Kinds
<1>8. \A d \in Conns, v \in Ways : Unended(g[d][v])
  BY <1>5 DEF Clean
<1>9. \A d \in Conns : ~Has(g[d]["down"], "close") /\ Tidy(g[d]["up"])
  BY <1>2, <1>5, <1>6, <1>7 DEF Clean
<1>10. \A e, d \in Conns : d < e /\ Has(g[e]["up"], "close") => ~Has(g[d]["up"], "data")
  BY <1>2, <1>6, <1>7 DEF Clean
<1> QED
  BY <1>2, <1>6, <1>8, <1>9, <1>10 DEF Clean, g

\* A write that puts no key behind a Close.
InOrder(f, c, w, x) ==
    /\ x.kind \notin EndKinds
    /\ w = "down" => x.kind # "close"
    /\ w = "up" /\ x.kind = "data" => \A d \in Conns : d >= c => ~Has(f[d]["up"], "close")
    /\ w = "up" /\ x.kind = "close" => \A d \in Conns : d < c => ~Has(f[d]["up"], "data")

LEMMA PutClean ==
  ASSUME NEW f \in Flows, Clean(f), NEW c \in Conns, NEW w \in Ways, NEW x \in Items,
         InOrder(f, c, w, x), ~Deaf(c, w), NEW g \in Puts(f, c, w, x)
  PROVE  /\ Clean(g)
         /\ \A d \in Conns : Has(g[d]["up"], "close") =>
              Has(f[d]["up"], "close") \/ (w = "up" /\ x.kind = "close")
<1>1. Written(f, g, c, w, x)
  BY PutsFacts
<1>2. /\ g \in Flows /\ g[c][w] = Append(f[c][w], x)
      /\ \A d \in Conns, v \in Ways : g[d][v] = f[d][v] \/ (d = c /\ v = w)
  BY <1>1, ConnStations DEF Written, Ways, Rev
<1>3. f[c][w] \in Seq(Items) /\ "up" \in Ways /\ "down" \in Ways
  BY DEF Flows, Ways
<1>4. /\ Unended(f[c][w]) /\ x.kind \notin EndKinds => Unended(g[c][w])
      /\ Tidy(f[c][w]) /\ (x.kind = "data" => ~Has(f[c][w], "close")) => Tidy(g[c][w])
      /\ \A k : Has(g[c][w], k) => Has(f[c][w], k) \/ x.kind = k
  BY <1>2, <1>3, LastFacts
<1>5. \A d \in Conns, v \in Ways : Unended(g[d][v])
  BY <1>2, <1>4 DEF Clean, InOrder
<1>6. ASSUME NEW d \in Conns PROVE ~Has(g[d]["down"], "close") /\ Tidy(g[d]["up"])
  <2>1. ~Has(g[d]["down"], "close")
    BY <1>2, <1>3, <1>4 DEF Clean, InOrder
  <2>2. Tidy(g[d]["up"])
    <3>1. CASE d = c /\ w = "up"
      <4>1. x.kind = "data" => ~Has(f[c]["up"], "close")
        BY <3>1 DEF InOrder, Conns
      <4> QED
        BY <1>4, <3>1, <4>1 DEF Clean
    <3>2. CASE ~(d = c /\ w = "up")
      BY <1>2, <1>3, <3>2 DEF Clean
    <3> QED
      BY <3>1, <3>2
  <2> QED
    BY <2>1, <2>2
<1>7. \A d \in Conns, k \in Kinds : Has(g[d]["up"], k) => Has(f[d]["up"], k) \/ (d = c /\ w = "up" /\ x.kind = k)
  BY <1>2, <1>3, <1>4
<1>8. ASSUME NEW e \in Conns, NEW d \in Conns, d < e, Has(g[e]["up"], "close"), Has(g[d]["up"], "data")
      PROVE  FALSE
  <2>1. "close" \in Kinds /\ "data" \in Kinds /\ d \in Int /\ e \in Int /\ ~(d >= e) /\ e >= d
    BY <1>8 DEF Kinds, Conns
  <2>2. Has(f[e]["up"], "close") \/ (e = c /\ w = "up" /\ x.kind = "close")
    BY <1>7, <1>8, <2>1
  <2>3. Has(f[d]["up"], "data") \/ (d = c /\ w = "up" /\ x.kind = "data")
    BY <1>7, <1>8, <2>1
  <2>4. ~(Has(f[e]["up"], "close") /\ Has(f[d]["up"], "data"))
    BY <1>8 DEF Clean
  <2>5. CASE Has(f[e]["up"], "close")
    BY <2>1, <2>3, <2>4, <2>5 DEF InOrder
  <2>6. CASE e = c /\ w = "up" /\ x.kind = "close"
    BY <1>8, <2>1, <2>3, <2>6 DEF InOrder
  <2> QED
    BY <2>2, <2>5, <2>6
<1>9. \A d \in Conns : Has(g[d]["up"], "close") => Has(f[d]["up"], "close") \/ (w = "up" /\ x.kind = "close")
  BY <1>7 DEF Kinds
<1> QED
  BY <1>5, <1>6, <1>8, <1>9 DEF Clean

\* Taking the first item of one stream and writing it to the next.
LEMMA RelayOrder ==
  ASSUME NEW f \in Flows, Clean(f), NEW c \in 1 .. 3, f[c - 1]["up"] # <<>>
  PROVE  InOrder(Pop(f, c - 1, "up"), c, "up", Head(f[c - 1]["up"]))
<1> DEFINE d == c - 1
<1> DEFINE g == Pop(f, d, "up")
<1> DEFINE x == Head(f[d]["up"])
<1>1. d \in Conns /\ c \in Conns /\ "up" \in Ways /\ \A e \in Conns : (e < c <=> e = d \/ e < d) /\ (e >= c => d < e)
  BY DEF Conns, Ways
<1>2. f[d]["up"] \in Seq(Items) /\ f[d]["up"] # <<>>
  BY <1>1 DEF Flows
<1>3. /\ g[d]["up"] = Tail(f[d]["up"])
      /\ \A e \in Conns : e # d => g[e] = f[e]
  BY <1>1, <1>2, PopFlow
<1>4. /\ Has(f[d]["up"], x.kind) /\ x.kind \notin EndKinds
      /\ x.kind = "close" => ~Has(g[d]["up"], "data")
  BY <1>1, <1>2, <1>3, HeadFacts DEF Clean
<1> HIDE DEF g, x, d
<1>5. x.kind = "data" => \A e \in Conns : e >= c => ~Has(g[e]["up"], "close")
  <2> SUFFICES ASSUME x.kind = "data", NEW e \in Conns, e >= c PROVE ~Has(g[e]["up"], "close")
    OBVIOUS
  <2>1. d < e /\ e # d /\ g[e] = f[e]
    BY <1>1, <1>3 DEF Conns
  <2> QED
    BY <1>1, <1>4, <2>1 DEF Clean
<1>6. x.kind = "close" => \A e \in Conns : e < c => ~Has(g[e]["up"], "data")
  <2> SUFFICES ASSUME x.kind = "close", NEW e \in Conns, e < c PROVE ~Has(g[e]["up"], "data")
    OBVIOUS
  <2>1. CASE e = d
    BY <1>4, <2>1
  <2>2. CASE e # d
    <3>1. e < d /\ g[e] = f[e]
      BY <1>1, <1>3, <2>2
    <3> QED
      BY <1>1, <1>4, <3>1 DEF Clean
  <2> QED
    BY <2>1, <2>2
<1>7. InOrder(g, c, "up", x)
  BY <1>4, <1>5, <1>6 DEF InOrder
<1> QED
  BY <1>7 DEF g, x, d

\* Who has gone stays gone, and nobody starts typing again.
LEMMA UntroubledBefore ==
  ASSUME WaysInv, Next
  PROVE  /\ Typing' => Typing
         /\ Untroubled' => Untroubled
<1>1. TypeInv /\ SetUp /\ TypeInv'
  BY TypeStep DEF WaysInv
<1>2. Lasting
  BY <1>1, LastingStep
<1>3. ASSUME Typing' PROVE Typing
  <2>1. browser # "closed" /\ browser \in {"connecting", "open", "closing", "closed"}
    BY <1>1, <1>2, <1>3 DEF Typing, Lasting, TypeInv, TypeOK
  <2>2. browser = "closing" => FALSE
    <3>1. CASE UNCHANGED got
      BY <1>3, <3>1, PhaseStep DEF Typing, SendKey, SendUpdate
    <3>2. CASE ~UNCHANGED got
      BY <1>3, <3>2, GotStep DEF Typing
    <3> QED
      BY <3>1, <3>2
  <2> QED
    BY <2>1, <2>2 DEF Typing
<1>4. ASSUME Untroubled' PROVE Untroubled
  <2>1. faults = 0
    <3>1. faults \in Nat /\ faults' \in {faults, faults + 1} /\ faults' = 0
      BY <1>1, <1>4 DEF Next, CopyStep, BridgeStep, SendKey, Disconnect, Leave, CloseTimeout, LeaveFrom,
         BrowserReads, Dial, DialFails, CopyData, CopyEnd, CopyFails, CopyReturns, Upgrade, DialVnc,
         ToVnc, FromVnc, Ping, BridgeReturns, VncReads, SendUpdate, VncDies, KillForwarder, CutNetwork,
         envVars, Untroubled, TypeInv, TypeOK
    <3> QED
      BY <3>1
  <2>2. vnc # "closed" /\ web # "gone" /\ "up" \notin half[3]
    BY <1>2, <1>4 DEF Lasting, Untroubled
  <2>3. sent["client"] > 0 \/ Typing
    <3>1. CASE SendKey
      BY <3>1 DEF SendKey, Typing
    <3>2. CASE ~SendKey
      <4>1. sent' = sent \/ SendUpdate
        BY <3>2 DEF Next, CopyStep, BridgeStep, Disconnect, Leave, CloseTimeout, LeaveFrom,
           BrowserReads, Dial, DialFails, CopyData, CopyEnd, CopyFails, CopyReturns, Upgrade, DialVnc,
           ToVnc, FromVnc, Ping, BridgeReturns, VncReads, VncDies, KillForwarder, CutNetwork,
           dataVars
      <4>2. sent'["client"] = sent["client"]
        BY <1>1, <4>1 DEF SendUpdate, TypeInv, TypeOK, Ends
      <4> QED
        BY <1>3, <1>4, <4>2 DEF Untroubled
    <3> QED
      BY <3>1, <3>2
  <2>4. web = "idle" => node[2] # "gone"
    <3> SUFFICES ASSUME web = "idle", node[2] = "gone" PROVE FALSE
      OBVIOUS
    <3>1. node'[2] = "gone"
      BY <1>2 DEF Lasting, Copies
    <3>2. web' = "idle"
      BY DEF Next, CopyStep, BridgeStep, SendKey, Disconnect, Leave, CloseTimeout, LeaveFrom,
         BrowserReads, Dial, DialFails, CopyData, CopyEnd, CopyFails, CopyReturns, Upgrade, DialVnc,
         ToVnc, FromVnc, Ping, BridgeReturns, VncReads, SendUpdate, VncDies, KillForwarder, CutNetwork, Copies
    <3> QED
      BY <1>4, <3>1, <3>2 DEF Untroubled
  <2>5. node[2] = "idle" => node[1] # "gone"
    <3> SUFFICES ASSUME node[2] = "idle", node[1] = "gone" PROVE FALSE
      OBVIOUS
    <3>1. node'[1] = "gone"
      BY <1>2 DEF Lasting, Copies
    <3>2. node'[2] = "idle"
      <4>1. \A c \in Copies : c = 1 \/ c = 2
        BY DEF Copies
      <4>2. ~\E c \in Copies : CopyStep(c)
        BY <4>1 DEF CopyStep, Dial, DialFails, CopyData, CopyEnd, CopyFails, CopyReturns
      <4>3. node' = node
        BY <4>2 DEF Next, BridgeStep, SendKey, Disconnect, Leave, CloseTimeout, LeaveFrom,
           BrowserReads, Upgrade, DialVnc,
           ToVnc, FromVnc, Ping, BridgeReturns, VncReads, SendUpdate, VncDies, KillForwarder, CutNetwork
      <4> QED
        BY <4>3
    <3> QED
      BY <1>4, <3>1, <3>2 DEF Untroubled
  <2> QED
    BY <2>1, <2>2, <2>3, <2>4, <2>5 DEF Untroubled
<1> QED
  BY <1>3, <1>4

\* Everybody can still be written to.
LEMMA NobodyDeaf ==
  ASSUME Untroubled, Intact, NEW c \in Conns, NEW w \in Ways
  PROVE  ~Deaf(c, w)
<1>1. node[1] # "gone" /\ node[2] # "gone"
  BY DEF Untroubled, Intact
<1>2. Passing(Reader(c, w), w)
  BY <1>1 DEF Passing, Copies, Untroubled, Intact
<1> QED
  BY <1>2, DeafPasses

\* What a read, a write or both leave of the streams.
LEMMA CleanMoves ==
  ASSUME TypeInv, Untroubled, Intact
  PROVE  /\ \A d \in Conns, v \in Ways : flow[d][v] # <<>> =>
              /\ Head(flow[d][v]) \in Items /\ Head(flow[d][v]).kind \notin EndKinds
              /\ v = "down" => Head(flow[d][v]).kind # "close"
              /\ v = "up" /\ Head(flow[d][v]).kind = "close" => ~Typing
         /\ \A c \in Conns, w \in Ways, x \in Items : \A g \in Puts(flow, c, w, x) :
              InOrder(flow, c, w, x) =>
                /\ Clean(g)
                /\ x.kind # "close" /\ Typing => \A e \in Conns : ~Has(g[e]["up"], "close")
         /\ \A d \in Conns, v \in Ways : flow[d][v] # <<>> =>
              /\ Clean(Pop(flow, d, v))
              /\ Typing => \A e \in Conns : ~Has(Pop(flow, d, v)[e]["up"], "close")
         /\ \A d \in Conns, v \in Ways, c \in Conns, w \in Ways, x \in Items :
              \A g \in Puts(Pop(flow, d, v), c, w, x) :
                flow[d][v] # <<>> /\ InOrder(Pop(flow, d, v), c, w, x) =>
                  /\ Clean(g)
                  /\ x.kind # "close" /\ Typing => \A e \in Conns : ~Has(g[e]["up"], "close")
<1>1. flow \in Flows /\ Clean(flow) /\ "close" \in Kinds
  BY DEF TypeInv, Intact, Kinds
<1>2. Typing => \A c \in Conns : ~Has(flow[c]["up"], "close")
  BY DEF Intact
<1>3. \A c \in Conns, w \in Ways : ~Deaf(c, w)
  BY NobodyDeaf
<1>4. ASSUME NEW d \in Conns, NEW v \in Ways, flow[d][v] # <<>>
      PROVE  /\ Head(flow[d][v]) \in Items /\ Head(flow[d][v]).kind \notin EndKinds
             /\ v = "down" => Head(flow[d][v]).kind # "close"
             /\ v = "up" /\ Head(flow[d][v]).kind = "close" => ~Typing
             /\ Pop(flow, d, v) \in Flows /\ Clean(Pop(flow, d, v))
             /\ Typing => \A e \in Conns : ~Has(Pop(flow, d, v)[e]["up"], "close")
  <2>1. flow[d][v] \in Seq(Items)
    BY <1>1 DEF Flows
  <2>2. Unended(flow[d][v]) /\ (v = "down" => ~Has(flow[d][v], "close"))
    BY <1>1 DEF Clean
  <2>3. Head(flow[d][v]) \in Items /\ Pop(flow, d, v) \in Flows
    BY <1>1, <1>4, PopFlow
  <2>4. Has(flow[d][v], Head(flow[d][v]).kind) /\ Head(flow[d][v]).kind \notin EndKinds
    BY <1>4, <2>1, <2>2, HeadFacts
  <2>5. v = "down" => Head(flow[d][v]).kind # "close"
    BY <2>2, <2>4
  <2>6. /\ Clean(Pop(flow, d, v))
        /\ \A e \in Conns : Has(Pop(flow, d, v)[e]["up"], "close") => Has(flow[e]["up"], "close")
    BY <1>1, <1>4, PopClean
  <2>7. v = "up" /\ Head(flow[d][v]).kind = "close" => ~Typing
    BY <1>2, <2>4
  <2> QED
    BY <1>2, <2>3, <2>4, <2>5, <2>6, <2>7
<1>5. ASSUME NEW f \in Flows, Clean(f), Typing => \A e \in Conns : ~Has(f[e]["up"], "close"),
             NEW c \in Conns, NEW w \in Ways, NEW x \in Items, NEW g \in Puts(f, c, w, x),
             InOrder(f, c, w, x)
      PROVE  /\ Clean(g)
             /\ x.kind # "close" /\ Typing => \A e \in Conns : ~Has(g[e]["up"], "close")
  BY <1>3, <1>5, PutClean
<1>6. ASSUME NEW d \in Conns, NEW v \in Ways, NEW c \in Conns, NEW w \in Ways, NEW x \in Items,
             NEW g \in Puts(Pop(flow, d, v), c, w, x),
             flow[d][v] # <<>>, InOrder(Pop(flow, d, v), c, w, x)
      PROVE  /\ Clean(g)
             /\ x.kind # "close" /\ Typing => \A e \in Conns : ~Has(g[e]["up"], "close")
  <2> DEFINE f == Pop(flow, d, v)
  <2>1. f \in Flows /\ Clean(f) /\ (Typing => \A e \in Conns : ~Has(f[e]["up"], "close"))
    BY <1>4, <1>6
  <2>2. g \in Puts(f, c, w, x) /\ InOrder(f, c, w, x)
    BY <1>6
  <2> HIDE DEF f
  <2> QED
    BY <1>5, <2>1, <2>2
<1> QED
  BY <1>1, <1>2, <1>4, <1>5, <1>6

Calm == TypeInv /\ SetUp /\ Untroubled /\ Intact

\* The stream side of Intact, after a step.
StaysClean == Clean(flow') /\ (Typing' => \A c \in Conns : ~Has(flow'[c]["up"], "close"))

LEMMA IntactBrowser ==
  ASSUME Calm, Typing' => Typing, Untroubled',
         SendKey \/ Disconnect \/ Leave \/ CloseTimeout \/ BrowserReads
  PROVE  Intact'
<1> USE MsgItems
<1>1. /\ TypeInv /\ Untroubled /\ Intact /\ flow \in Flows /\ Clean(flow)
      /\ Typing => \A c \in Conns : ~Has(flow[c]["up"], "close")
  BY DEF Calm, TypeInv, Intact
<1>2. UNCHANGED <<cut, asked, node, web, half>>
  BY DEF SendKey, Disconnect, Leave, CloseTimeout, LeaveFrom, BrowserReads, envVars
<1>3. ASSUME browser' # "closed", StaysClean PROVE Intact'
  BY <1>1, <1>2, <1>3 DEF Intact, StaysClean, Typing
<1>4. CASE SendKey
  <2>1. browser = "open" /\ browser' = "open"
    BY <1>4 DEF SendKey
  <2> DEFINE x == Data(sent'["client"])
  <2>2. x \in Items /\ x.kind = "data" /\ flow' \in Puts(flow, 0, "up", x)
    <3>1. sent'["client"] \in Nat \ {0}
      BY <1>1, <1>4 DEF SendKey, TypeInv, TypeOK, Ends
    <3> QED
      BY <1>4, <3>1, ItemFacts DEF SendKey, Data
  <2> HIDE DEF x
  <2>3. InOrder(flow, 0, "up", x)
    BY <1>1, <2>1, <2>2 DEF InOrder, Typing, EndKinds
  <2>4. /\ Clean(flow')
        /\ x.kind # "close" /\ Typing => \A e \in Conns : ~Has(flow'[e]["up"], "close")
    BY <1>1, <2>2, <2>3, CleanMoves
  <2> QED
    BY <1>3, <2>1, <2>2, <2>4 DEF StaysClean, Typing
<1>5. CASE Disconnect
  <2>1. browser = "open"
    <3> SUFFICES ASSUME browser # "open" PROVE FALSE
      OBVIOUS
    <3>1. browser = "connecting" /\ browser' = "closed" /\ sent' = sent
      BY <1>5 DEF Disconnect, dataVars
    <3>2. sent'["client"] = 0 /\ ~Typing'
      BY <3>1 DEF Calm, SetUp, Typing
    <3> QED
      BY <3>2 DEF Untroubled
  <2>2. browser' = "closing" /\ flow' \in Puts(flow, 0, "up", Msg("close"))
    BY <1>5, <2>1 DEF Disconnect
  <2>3. InOrder(flow, 0, "up", Msg("close"))
    BY DEF InOrder, EndKinds, Conns
  <2>4. Clean(flow')
    BY <1>1, <2>2, <2>3, CleanMoves
  <2> QED
    BY <1>3, <2>2, <2>4 DEF StaysClean, Typing
<1>6. CASE Leave \/ CloseTimeout
  <2>1. faults' = faults + 1 /\ faults \in Nat /\ faults' = 0
    BY <1>1, <1>6 DEF Leave, CloseTimeout, LeaveFrom, Untroubled, TypeInv, TypeOK
  <2> QED
    BY <2>1
<1>7. CASE BrowserReads
  <2> DEFINE x == Head(flow[0]["down"])
  <2> DEFINE rest == Pop(flow, 0, "down")
  <2>1. flow[0]["down"] # <<>>
    BY <1>7 DEF BrowserReads, Readable
  <2>2. /\ x.kind \notin EndKinds /\ x.kind # "close" /\ Clean(rest)
        /\ Typing => \A e \in Conns : ~Has(rest[e]["up"], "close")
    BY <1>1, <2>1, CleanMoves
  <2>3. /\ browser' # "closed"
        /\ flow' = rest \/ flow' \in Puts(rest, 0, "up", Msg("pong"))
    BY <1>7, <2>2 DEF BrowserReads, EndKinds
  <2>4. InOrder(rest, 0, "up", Msg("pong"))
    BY DEF InOrder, EndKinds
  <2>5. flow' \in Puts(rest, 0, "up", Msg("pong")) =>
          /\ Clean(flow')
          /\ Msg("pong").kind # "close" /\ Typing => \A e \in Conns : ~Has(flow'[e]["up"], "close")
    BY <1>1, <2>1, <2>4, CleanMoves
  <2>6. StaysClean
    <3> HIDE DEF rest
    <3> QED
      BY <2>2, <2>3, <2>5 DEF StaysClean
  <2> QED
    BY <1>3, <2>3, <2>6
<1> QED
  BY <1>4, <1>5, <1>6, <1>7

LEMMA IntactCopy ==
  ASSUME Calm, Untroubled', NEW c \in Copies, CopyStep(c)
  PROVE  Intact'
<1> USE MsgItems
<1>1. /\ TypeInv /\ Untroubled /\ Intact /\ SetUp /\ flow \in Flows /\ Clean(flow)
      /\ Typing => \A d \in Conns : ~Has(flow[d]["up"], "close")
      /\ half[c] = {} /\ ~cut
  BY DEF Calm, TypeInv, Intact, Copies
<1>2. UNCHANGED <<cut, asked, browser>>
  BY DEF CopyStep, Dial, DialFails, CopyData, CopyEnd, CopyFails, CopyReturns, envVars
<1>3. CASE Dial(c)
  <2>1. UNCHANGED <<flow, half>>
    BY <1>3 DEF Dial
  <2>2. /\ node'[2] # "idle" => node'[1] = "run"
        /\ web' # "idle" => node'[2] = "run"
    <3>1. CASE c = 1
      BY <1>1, <1>3, <3>1 DEF Dial, SetUp, TypeInv, TypeOK, Copies
    <3>2. CASE c = 2
      BY <1>1, <1>3, <3>2 DEF Dial, Intact, TypeInv, TypeOK, Copies
    <3> QED
      BY <3>1, <3>2 DEF Copies
  <2> QED
    BY <1>1, <1>2, <2>1, <2>2 DEF Intact, Typing
<1>4. CASE DialFails(c)
  <2>1. node[c] = "dialling" /\ node' = [node EXCEPT ![c] = "gone"] /\ web' = web
    BY <1>4 DEF DialFails
  <2>2. node \in [Copies -> {"idle", "dialling", "run", "gone"}]
    BY <1>1 DEF TypeInv, TypeOK
  <2>3. c = 1 => node'[2] = "idle" /\ node'[1] = "gone"
    BY <1>1, <2>1, <2>2 DEF SetUp, Copies
  <2>4. c = 2 => web' = "idle" /\ node'[2] = "gone"
    BY <1>1, <2>1, <2>2 DEF SetUp, Copies
  <2> QED
    BY <2>3, <2>4 DEF Untroubled, Copies
<1>5. ASSUME NEW w \in Ways, Readable(From(c, w), w)
      PROVE  /\ flow[From(c, w)][w] # <<>> /\ Head(flow[From(c, w)][w]).kind \notin {"fin", "rst"}
  BY <1>1, <1>5, CleanMoves, CopyConns DEF Readable, EndKinds
<1>6. ~CopyFails(c) /\ ~CopyReturns(c) /\ \A w \in Ways : ~CopyEnd(c, w)
  BY <1>1, <1>5 DEF CopyFails, CopyReturns, CopyEnd, Ways
<1>7. ASSUME NEW w \in Ways, CopyData(c, w) PROVE Intact'
  <2> DEFINE d == From(c, w)
  <2> DEFINE x == Head(flow[d][w])
  <2> DEFINE rest == Pop(flow, d, w)
  <2>1. /\ UNCHANGED <<node, web, half>> /\ flow[d][w] # <<>> /\ x.kind \notin {"fin", "rst"}
        /\ flow' \in Puts(rest, Onto(c, w), w, x)
    BY <1>7 DEF CopyData, Readable
  <2>2. d \in Conns /\ Onto(c, w) \in Conns
    BY CopyConns
  <2>3. /\ x \in Items
        /\ w = "down" => x.kind # "close"
        /\ w = "up" /\ x.kind = "close" => ~Typing
    BY <1>1, <2>1, <2>2, CleanMoves
  <2>4. InOrder(rest, Onto(c, w), w, x)
    <3>1. CASE w = "down"
      BY <2>1, <2>3, <3>1 DEF InOrder, EndKinds
    <3>2. CASE w = "up"
      <4>1. d = c - 1 /\ Onto(c, w) = c /\ c \in 1 .. 3
        BY <3>2 DEF From, Onto, Copies
      <4> QED
        BY <1>1, <2>1, <3>2, <4>1, RelayOrder
    <3> QED
      BY <3>1, <3>2 DEF Ways
  <2>5. /\ Clean(flow')
        /\ x.kind # "close" /\ Typing => \A e \in Conns : ~Has(flow'[e]["up"], "close")
    <3> DEFINE e == Onto(c, w)
    <3>1. d \in Conns /\ e \in Conns /\ x \in Items /\ flow[d][w] # <<>>
          /\ flow' \in Puts(Pop(flow, d, w), e, w, x) /\ InOrder(Pop(flow, d, w), e, w, x)
      BY <2>1, <2>2, <2>3, <2>4
    <3> HIDE DEF e, x, d
    <3> QED
      BY <1>1, <3>1, CleanMoves
  <2>6. Typing' => \A e \in Conns : ~Has(flow'[e]["up"], "close")
    BY <1>2, <2>3, <2>5 DEF Typing, Ways
  <2>7. Clean(flow')
    BY <2>5
  <2> HIDE DEF x, rest, d
  <2> QED
    BY <1>1, <1>2, <2>1, <2>6, <2>7 DEF Intact
<1> QED
  BY <1>3, <1>4, <1>6, <1>7 DEF CopyStep

LEMMA IntactBridge ==
  ASSUME Calm, Untroubled', TypeInv', BridgeStep
  PROVE  Intact'
<1> USE MsgItems
<1>1. /\ TypeInv /\ Untroubled /\ Intact /\ SetUp /\ flow \in Flows /\ Clean(flow)
      /\ Typing => \A d \in Conns : ~Has(flow[d]["up"], "close")
      /\ half[3] = {} /\ ~cut /\ ~asked
  BY DEF Calm, TypeInv, Intact
<1>2. UNCHANGED <<cut, browser, node>> /\ web # "idle"
  BY DEF BridgeStep, Upgrade, DialVnc, ToVnc, FromVnc, Ping, BridgeReturns, envVars
<1>3. ASSUME ~asked', half' = half, StaysClean PROVE Intact'
  BY <1>1, <1>2, <1>3 DEF Intact, StaysClean
<1>4. ASSUME NEW c \in Conns, NEW w \in Ways, ~Deaf(c, w) => FALSE PROVE FALSE
  BY <1>1, <1>4, NobodyDeaf
<1>5. ~Deaf(3, "up") /\ ~Deaf(2, "down")
  BY <1>1, NobodyDeaf
<1>6. CASE Upgrade
  <2> DEFINE rest == Pop(flow, 2, "up")
  <2>1. flow[2]["up"] # <<>> /\ UNCHANGED <<half, asked>>
    BY <1>6 DEF Upgrade, Readable
  <2>2. Head(flow[2]["up"]).kind \notin {"fin", "rst"}
    BY <1>1, <2>1, CleanMoves DEF EndKinds
  <2>3. flow' \in Puts(rest, 2, "down", Msg("accept"))
    BY <1>6, <2>2 DEF Upgrade
  <2>4. InOrder(rest, 2, "down", Msg("accept"))
    BY DEF InOrder, EndKinds
  <2>5. StaysClean
    BY <1>1, <1>2, <2>1, <2>3, <2>4, CleanMoves DEF StaysClean, Typing
  <2> QED
    BY <1>1, <1>3, <2>1, <2>5
<1>7. CASE DialVnc
  <2>1. UNCHANGED <<half, asked, flow>>
    BY <1>7 DEF DialVnc, Untroubled
  <2> QED
    BY <1>1, <1>2, <1>3, <2>1 DEF StaysClean, Typing
<1>8. CASE ToVnc
  <2> DEFINE x == Head(flow[2]["up"])
  <2> DEFINE rest == Pop(flow, 2, "up")
  <2>1. flow[2]["up"] # <<>>
    BY <1>8 DEF ToVnc, Readable
  <2>2. /\ x \in Items /\ Clean(rest)
        /\ Typing => \A e \in Conns : ~Has(rest[e]["up"], "close")
    BY <1>1, <2>1, CleanMoves
  <2>3. ~ToVncEnds(rest)
    <3> SUFFICES ASSUME ToVncEnds(rest) PROVE FALSE
      OBVIOUS
    <3>1. "up" \in half'[3]
      BY <1>1 DEF ToVncEnds, TypeInv, TypeOK
    <3> QED
      BY <3>1 DEF Untroubled
  <2>4. /\ UNCHANGED <<half, asked>>
        /\ flow' = rest \/ (x.kind = "data" /\ flow' \in Puts(rest, 3, "up", x))
    BY <1>8, <2>3 DEF ToVnc
  <2>5. InOrder(rest, 3, "up", x)
    <3>1. 3 - 1 = 2 /\ 3 \in 1 .. 3
      OBVIOUS
    <3> QED
      BY <1>1, <2>1, <3>1, RelayOrder
  <2>6. x.kind = "data" /\ flow' \in Puts(rest, 3, "up", x) => StaysClean
    BY <1>1, <1>2, <2>1, <2>2, <2>5, CleanMoves DEF StaysClean, Typing
  <2>7. flow' = rest => StaysClean
    BY <1>2, <2>2 DEF StaysClean, Typing
  <2> HIDE DEF rest, x
  <2> QED
    BY <1>1, <1>3, <2>4, <2>6, <2>7
<1>9. CASE FromVnc
  <2> DEFINE x == Head(flow[3]["down"])
  <2> DEFINE rest == Pop(flow, 3, "down")
  <2>1. flow[3]["down"] # <<>>
    BY <1>9 DEF FromVnc, Readable
  <2>2. x \in Items /\ x.kind \notin {"fin", "rst"}
    BY <1>1, <2>1, CleanMoves DEF EndKinds
  <2>3. UNCHANGED <<half, asked>> /\ x.kind = "data" /\ flow' \in Puts(rest, 2, "down", x)
    BY <1>1, <1>5, <1>9, <2>2 DEF FromVnc
  <2>4. InOrder(rest, 2, "down", x)
    BY <2>3 DEF InOrder, EndKinds
  <2>5. StaysClean
    BY <1>1, <1>2, <2>1, <2>2, <2>3, <2>4, CleanMoves DEF StaysClean, Typing
  <2> QED
    BY <1>1, <1>3, <2>3, <2>5
<1>10. CASE Ping
  <2>1. UNCHANGED <<half, asked>> /\ flow' \in Puts(flow, 2, "down", Msg("ping"))
    BY <1>1, <1>5, <1>10 DEF Ping
  <2>2. InOrder(flow, 2, "down", Msg("ping"))
    BY DEF InOrder, EndKinds
  <2>3. StaysClean
    BY <1>1, <1>2, <2>1, <2>2, CleanMoves DEF StaysClean, Typing
  <2> QED
    BY <1>1, <1>3, <2>1, <2>3
<1>11. CASE BridgeReturns
  BY <1>1, <1>11 DEF BridgeReturns, Ways
<1> QED
  BY <1>6, <1>7, <1>8, <1>9, <1>10, <1>11 DEF BridgeStep

LEMMA IntactServer ==
  ASSUME Calm, Untroubled', VncReads \/ SendUpdate \/ VncDies \/ KillForwarder \/ CutNetwork
  PROVE  Intact'
<1> USE MsgItems
<1>1. /\ TypeInv /\ Untroubled /\ Intact /\ flow \in Flows /\ Clean(flow)
      /\ Typing => \A d \in Conns : ~Has(flow[d]["up"], "close")
  BY DEF Calm, TypeInv, Intact
<1>2. ~VncDies /\ ~KillForwarder /\ ~CutNetwork
  <2>1. VncDies \/ KillForwarder \/ CutNetwork => faults' = faults + 1
    BY DEF VncDies, KillForwarder, CutNetwork
  <2>2. faults \in Nat /\ faults' = 0
    BY <1>1 DEF Untroubled, TypeInv, TypeOK
  <2> QED
    BY <2>1, <2>2
<1>3. UNCHANGED <<cut, asked, browser, node, web, half>>
  BY <1>2 DEF VncReads, SendUpdate, envVars
<1>4. CASE VncReads
  <2>1. flow[3]["up"] # <<>>
    BY <1>4 DEF VncReads, Readable
  <2>2. Head(flow[3]["up"]).kind \notin {"fin", "rst"}
    BY <1>1, <2>1, CleanMoves DEF EndKinds
  <2>3. flow' = Pop(flow, 3, "up")
    BY <1>4, <2>2 DEF VncReads
  <2>4. Clean(flow') /\ (Typing => \A e \in Conns : ~Has(flow'[e]["up"], "close"))
    BY <1>1, <2>1, <2>3, CleanMoves
  <2> QED
    BY <1>1, <1>3, <2>4 DEF Intact, Typing
<1>5. CASE SendUpdate
  <2> DEFINE x == Data(sent'["agent"])
  <2>1. x \in Items /\ x.kind = "data" /\ flow' \in Puts(flow, 3, "down", x)
    <3>1. sent'["agent"] \in Nat \ {0}
      BY <1>1, <1>5 DEF SendUpdate, TypeInv, TypeOK, Ends
    <3> QED
      BY <1>5, <3>1, ItemFacts DEF SendUpdate, Data
  <2> HIDE DEF x
  <2>2. InOrder(flow, 3, "down", x)
    BY <2>1 DEF InOrder, EndKinds
  <2>3. Clean(flow') /\ (Typing => \A e \in Conns : ~Has(flow'[e]["up"], "close"))
    BY <1>1, <2>1, <2>2, CleanMoves
  <2> QED
    BY <1>1, <1>3, <2>3 DEF Intact, Typing
<1> QED
  BY <1>2, <1>4, <1>5

LEMMA HeldStep ==
  ASSUME WaysInv, HeldInv, Next
  PROVE  HeldInv'
<1> SUFFICES ASSUME Untroubled' PROVE Intact'
  BY DEF HeldInv
<1>1. (Typing' => Typing) /\ Untroubled
  BY UntroubledBefore
<1>2. Calm /\ TypeInv'
  BY <1>1, TypeStep DEF Calm, WaysInv, HeldInv
<1> QED
  BY <1>1, <1>2, IntactBrowser, IntactCopy, IntactBridge, IntactServer DEF Next

\* The end of a stream is its last item.
EndsLast(s) == \A i \in 1 .. Len(s) : s[i].kind \in EndKinds => i = Len(s)

\* What became of a stream whose writer has given its socket up.
Spoilt(s) == {IF Ended(s) THEN s ELSE Append(s, Msg("fin"))} \cup Broken(3, s)

\* The VNC server's side.  Once the bridge has stopped writing, every key is
\* in the last stream or with the server.
NearEnd ==
    /\ vnc = "open" /\ "up" \notin half[3] => web = "run" /\ Unended(flow[3]["up"])
    /\ vnc = "open" /\ "up" \in half[3] => EndsLast(flow[3]["up"])
    /\ faults = 0 /\ vnc = "open" /\ "up" \in half[3] =>
         ~Typing /\ Carries(flow[3]["up"], Len(got["agent"]) + 1, sent["client"] + 1)
    /\ faults = 0 /\ vnc = "closed" => ~Typing /\ Len(got["agent"]) = sent["client"]

LEMMA UnendedEnds ==
  ASSUME NEW s \in Seq(Items), NEW k \in EndKinds, EndsLast(s), ~Ended(s)
  PROVE  /\ Append(s, Msg(k)) \in Seq(Items) /\ EndsLast(Append(s, Msg(k)))
         /\ Same(s, Append(s, Msg(k)))
<1> DEFINE t == Append(s, Msg(k))
<1>1. Append(s, Msg(k)) \in Seq(Items) /\ Same(s, Append(s, Msg(k)))
  BY SameEnd
<1>2. Len(s) \in Nat /\ Len(t) = Len(s) + 1 /\ \A i \in 1 .. Len(s) : t[i] = s[i]
  OBVIOUS
<1>3. Unended(s)
  BY DEF Unended, EndsLast, Ended, EndKinds
<1> HIDE DEF t
<1>4. \A i \in 1 .. Len(t) : i = Len(t) \/ (i \in 1 .. Len(s) /\ t[i] = s[i])
  BY <1>2
<1>5. EndsLast(t)
  BY <1>3, <1>4 DEF EndsLast, Unended
<1> QED
  BY <1>1, <1>5 DEF t

LEMMA SpoiltFacts ==
  ASSUME NEW s \in Seq(Items), EndsLast(s), NEW t \in Spoilt(s)
  PROVE  EndsLast(t) /\ Same(s, t)
<1>1. CASE ~Ended(s)
  <2>1. t = Append(s, Msg("fin")) \/ t = Append(s, Msg("rst"))
    BY <1>1 DEF Spoilt, Broken
  <2> QED
    BY <1>1, <2>1, UnendedEnds DEF EndKinds
<1>2. CASE Ended(s)
  <2> DEFINE f == SubSeq(s, 1, Len(s) - 1)
  <2>1. t = s \/ t = Append(f, Msg("rst"))
    BY <1>2 DEF Spoilt, Broken
  <2>2. Len(s) \in Nat /\ Len(s) >= 1
    BY <1>2 DEF Ended
  <2>3. f \in Seq(Items) /\ Len(f) = Len(s) - 1 /\ \A i \in 1 .. Len(f) : f[i] = s[i]
    BY <2>2, FrontFacts
  <2>4. Same(s, Append(f, Msg("rst")))
    BY <1>2, CarriesBroken DEF Same
  <2> HIDE DEF f
  <2>5. EndsLast(f) /\ ~Ended(f)
    <3>1. \A i \in 1 .. Len(f) : i \in 1 .. Len(s) /\ i # Len(s) /\ f[i] = s[i]
      BY <2>2, <2>3
    <3>2. Unended(f)
      BY <3>1 DEF Unended, EndsLast
    <3>3. f # <<>> => Len(f) \in 1 .. Len(f)
      BY <2>3
    <3> QED
      BY <3>2, <3>3 DEF Unended, EndsLast, Ended, EndKinds
  <2>6. EndsLast(Append(f, Msg("rst")))
    BY <2>3, <2>5, UnendedEnds DEF EndKinds
  <2> QED
    BY <2>1, <2>4, <2>6, SameSame
<1> QED
  BY <1>1, <1>2

\* A stream that starts behind number 1 and has no key in it carries nothing.
LEMMA NoKeysLeft ==
  ASSUME NEW s \in Seq(Items), NEW a \in Nat, NEW b \in Nat, Carries(s, a, b), a >= 1, ~Has(s, "data")
  PROVE  a = b
<1>1. ASSUME NEW i \in 1 .. Len(s), Numbered(s[i]) PROVE FALSE
  <2>1. s[i] \in Items /\ Rank(s[i]) \in a + 1 .. b
    BY <1>1 DEF Carries
  <2>2. s[i].n \in Nat
    BY <2>1, ItemFacts
  <2>4. s[i].n + 1 \in a + 1 .. b
    BY <2>1 DEF Rank
  <2>5. s[i].n # 0
    BY <2>2, <2>4
  <2>3. s[i].kind = "data"
    BY <2>1, <2>5, ItemFacts
  <2> QED
    BY <2>3 DEF Has
<1> QED
  BY <1>1, CarriesNone

\* When the bridge reads a Close, or the end of the stream, it has passed on
\* every key the browser has sent.
LEMMA LastWords ==
  ASSUME WaysInv, HeldInv, ToVnc, faults = 0, vnc = "open",
         Head(flow[2]["up"]).kind \in {"close", "fin", "rst"}
  PROVE  ~Typing /\ Carries(flow[3]["up"], Len(got["agent"]) + 1, sent["client"] + 1)
<1> DEFINE L == Len(got["agent"])
<1> DEFINE S == sent["client"]
<1>1. /\ TypeInv /\ SetUp /\ flow \in Flows /\ L \in Nat /\ S \in Nat
      /\ web = "run" /\ "up" \notin half[3] /\ flow[2]["up"] # <<>>
      /\ \A c \in Conns : flow[c]["up"] \in Seq(Items)
  BY DEF WaysInv, TypeInv, TypeOK, ToVnc, Readable, Ends, Flows, Ways
<1>2. node[2] # "idle" /\ Greeted = 1 /\ Top("up") = S + 1
  BY <1>1 DEF SetUp, Greeted, Top, Source
<1>3. PICK num \in [Stations -> Nat] : UpOK(num)
  BY DEF WaysInv, UpInv
<1>4. num[4] = L + 1 /\ \A k \in 0 .. 4 : num[k] \in Nat
  BY <1>2, <1>3 DEF UpOK, Stations
<1>5. Reaches(4, "up") /\ Reaches(3, "up")
  BY <1>1 DEF Reaches, Onward, Passing, Copies
<1>6. ASSUME NEW c \in Conns, Reaches(c, "up"), Reaches(c + 1, "up")
      PROVE  Carries(flow[c]["up"], num[c + 1], num[c]) /\ num[c] <= S + 1
  <2>1. Reader(c, "up") = c + 1 /\ Writer(c, "up") = c
    BY DEF Reader, Writer
  <2>2. Holds(c, "up", num)
    BY <1>3 DEF UpOK, Chain
  <2>3. PICK m \in 0 .. Top("up") : Carries(flow[c]["up"], num[c + 1], m) /\ m = num[c]
    BY <1>6, <2>1, <2>2 DEF Holds
  <2> QED
    BY <1>1, <1>2, <2>3
<1>7. Carries(flow[3]["up"], L + 1, num[3]) /\ num[3] <= S + 1 /\ L + 1 <= num[3]
  <2>1. 3 \in Conns /\ 3 + 1 = 4
    BY DEF Conns
  <2>2. Carries(flow[3]["up"], num[4], num[3]) /\ num[3] <= S + 1
    BY <1>5, <1>6, <2>1
  <2> QED
    BY <1>4, <2>2 DEF Carries
<1>8. CASE ~Untroubled
  <2>1. ~(S > 0 \/ Typing)
    BY <1>1, <1>2, <1>8 DEF Untroubled
  <2>2. num[3] = S + 1
    BY <1>1, <1>4, <1>7, <2>1
  <2> QED
    BY <1>7, <2>1, <2>2
<1>9. CASE Untroubled
  <2>1. Intact
    BY <1>9 DEF HeldInv
  <2>2. /\ Has(flow[2]["up"], "close") /\ ~Has(Tail(flow[2]["up"]), "data")
        /\ Head(flow[2]["up"]).kind = "close"
    <3>1. 2 \in Conns /\ "up" \in Ways /\ flow[2]["up"] \in Seq(Items)
      BY <1>1 DEF Conns, Ways
    <3>2. Unended(flow[2]["up"]) /\ Tidy(flow[2]["up"])
      BY <2>1, <3>1 DEF Intact, Clean
    <3>3. Head(flow[2]["up"]).kind \notin EndKinds
      BY <1>1, <3>1, <3>2, HeadFacts
    <3>4. Head(flow[2]["up"]).kind = "close"
      BY <3>3 DEF EndKinds
    <3> QED
      BY <1>1, <3>1, <3>2, <3>4, HeadFacts
  <2>3. ~Typing
    BY <2>1, <2>2 DEF Intact, Conns
  <2>4. \A k \in 0 .. 4 : Passing(k, "up")
    BY <1>1, <1>2, <1>9, <2>1 DEF Passing, Intact, Untroubled, Copies
  <2>5. \A k \in 0 .. 4 : Reaches(k, "up")
    BY <2>4 DEF Reaches, Onward
  <2>6. num[0] = S + 1
    BY <1>2, <1>3, <2>5 DEF UpOK
  <2>7. \A c \in 0 .. 2 : ~Has(flow[c]["up"], "data")
    <3> TAKE c \in 0 .. 2
    <3>1. CASE c = 2
      <4> DEFINE s == flow[2]["up"]
      <4>1. s \in Seq(Items) /\ s # <<>> /\ Head(s).kind = "close"
        BY <1>1, <2>2 DEF Conns
      <4>2. Tidy(s)
        BY <2>1 DEF Intact, Clean, Conns
      <4>3. Len(s) \in Nat /\ 1 \in 1 .. Len(s) /\ s[1].kind = "close"
        BY <4>1
      <4> HIDE DEF s
      <4>4. ASSUME NEW i \in 1 .. Len(s) PROVE s[i].kind # "data"
        <5>1. i = 1 \/ 1 < i
          BY <4>3
        <5> QED
          BY <4>2, <4>3, <5>1 DEF Tidy
      <4>5. ~Has(s, "data")
        BY <4>4 DEF Has
      <4> QED
        BY <3>1, <4>5 DEF s
    <3>2. CASE c # 2
      <4>1. c \in Conns /\ 2 \in Conns /\ c < 2
        BY <3>2 DEF Conns
      <4> QED
        BY <2>1, <2>2, <4>1 DEF Intact, Clean
    <3> QED
      BY <3>1, <3>2
  <2>8. ASSUME NEW c \in 0 .. 2, num[c + 1] >= 1 PROVE num[c + 1] = num[c]
    <3>1. c \in Conns /\ c + 1 \in 0 .. 4 /\ c \in 0 .. 4
      BY DEF Conns
    <3>2. Carries(flow[c]["up"], num[c + 1], num[c])
      BY <1>6, <2>5, <3>1
    <3> QED
      BY <1>1, <1>4, <2>7, <2>8, <3>1, <3>2, NoKeysLeft
  <2>9. num[3] = S + 1
    <3>1. num[3] >= 1
      BY <1>1, <1>4, <1>7
    <3>2. num[3] = num[2]
      BY <2>8, <3>1
    <3>3. num[2] = num[1]
      BY <2>8, <3>1, <3>2
    <3>4. num[1] = num[0]
      BY <2>8, <3>1, <3>2, <3>3
    <3> QED
      BY <2>6, <3>2, <3>3, <3>4
  <2> QED
    BY <1>7, <2>3, <2>9
<1> QED
  BY <1>8, <1>9

LEMMA DropsLeaves ==
  ASSUME NEW f, NEW c, NEW w, NEW how, NEW g \in Drops(f, c, w, how), ~Deaf(c, w), ~(c = 1 /\ cut)
  PROVE  \E s \in {IF Ended(f[c][w]) THEN f[c][w] ELSE Append(f[c][w], Msg(how))} \cup Broken(c, f[c][w]) :
            g = Edit(Edit(f, c, w, s), c, Rev(w), <<>>)
BY DEF Drops, Edit

\* What becomes of the last stream towards the VNC server.
LEMMA LastLeg ==
  ASSUME TypeInv, SetUp, Next, vnc = "open", vnc' = "open"
  PROVE  \/ VncReads \/ ToVnc
         \/ /\ flow'[3]["up"] = flow[3]["up"] /\ got'["agent"] = got["agent"] /\ web' = web
            /\ "up" \in half'[3] <=> "up" \in half[3]
         \/ /\ web' = "gone" /\ flow'[3]["up"] \in Spoilt(flow[3]["up"])
            /\ half' = half /\ got' = got
            /\ web = "gone" \/ "up" \in half[3]
<1> USE MsgItems
<1>1. /\ flow \in Flows /\ web \in {"run", "gone"} /\ ~Deaf(3, "up") /\ Ways = {"up", "down"}
      /\ half \in [1 .. 3 -> SUBSET Ways] /\ got \in [Ends -> Seq(Nat)]
  BY DEF TypeInv, TypeOK, SetUp, Deaf, Copies, Ways
<1>2. CASE ~VncReads /\ ~ToVnc /\ ~FromVnc /\ ~BridgeReturns /\ ~SendUpdate /\ ~VncDies
  <2>1. flow'[3] = flow[3]
    BY <1>2, FarFlow
  <2>2. web' = web
    BY <1>1, <1>2 DEF Next, CopyStep, BridgeStep, SendKey, Disconnect, Leave, CloseTimeout, LeaveFrom,
       BrowserReads, Dial, DialFails, CopyData, CopyEnd, CopyFails, CopyReturns, Upgrade, DialVnc,
       Ping, KillForwarder, CutNetwork, SetUp, Copies
  <2>3. got'["agent"] = got["agent"]
    <3>1. CASE BrowserReads
      BY <1>1, <3>1 DEF BrowserReads, Ends
    <3>2. CASE ~BrowserReads
      BY <1>2, <3>2 DEF Next, CopyStep, BridgeStep, SendKey, Disconnect, Leave, CloseTimeout, LeaveFrom,
         Dial, DialFails, CopyData, CopyEnd, CopyFails, CopyReturns, Upgrade, DialVnc,
         Ping, KillForwarder, CutNetwork, dataVars
    <3> QED
      BY <3>1, <3>2
  <2>4. "up" \in half'[3] <=> "up" \in half[3]
    <3>1. ASSUME NEW c \in Copies, NEW w \in Ways, CopyEnd(c, w) PROVE half'[3] = half[3]
      <4>1. UNCHANGED half \/ half' = [half EXCEPT ![c] = half[c] \cup {w}]
        BY <3>1 DEF CopyEnd
      <4>2. c # 3
        BY DEF Copies
      <4> QED
        BY <1>1, <4>1, <4>2
    <3>2. CASE Ping
      <4>1. UNCHANGED half \/ half' = [half EXCEPT ![3] = half[3] \cup {"down"}]
        BY <3>2 DEF Ping, FromVncEnds
      <4> QED
        BY <1>1, <4>1
    <3>3. CASE ~Ping /\ ~\E c \in Copies, w \in Ways : CopyEnd(c, w)
      BY <1>2, <3>3 DEF Next, CopyStep, BridgeStep, SendKey, Disconnect, Leave, CloseTimeout, LeaveFrom,
         BrowserReads, Dial, DialFails, CopyData, CopyFails, CopyReturns, Upgrade, DialVnc,
         KillForwarder, CutNetwork
    <3> QED
      BY <3>1, <3>2, <3>3
  <2> QED
    BY <2>1, <2>2, <2>3, <2>4
<1>3. CASE FromVnc
  <2> DEFINE rest == Pop(flow, 3, "down")
  <2>1. flow[3]["down"] # <<>> /\ web' = web /\ got' = got
    BY <1>3 DEF FromVnc, Readable, dataVars
  <2>2. /\ rest \in Flows /\ rest[3]["up"] = flow[3]["up"] /\ Head(flow[3]["down"]) \in Items
    BY <1>1, <2>1, PopFlow
  <2>3. \/ flow' \in Puts(rest, 2, "down", Head(flow[3]["down"]))
        \/ flow' \in Puts(rest, 2, "down", Msg("close"))
    BY <1>3 DEF FromVnc, FromVncEnds
  <2>4. "up" \in half'[3] <=> "up" \in half[3]
    <3>1. UNCHANGED half \/ half' = [half EXCEPT ![3] = half[3] \cup {"down"}]
      BY <1>3 DEF FromVnc, FromVncEnds
    <3> QED
      BY <1>1, <3>1
  <2> HIDE DEF rest
  <2>5. flow'[3] = rest[3]
    BY <2>2, <2>3, PutsFacts DEF Written
  <2> QED
    BY <2>1, <2>2, <2>4, <2>5
<1>4. CASE BridgeReturns
  <2>1. /\ web' = "gone" /\ half' = half /\ got' = got /\ "up" \in half[3]
    BY <1>1, <1>4 DEF BridgeReturns, dataVars
  <2>2. PICK g \in Drops(flow, 2, "down", "fin") : flow' \in Drops(g, 3, "up", "fin")
    BY <1>4 DEF BridgeReturns
  <2>3. g \in Flows /\ g[3] = flow[3]
    BY <1>1, <2>2, DropsFacts DEF Dropped
  <2> DEFINE out == g[3]["up"]
  <2>4. 3 # 1
    OBVIOUS
  <2>5. PICK s \in Spoilt(out) : flow' = Edit(Edit(g, 3, "up", s), 3, Rev("up"), <<>>)
    BY <1>1, <2>2, <2>4, DropsLeaves DEF Spoilt
  <2>6. flow'[3]["up"] = s
    BY <1>1, <2>3, <2>5 DEF Flows, Edit
  <2> QED
    BY <2>1, <2>3, <2>5, <2>6
<1>5. CASE SendUpdate
  <2> DEFINE x == Data(sent'["agent"])
  <2>1. web' = web /\ half' = half /\ got' = got /\ flow' \in Puts(flow, 3, "down", x)
    BY <1>5 DEF SendUpdate
  <2>2. x \in Items
    <3>1. sent'["agent"] \in Nat \ {0}
      BY <1>5 DEF SendUpdate, TypeInv, TypeOK, Ends
    <3> QED
      BY <3>1, ItemFacts
  <2> HIDE DEF x
  <2>3. CASE Deaf(3, "down")
    <3>1. web = "gone"
      BY <2>3 DEF Deaf, Copies
    <3>2. PICK s \in Broken(3, flow[3]["up"]) : flow' = [flow EXCEPT ![3]["up"] = s]
      BY <2>1, <2>3 DEF Puts
    <3>3. flow'[3]["up"] = s
      BY <1>1, <3>2 DEF Flows
    <3> QED
      BY <2>1, <3>1, <3>2, <3>3 DEF Spoilt
  <2>4. CASE ~Deaf(3, "down")
    <3>1. Written(flow, flow', 3, "down", x)
      BY <1>1, <2>1, <2>2, PutsFacts
    <3>2. flow'[3]["up"] = flow[3]["up"]
      BY <2>4, <3>1 DEF Written
    <3> QED
      BY <2>1, <3>2
  <2> QED
    BY <2>3, <2>4
<1>6. ~VncDies
  BY DEF VncDies
<1> QED
  BY <1>2, <1>3, <1>4, <1>5, <1>6

LEMMA NearEndStep ==
  ASSUME WaysInv, HeldInv, NearEnd, Next
  PROVE  NearEnd'
<1> DEFINE s == flow[3]["up"]
<1> DEFINE L == Len(got["agent"])
<1> DEFINE S == sent["client"]
<1> USE MsgItems
<1>1. /\ TypeInv /\ SetUp /\ flow \in Flows /\ s \in Seq(Items) /\ L \in Nat /\ S \in Nat
      /\ faults \in Nat /\ vnc' \in {"idle", "open", "closed"}
      /\ got \in [Ends -> Seq(Nat)] /\ half \in [1 .. 3 -> SUBSET Ways] /\ "agent" \in Ends
  <2>1. TypeInv /\ SetUp /\ TypeInv'
    BY TypeStep DEF WaysInv
  <2>2. /\ flow \in Flows /\ S \in Nat /\ faults \in Nat /\ vnc' \in {"idle", "open", "closed"}
        /\ got \in [Ends -> Seq(Nat)] /\ half \in [1 .. 3 -> SUBSET Ways] /\ "agent" \in Ends
    BY <2>1 DEF TypeInv, TypeOK, Ends
  <2>3. s \in Seq(Items) /\ L \in Nat
    BY <2>2 DEF Flows
  <2> QED
    BY <2>1, <2>2, <2>3
<1>2. Typing' => Typing
  BY UntroubledBefore
<1>3. faults' = 0 => faults = 0
  BY <1>1 DEF Next, CopyStep, BridgeStep, SendKey, Disconnect, Leave, CloseTimeout, LeaveFrom,
     BrowserReads, Dial, DialFails, CopyData, CopyEnd, CopyFails, CopyReturns, Upgrade, DialVnc,
     ToVnc, FromVnc, Ping, BridgeReturns, VncReads, SendUpdate, VncDies, KillForwarder, CutNetwork, envVars
<1>4. ~Typing => sent'["client"] = S
  <2> SUFFICES ASSUME ~Typing PROVE sent'["client"] = S
    OBVIOUS
  <2>1. sent' = sent \/ SendUpdate
    BY DEF Next, CopyStep, BridgeStep, SendKey, Disconnect, Leave, CloseTimeout, LeaveFrom,
       BrowserReads, Dial, DialFails, CopyData, CopyEnd, CopyFails, CopyReturns, Upgrade, DialVnc,
       ToVnc, FromVnc, Ping, BridgeReturns, VncReads, VncDies, KillForwarder, CutNetwork, dataVars, Typing
  <2> QED
    BY <1>1, <2>1 DEF SendUpdate, TypeInv, TypeOK, Ends
<1>5. OneWay
  BY <1>1, LastingStep, LastingOneWay, TypeStep
<1>6. CASE vnc' = "idle"
  BY <1>6 DEF NearEnd
<1>7. CASE vnc' = "closed"
  <2>1. ASSUME faults' = 0 PROVE ~Typing /\ L = S /\ got'["agent"] = got["agent"]
    <3>1. CASE vnc = "closed"
      <4>1. got'["agent"] = got["agent"]
        BY <1>1, <3>1, GotStep DEF Ends
      <4> QED
        BY <1>3, <2>1, <3>1, <4>1 DEF NearEnd
    <3>2. CASE vnc # "closed"
      <4>1. VncReads /\ Head(s).kind \in EndKinds /\ vnc = "open" /\ s # <<>> /\ got' = got
        <5>1. VncReads \/ VncDies
          BY <1>1, <1>7, <3>2 DEF Next, CopyStep, BridgeStep, SendKey, Disconnect, Leave, CloseTimeout,
             LeaveFrom, BrowserReads, Dial, DialFails, CopyData, CopyEnd, CopyFails, CopyReturns, Upgrade,
             DialVnc, ToVnc, FromVnc, Ping, BridgeReturns, SendUpdate, KillForwarder, CutNetwork
        <5>2. ~VncDies
          BY <1>1, <2>1 DEF VncDies
        <5> QED
          BY <1>7, <3>2, <5>1, <5>2 DEF VncReads, Readable, EndKinds
      <4>2. "up" \in half[3]
        <5> SUFFICES ASSUME "up" \notin half[3] PROVE FALSE
          OBVIOUS
        <5>1. Unended(s)
          BY <4>1 DEF NearEnd
        <5> QED
          BY <1>1, <4>1, <5>1, HeadFacts
      <4>3. EndsLast(s) /\ ~Typing /\ Carries(s, L + 1, S + 1)
        BY <1>3, <2>1, <4>1, <4>2 DEF NearEnd
      <4> HIDE DEF s, L, S
      <4>4. ~Has(s, "data")
        <5>1. Len(s) \in Nat /\ 1 \in 1 .. Len(s) /\ s[1].kind \in EndKinds
          BY <1>1, <4>1
        <5>2. \A i \in 1 .. Len(s) : i = 1
          BY <4>3, <5>1 DEF EndsLast
        <5>3. s[1].kind # "data"
          BY <5>1 DEF EndKinds
        <5> QED
          BY <5>2, <5>3 DEF Has
      <4>5. L + 1 = S + 1
        BY <1>1, <4>3, <4>4, NoKeysLeft
      <4> QED
        BY <1>1, <4>1, <4>3, <4>5
    <3> QED
      BY <3>1, <3>2
  <2> QED
    BY <1>2, <1>4, <1>7, <2>1 DEF NearEnd
<1>8. CASE vnc' = "open" /\ vnc # "open"
  <2>1. DialVnc
    BY <1>8 DEF Next, CopyStep, BridgeStep, SendKey, Disconnect, Leave, CloseTimeout,
       LeaveFrom, BrowserReads, Dial, DialFails, CopyData, CopyEnd, CopyFails, CopyReturns, Upgrade,
       ToVnc, FromVnc, Ping, BridgeReturns, VncReads, SendUpdate, VncDies, KillForwarder, CutNetwork
  <2>2. web' = "run" /\ half' = half /\ flow' = flow /\ half[3] = {} /\ s = <<>>
    BY <1>1, <1>8, <2>1 DEF DialVnc, SetUp
  <2>3. Unended(<<>>)
    BY DEF Unended
  <2>4. "up" \notin half'[3] /\ Unended(flow'[3]["up"])
    BY <2>2, <2>3
  <2> QED
    BY <1>8, <2>2, <2>4 DEF NearEnd
<1>9. CASE vnc' = "open" /\ vnc = "open" /\ VncReads
  <2>1. s # <<>> /\ Head(s).kind \notin EndKinds /\ half' = half /\ web' = web /\ sent' = sent
    BY <1>9 DEF VncReads, Readable, EndKinds
  <2>2. /\ flow' = Pop(flow, 3, "up") /\ Head(s).kind = "data"
        /\ got' = [got EXCEPT !["agent"] = Append(got["agent"], L + 1)]
    BY <1>5, <1>9, <2>1, VncFinds DEF VncReads, EndKinds
  <2>3. flow'[3]["up"] = Tail(s) /\ Head(s) \in Items
    BY <1>1, <2>1, <2>2, PopFlow
  <2>4. Len(got'["agent"]) = L + 1
    BY <1>1, <2>2
  <2>5. Unended(s) => Unended(Tail(s))
    BY <1>1, <2>1, HeadFacts
  <2>6. EndsLast(s) => EndsLast(Tail(s))
    <3> HIDE DEF s
    <3>1. \A i \in 1 .. Len(Tail(s)) : i + 1 \in 1 .. Len(s) /\ Tail(s)[i] = s[i + 1] /\ Len(Tail(s)) = Len(s) - 1
      BY <1>1, <2>1
    <3>2. Len(s) \in Nat
      BY <1>1
    <3> QED
      BY <3>1, <3>2 DEF EndsLast
  <2>7. Carries(s, L + 1, S + 1) => Carries(Tail(s), L + 2, S + 1)
    <3> HIDE DEF s, L, S
    <3>1. Numbered(Head(s))
      BY <2>2 DEF Numbered
    <3>2. L + 1 \in Nat /\ S + 1 \in Nat /\ L + 1 + 1 = L + 2
      BY <1>1
    <3>3. Carries(s, L + 1, S + 1) => Carries(Tail(s), L + 1 + 1, S + 1)
      BY <1>1, <2>1, <3>1, <3>2, CarriesTail
    <3> QED
      BY <3>2, <3>3
  <2>8. L + 1 + 1 = L + 2
    BY <1>1
  <2> HIDE DEF s, L, S
  <2>9. /\ "up" \notin half[3] => web = "run" /\ Unended(Tail(s))
        /\ "up" \in half[3] => EndsLast(Tail(s))
        /\ faults' = 0 /\ "up" \in half[3] => ~Typing /\ Carries(Tail(s), L + 2, S + 1)
    BY <1>3, <1>9, <2>5, <2>6, <2>7 DEF NearEnd, s, L, S
  <2>10. sent'["client"] = S
    BY <2>1 DEF S
  <2> QED
    BY <1>2, <1>9, <2>1, <2>3, <2>4, <2>8, <2>9, <2>10 DEF NearEnd
<1>10. CASE vnc' = "open" /\ vnc = "open" /\ ToVnc
  <2> DEFINE x == Head(flow[2]["up"])
  <2> DEFINE rest == Pop(flow, 2, "up")
  <2>1. /\ web = "run" /\ web' = web /\ "up" \notin half[3] /\ flow[2]["up"] # <<>> /\ UNCHANGED <<sent, got>>
        /\ ~Deaf(3, "up") /\ Unended(s) /\ browser' = browser /\ faults' = faults
    BY <1>1, <1>10 DEF ToVnc, Readable, dataVars, Deaf, Copies, NearEnd, envVars
  <2>2. rest \in Flows /\ rest[3] = flow[3] /\ x \in Items
    BY <1>1, <2>1, PopFlow
  <2>3. ASSUME NEW y \in Items, flow' \in Puts(rest, 3, "up", y) PROVE flow'[3]["up"] = Append(s, y)
    <3> HIDE DEF rest
    <3>1. Written(rest, flow', 3, "up", y)
      BY <1>1, <2>2, <2>3, PutsFacts
    <3> QED
      BY <2>1, <2>2, <3>1 DEF Written
  <2>4. CASE x.kind = "data" \/ x.kind = "pong"
    <3>1. half' = half /\ (flow' = rest \/ flow' \in Puts(rest, 3, "up", x))
      BY <1>10, <2>1, <2>4 DEF ToVnc
    <3>2. x.kind \notin EndKinds
      BY <2>4 DEF EndKinds
    <3>3. Unended(flow'[3]["up"])
      <4>1. CASE flow' = rest
        BY <2>1, <2>2, <4>1
      <4>2. CASE flow' \in Puts(rest, 3, "up", x)
        <5>1. flow'[3]["up"] = Append(s, x)
          BY <2>2, <2>3, <4>2
        <5> HIDE DEF s, x
        <5> QED
          BY <1>1, <2>1, <2>2, <3>2, <5>1, LastFacts
      <4> QED
        BY <3>1, <4>1, <4>2
    <3> QED
      BY <1>10, <2>1, <3>1, <3>3 DEF NearEnd
  <2>5. CASE x.kind \in {"close", "fin", "rst"}
    <3>1. half' = [half EXCEPT ![3] = half[3] \cup {"up"}] /\ flow' \in Puts(rest, 3, "up", Msg("fin"))
      BY <1>10, <2>5 DEF ToVnc, ToVncEnds
    <3>2. flow'[3]["up"] = Append(s, Msg("fin")) /\ "up" \in half'[3]
      BY <1>1, <2>3, <3>1
    <3>3. EndsLast(s) /\ ~Ended(s)
      <4>1. s # <<>> => Len(s) \in 1 .. Len(s)
        BY <1>1
      <4> QED
        BY <2>1, <4>1 DEF EndsLast, Ended, Unended, EndKinds
    <3>4. EndsLast(Append(s, Msg("fin"))) /\ Same(s, Append(s, Msg("fin")))
      BY <1>1, <3>3, UnendedEnds
    <3>5. faults = 0 => ~Typing /\ Carries(s, L + 1, S + 1)
      BY <1>10, <2>5, LastWords
    <3>6. faults = 0 => Carries(Append(s, Msg("fin")), L + 1, S + 1)
      <4>1. L + 1 \in Nat /\ S + 1 \in Nat
        BY <1>1
      <4> HIDE DEF s, L, S
      <4> QED
        BY <3>4, <3>5, <4>1 DEF Same
    <3>7. got'["agent"] = got["agent"] /\ sent'["client"] = sent["client"] /\ (Typing' <=> Typing)
      BY <2>1 DEF Typing
    <3> QED
      BY <1>10, <2>1, <3>2, <3>4, <3>5, <3>6, <3>7 DEF NearEnd
  <2> QED
    BY <1>10, <2>1, <2>4, <2>5 DEF ToVnc
<1>11. CASE vnc' = "open" /\ vnc = "open" /\ ~VncReads /\ ~ToVnc
  <2>1. CASE /\ flow'[3]["up"] = flow[3]["up"] /\ got'["agent"] = got["agent"] /\ web' = web
             /\ "up" \in half'[3] <=> "up" \in half[3]
    BY <1>2, <1>3, <1>4, <1>11, <2>1 DEF NearEnd
  <2>2. CASE /\ web' = "gone" /\ flow'[3]["up"] \in Spoilt(flow[3]["up"])
             /\ half' = half /\ got' = got
             /\ web = "gone" \/ "up" \in half[3]
    <3> DEFINE t == flow'[3]["up"]
    <3>1. "up" \in half[3]
      BY <1>11, <2>2 DEF NearEnd
    <3>2. EndsLast(s) /\ (faults = 0 => ~Typing /\ Carries(s, L + 1, S + 1))
      BY <1>11, <3>1 DEF NearEnd
    <3>3. EndsLast(t) /\ Same(s, t)
      BY <1>1, <2>2, <3>2, SpoiltFacts
    <3>4. faults = 0 => Carries(t, L + 1, S + 1)
      <4>1. L + 1 \in Nat /\ S + 1 \in Nat
        BY <1>1
      <4> HIDE DEF s, t, L, S
      <4> QED
        BY <3>2, <3>3, <4>1 DEF Same
    <3>5. "up" \in half'[3] /\ EndsLast(t) /\ vnc' = "open" /\ got'["agent"] = got["agent"]
      BY <1>11, <2>2, <3>1, <3>3
    <3>6. faults' = 0 => ~Typing' /\ sent'["client"] = S /\ Carries(t, L + 1, S + 1)
      BY <1>2, <1>3, <1>4, <3>2, <3>4
    <3>7. faults' = 0 => ~Typing'
      BY <3>6
    <3>8. faults' = 0 => Carries(flow'[3]["up"], Len(got'["agent"]) + 1, sent'["client"] + 1)
      BY <3>5, <3>6
    <3>9. EndsLast(flow'[3]["up"])
      BY <3>5
    <3> HIDE DEF t
    <3> QED
      BY <3>5, <3>7, <3>8, <3>9 DEF NearEnd
  <2> QED
    BY <1>1, <1>11, <2>1, <2>2, LastLeg
<1> QED
  BY <1>1, <1>6, <1>7, <1>8, <1>9, <1>10, <1>11

LEMMA CloseInit == Init => HeldInv /\ NearEnd
<1> SUFFICES ASSUME Init PROVE HeldInv /\ NearEnd
  OBVIOUS
<1>1. \A c \in Conns : flow[c]["down"] = <<>> /\ (flow[c]["up"] = <<>> \/ flow[c]["up"] = <<Msg("get")>>)
  BY DEF Init, Conns, Ways
<1>2. \A s \in {<<>>, <<Msg("get")>>} : Unended(s) /\ Tidy(s) /\ ~Has(s, "close") /\ ~Has(s, "data")
  BY DEF Unended, Tidy, Has, Msg, EndKinds
<1>3. Clean(flow)
  BY <1>1, <1>2 DEF Clean, Ways
<1>4. Intact
  BY <1>1, <1>2, <1>3 DEF Init, Intact, Copies
<1> QED
  BY <1>4 DEF HeldInv, NearEnd, Init

\* CloseDeliversAll: when nobody vanishes and nothing fails, the VNC server
\* sees the end of its connection only after every key the browser has sent;
\* whoever closes first and however the ends are passed on.
THEOREM CloseDeliversAll == Spec => []CloseDelivers
<1>1. WaysInv /\ HeldInv /\ NearEnd /\ [Next]_vars => HeldInv' /\ NearEnd'
  <2>1. UNCHANGED vars => (HeldInv => HeldInv') /\ (NearEnd => NearEnd')
    BY DEF vars, HeldInv, NearEnd, Untroubled, Intact, Typing
  <2> QED
    BY <2>1, HeldStep, NearEndStep
<1>2. NearEnd => CloseDelivers
  BY DEF NearEnd, CloseDelivers
<1> QED
  BY <1>1, <1>2, WaysInit, InvStep, CloseInit, PTL DEF Spec
=============================================================================
