-------------------------- MODULE WebConsoleProofs --------------------------
(***************************************************************************)
(* Proofs about the page and its RFB objects: there is one session at a    *)
(* time, none after Disconnect, and the server learns where the mouse is.  *)
(* They hold for any number of sessions and events of the mouse.           *)
(***************************************************************************)
EXTENDS WebConsole, FiniteSetTheorems, TLAPS

-----------------------------------------------------------------------------
(* The inductive invariant, stated of a page so that it can be carried     *)
(* through the handlers that call each other.                              *)

\* What an RFB object has sent: nothing before it is connected; then the
\* buttons it knows and, unless a move waits, the place.
Told(r) ==
    /\ r.state = "connecting" => r.sent = <<>>
    /\ (r.state = "connected" /\ r.sent # <<>>) => r.sent[2] = r.mask
    /\ r.mtimer => r.pos = r.at
    /\ (r.state = "connected" /\ ~r.mtimer /\ r.sent # <<>>) => r.sent = <<r.at, r.mask>>

\* Only the last object can be other than disconnected; it is so too while a
\* reconnection is due, and after Disconnect none is.
Ordered(p) ==
    /\ \A j \in 1 .. Len(p.rfbs) - 1 : p.rfbs[j].state = "disconnected"
    /\ p.timer => p.rfbs[Len(p.rfbs)].state = "disconnected"
    /\ p.user => ~p.timer

Valid(p) ==
    /\ p \in Pages
    /\ Len(p.rfbs) >= 1
    /\ p.capture <= Len(p.rfbs)
    /\ \A j \in 1 .. Len(p.rfbs) : Told(p.rfbs[j])

Good(p) == Valid(p) /\ Ordered(p)

IInv == TypeOK /\ Good(w)

Last(p) == p.rfbs[Len(p.rfbs)]

\* The drag lock's button, and those that went up unseen in session i.
Lock(p) == IF p.locked THEN {0} ELSE {}
Left(i, unseen) == {b \in Buttons : <<i, b>> \in unseen}

\* The buttons noVNC takes for held are the user's, the drag lock's or ones that
\* went up unseen.  What the user holds is captured but for what another release
\* let loose, and while the mouse is captured for an object of the past the last
\* one has not seen it yet.
Hands(p, held, free, unseen) ==
    /\ p.capture = 0 => held \subseteq free
    /\ p.capture \notin {0, Len(p.rfbs)} => Last(p).mask = {}
    /\ Alive(Last(p)) =>
          Last(p).mask \subseteq held \cup Lock(p) \cup Left(Len(p.rfbs), unseen)

HandInv == Hands(w, pressed, loose, stuck)

\* q is p but for the object i.
Others(p, q, i) ==
    /\ q \in Pages
    /\ Len(q.rfbs) = Len(p.rfbs)
    /\ \A j \in 1 .. Len(p.rfbs) : j # i => q.rfbs[j] = p.rfbs[j]
    /\ q.user = p.user /\ q.timer = p.timer /\ q.capture = p.capture
    /\ q.locked = p.locked

\* q is p but for the object i, which knows these buttons.
Touches(p, q, i, mask) == Others(p, q, i) /\ q.rfbs[i].mask = mask

\* q is p as far as sessions go.
Like(p, q) ==
    /\ Valid(q)
    /\ Len(q.rfbs) = Len(p.rfbs)
    /\ \A j \in 1 .. Len(p.rfbs) : q.rfbs[j].state = p.rfbs[j].state
    /\ q.user = p.user /\ q.timer = p.timer

\* q is p as far as the mouse goes, but for an object that may have ended.
Steady(p, q) ==
    /\ Len(q.rfbs) = Len(p.rfbs)
    /\ q.capture = p.capture /\ q.locked = p.locked
    /\ Last(q).mask = Last(p).mask
    /\ Alive(Last(q)) => Alive(Last(p))

-----------------------------------------------------------------------------
(* Changing one object.                                                    *)

LEMMA Edit ==
  ASSUME NEW p \in Pages, NEW i \in 1 .. Len(p.rfbs), NEW r \in RFBs
  PROVE  /\ Others(p, [p EXCEPT !.rfbs[i] = r], i)
         /\ [p EXCEPT !.rfbs[i] = r].rfbs[i] = r
<1> DEFINE s == [p.rfbs EXCEPT ![i] = r]
<1> DEFINE q == [p EXCEPT !.rfbs = s]
<1>1. p.rfbs \in Seq(RFBs)
  BY DEF Pages
<1>2. s \in Seq(RFBs) /\ Len(s) = Len(p.rfbs) /\ s[i] = r
      /\ \A j \in 1 .. Len(p.rfbs) : j # i => s[j] = p.rfbs[j]
  BY <1>1
<1> HIDE DEF s
<1>3. /\ q \in Pages /\ q.rfbs = s /\ q.user = p.user /\ q.timer = p.timer
      /\ q.capture = p.capture /\ q.locked = p.locked
  BY <1>2 DEF Pages
<1>4. q = [p EXCEPT !.rfbs[i] = r]
  BY DEF s
<1> QED
  BY <1>2, <1>3, <1>4 DEF Others

LEMMA OthersTwice ==
  ASSUME NEW p, NEW q, NEW r, NEW i, Others(p, q, i), Others(q, r, i)
  PROVE  Others(p, r, i)
BY DEF Others

\* An object that has changed but not its state, and has told what it knows.
LEMMA OthersLike ==
  ASSUME NEW p, Valid(p), NEW i \in 1 .. Len(p.rfbs), NEW q, Others(p, q, i),
         q.rfbs[i].state = p.rfbs[i].state, Told(q.rfbs[i])
  PROVE  Like(p, q)
BY DEF Others, Like, Valid

LEMMA OthersSteady ==
  ASSUME NEW p, Valid(p), NEW i \in 1 .. Len(p.rfbs), NEW q, Others(p, q, i),
         q.rfbs[i].state = p.rfbs[i].state, q.rfbs[i].mask = p.rfbs[i].mask
  PROVE  Steady(p, q)
<1>1. Len(p.rfbs) \in 1 .. Len(p.rfbs)
  BY DEF Valid, Pages
<1>2. Last(q).mask = Last(p).mask /\ Last(q).state = Last(p).state
  BY <1>1 DEF Others, Last
<1> QED
  BY <1>2 DEF Others, Steady, Alive

LEMMA SteadyHands ==
  ASSUME NEW p, NEW q, NEW held, NEW free, NEW unseen, Hands(p, held, free, unseen),
         Steady(p, q)
  PROVE  Hands(q, held, free, unseen)
BY DEF Hands, Steady, Lock

LEMMA LikeGood ==
  ASSUME NEW p, Good(p), NEW q, Like(p, q)
  PROVE  Good(q)
BY DEF Like, Good, Ordered, Valid

LEMMA LikeTwice ==
  ASSUME NEW p, NEW q, NEW r, Like(p, q), Like(q, r)
  PROVE  Like(p, r)
BY DEF Like

LEMMA LikeSelf ==
  ASSUME NEW p, Valid(p)
  PROVE  Like(p, p)
BY DEF Like, Valid

LEMMA RFBType ==
  ASSUME NEW p \in Pages, NEW i \in 1 .. Len(p.rfbs)
  PROVE  p.rfbs[i] \in RFBs
<1>1. p.rfbs \in Seq(RFBs)
  BY DEF Pages
<1> QED
  BY <1>1

-----------------------------------------------------------------------------
(* The mouse.                                                              *)

\* What the handlers do to an object.
Quiet(r) == [r EXCEPT !.mtimer = FALSE]
Knows(r, pos, mask) == [r EXCEPT !.mask = mask, !.at = pos]
Says(r, pos, mask) == [r EXCEPT !.sent = IF r.state = "connected" THEN <<pos, mask>> ELSE r.sent]

\* Two objects that differ in nothing that has to do with sending.
SameNews(r, t) ==
    /\ t \in RFBs
    /\ t.state = r.state /\ t.mask = r.mask /\ t.at = r.at /\ t.pos = r.pos

LEMMA MasksGrow ==
  ASSUME NEW m \in Masks, NEW b \in 0 .. 4
  PROVE  m \cup {b} \in Masks /\ m \ {b} \in Masks
BY DEF Masks

LEMMA QuietFields ==
  ASSUME NEW r \in RFBs
  PROVE  SameNews(r, Quiet(r)) /\ ~Quiet(r).mtimer /\ Quiet(r).sent = r.sent
BY DEF RFBs, Quiet, SameNews

LEMMA KnowsFields ==
  ASSUME NEW r \in RFBs, NEW pos \in Spots, NEW mask \in Masks
  PROVE  LET t == Knows(r, pos, mask)
         IN  /\ t \in RFBs /\ t.state = r.state /\ t.mask = mask /\ t.at = pos
             /\ t.sent = r.sent /\ (t.mtimer <=> r.mtimer)
<1>1. Knows(r, pos, mask) \in RFBs
  BY DEF RFBs, Knows
<1>2. Knows(r, pos, mask).mask = mask /\ Knows(r, pos, mask).at = pos
      /\ Knows(r, pos, mask).state = r.state /\ Knows(r, pos, mask).sent = r.sent
      /\ Knows(r, pos, mask).mtimer = r.mtimer
  BY DEF RFBs, Knows
<1> QED
  BY <1>1, <1>2

LEMMA SaysFields ==
  ASSUME NEW r \in RFBs, NEW pos \in Spots, NEW mask \in Masks
  PROVE  LET t == Says(r, pos, mask)
         IN  /\ SameNews(r, t)
             /\ t.mtimer <=> r.mtimer
             /\ r.state = "connected" => t.sent = <<pos, mask>>
             /\ r.state # "connected" => t.sent = r.sent
<1>1. <<pos, mask>> \in {<<>>} \cup (Spots \X Masks) /\ r.sent \in {<<>>} \cup (Spots \X Masks)
  BY DEF RFBs
<1>2. Says(r, pos, mask) \in RFBs
  BY <1>1 DEF RFBs, Says
<1>3. SameNews(r, Says(r, pos, mask)) /\ Says(r, pos, mask).mtimer = r.mtimer
  BY <1>2 DEF RFBs, Says, SameNews
<1>4. Says(r, pos, mask).sent = IF r.state = "connected" THEN <<pos, mask>> ELSE r.sent
  BY DEF RFBs, Says
<1> QED
  BY <1>3, <1>4

LEMMA SendMouseEdits ==
  ASSUME NEW p \in Pages, NEW i \in 1 .. Len(p.rfbs), NEW pos \in Spots, NEW mask \in Masks
  PROVE  /\ Others(p, SendMouse(p, i, pos, mask), i)
         /\ SendMouse(p, i, pos, mask).rfbs[i] = Says(p.rfbs[i], pos, mask)
<1> DEFINE r == p.rfbs[i]
<1>1. r \in RFBs /\ Says(r, pos, mask) \in RFBs
  BY RFBType, SaysFields DEF SameNews
<1>2. CASE p.rfbs[i].state = "connected"
  <2>1. Says(r, pos, mask) = [r EXCEPT !.sent = <<pos, mask>>]
    BY <1>2 DEF Says
  <2>2. SendMouse(p, i, pos, mask) = [p EXCEPT !.rfbs[i] = Says(r, pos, mask)]
    BY <1>2, <2>1 DEF SendMouse
  <2>3. /\ Others(p, [p EXCEPT !.rfbs[i] = Says(r, pos, mask)], i)
        /\ [p EXCEPT !.rfbs[i] = Says(r, pos, mask)].rfbs[i] = Says(r, pos, mask)
    BY <1>1, Edit
  <2> QED
    BY <2>2, <2>3
<1>3. CASE p.rfbs[i].state # "connected"
  <2>1. SendMouse(p, i, pos, mask) = p
    BY <1>3 DEF SendMouse
  <2>2. Others(p, p, i)
    BY DEF Others
  <2>3. Says(r, pos, mask) = r
    BY <1>1, <1>3 DEF RFBs, Says
  <2> QED
    BY <2>1, <2>2, <2>3
<1> QED
  BY <1>2, <1>3

\* An object's move that waits is forgotten.
LEMMA StopTimer ==
  ASSUME NEW p \in Pages, NEW i \in 1 .. Len(p.rfbs)
  PROVE  /\ Others(p, [p EXCEPT !.rfbs[i].mtimer = FALSE], i)
         /\ [p EXCEPT !.rfbs[i].mtimer = FALSE].rfbs[i] = Quiet(p.rfbs[i])
<1>1. [p EXCEPT !.rfbs[i].mtimer = FALSE] = [p EXCEPT !.rfbs[i] = Quiet(p.rfbs[i])]
  BY DEF Quiet
<1>2. Quiet(p.rfbs[i]) \in RFBs
  BY RFBType, QuietFields DEF SameNews
<1>3. /\ Others(p, [p EXCEPT !.rfbs[i] = Quiet(p.rfbs[i])], i)
      /\ [p EXCEPT !.rfbs[i] = Quiet(p.rfbs[i])].rfbs[i] = Quiet(p.rfbs[i])
  BY <1>2, Edit
<1> QED
  BY <1>1, <1>3

\* A move that waits is sent, with any buttons, or there is none.
Flushed(p, i, pos, mask) ==
    IF p.rfbs[i].mtimer THEN SendMouse([p EXCEPT !.rfbs[i].mtimer = FALSE], i, pos, mask) ELSE p

LEMMA Flush ==
  ASSUME NEW p \in Pages, NEW i \in 1 .. Len(p.rfbs), NEW pos \in Spots, NEW mask \in Masks,
         p.rfbs[i].state = "connecting" => p.rfbs[i].sent = <<>>
  PROVE  LET q == Flushed(p, i, pos, mask)
         IN  /\ Others(p, q, i)
             /\ ~q.rfbs[i].mtimer /\ q.rfbs[i].state = p.rfbs[i].state
             /\ q.rfbs[i].state = "connecting" => q.rfbs[i].sent = <<>>
<1> DEFINE r == p.rfbs[i]
<1> DEFINE q == [p EXCEPT !.rfbs[i].mtimer = FALSE]
<1> DEFINE s == SendMouse(q, i, pos, mask)
<1>1. r \in RFBs
  BY RFBType
<1>2. CASE r.mtimer
  <2>1. Others(p, q, i) /\ q.rfbs[i] = Quiet(r)
    BY StopTimer
  <2>2. SameNews(r, Quiet(r)) /\ ~Quiet(r).mtimer /\ Quiet(r).sent = r.sent
    BY <1>1, QuietFields
  <2> HIDE DEF q
  <2>3. q \in Pages /\ i \in 1 .. Len(q.rfbs)
    BY <2>1 DEF Others
  <2>4. Others(q, s, i) /\ s.rfbs[i] = Says(Quiet(r), pos, mask)
    BY <2>1, <2>3, SendMouseEdits
  <2>5. /\ SameNews(Quiet(r), Says(Quiet(r), pos, mask))
        /\ ~Says(Quiet(r), pos, mask).mtimer
        /\ r.state = "connecting" => Says(Quiet(r), pos, mask).sent = r.sent
    BY <2>2, SaysFields DEF SameNews
  <2>6. Flushed(p, i, pos, mask) = s
    BY <1>2 DEF Flushed, q
  <2> HIDE DEF s
  <2>7. Others(p, s, i)
    BY <2>1, <2>4, OthersTwice
  <2> QED
    BY <2>2, <2>4, <2>5, <2>6, <2>7 DEF SameNews
<1>3. CASE ~r.mtimer
  <2>1. Flushed(p, i, pos, mask) = p
    BY <1>3 DEF Flushed
  <2> QED
    BY <1>3, <2>1 DEF Others
<1> QED
  BY <1>2, <1>3

LEMMA ButtonLike ==
  ASSUME NEW p, Valid(p), NEW i \in 1 .. Len(p.rfbs), NEW pos \in Spots,
         NEW down \in BOOLEAN, NEW button \in 0 .. 4
  PROVE  LET q == HandleMouseButton(p, i, pos, down, button)
             known == p.rfbs[i].mask
         IN  /\ Like(p, q)
             /\ Touches(p, q, i, IF down THEN known \cup {button} ELSE known \ {button})
<1> DEFINE r == p.rfbs[i]
<1> DEFINE f == Flushed(p, i, pos, r.mask)
<1> DEFINE mask == IF down THEN r.mask \cup {button} ELSE r.mask \ {button}
<1> DEFINE k == Knows(f.rfbs[i], pos, mask)
<1> DEFINE g == [f EXCEPT !.rfbs[i] = k]
<1> DEFINE q == SendMouse(g, i, pos, mask)
<1>1. p \in Pages /\ r \in RFBs /\ r.mask \in Masks /\ Told(r)
  BY RFBType DEF Valid, RFBs
<1>2. mask \in Masks
  BY <1>1, MasksGrow
<1>3. [f EXCEPT !.rfbs[i].mask = mask, !.rfbs[i].at = pos] = g
  BY DEF Knows
<1>4. q = HandleMouseButton(p, i, pos, down, button)
  BY <1>3 DEF HandleMouseButton, Flushed
<1> HIDE DEF mask
<1>5. /\ Others(p, f, i)
      /\ ~f.rfbs[i].mtimer /\ f.rfbs[i].state = r.state
      /\ f.rfbs[i].state = "connecting" => f.rfbs[i].sent = <<>>
  BY <1>1, Flush DEF Told
<1> HIDE DEF f
<1>6. f \in Pages /\ i \in 1 .. Len(f.rfbs) /\ f.rfbs[i] \in RFBs
  BY <1>5, RFBType DEF Others
<1>7. /\ k \in RFBs /\ k.state = r.state /\ k.mask = mask /\ k.at = pos /\ ~k.mtimer
      /\ k.state = "connecting" => k.sent = <<>>
  BY <1>2, <1>5, <1>6, KnowsFields
<1> HIDE DEF k
<1>8. Others(f, g, i) /\ g.rfbs[i] = k
  BY <1>6, <1>7, Edit
<1> HIDE DEF g
<1>9. g \in Pages /\ i \in 1 .. Len(g.rfbs)
  BY <1>6, <1>8 DEF Others
<1>10. Others(g, q, i) /\ q.rfbs[i] = Says(k, pos, mask)
  BY <1>2, <1>8, <1>9, SendMouseEdits
<1> HIDE DEF q
<1>11. Others(p, q, i)
  <2>1. Others(p, f, i)
    BY <1>5
  <2>2. Others(p, g, i)
    BY <2>1, <1>8, OthersTwice
  <2> QED
    BY <2>2, <1>10, OthersTwice
<1>12. /\ SameNews(k, Says(k, pos, mask)) /\ ~Says(k, pos, mask).mtimer
       /\ k.state = "connected" => Says(k, pos, mask).sent = <<pos, mask>>
       /\ k.state # "connected" => Says(k, pos, mask).sent = k.sent
  BY <1>2, <1>7, SaysFields
<1>13. q.rfbs[i].state = r.state /\ Told(q.rfbs[i])
  BY <1>7, <1>10, <1>12 DEF Told, SameNews
<1>14. q.rfbs[i].mask = mask
  BY <1>7, <1>10, <1>12 DEF SameNews
<1>15. Like(p, q) /\ Touches(p, q, i, mask)
  BY <1>11, <1>13, <1>14, OthersLike DEF Touches
<1> QED
  BY <1>4, <1>15 DEF mask

\* A press and a release.
Presses(p, i, pos, button) == HandleMouseButton(p, i, pos, TRUE, button)
Releases(p, i, pos, button) == HandleMouseButton(p, i, pos, FALSE, button)

LEMMA PressLike ==
  ASSUME NEW p, Valid(p), NEW i \in 1 .. Len(p.rfbs), NEW pos \in Spots, NEW button \in 0 .. 4
  PROVE  /\ Like(p, Presses(p, i, pos, button))
         /\ Touches(p, Presses(p, i, pos, button), i, p.rfbs[i].mask \cup {button})
         /\ Like(p, Releases(p, i, pos, button))
         /\ Touches(p, Releases(p, i, pos, button), i, p.rfbs[i].mask \ {button})
<1> DEFINE Result(down) == HandleMouseButton(p, i, pos, down, button)
<1> DEFINE mask(down) == IF down THEN p.rfbs[i].mask \cup {button} ELSE p.rfbs[i].mask \ {button}
<1>1. \A down \in BOOLEAN : Like(p, Result(down)) /\ Touches(p, Result(down), i, mask(down))
  BY ButtonLike
<1>2. TRUE \in BOOLEAN /\ FALSE \in BOOLEAN
  OBVIOUS
<1> HIDE DEF Result
<1>3. /\ Like(p, Result(TRUE)) /\ Touches(p, Result(TRUE), i, p.rfbs[i].mask \cup {button})
      /\ Like(p, Result(FALSE)) /\ Touches(p, Result(FALSE), i, p.rfbs[i].mask \ {button})
  BY <1>1, <1>2
<1> QED
  BY <1>3 DEF Result, Presses, Releases

\* What a move does to an object.
Moves(r, pos) == [r EXCEPT !.pos = pos, !.at = pos]
Waits(r) == [r EXCEPT !.mtimer = TRUE]

LEMMA MovesFields ==
  ASSUME NEW r \in RFBs, NEW pos \in Spots
  PROVE  LET t == Moves(r, pos)
         IN  /\ t \in RFBs /\ t.state = r.state /\ t.mask = r.mask /\ t.sent = r.sent
             /\ t.pos = pos /\ t.at = pos
             /\ t.mtimer <=> r.mtimer
<1>1. Moves(r, pos) \in RFBs
  BY DEF RFBs, Moves
<1>2. /\ Moves(r, pos).state = r.state /\ Moves(r, pos).mask = r.mask
      /\ Moves(r, pos).sent = r.sent /\ Moves(r, pos).pos = pos /\ Moves(r, pos).at = pos
      /\ Moves(r, pos).mtimer = r.mtimer
  BY DEF RFBs, Moves
<1> QED
  BY <1>1, <1>2

LEMMA WaitsFields ==
  ASSUME NEW r \in RFBs
  PROVE  SameNews(r, Waits(r)) /\ Waits(r).mtimer /\ Waits(r).sent = r.sent
BY DEF RFBs, Waits, SameNews

LEMMA MoveLike ==
  ASSUME NEW p, Valid(p), NEW i \in 1 .. Len(p.rfbs), NEW pos \in Spots, NEW soon \in BOOLEAN
  PROVE  /\ Like(p, HandleMouseMove(p, i, pos, soon))
         /\ Touches(p, HandleMouseMove(p, i, pos, soon), i, p.rfbs[i].mask)
<1> DEFINE r == p.rfbs[i]
<1> DEFINE m == Moves(r, pos)
<1> DEFINE g == [p EXCEPT !.rfbs[i] = m]
<1> DEFINE e == [g EXCEPT !.rfbs[i] = Waits(m)]
<1> DEFINE s == SendMouse(g, i, pos, r.mask)
<1>1. p \in Pages /\ r \in RFBs /\ r.mask \in Masks /\ Told(r)
  BY RFBType DEF Valid, RFBs
<1>2. [p EXCEPT !.rfbs[i].pos = pos, !.rfbs[i].at = pos] = g
  BY DEF Moves
<1>3. /\ m \in RFBs /\ m.state = r.state /\ m.mask = r.mask /\ m.sent = r.sent
      /\ m.pos = pos /\ m.at = pos
      /\ m.mtimer <=> r.mtimer
  BY <1>1, MovesFields
<1> HIDE DEF m
<1>4. Others(p, g, i) /\ g.rfbs[i] = m
  BY <1>1, <1>3, Edit
<1>5. g \in Pages /\ i \in 1 .. Len(g.rfbs)
  BY <1>4 DEF Others
<1>6. CASE r.mtimer
  <2>1. HandleMouseMove(p, i, pos, soon) = g
    BY <1>2, <1>6 DEF HandleMouseMove
  <2> HIDE DEF g
  <2>2. g.rfbs[i].state = r.state /\ Told(g.rfbs[i])
    BY <1>1, <1>3, <1>4, <1>6 DEF Told
  <2> QED
    BY <1>3, <1>4, <2>1, <2>2, OthersLike DEF Touches
<1>7. CASE ~r.mtimer /\ soon
  <2>1. [g EXCEPT !.rfbs[i].mtimer = TRUE] = [g EXCEPT !.rfbs[i] = Waits(g.rfbs[i])]
    BY DEF Waits
  <2>2. HandleMouseMove(p, i, pos, soon) = [g EXCEPT !.rfbs[i].mtimer = TRUE]
    BY <1>2, <1>7 DEF HandleMouseMove
  <2> HIDE DEF g
  <2>3. HandleMouseMove(p, i, pos, soon) = e
    BY <1>4, <2>1, <2>2
  <2>4. SameNews(m, Waits(m)) /\ Waits(m).mtimer /\ Waits(m).sent = m.sent
    BY <1>3, WaitsFields
  <2>5. Others(g, e, i) /\ e.rfbs[i] = Waits(m)
    BY <1>5, <2>4, Edit DEF SameNews
  <2> HIDE DEF e
  <2>6. Others(p, e, i)
    BY <1>4, <2>5, OthersTwice
  <2>7. e.rfbs[i].state = r.state /\ Told(e.rfbs[i])
    BY <1>1, <1>3, <2>4, <2>5 DEF Told, SameNews
  <2> QED
    BY <1>3, <2>3, <2>4, <2>5, <2>6, <2>7, OthersLike DEF Touches, SameNews
<1>8. CASE ~r.mtimer /\ ~soon
  <2>1. HandleMouseMove(p, i, pos, soon) = s
    BY <1>2, <1>8 DEF HandleMouseMove
  <2> HIDE DEF g
  <2>2. Others(g, s, i) /\ s.rfbs[i] = Says(m, pos, r.mask)
    BY <1>1, <1>4, <1>5, SendMouseEdits
  <2> HIDE DEF s
  <2>3. Others(p, s, i)
    BY <1>4, <2>2, OthersTwice
  <2>4. /\ SameNews(m, Says(m, pos, r.mask)) /\ ~Says(m, pos, r.mask).mtimer
        /\ m.state = "connected" => Says(m, pos, r.mask).sent = <<pos, r.mask>>
        /\ m.state # "connected" => Says(m, pos, r.mask).sent = m.sent
    BY <1>1, <1>3, <1>8, SaysFields
  <2>5. s.rfbs[i].state = r.state /\ Told(s.rfbs[i])
    BY <1>1, <1>3, <2>2, <2>4 DEF Told, SameNews
  <2> QED
    BY <1>3, <2>1, <2>2, <2>3, <2>4, <2>5, OthersLike DEF Touches, SameNews
<1> QED
  BY <1>6, <1>7, <1>8

LEMMA DelayedLike ==
  ASSUME NEW p, Valid(p), NEW i \in 1 .. Len(p.rfbs), p.rfbs[i].mtimer
  PROVE  /\ Like(p, HandleDelayedMouseMove(p, i))
         /\ Touches(p, HandleDelayedMouseMove(p, i), i, p.rfbs[i].mask)
<1> DEFINE r == p.rfbs[i]
<1> DEFINE g == [p EXCEPT !.rfbs[i].mtimer = FALSE]
<1> DEFINE s == SendMouse(g, i, r.pos, r.mask)
<1>1. p \in Pages /\ r \in RFBs /\ r.mask \in Masks /\ r.pos \in Spots /\ Told(r)
  BY RFBType DEF Valid, RFBs
<1>2. s = HandleDelayedMouseMove(p, i)
  BY DEF HandleDelayedMouseMove
<1>3. Others(p, g, i) /\ g.rfbs[i] = Quiet(r)
  BY <1>1, StopTimer
<1> HIDE DEF g
<1>4. g \in Pages /\ i \in 1 .. Len(g.rfbs)
  BY <1>3 DEF Others
<1>5. Others(g, s, i) /\ s.rfbs[i] = Says(Quiet(r), r.pos, r.mask)
  BY <1>1, <1>3, <1>4, SendMouseEdits
<1> HIDE DEF s
<1>6. Others(p, s, i)
  BY <1>3, <1>5, OthersTwice
<1>7. SameNews(r, Quiet(r)) /\ ~Quiet(r).mtimer /\ Quiet(r).sent = r.sent
  BY <1>1, QuietFields
<1> DEFINE y == Says(Quiet(r), r.pos, r.mask)
<1>8. /\ SameNews(Quiet(r), y) /\ ~y.mtimer
      /\ r.state = "connected" => y.sent = <<r.pos, r.mask>>
      /\ r.state # "connected" => y.sent = r.sent
  BY <1>1, <1>7, SaysFields DEF SameNews
<1>9. s.rfbs[i].state = r.state /\ Told(s.rfbs[i])
  BY <1>1, <1>5, <1>7, <1>8 DEF Told, SameNews
<1>10. s.rfbs[i].mask = r.mask
  BY <1>5, <1>7, <1>8 DEF SameNews
<1> QED
  BY <1>2, <1>6, <1>9, <1>10, OthersLike DEF Touches

LEMMA CaptureLike ==
  ASSUME NEW p, Valid(p), NEW c \in Nat, c <= Len(p.rfbs)
  PROVE  LET q == [p EXCEPT !.capture = c]
         IN  Like(p, q) /\ q.rfbs = p.rfbs /\ q.capture = c /\ q.locked = p.locked
<1> DEFINE q == [p EXCEPT !.capture = c]
<1>1. p \in Pages
  BY DEF Valid
<1>2. /\ q \in Pages /\ q.rfbs = p.rfbs /\ q.capture = c /\ q.locked = p.locked
      /\ q.user = p.user /\ q.timer = p.timer
  BY <1>1 DEF Pages
<1> HIDE DEF q
<1>3. Valid(q)
  BY <1>2 DEF Valid
<1> QED
  BY <1>2, <1>3 DEF Like, q

\* What reaches the canvas, or what covers it, leaves sessions alone.
LEMMA CanvasLike ==
  ASSUME NEW p, Valid(p), NEW i \in 1 .. Len(p.rfbs), NEW pos \in Spots, NEW soon \in BOOLEAN,
         NEW button \in 0 .. 4
  PROVE  /\ Like(p, CanvasDown(p, i, pos, button))
         /\ Like(p, CanvasUp(p, i, pos, button))
         /\ Like(p, CanvasMove(p, i, pos, soon))
         /\ Touches(p, CanvasMove(p, i, pos, soon), i, p.rfbs[i].mask)
         /\ Touches(p, CanvasUp(p, i, pos, button), i,
                    IF Alive(p.rfbs[i]) THEN p.rfbs[i].mask \ {button} ELSE p.rfbs[i].mask)
         /\ Alive(p.rfbs[i]) =>
              Touches([p EXCEPT !.capture = i], CanvasDown(p, i, pos, button), i,
                      p.rfbs[i].mask \cup {button})
<1>1. Like(p, p) /\ Touches(p, p, i, p.rfbs[i].mask)
  BY LikeSelf DEF Touches, Others, Valid
<1>2. /\ Like(p, CanvasUp(p, i, pos, button))
      /\ Touches(p, CanvasUp(p, i, pos, button), i,
                 IF Alive(p.rfbs[i]) THEN p.rfbs[i].mask \ {button} ELSE p.rfbs[i].mask)
  <2>1. CanvasUp(p, i, pos, button) = IF Alive(p.rfbs[i]) THEN Releases(p, i, pos, button) ELSE p
    BY DEF CanvasUp, Releases
  <2>2. Like(p, Releases(p, i, pos, button))
        /\ Touches(p, Releases(p, i, pos, button), i, p.rfbs[i].mask \ {button})
    BY PressLike
  <2> QED
    BY <1>1, <2>1, <2>2
<1>3. /\ Like(p, CanvasMove(p, i, pos, soon))
      /\ Touches(p, CanvasMove(p, i, pos, soon), i, p.rfbs[i].mask)
  BY <1>1, MoveLike DEF CanvasMove
<1>4. /\ Like(p, CanvasDown(p, i, pos, button))
      /\ Alive(p.rfbs[i]) =>
           Touches([p EXCEPT !.capture = i], CanvasDown(p, i, pos, button), i,
                   p.rfbs[i].mask \cup {button})
  <2> DEFINE q == SetCapture(p, i)
  <2>1. Like(p, q) /\ q.rfbs = p.rfbs
    BY CaptureLike DEF SetCapture, Valid
  <2>2. q = [p EXCEPT !.capture = i]
    BY DEF SetCapture
  <2> HIDE DEF q
  <2>3. Valid(q) /\ i \in 1 .. Len(q.rfbs)
    BY <2>1 DEF Like
  <2>4. /\ Like(q, Presses(q, i, pos, button))
        /\ Touches(q, Presses(q, i, pos, button), i, q.rfbs[i].mask \cup {button})
    BY <2>3, PressLike
  <2>5. Like(p, Presses(q, i, pos, button))
    BY <2>1, <2>4, LikeTwice
  <2>6. CanvasDown(p, i, pos, button) = IF Alive(p.rfbs[i]) THEN Presses(q, i, pos, button) ELSE p
    BY DEF CanvasDown, Presses, q
  <2> QED
    BY <1>1, <2>1, <2>4, <2>5, <2>2, <2>6
<1> QED
  BY <1>2, <1>3, <1>4

LEMMA CaptureUpLike ==
  ASSUME NEW p, Valid(p), p.capture # 0, NEW pos \in Spots, NEW button \in 0 .. 4
  PROVE  LET q == CanvasUp(p, p.capture, pos, button)
             r == CaptureUp(p, pos, button)
         IN  /\ Like(p, r)
             /\ r.rfbs = q.rfbs /\ r.locked = p.locked /\ r.capture = 0
             /\ Touches(p, q, p.capture, IF Alive(p.rfbs[p.capture])
                                         THEN p.rfbs[p.capture].mask \ {button}
                                         ELSE p.rfbs[p.capture].mask)
<1> DEFINE q == CanvasUp(p, p.capture, pos, button)
<1>1. p.capture \in 1 .. Len(p.rfbs)
  BY DEF Valid, Pages
<1>2. /\ Like(p, q)
      /\ Touches(p, q, p.capture, IF Alive(p.rfbs[p.capture])
                                  THEN p.rfbs[p.capture].mask \ {button}
                                  ELSE p.rfbs[p.capture].mask)
  BY <1>1, CanvasLike
<1>3. CaptureUp(p, pos, button) = [q EXCEPT !.capture = 0]
  BY DEF CaptureUp
<1> HIDE DEF q
<1>4. Valid(q) /\ 0 <= Len(q.rfbs)
  BY <1>2 DEF Like, Valid
<1> DEFINE r == [q EXCEPT !.capture = 0]
<1>5. Like(q, r) /\ r.rfbs = q.rfbs /\ r.capture = 0 /\ r.locked = q.locked
  BY <1>4, CaptureLike
<1> HIDE DEF r
<1>6. Like(p, r)
  BY <1>2, <1>5, LikeTwice
<1>7. q.locked = p.locked
  BY <1>2 DEF Touches, Others
<1> QED
  BY <1>2, <1>3, <1>5, <1>6, <1>7 DEF q, r

Turns(r, acc) == [r EXCEPT !.wheel = IF acc \in {-2, 2} THEN 0 ELSE acc]

LEMMA WheelLike ==
  ASSUME NEW p, Valid(p), NEW i \in 1 .. Len(p.rfbs), NEW pos \in Spots, NEW delta \in Int
  PROVE  LET q == HandleWheel(p, i, pos, delta)
         IN  Like(p, q) /\ Others(p, q, i) /\ q.rfbs[i].mask \subseteq p.rfbs[i].mask
<1> DEFINE r == p.rfbs[i]
<1> DEFINE acc == r.wheel + delta
<1> DEFINE button == IF acc < 0 THEN 3 ELSE 4
<1> DEFINE t == Turns(r, acc)
<1> DEFINE q == [p EXCEPT !.rfbs[i] = t]
<1> DEFINE d == Presses(q, i, pos, button)
<1> DEFINE u == Releases(d, i, pos, button)
<1>1. p \in Pages /\ r \in RFBs /\ Told(r) /\ acc \in Int
  BY RFBType DEF Valid, RFBs
<1>2. [p EXCEPT !.rfbs[i].wheel = IF acc \in {-2, 2} THEN 0 ELSE acc] = q
  BY DEF Turns
<1>3. button \in 0 .. 4
  OBVIOUS
<1>4. HandleWheel(p, i, pos, delta) \in {p, q, u}
  BY <1>2 DEF HandleWheel, Presses, Releases
<1>5. t \in RFBs /\ t.state = r.state /\ t.sent = r.sent /\ t.mtimer = r.mtimer
      /\ t.pos = r.pos /\ t.at = r.at /\ t.mask = r.mask
  BY <1>1 DEF RFBs, Turns
<1> HIDE DEF button, t
<1>6. Others(p, q, i) /\ q.rfbs[i] = t
  BY <1>1, <1>5, Edit
<1> HIDE DEF q
<1>7. Told(t)
  BY <1>1, <1>5 DEF Told
<1>8. Like(p, q)
  BY <1>5, <1>6, <1>7, OthersLike
<1>9. Like(p, d) /\ Others(p, d, i) /\ d.rfbs[i].mask = r.mask \cup {button}
  <2>1. Valid(q) /\ i \in 1 .. Len(q.rfbs)
    BY <1>8 DEF Like
  <2>2. Like(q, d) /\ Others(q, d, i) /\ d.rfbs[i].mask = q.rfbs[i].mask \cup {button}
    BY <1>3, <2>1, PressLike DEF Touches
  <2> HIDE DEF d
  <2> QED
    BY <1>5, <1>6, <1>8, <2>2, LikeTwice, OthersTwice
<1> HIDE DEF d
<1>10. Like(p, u) /\ Others(p, u, i) /\ u.rfbs[i].mask \subseteq r.mask
  <2>1. Valid(d) /\ i \in 1 .. Len(d.rfbs)
    BY <1>9 DEF Like
  <2>2. Like(d, u) /\ Others(d, u, i) /\ u.rfbs[i].mask = d.rfbs[i].mask \ {button}
    BY <1>3, <2>1, PressLike DEF Touches
  <2> HIDE DEF u
  <2> QED
    BY <1>9, <2>2, LikeTwice, OthersTwice
<1>11. Like(p, p) /\ Others(p, p, i)
  BY LikeSelf DEF Others, Valid
<1>12. q.rfbs[i].mask \subseteq r.mask
  BY <1>5, <1>6
<1> HIDE DEF u
<1> QED
  BY <1>4, <1>6, <1>8, <1>10, <1>11, <1>12

-----------------------------------------------------------------------------
(* Connections.                                                            *)

\* What becomes of an object that is torn down, and of one that is gone.
Ended(r) ==
    [r EXCEPT !.state = "disconnecting", !.sock = IF @ \in {"connecting", "open"} THEN "closing" ELSE @,
              !.mtimer = FALSE, !.dtimer = TRUE]
Gone(r) == [r EXCEPT !.state = "disconnected", !.dtimer = FALSE, !.onclose = @ /\ ~r.dtimer]
Opened(r) == [r EXCEPT !.state = "connected"]

LEMMA LifeFields ==
  ASSUME NEW r \in RFBs, Told(r)
  PROVE  /\ Ended(r) \in RFBs /\ Ended(r).state = "disconnecting" /\ Told(Ended(r))
         /\ Gone(r) \in RFBs /\ Gone(r).state = "disconnected" /\ Told(Gone(r))
         /\ r.state = "connecting" => Opened(r) \in RFBs /\ Told(Opened(r))
         /\ Ended(r).mask = r.mask /\ Gone(r).mask = r.mask /\ Opened(r).mask = r.mask
<1>1. /\ Ended(r) \in RFBs /\ Ended(r).state = "disconnecting" /\ ~Ended(r).mtimer
      /\ Ended(r).mask = r.mask
  BY DEF RFBs, Ended
<1>2. Gone(r) \in RFBs
  BY DEF RFBs, Gone
<1>3. /\ Gone(r).state = "disconnected" /\ Gone(r).mtimer = r.mtimer
      /\ Gone(r).pos = r.pos /\ Gone(r).at = r.at /\ Gone(r).mask = r.mask
  BY DEF RFBs, Gone
<1>4. Opened(r) \in RFBs
  BY DEF RFBs, Opened
<1>5. /\ Opened(r).state = "connected" /\ Opened(r).mtimer = r.mtimer
      /\ Opened(r).pos = r.pos /\ Opened(r).at = r.at /\ Opened(r).sent = r.sent
      /\ Opened(r).mask = r.mask
  BY DEF RFBs, Opened
<1> QED
  BY <1>1, <1>2, <1>3, <1>4, <1>5 DEF Told

\* An object that is not gone yet is the last, and no reconnection is due, so
\* it may become whatever it likes.
LEMMA LastChanges ==
  ASSUME NEW p, Good(p), NEW i \in 1 .. Len(p.rfbs), p.rfbs[i].state # "disconnected",
         NEW t \in RFBs, Told(t)
  PROVE  LET q == [p EXCEPT !.rfbs[i] = t]
         IN  /\ Good(q) /\ i = Len(p.rfbs) /\ q.rfbs[i] = t
             /\ Len(q.rfbs) = Len(p.rfbs) /\ q.user = p.user
             /\ q.capture = p.capture /\ q.locked = p.locked
<1> DEFINE q == [p EXCEPT !.rfbs[i] = t]
<1>1. p \in Pages /\ Len(p.rfbs) \in Nat
  BY DEF Good, Valid, Pages
<1>2. i = Len(p.rfbs) /\ ~p.timer
  BY <1>1 DEF Good, Ordered
<1>3. Others(p, q, i) /\ q.rfbs[i] = t
  BY <1>1, Edit
<1> HIDE DEF q
<1>4. Valid(q)
  BY <1>3 DEF Good, Valid, Others
<1>5. Ordered(q)
  BY <1>1, <1>2, <1>3 DEF Good, Ordered, Others
<1> QED
  BY <1>2, <1>3, <1>4, <1>5 DEF Good, Others, q

LEMMA ScheduleGood ==
  ASSUME NEW p, Good(p), p.rfbs[Len(p.rfbs)].state = "disconnected"
  PROVE  LET q == ScheduleReconnect(p)
         IN  /\ Good(q) /\ q.rfbs = p.rfbs /\ q.user = p.user
             /\ q.capture = p.capture /\ q.locked = p.locked
<1> DEFINE q == [p EXCEPT !.timer = TRUE]
<1>1. p \in Pages
  BY DEF Good, Valid
<1>2. CASE p.user
  BY <1>2 DEF ScheduleReconnect
<1>3. CASE ~p.user
  <2>1. /\ q \in Pages /\ q.rfbs = p.rfbs /\ q.user = p.user
        /\ q.capture = p.capture /\ q.locked = p.locked
    BY <1>1 DEF Pages
  <2>2. ScheduleReconnect(p) = q
    BY <1>3 DEF ScheduleReconnect
  <2> HIDE DEF q
  <2>3. Good(q)
    BY <1>3, <2>1 DEF Good, Valid, Ordered
  <2> QED
    BY <2>1, <2>2, <2>3
<1> QED
  BY <1>2, <1>3

\* As many sessions, of the same user, in an order that is as good.
Keeps(p, q) == Good(q) /\ Len(q.rfbs) = Len(p.rfbs) /\ q.user = p.user /\ Steady(p, q)

LEMMA KeepsTwice ==
  ASSUME NEW p, NEW q, NEW r, Keeps(p, q), Keeps(q, r)
  PROVE  Keeps(p, r)
BY DEF Keeps, Steady

LEMMA LikeKeeps ==
  ASSUME NEW p, Good(p), NEW q, Like(p, q), Steady(p, q)
  PROVE  Keeps(p, q)
BY LikeGood DEF Keeps, Like

\* Of two changes of one object the second stays.
LEMMA EditTwice ==
  ASSUME NEW p \in Pages, NEW i \in 1 .. Len(p.rfbs), NEW a \in RFBs, NEW b \in RFBs
  PROVE  [[p EXCEPT !.rfbs[i] = a] EXCEPT !.rfbs[i] = b] = [p EXCEPT !.rfbs[i] = b]
<1> DEFINE s == [p.rfbs EXCEPT ![i] = a]
<1> DEFINE t == [p.rfbs EXCEPT ![i] = b]
<1>1. p.rfbs \in Seq(RFBs)
  BY DEF Pages
<1>2. s \in Seq(RFBs) /\ [s EXCEPT ![i] = b] = t
  BY <1>1
<1> HIDE DEF s, t
<1>3. [p EXCEPT !.rfbs = s].rfbs = s
  BY DEF Pages
<1>4. [[p EXCEPT !.rfbs = s] EXCEPT !.rfbs = t] = [p EXCEPT !.rfbs = t]
  BY DEF Pages
<1>5. [p EXCEPT !.rfbs[i] = a] = [p EXCEPT !.rfbs = s]
      /\ [p EXCEPT !.rfbs[i] = b] = [p EXCEPT !.rfbs = t]
  BY DEF s, t
<1> DEFINE q == [p EXCEPT !.rfbs = s]
<1> HIDE DEF q
<1>6. [q EXCEPT !.rfbs[i] = b] = [q EXCEPT !.rfbs = [q.rfbs EXCEPT ![i] = b]]
  OBVIOUS
<1>7. [q EXCEPT !.rfbs[i] = b] = [q EXCEPT !.rfbs = t]
  BY <1>2, <1>3, <1>6 DEF q
<1> QED
  BY <1>4, <1>5, <1>7 DEF q
\* An object is torn down.
LEMMA Ends ==
  ASSUME NEW p \in Pages, NEW i \in 1 .. Len(p.rfbs), Alive(p.rfbs[i])
  PROVE  UpdateConnectionState(p, i, "disconnecting") = [p EXCEPT !.rfbs[i] = Ended(p.rfbs[i])]
<1> DEFINE r == p.rfbs[i]
<1> DEFINE a == [r EXCEPT !.state = "disconnecting"]
<1> DEFINE b == [a EXCEPT !.sock = IF @ \in {"connecting", "open"} THEN "closing" ELSE @,
                          !.mtimer = FALSE]
<1> DEFINE c == [b EXCEPT !.dtimer = TRUE]
<1> DEFINE f == [p EXCEPT !.rfbs[i] = a]
<1> DEFINE g == [p EXCEPT !.rfbs[i] = b]
<1>1. r \in RFBs
  BY RFBType
<1>2. a \in RFBs
  BY <1>1 DEF RFBs
<1>3. b \in RFBs
  BY <1>2 DEF RFBs
<1>4. c \in RFBs
  BY <1>3 DEF RFBs
<1>5. c = Ended(r)
  BY <1>1 DEF RFBs, Ended
<1>6. UpdateConnectionState(p, i, "disconnecting") = [Teardown(f, i) EXCEPT !.rfbs[i].dtimer = TRUE]
  <2>1. f = [p EXCEPT !.rfbs[i].state = "disconnecting"]
    OBVIOUS
  <2> HIDE DEF f
  <2> QED
    BY <2>1 DEF UpdateConnectionState
<1>7. Teardown(f, i) = [f EXCEPT !.rfbs[i] =
          [f.rfbs[i] EXCEPT !.sock = IF @ \in {"connecting", "open"} THEN "closing" ELSE @,
                            !.mtimer = FALSE]]
  <2> HIDE DEF f
  <2> QED
    BY DEF Teardown
<1>8. f.rfbs[i] = a
  <2> HIDE DEF a
  <2> QED
    BY <1>2, Edit
<1>9. Teardown(f, i) = [f EXCEPT !.rfbs[i] = b]
  BY <1>7, <1>8
<1>10. Teardown(f, i) = g
  <2> HIDE DEF a, b
  <2> QED
    BY <1>2, <1>3, <1>9, EditTwice
<1>11. g.rfbs[i] = b
  <2> HIDE DEF b
  <2> QED
    BY <1>3, Edit
<1>12. [g EXCEPT !.rfbs[i].dtimer = TRUE] = [g EXCEPT !.rfbs[i] = [g.rfbs[i] EXCEPT !.dtimer = TRUE]]
  <2> HIDE DEF g
  <2> QED
    OBVIOUS
<1>13. [g EXCEPT !.rfbs[i].dtimer = TRUE] = [g EXCEPT !.rfbs[i] = c]
  BY <1>11, <1>12
<1> HIDE DEF b, c, f
<1>14. [g EXCEPT !.rfbs[i] = c] = [p EXCEPT !.rfbs[i] = c]
  BY <1>3, <1>4, EditTwice
<1> QED
  BY <1>5, <1>6, <1>10, <1>13, <1>14

\* An object is gone, and the page hears of it.
LEMMA Goes ==
  ASSUME NEW p \in Pages, NEW i \in 1 .. Len(p.rfbs), p.rfbs[i].state = "disconnecting"
  PROVE  UpdateConnectionState(p, i, "disconnected") =
            ScheduleReconnect([p EXCEPT !.rfbs[i] = Gone(p.rfbs[i])])
<1> DEFINE r == p.rfbs[i]
<1> DEFINE a == [r EXCEPT !.state = "disconnected"]
<1> DEFINE c == [a EXCEPT !.dtimer = FALSE, !.onclose = @ /\ ~r.dtimer]
<1> DEFINE f == [p EXCEPT !.rfbs[i] = a]
<1>1. r \in RFBs
  BY RFBType
<1>2. a \in RFBs
  BY <1>1 DEF RFBs
<1>3. c \in RFBs
  BY <1>2 DEF RFBs
<1>4. c = Gone(r)
  BY <1>1 DEF RFBs, Gone
<1>5. UpdateConnectionState(p, i, "disconnected") =
        ScheduleReconnect([f EXCEPT !.rfbs[i].dtimer = FALSE, !.rfbs[i].onclose = @ /\ ~r.dtimer])
  <2>1. f = [p EXCEPT !.rfbs[i].state = "disconnected"]
    OBVIOUS
  <2> HIDE DEF f
  <2> QED
    BY <2>1 DEF UpdateConnectionState
<1>6. [f EXCEPT !.rfbs[i].dtimer = FALSE, !.rfbs[i].onclose = @ /\ ~r.dtimer] =
        [f EXCEPT !.rfbs[i] = [f.rfbs[i] EXCEPT !.dtimer = FALSE, !.onclose = @ /\ ~r.dtimer]]
  <2> HIDE DEF f
  <2> QED
    OBVIOUS
<1>7. f.rfbs[i] = a
  <2> HIDE DEF a
  <2> QED
    BY <1>2, Edit
<1>8. [f EXCEPT !.rfbs[i].dtimer = FALSE, !.rfbs[i].onclose = @ /\ ~r.dtimer] = [f EXCEPT !.rfbs[i] = c]
  BY <1>6, <1>7
<1> HIDE DEF a, c
<1>9. [f EXCEPT !.rfbs[i] = c] = [p EXCEPT !.rfbs[i] = c]
  BY <1>2, <1>3, EditTwice
<1> QED
  BY <1>4, <1>5, <1>8, <1>9
LEMMA UpdateKeeps ==
  ASSUME NEW p, Good(p), NEW i \in 1 .. Len(p.rfbs),
         NEW state \in {"connected", "disconnecting", "disconnected"}
  PROVE  Keeps(p, UpdateConnectionState(p, i, state))
<1> DEFINE r == p.rfbs[i]
<1> DEFINE q == UpdateConnectionState(p, i, state)
<1>1. p \in Pages /\ r \in RFBs /\ Told(r)
  BY RFBType DEF Good, Valid
<1>2. CASE state = "connected" /\ r.state = "connecting"
  <2> DEFINE t == Opened(r)
  <2> DEFINE g == [p EXCEPT !.rfbs[i] = t]
  <2>1. q = g
    BY <1>2 DEF UpdateConnectionState, Opened
  <2>2. t \in RFBs /\ Told(t) /\ t.mask = r.mask
    BY <1>1, <1>2, LifeFields
  <2>3. r.state # "disconnected" /\ Alive(r)
    BY <1>2 DEF Alive
  <2> HIDE DEF t, q
  <2>4. /\ Good(g) /\ i = Len(p.rfbs) /\ g.rfbs[i] = t
        /\ Len(g.rfbs) = Len(p.rfbs) /\ g.user = p.user
        /\ g.capture = p.capture /\ g.locked = p.locked
    BY <2>2, <2>3, LastChanges
  <2> HIDE DEF g
  <2>5. Steady(p, g)
    BY <2>2, <2>3, <2>4 DEF Steady, Last
  <2> QED
    BY <2>1, <2>4, <2>5 DEF Keeps, q
<1>3. CASE state = "disconnecting" /\ Alive(r)
  <2> DEFINE t == Ended(r)
  <2> DEFINE g == [p EXCEPT !.rfbs[i] = t]
  <2>1. q = g
    BY <1>1, <1>3, Ends
  <2>2. t \in RFBs /\ Told(t) /\ t.mask = r.mask
    BY <1>1, LifeFields
  <2>3. r.state # "disconnected"
    BY <1>3 DEF Alive
  <2> HIDE DEF t, q
  <2>4. /\ Good(g) /\ i = Len(p.rfbs) /\ g.rfbs[i] = t
        /\ Len(g.rfbs) = Len(p.rfbs) /\ g.user = p.user
        /\ g.capture = p.capture /\ g.locked = p.locked
    BY <2>2, <2>3, LastChanges
  <2> HIDE DEF g
  <2>5. Steady(p, g)
    BY <1>3, <2>2, <2>4 DEF Steady, Last
  <2> QED
    BY <2>1, <2>4, <2>5 DEF Keeps, q
<1>4. CASE state = "disconnected" /\ r.state = "disconnecting"
  <2> DEFINE t == Gone(r)
  <2> DEFINE g == [p EXCEPT !.rfbs[i] = t]
  <2>1. q = ScheduleReconnect(g)
    BY <1>1, <1>4, Goes
  <2>2. t \in RFBs /\ t.state = "disconnected" /\ Told(t) /\ t.mask = r.mask
    BY <1>1, LifeFields
  <2>3. r.state # "disconnected"
    BY <1>4
  <2> HIDE DEF t, q
  <2>4. /\ Good(g) /\ i = Len(p.rfbs) /\ g.rfbs[i] = t
        /\ Len(g.rfbs) = Len(p.rfbs) /\ g.user = p.user
        /\ g.capture = p.capture /\ g.locked = p.locked
    BY <2>2, <2>3, LastChanges
  <2> HIDE DEF g
  <2>5. g.rfbs[Len(g.rfbs)].state = "disconnected"
    BY <2>2, <2>4
  <2>6. /\ Good(q) /\ q.rfbs = g.rfbs /\ q.user = g.user
        /\ q.capture = g.capture /\ q.locked = g.locked
    BY <2>1, <2>4, <2>5, ScheduleGood
  <2>7. Steady(p, q)
    BY <2>2, <2>4, <2>6 DEF Steady, Last, Alive
  <2> QED
    BY <2>4, <2>6, <2>7 DEF Keeps, q
<1>5. CASE /\ ~(state = "connected" /\ r.state = "connecting")
           /\ ~(state = "disconnecting" /\ Alive(r))
           /\ ~(state = "disconnected" /\ r.state = "disconnecting")
  <2>1. q = p
    BY <1>5 DEF UpdateConnectionState
  <2> QED
    BY <2>1 DEF Keeps, Steady
<1> QED
  BY <1>2, <1>3, <1>4, <1>5

LEMMA FailKeeps ==
  ASSUME NEW p, Good(p), NEW i \in 1 .. Len(p.rfbs)
  PROVE  Keeps(p, Fail(p, i))
<1> DEFINE q == UpdateConnectionState(p, i, "disconnecting")
<1>1. Keeps(p, q)
  BY UpdateKeeps
<1> HIDE DEF q
<1>2. Good(q) /\ i \in 1 .. Len(q.rfbs)
  BY <1>1 DEF Keeps
<1>3. Keeps(q, UpdateConnectionState(q, i, "disconnected"))
  BY <1>2, UpdateKeeps
<1>4. Fail(p, i) = UpdateConnectionState(q, i, "disconnected")
  BY DEF Fail, q
<1> QED
  BY <1>1, <1>3, <1>4, KeepsTwice

\* What the browser does to the socket, and an object whose handler is dropped.
Shut(r, s) == [r EXCEPT !.sock = s]
Deaf(r) == [r EXCEPT !.onclose = FALSE]

LEMMA SocketFields ==
  ASSUME NEW r \in RFBs, Told(r), NEW s \in {"open", "closed"}
  PROVE  /\ Shut(r, s) \in RFBs /\ Shut(r, s).state = r.state /\ Told(Shut(r, s))
         /\ Deaf(r) \in RFBs /\ Deaf(r).state = r.state /\ Told(Deaf(r))
         /\ Shut(r, s).mask = r.mask /\ Deaf(r).mask = r.mask
<1>1. Shut(r, s) \in RFBs /\ Deaf(r) \in RFBs
  BY DEF RFBs, Shut, Deaf
<1>2. /\ Shut(r, s).state = r.state /\ Shut(r, s).mtimer = r.mtimer /\ Shut(r, s).sent = r.sent
      /\ Shut(r, s).pos = r.pos /\ Shut(r, s).at = r.at /\ Shut(r, s).mask = r.mask
  BY DEF RFBs, Shut
<1>3. /\ Deaf(r).state = r.state /\ Deaf(r).mtimer = r.mtimer /\ Deaf(r).sent = r.sent
      /\ Deaf(r).pos = r.pos /\ Deaf(r).at = r.at /\ Deaf(r).mask = r.mask
  BY DEF RFBs, Deaf
<1> QED
  BY <1>1, <1>2, <1>3 DEF Told

LEMMA SocketLike ==
  ASSUME NEW p, Valid(p), NEW i \in 1 .. Len(p.rfbs), NEW s \in {"open", "closed"}
  PROVE  /\ Like(p, [p EXCEPT !.rfbs[i].sock = s])
         /\ Like(p, [p EXCEPT !.rfbs[i].onclose = FALSE])
         /\ Steady(p, [p EXCEPT !.rfbs[i].sock = s])
         /\ Steady(p, [p EXCEPT !.rfbs[i].onclose = FALSE])
<1> DEFINE r == p.rfbs[i]
<1> DEFINE t == Shut(r, s)
<1> DEFINE u == Deaf(r)
<1>1. p \in Pages /\ r \in RFBs /\ Told(r)
  BY RFBType DEF Valid
<1>2. /\ t \in RFBs /\ t.state = r.state /\ Told(t) /\ u \in RFBs /\ u.state = r.state /\ Told(u)
      /\ t.mask = r.mask /\ u.mask = r.mask
  BY <1>1, SocketFields
<1>3. [p EXCEPT !.rfbs[i].sock = s] = [p EXCEPT !.rfbs[i] = t]
  BY DEF Shut
<1>4. [p EXCEPT !.rfbs[i].onclose = FALSE] = [p EXCEPT !.rfbs[i] = u]
  BY DEF Deaf
<1> HIDE DEF t, u
<1> DEFINE f == [p EXCEPT !.rfbs[i] = t]
<1> DEFINE g == [p EXCEPT !.rfbs[i] = u]
<1>5. Others(p, f, i) /\ f.rfbs[i] = t
  BY <1>1, <1>2, Edit
<1>6. Others(p, g, i) /\ g.rfbs[i] = u
  BY <1>1, <1>2, Edit
<1> HIDE DEF f, g
<1>7. Like(p, f) /\ Steady(p, f)
  BY <1>2, <1>5, OthersLike, OthersSteady
<1>8. Like(p, g) /\ Steady(p, g)
  BY <1>2, <1>6, OthersLike, OthersSteady
<1> QED
  BY <1>3, <1>4, <1>7, <1>8 DEF f, g

LEMMA SocketCloseKeeps ==
  ASSUME NEW p, Good(p), NEW i \in 1 .. Len(p.rfbs)
  PROVE  Keeps(p, SocketClose(p, i))
<1> DEFINE closed == [p EXCEPT !.rfbs[i].sock = "closed"]
<1> DEFINE next == CASE p.rfbs[i].state \in {"connecting", "connected"} -> Fail(closed, i)
                     [] p.rfbs[i].state = "disconnecting" -> UpdateConnectionState(closed, i, "disconnected")
                     [] OTHER -> closed
<1>1. SocketClose(p, i) = IF p.rfbs[i].onclose THEN [next EXCEPT !.rfbs[i].onclose = FALSE] ELSE closed
  BY DEF SocketClose
<1>2. Keeps(p, closed)
  BY SocketLike, LikeKeeps DEF Good
<1> HIDE DEF closed
<1>3. Good(closed) /\ i \in 1 .. Len(closed.rfbs)
  BY <1>2 DEF Keeps
<1>4. Keeps(closed, closed) /\ Keeps(closed, Fail(closed, i))
      /\ Keeps(closed, UpdateConnectionState(closed, i, "disconnected"))
  BY <1>3, FailKeeps, UpdateKeeps DEF Keeps, Steady
<1>5. next \in {closed, Fail(closed, i), UpdateConnectionState(closed, i, "disconnected")}
  OBVIOUS
<1> HIDE DEF next
<1>6. Keeps(p, next)
  BY <1>2, <1>4, <1>5, KeepsTwice
<1>7. Good(next) /\ i \in 1 .. Len(next.rfbs)
  BY <1>6 DEF Keeps
<1>8. Keeps(next, [next EXCEPT !.rfbs[i].onclose = FALSE])
  BY <1>7, SocketLike, LikeKeeps DEF Good
<1>9. Keeps(p, [next EXCEPT !.rfbs[i].onclose = FALSE])
  BY <1>6, <1>8, KeepsTwice
<1> QED
  BY <1>1, <1>2, <1>9

\* One more object, which has not begun to connect.
LEMMA NewRFBType == NewRFB \in RFBs /\ Told(NewRFB)
<1>1. 0 \in Spots /\ {} \in Masks
  BY DEF Spots, Masks
<1> QED
  BY <1>1 DEF NewRFB, RFBs, Told

\* The page begins anew when a reconnection was due, so the object it has is
\* gone already.
LEMMA StartGood ==
  ASSUME NEW p, Good(p), ~p.timer, ~p.user, p.rfbs[Len(p.rfbs)].state = "disconnected"
  PROVE  LET q == StartVNC(p)
         IN  Good(q) /\ Last(q) = NewRFB /\ q.capture = p.capture
<1> DEFINE n == Len(p.rfbs)
<1> DEFINE s == Append(p.rfbs, NewRFB)
<1> DEFINE q == [p EXCEPT !.rfbs = s]
<1>1. p \in Pages /\ p.rfbs \in Seq(RFBs) /\ n \in Nat /\ n >= 1
  BY DEF Good, Valid, Pages
<1>2. UpdateConnectionState(p, n, "disconnecting") = p
  BY DEF UpdateConnectionState, Alive
<1>3. StartVNC(p) = q
  BY <1>2 DEF StartVNC
<1>4. /\ s \in Seq(RFBs) /\ Len(s) = n + 1 /\ s[n + 1] = NewRFB
      /\ \A j \in 1 .. n : s[j] = p.rfbs[j]
  BY <1>1, NewRFBType
<1> HIDE DEF s
<1>5. q \in Pages /\ q.rfbs = s /\ q.capture = p.capture /\ ~q.timer
  BY <1>1, <1>4 DEF Pages
<1>6. q.capture \in Nat /\ q.capture <= n
  BY <1>5 DEF Good, Valid, Pages
<1> HIDE DEF q
<1>7. \A j \in 1 .. n + 1 : Told(s[j])
  BY <1>1, <1>4, NewRFBType DEF Good, Valid
<1>8. Valid(q)
  BY <1>1, <1>4, <1>5, <1>6, <1>7 DEF Valid
<1>9. Ordered(q)
  BY <1>1, <1>4, <1>5 DEF Good, Ordered
<1>10. Last(q) = NewRFB
  BY <1>1, <1>4, <1>5 DEF Last
<1> QED
  BY <1>3, <1>5, <1>8, <1>9, <1>10 DEF Good
-----------------------------------------------------------------------------
(* The steps.                                                              *)

\* A step of the page keeps the invariant.
LEMMA PageKeeps ==
  ASSUME TypeOK, Good(w'), pressed' \subseteq Buttons, loose' \subseteq Buttons,
         stuck' \subseteq Nat \X Buttons, input' \in Nat
  PROVE  IInv'
BY DEF IInv, TypeOK, Good, Valid, Cur

\* So does one that only moves the mouse, and it begins no session.  One of
\* the page itself leaves the buttons alone.
LEMMA Pressing ==
  ASSUME IInv, NEW p, Like(w, p), NEW held, Input(p, held), held \subseteq Buttons,
         loose' \subseteq Buttons, stuck' \subseteq Nat \X Buttons
  PROVE  IInv' /\ Cur' = Cur
<1>1. w' = p /\ pressed' = held /\ input' = input + 1
  BY DEF Input
<1>2. Good(w')
  BY <1>1, LikeGood DEF IInv
<1>3. input' \in Nat
  BY <1>1 DEF IInv, TypeOK
<1>4. IInv'
  BY <1>1, <1>2, <1>3, PageKeeps DEF IInv
<1> QED
  BY <1>1, <1>4 DEF Like, Cur

LEMMA Turning ==
  ASSUME IInv, NEW p, Keeps(w, p), Page(p)
  PROVE  IInv' /\ Cur' = Cur /\ (HandInv => HandInv')
<1>1. w' = p /\ UNCHANGED <<pressed, loose, stuck>> /\ input' = input
  BY DEF Page, hands
<1>2. IInv'
  BY <1>1, PageKeeps DEF IInv, Keeps, TypeOK
<1>3. ASSUME HandInv PROVE HandInv'
  <2>1. Hands(p, pressed, loose, stuck)
    BY <1>3, SteadyHands DEF Keeps, HandInv
  <2> QED
    BY <1>1, <2>1 DEF HandInv
<1> QED
  BY <1>1, <1>2, <1>3 DEF Keeps, Cur

\* The page's own fields.
LEMMA PageFields ==
  ASSUME NEW p \in Pages
  PROVE  /\ LET q == [p EXCEPT !.timer = FALSE]
            IN  /\ q \in Pages /\ q.rfbs = p.rfbs /\ q.user = p.user /\ q.capture = p.capture
                /\ q.locked = p.locked /\ ~q.timer
         /\ LET q == [p EXCEPT !.visible = ~@]
            IN  /\ q \in Pages /\ q.rfbs = p.rfbs /\ q.user = p.user /\ q.capture = p.capture
                /\ q.timer = p.timer /\ q.locked = p.locked
         /\ LET q == [p EXCEPT !.locked = ~@]
            IN  /\ q \in Pages /\ q.rfbs = p.rfbs /\ q.user = p.user /\ q.capture = p.capture
                /\ q.timer = p.timer
         /\ LET q == [p EXCEPT !.user = TRUE, !.timer = FALSE]
            IN  /\ q \in Pages /\ q.rfbs = p.rfbs /\ q.capture = p.capture
                /\ q.locked = p.locked /\ q.user /\ ~q.timer
BY DEF Pages

LEMMA LockLike ==
  ASSUME NEW p, Valid(p)
  PROVE  Like(p, [p EXCEPT !.locked = ~@])
<1> DEFINE q == [p EXCEPT !.locked = ~@]
<1>1. /\ q \in Pages /\ q.rfbs = p.rfbs /\ q.user = p.user /\ q.capture = p.capture
      /\ q.timer = p.timer
  BY PageFields DEF Valid
<1> HIDE DEF q
<1>2. Valid(q)
  BY <1>1 DEF Valid
<1> QED
  BY <1>1, <1>2 DEF Like, q

\* A reconnection that was due begins; the timer runs no longer.
LEMMA Begins ==
  ASSUME NEW p, Good(p), p.timer
  PROVE  LET s == StartVNC([p EXCEPT !.timer = FALSE])
         IN  Good(s) /\ Last(s) = NewRFB /\ s.capture = p.capture
<1> DEFINE q == [p EXCEPT !.timer = FALSE]
<1>1. /\ q \in Pages /\ q.rfbs = p.rfbs /\ q.user = p.user /\ q.capture = p.capture
      /\ ~q.timer
  BY PageFields DEF Good, Valid
<1> HIDE DEF q
<1>2. Good(q)
  BY <1>1 DEF Good, Valid, Ordered
<1>3. ~q.user /\ q.rfbs[Len(q.rfbs)].state = "disconnected"
  BY <1>1 DEF Good, Ordered
<1>4. Good(StartVNC(q)) /\ Last(StartVNC(q)) = NewRFB /\ StartVNC(q).capture = p.capture
  BY <1>1, <1>2, <1>3, StartGood
<1> QED
  BY <1>4 DEF q

\* The new object holds no button.
LEMMA NewHands ==
  ASSUME NEW p, NEW held, NEW free, NEW unseen, Hands(p, held, free, unseen),
         NEW s, Last(s) = NewRFB, s.capture = p.capture
  PROVE  Hands(s, held, free, unseen)
<1>1. NewRFB.mask = {}
  BY DEF NewRFB
<1> QED
  BY <1>1 DEF Hands

LEMMA ReconnectStep ==
  ASSUME IInv, Reconnect
  PROVE  IInv' /\ ~w.user /\ (HandInv => HandInv')
<1>1. Good(w) /\ w.timer /\ TypeOK
  BY DEF IInv, Reconnect
<1>2. /\ Good(w') /\ UNCHANGED <<pressed, loose, stuck>> /\ input' = input
      /\ Last(w') = NewRFB /\ w'.capture = w.capture
  BY <1>1, Begins DEF Reconnect, Page, hands
<1>3. IInv'
  BY <1>1, <1>2, PageKeeps DEF TypeOK
<1>4. HandInv => HandInv'
  BY <1>2, NewHands DEF HandInv
<1> QED
  BY <1>1, <1>3, <1>4 DEF Good, Ordered

LEMMA VisibilityStep ==
  ASSUME IInv, VisibilityChange
  PROVE  IInv' /\ (w.user => Cur' = Cur) /\ (HandInv => HandInv')
<1> DEFINE p == [w EXCEPT !.visible = ~@]
<1>1. Good(w) /\ TypeOK
  BY DEF IInv
<1>2. /\ p \in Pages /\ p.rfbs = w.rfbs /\ p.user = w.user /\ p.capture = w.capture
      /\ p.timer = w.timer /\ p.locked = w.locked
  BY <1>1, PageFields DEF Good, Valid
<1>3. w' = (IF p.visible /\ ~p.user /\ p.timer THEN RetryNow(p) ELSE p)
      /\ UNCHANGED <<pressed, loose, stuck>> /\ input' = input
  BY DEF VisibilityChange, Page, hands
<1> HIDE DEF p
<1>4. Good(p)
  BY <1>1, <1>2 DEF Good, Valid, Ordered
<1>5. HandInv => Hands(p, pressed, loose, stuck)
  BY <1>2 DEF HandInv, Hands, Last, Lock
<1>6. CASE p.visible /\ ~p.user /\ p.timer
  <2>1. Good(w') /\ Last(w') = NewRFB /\ w'.capture = p.capture
    BY <1>3, <1>4, <1>6, Begins DEF RetryNow
  <2>2. IInv'
    BY <1>1, <1>3, <2>1, PageKeeps DEF TypeOK
  <2>3. HandInv => HandInv'
    BY <1>3, <1>5, <2>1, NewHands DEF HandInv
  <2> QED
    BY <1>2, <1>6, <2>2, <2>3
<1>7. CASE ~(p.visible /\ ~p.user /\ p.timer)
  <2>1. w' = p
    BY <1>3, <1>7
  <2>2. IInv'
    BY <1>1, <1>3, <1>4, <2>1, PageKeeps DEF TypeOK
  <2>3. HandInv => HandInv'
    BY <1>3, <1>5, <2>1 DEF HandInv
  <2> QED
    BY <1>2, <2>1, <2>2, <2>3 DEF Cur
<1> QED
  BY <1>6, <1>7

LEMMA LeaveStep ==
  ASSUME IInv, UserDisconnect
  PROVE  IInv' /\ Cur' = Cur /\ (HandInv => HandInv')
<1> DEFINE p == [w EXCEPT !.user = TRUE, !.timer = FALSE]
<1>1. Good(w) /\ TypeOK
  BY DEF IInv
<1>2. /\ p \in Pages /\ p.rfbs = w.rfbs /\ p.capture = w.capture /\ p.locked = w.locked
      /\ p.user /\ ~p.timer
  BY <1>1, PageFields DEF Good, Valid
<1>3. /\ w' = UpdateConnectionState(p, Len(p.rfbs), "disconnecting")
      /\ UNCHANGED <<pressed, loose, stuck>> /\ input' = input
  BY DEF UserDisconnect, Page, ClickDisconnect, hands
<1> HIDE DEF p
<1>4. Good(p)
  BY <1>1, <1>2 DEF Good, Valid, Ordered
<1>5. Len(p.rfbs) \in 1 .. Len(p.rfbs)
  BY <1>4 DEF Good, Valid, Pages
<1>6. Keeps(p, w')
  BY <1>3, <1>4, <1>5, UpdateKeeps
<1>7. IInv'
  BY <1>1, <1>3, <1>6, PageKeeps DEF Keeps, TypeOK
<1>8. ASSUME HandInv PROVE HandInv'
  <2>1. Hands(p, pressed, loose, stuck)
    BY <1>2, <1>8 DEF HandInv, Hands, Last, Lock
  <2>2. Hands(w', pressed, loose, stuck)
    BY <1>6, <2>1, SteadyHands DEF Keeps
  <2> QED
    BY <1>3, <2>2 DEF HandInv
<1> QED
  BY <1>2, <1>6, <1>7, <1>8 DEF Keeps, Cur

\* What the browser and the network do.
LEMMA SocketStep ==
  ASSUME IInv, NEW i \in 1 .. Cur,
         SocketOpen(i) \/ Connected(i) \/ Failed(i) \/ SocketClosed(i) \/ DisconnectTimeout(i)
  PROVE  IInv' /\ Cur' = Cur /\ (HandInv => HandInv')
<1>1. Good(w) /\ Valid(w) /\ i \in 1 .. Len(w.rfbs)
  BY DEF IInv, Cur, Good
<1>2. CASE SocketOpen(i)
  <2> DEFINE p == [w EXCEPT !.rfbs[i].sock = "open"]
  <2>1. Page(p)
    BY <1>2 DEF SocketOpen
  <2>2. Keeps(w, p)
    BY <1>1, SocketLike, LikeKeeps
  <2> HIDE DEF p
  <2> QED
    BY <2>1, <2>2, Turning
<1>3. CASE Connected(i)
  <2> DEFINE p == UpdateConnectionState(w, i, "connected")
  <2>1. Page(p)
    BY <1>3 DEF Connected
  <2>2. Keeps(w, p)
    BY <1>1, UpdateKeeps
  <2> HIDE DEF p
  <2> QED
    BY <2>1, <2>2, Turning
<1>4. CASE Failed(i)
  <2>1. Page(Fail(w, i))
    BY <1>4 DEF Failed
  <2>2. Keeps(w, Fail(w, i))
    BY <1>1, FailKeeps
  <2> QED
    BY <2>1, <2>2, Turning
<1>5. CASE SocketClosed(i)
  <2>1. Page(SocketClose(w, i))
    BY <1>5 DEF SocketClosed
  <2>2. Keeps(w, SocketClose(w, i))
    BY <1>1, SocketCloseKeeps
  <2> QED
    BY <2>1, <2>2, Turning
<1>6. CASE DisconnectTimeout(i)
  <2> DEFINE p == UpdateConnectionState(w, i, "disconnected")
  <2>1. Page(p)
    BY <1>6 DEF DisconnectTimeout
  <2>2. Keeps(w, p)
    BY <1>1, UpdateKeeps
  <2> HIDE DEF p
  <2> QED
    BY <2>1, <2>2, Turning
<1> QED
  BY <1>2, <1>3, <1>4, <1>5, <1>6

LEMMA DelayedStep ==
  ASSUME IInv, NEW i \in 1 .. Cur, MouseMoveTimer(i)
  PROVE  IInv' /\ Cur' = Cur /\ (HandInv => HandInv')
<1> DEFINE p == HandleDelayedMouseMove(w, i)
<1>1. Good(w) /\ Valid(w) /\ i \in 1 .. Len(w.rfbs) /\ w.rfbs[i].mtimer /\ Page(p)
  BY DEF IInv, Cur, Good, MouseMoveTimer
<1>2. Like(w, p) /\ Touches(w, p, i, w.rfbs[i].mask)
  BY <1>1, DelayedLike
<1> HIDE DEF p
<1>3. Steady(w, p)
  BY <1>1, <1>2, OthersSteady DEF Touches, Like
<1>4. Keeps(w, p)
  BY <1>1, <1>2, <1>3, LikeKeeps
<1> QED
  BY <1>1, <1>4, Turning

\* What the user does with a mouse or a finger.
LEMMA ButtonStep ==
  ASSUME IInv, NEW pos \in Places, NEW b \in Buttons, NEW in \in BOOLEAN,
         MouseDown(b, pos) \/ MouseUp(b, pos, in)
  PROVE  IInv' /\ Cur' = Cur
<1>1. /\ Valid(w) /\ Cur \in 1 .. Len(w.rfbs) /\ Like(w, w)
      /\ pressed \subseteq Buttons /\ loose \subseteq Buttons
      /\ stuck \subseteq Nat \X Buttons /\ Cur \in Nat
  BY LikeSelf DEF IInv, Good, Valid, Pages, Cur, TypeOK
<1>2. pos \in Spots /\ b \in 0 .. 4
  BY ConsoleAssumption DEF Spots
<1>3. CASE MouseDown(b, pos)
  <2> DEFINE p == IF Uncovered THEN CanvasDown(w, Cur, pos, b) ELSE w
  <2>1. /\ Input(p, pressed \cup {b})
        /\ loose' \subseteq Buttons /\ stuck' \subseteq Nat \X Buttons
    BY <1>1, <1>3 DEF MouseDown
  <2>2. Like(w, CanvasDown(w, Cur, pos, b))
    BY <1>1, <1>2, CanvasLike
  <2>3. Like(w, p)
    BY <1>1, <2>2
  <2> HIDE DEF p
  <2> QED
    BY <1>1, <2>1, <2>3, Pressing
<1>4. CASE MouseUp(b, pos, in)
  <2> DEFINE p == IF ~Uncovered THEN CaptureUp(w, pos, b)
                  ELSE IF in THEN CanvasUp(w, Cur, pos, b) ELSE w
  <2>1. /\ Input(p, pressed \ {b})
        /\ loose' \subseteq Buttons /\ stuck' \subseteq Nat \X Buttons
    BY <1>1, <1>4 DEF MouseUp
  <2>2. Like(w, CanvasUp(w, Cur, pos, b))
    BY <1>1, <1>2, CanvasLike
  <2>3. ~Uncovered => Like(w, CaptureUp(w, pos, b))
    BY <1>1, <1>2, CaptureUpLike DEF Uncovered
  <2>4. Like(w, p)
    BY <1>1, <2>2, <2>3
  <2> HIDE DEF p
  <2> QED
    BY <1>1, <2>1, <2>4, Pressing
<1> QED
  BY <1>3, <1>4

LEMMA MoveStep ==
  ASSUME IInv, NEW pos \in Places, NEW soon \in BOOLEAN, NEW delta \in {-1, 1},
         MouseMove(pos, soon) \/ TapCovered(pos, soon) \/ Wheel(pos, delta)
  PROVE  IInv' /\ Cur' = Cur
<1>1. /\ Valid(w) /\ Cur \in 1 .. Len(w.rfbs)
      /\ pressed \subseteq Buttons /\ loose' \subseteq Buttons
      /\ stuck' \subseteq Nat \X Buttons
  BY DEF MouseMove, TapCovered, Wheel, IInv, Good, Valid, Pages, Cur, TypeOK
<1>2. pos \in Spots /\ 0 \in 0 .. 4 /\ delta \in Int
  BY DEF Spots
<1>3. w.capture # 0 => w.capture \in 1 .. Len(w.rfbs)
  BY <1>1 DEF Valid, Pages
<1>4. CASE MouseMove(pos, soon)
  <2> DEFINE i == IF Uncovered THEN Cur ELSE w.capture
  <2>1. Input(CanvasMove(w, i, pos, soon), pressed)
    BY <1>4 DEF MouseMove
  <2>2. i \in 1 .. Len(w.rfbs)
    BY <1>1, <1>3 DEF Uncovered
  <2> HIDE DEF i
  <2>3. Like(w, CanvasMove(w, i, pos, soon))
    BY <1>1, <1>2, <2>2, CanvasLike
  <2> QED
    BY <1>1, <2>1, <2>3, Pressing
<1>5. CASE TapCovered(pos, soon)
  <2> DEFINE m == CanvasMove(w, w.capture, pos, soon)
  <2>1. Input(CaptureUp(m, pos, 0), pressed) /\ w.capture # 0
    BY <1>5 DEF TapCovered, Uncovered
  <2>2. Like(w, m)
    BY <1>1, <1>2, <1>3, <2>1, CanvasLike
  <2>3. m.capture # 0 => Like(m, CaptureUp(m, pos, 0))
    <3> HIDE DEF m
    <3> QED
      BY <1>2, <2>2, CaptureUpLike DEF Like
  <2>4. m.capture = w.capture
    <3>1. Touches(w, m, w.capture, w.rfbs[w.capture].mask)
      BY <1>1, <1>2, <1>3, <2>1, CanvasLike
    <3> HIDE DEF m
    <3> QED
      BY <3>1 DEF Touches, Others
  <2> HIDE DEF m
  <2>5. Like(w, CaptureUp(m, pos, 0))
    BY <2>1, <2>2, <2>3, <2>4, LikeTwice
  <2> QED
    BY <1>1, <2>1, <2>5, Pressing
<1>6. CASE Wheel(pos, delta)
  <2>1. Input(HandleWheel(w, Cur, pos, delta), pressed)
    BY <1>6 DEF Wheel
  <2>2. Like(w, HandleWheel(w, Cur, pos, delta))
    BY <1>1, <1>2, WheelLike
  <2> QED
    BY <1>1, <2>1, <2>2, Pressing
<1> QED
  BY <1>4, <1>5, <1>6

LEMMA ReleaseStep ==
  ASSUME IInv, TapRight \/ TapDrag
  PROVE  IInv' /\ Cur' = Cur
<1>1. /\ Valid(w) /\ Cur \in 1 .. Len(w.rfbs)
      /\ pressed \subseteq Buttons /\ loose' \subseteq Buttons
      /\ stuck' \subseteq Nat \X Buttons
  BY DEF TapRight, TapDrag, IInv, Good, Valid, Pages, Cur, TypeOK
<1>2. 0 \in Spots /\ 0 \in 0 .. 4 /\ 2 \in 0 .. 4
  BY DEF Spots
<1>3. CASE TapRight
  <2> DEFINE d == CanvasDown(w, Cur, 0, 2)
  <2> DEFINE u == CanvasUp(d, Cur, 0, 2)
  <2>1. Input(u, pressed)
    BY <1>3 DEF TapRight
  <2>2. Like(w, d)
    BY <1>1, <1>2, CanvasLike
  <2> HIDE DEF d
  <2>3. Valid(d) /\ Cur \in 1 .. Len(d.rfbs)
    BY <1>1, <2>2 DEF Like
  <2>4. Like(d, u)
    BY <1>2, <2>3, CanvasLike
  <2> HIDE DEF u
  <2>5. Like(w, u)
    BY <2>2, <2>4, LikeTwice
  <2> QED
    BY <1>1, <2>1, <2>5, Pressing
<1>4. CASE TapDrag
  <2> DEFINE d == IF w.locked THEN CanvasUp(w, Cur, 0, 0) ELSE CanvasDown(w, Cur, 0, 0)
  <2> DEFINE u == [d EXCEPT !.locked = ~@]
  <2>1. Input(u, pressed)
    BY <1>4 DEF TapDrag
  <2>2. Like(w, CanvasUp(w, Cur, 0, 0)) /\ Like(w, CanvasDown(w, Cur, 0, 0))
    BY <1>1, <1>2, CanvasLike
  <2>3. Like(w, d)
    BY <2>2
  <2> HIDE DEF d
  <2>4. Like(d, u)
    BY <2>3, LockLike DEF Like
  <2> HIDE DEF u
  <2>5. Like(w, u)
    BY <2>3, <2>4, LikeTwice
  <2> QED
    BY <1>1, <2>1, <2>5, Pressing
<1> QED
  BY <1>3, <1>4

LEMMA Start == Init => IInv
<1> SUFFICES ASSUME Init PROVE IInv
  OBVIOUS
<1>1. /\ w.rfbs = <<NewRFB>> /\ ~w.timer /\ w.capture = 0 /\ w \in Pages
      /\ pressed = {} /\ loose = {} /\ stuck = {} /\ input = 0
  BY NewRFBType DEF Init, Pages
<1>2. Len(w.rfbs) = 1 /\ w.rfbs[1] = NewRFB
  BY <1>1
<1>3. Good(w)
  BY <1>1, <1>2, NewRFBType DEF Good, Valid, Ordered
<1> QED
  BY <1>1, <1>2, <1>3 DEF IInv, TypeOK, Cur

LEMMA Step == IInv /\ [Next]_vars => IInv' /\ (w.user => Cur' = Cur)
<1> SUFFICES ASSUME IInv, [Next]_vars PROVE IInv' /\ (w.user => Cur' = Cur)
  OBVIOUS
<1>1. CASE \E i \in 1 .. Cur :
              \/ SocketOpen(i) \/ Connected(i) \/ Failed(i) \/ SocketClosed(i)
              \/ DisconnectTimeout(i) \/ MouseMoveTimer(i)
  BY <1>1, SocketStep, DelayedStep
<1>2. CASE Reconnect
  BY <1>2, ReconnectStep
<1>3. CASE VisibilityChange
  BY <1>3, VisibilityStep
<1>4. CASE UserDisconnect
  BY <1>4, LeaveStep
<1>5. ASSUME NEW pos \in Places, NEW b \in Buttons,
             MouseDown(b, pos) \/ \E in \in BOOLEAN : MouseUp(b, pos, in)
      PROVE  IInv' /\ Cur' = Cur
  <2>1. TRUE \in BOOLEAN
    OBVIOUS
  <2> QED
    BY <1>5, <2>1, ButtonStep
<1>6. ASSUME NEW pos \in Places, NEW soon \in BOOLEAN, NEW delta \in {-1, 1},
             MouseMove(pos, soon) \/ TapCovered(pos, soon) \/ Wheel(pos, delta)
      PROVE  IInv' /\ Cur' = Cur
  BY <1>6, MoveStep
<1>7. CASE TapRight \/ TapDrag
  BY <1>7, ReleaseStep
<1>8. CASE UNCHANGED vars
  BY <1>8 DEF vars, hands, IInv, TypeOK, Good, Valid, Ordered, Cur
<1>9. CASE \E pos \in Places :
              \/ \E b \in Buttons : MouseDown(b, pos) \/ \E in \in BOOLEAN : MouseUp(b, pos, in)
              \/ \E soon \in BOOLEAN : MouseMove(pos, soon) \/ TapCovered(pos, soon)
              \/ \E delta \in {-1, 1} : Wheel(pos, delta)
  <2>1. PICK pos \in Places :
           \/ \E b \in Buttons : MouseDown(b, pos) \/ \E in \in BOOLEAN : MouseUp(b, pos, in)
           \/ \E soon \in BOOLEAN : MouseMove(pos, soon) \/ TapCovered(pos, soon)
           \/ \E delta \in {-1, 1} : Wheel(pos, delta)
    BY <1>9
  <2>2. TRUE \in BOOLEAN /\ 1 \in {-1, 1}
    OBVIOUS
  <2> QED
    BY <1>5, <1>6, <2>1, <2>2
<1> QED
  BY <1>1, <1>2, <1>3, <1>4, <1>7, <1>8, <1>9 DEF Next
-----------------------------------------------------------------------------
(* The buttons.                                                            *)

\* q is p as far as its last object lives and the drag lock, and has been left
\* with this capture and these buttons.
Leaves(p, q, c, mask) ==
    /\ Len(q.rfbs) = Len(p.rfbs) /\ Last(q).state = Last(p).state
    /\ q.locked = p.locked
    /\ q.capture = c /\ Last(q).mask = mask

\* What the handlers of an object leave behind.
LEMMA TouchesLeaves ==
  ASSUME NEW p, Valid(p), NEW i \in 1 .. Len(p.rfbs), NEW mask, NEW q, Touches(p, q, i, mask),
         Like(p, q)
  PROVE  Leaves(p, q, p.capture, IF i = Len(p.rfbs) THEN mask ELSE Last(p).mask)
<1>1. Len(p.rfbs) \in 1 .. Len(p.rfbs)
  BY DEF Valid, Pages
<1> QED
  BY <1>1 DEF Touches, Others, Like, Leaves, Last

\* What the last object's canvas, pressed, leaves behind.
LEMMA DownLeaves ==
  ASSUME NEW p, Valid(p), Alive(Last(p)), NEW pos \in Spots, NEW button \in 0 .. 4
  PROVE  LET q == CanvasDown(p, Len(p.rfbs), pos, button)
         IN  Like(p, q) /\ Leaves(p, q, Len(p.rfbs), Last(p).mask \cup {button})
<1> DEFINE n == Len(p.rfbs)
<1> DEFINE c == [p EXCEPT !.capture = n]
<1> DEFINE q == CanvasDown(p, n, pos, button)
<1>1. n \in 1 .. n /\ n \in Nat /\ n <= n
  BY DEF Valid, Pages
<1>2. Like(p, c) /\ c.rfbs = p.rfbs /\ c.capture = n /\ c.locked = p.locked
  BY <1>1, CaptureLike
<1>3. FALSE \in BOOLEAN
  OBVIOUS
<1>4. Like(p, q) /\ Touches(c, q, n, Last(p).mask \cup {button})
  BY <1>1, <1>3, CanvasLike DEF Last
<1> HIDE DEF c, q
<1>5. Leaves(p, q, n, Last(p).mask \cup {button})
  BY <1>1, <1>2, <1>4 DEF Touches, Others, Like, Leaves, Last
<1> QED
  BY <1>4, <1>5 DEF q

LEMMA UpLeaves ==
  ASSUME NEW p, Valid(p), NEW pos \in Spots, NEW button \in 0 .. 4
  PROVE  LET q == CanvasUp(p, Len(p.rfbs), pos, button)
         IN  /\ Like(p, q)
             /\ Leaves(p, q, p.capture,
                       IF Alive(Last(p)) THEN Last(p).mask \ {button} ELSE Last(p).mask)
<1> DEFINE n == Len(p.rfbs)
<1> DEFINE mask == IF Alive(Last(p)) THEN Last(p).mask \ {button} ELSE Last(p).mask
<1> DEFINE q == CanvasUp(p, n, pos, button)
<1>1. n \in 1 .. n /\ FALSE \in BOOLEAN
  BY DEF Valid, Pages
<1>2. Like(p, q) /\ Touches(p, q, n, mask)
  BY <1>1, CanvasLike DEF Last
<1> HIDE DEF q, mask
<1>3. Leaves(p, q, p.capture, mask)
  BY <1>1, <1>2, TouchesLeaves
<1> QED
  BY <1>2, <1>3 DEF q, mask

\* A release that is handed on to the captured object, which may be one of
\* the past.
LEMMA CaptureUpLeaves ==
  ASSUME NEW p, Valid(p), p.capture # 0, NEW pos \in Spots, NEW button \in 0 .. 4
  PROVE  Leaves(p, CaptureUp(p, pos, button), 0,
                IF p.capture = Len(p.rfbs) /\ Alive(Last(p)) THEN Last(p).mask \ {button}
                ELSE Last(p).mask)
<1> DEFINE i == p.capture
<1> DEFINE q == CanvasUp(p, i, pos, button)
<1> DEFINE r == CaptureUp(p, pos, button)
<1> DEFINE mask == IF Alive(p.rfbs[i]) THEN p.rfbs[i].mask \ {button} ELSE p.rfbs[i].mask
<1>1. i \in 1 .. Len(p.rfbs) /\ FALSE \in BOOLEAN
  BY DEF Valid, Pages
<1>2. /\ Like(p, r) /\ r.rfbs = q.rfbs /\ r.locked = p.locked /\ r.capture = 0
      /\ Touches(p, q, i, mask)
  BY CaptureUpLike
<1>3. Like(p, q)
  BY <1>1, CanvasLike
<1> HIDE DEF q, r
<1>4. mask = IF Alive(p.rfbs[i]) THEN p.rfbs[i].mask \ {button} ELSE p.rfbs[i].mask
  OBVIOUS
<1> HIDE DEF mask
<1>5. Leaves(p, q, p.capture, IF i = Len(p.rfbs) THEN mask ELSE Last(p).mask)
  BY <1>1, <1>2, <1>3, TouchesLeaves
<1>6. Leaves(p, r, 0, IF i = Len(p.rfbs) THEN mask ELSE Last(p).mask)
  BY <1>2, <1>5 DEF Leaves, Last
<1>7. (IF i = Len(p.rfbs) THEN mask ELSE Last(p).mask) =
         IF p.capture = Len(p.rfbs) /\ Alive(Last(p)) THEN Last(p).mask \ {button}
         ELSE Last(p).mask
  BY <1>4 DEF Last
<1> QED
  BY <1>6, <1>7 DEF r

\* The user's hand: a press is captured, so a release is too, unless another
\* release has come first.
LEMMA ButtonHands ==
  ASSUME IInv, HandInv, NEW pos \in Places, NEW b \in Buttons, NEW in \in BOOLEAN,
         MouseDown(b, pos) \/ MouseUp(b, pos, in)
  PROVE  HandInv'
<1> DEFINE n == Len(w.rfbs)
<1>1. Valid(w) /\ pressed \subseteq Buttons /\ n \in Nat \ {0}
  BY DEF IInv, Good, Valid, Pages, TypeOK
<1>2. pos \in Spots /\ b \in 0 .. 4
  BY ConsoleAssumption DEF Spots
<1>3. CASE MouseDown(b, pos)
  <2>1. /\ pressed' = pressed \cup {b} /\ stuck' = stuck \ {<<n, b>>}
        /\ Alive(Last(w))
    BY <1>3 DEF MouseDown, Canvas, Input, Cur, Last
  <2>2. \A mask : mask \subseteq pressed \cup Lock(w) \cup Left(n, stuck)
                 => mask \cup {b} \subseteq pressed' \cup Lock(w) \cup Left(n, stuck')
    BY <2>1 DEF Left
  <2>3. CASE Uncovered
    <3> DEFINE p == CanvasDown(w, n, pos, b)
    <3>1. w' = p
      BY <1>3, <2>3 DEF MouseDown, Input, Cur
    <3>2. Leaves(w, p, n, Last(w).mask \cup {b})
      BY <1>1, <1>2, <2>1, DownLeaves
    <3> HIDE DEF p
    <3>3. /\ p.capture = n /\ Len(p.rfbs) = n /\ Lock(p) = Lock(w)
          /\ Last(p).mask = Last(w).mask \cup {b}
      BY <3>2 DEF Leaves, Lock
    <3>4. Last(w).mask \subseteq pressed \cup Lock(w) \cup Left(n, stuck)
      BY <2>1 DEF HandInv, Hands
    <3>5. Last(p).mask \subseteq pressed' \cup Lock(w) \cup Left(n, stuck')
      BY <2>2, <3>3, <3>4
    <3>6. Hands(p, pressed', loose', stuck')
      BY <1>1, <3>3, <3>5 DEF Hands
    <3> QED
      BY <3>1, <3>6 DEF HandInv
  <2>4. CASE ~Uncovered
    <3>1. w' = w /\ w.capture # 0
      BY <1>3, <2>4 DEF MouseDown, Input, Uncovered
    <3>2. Last(w).mask \subseteq pressed \cup Lock(w) \cup Left(n, stuck)
      BY <2>1 DEF HandInv, Hands
    <3>3. Last(w).mask \subseteq pressed' \cup Lock(w) \cup Left(n, stuck')
      BY <2>2, <3>2
    <3>4. Hands(w, pressed', loose', stuck')
      BY <3>1, <3>3 DEF HandInv, Hands
    <3> QED
      BY <3>1, <3>4 DEF HandInv
  <2> QED
    BY <2>3, <2>4
<1>4. CASE MouseUp(b, pos, in) /\ ~Uncovered
  <2> DEFINE p == CaptureUp(w, pos, b)
  <2>1. /\ pressed' = pressed \ {b} /\ loose' = pressed \ {b} /\ stuck' = stuck
        /\ w.capture # 0 /\ w' = p
    BY <1>4 DEF MouseUp, Input, Uncovered
  <2>2. Leaves(w, p, 0, IF w.capture = n /\ Alive(Last(w)) THEN Last(w).mask \ {b}
                        ELSE Last(w).mask)
    BY <1>1, <1>2, <2>1, CaptureUpLeaves
  <2> HIDE DEF p
  <2>3. p.capture = 0 /\ Len(p.rfbs) = n /\ Lock(p) = Lock(w)
    BY <2>2 DEF Leaves, Lock
  <2>4. ASSUME Alive(Last(p))
        PROVE  Last(p).mask \subseteq pressed' \cup Lock(p) \cup Left(n, stuck')
    <3>1. Alive(Last(w))
      BY <2>2, <2>4 DEF Leaves, Alive
    <3>2. CASE w.capture = n
      <4>1. Last(p).mask = Last(w).mask \ {b}
        BY <2>2, <3>1, <3>2 DEF Leaves
      <4> QED
        BY <2>1, <2>3, <3>1, <4>1 DEF HandInv, Hands
    <3>3. CASE w.capture # n
      <4>1. Last(p).mask = {}
        BY <2>1, <2>2, <3>3 DEF Leaves, HandInv, Hands
      <4> QED
        BY <4>1
    <3> QED
      BY <3>2, <3>3
  <2>5. Hands(p, pressed', loose', stuck')
    BY <2>1, <2>3, <2>4 DEF Hands
  <2> QED
    BY <2>1, <2>5 DEF HandInv
<1>5. CASE MouseUp(b, pos, in) /\ Uncovered
  <2>1. /\ b \in loose /\ w.capture = 0 /\ pressed \subseteq loose
        /\ pressed' = pressed \ {b} /\ loose' = loose \ {b}
    BY <1>5 DEF MouseUp, Input, Uncovered, HandInv, Hands
  <2>2. CASE in
    <3> DEFINE p == CanvasUp(w, n, pos, b)
    <3>1. w' = p /\ stuck' = stuck
      BY <1>5, <2>2 DEF MouseUp, Input, Cur
    <3>2. Leaves(w, p, w.capture, IF Alive(Last(w)) THEN Last(w).mask \ {b} ELSE Last(w).mask)
      BY <1>1, <1>2, UpLeaves
    <3> HIDE DEF p
    <3>3. p.capture = 0 /\ Len(p.rfbs) = n /\ Lock(p) = Lock(w)
      BY <2>1, <3>2 DEF Leaves, Lock
    <3>4. ASSUME Alive(Last(p))
          PROVE  Last(p).mask \subseteq pressed' \cup Lock(p) \cup Left(n, stuck')
      <4>1. Alive(Last(w))
        BY <3>2, <3>4 DEF Leaves, Alive
      <4>2. Last(p).mask = Last(w).mask \ {b}
        BY <3>2, <4>1 DEF Leaves
      <4> QED
        BY <2>1, <3>1, <3>3, <4>1, <4>2 DEF HandInv, Hands
    <3>5. Hands(p, pressed', loose', stuck')
      BY <2>1, <3>3, <3>4 DEF Hands
    <3> QED
      BY <3>1, <3>5 DEF HandInv
  <2>3. CASE ~in
    <3>1. w' = w /\ stuck' = stuck \cup {<<n, b>>}
      BY <1>5, <2>1, <2>3 DEF MouseUp, Input, Cur
    <3>2. pressed \cup Left(n, stuck) \subseteq pressed' \cup Left(n, stuck')
      BY <2>1, <3>1 DEF Left
    <3>3. Hands(w, pressed', loose', stuck')
      BY <2>1, <3>2 DEF HandInv, Hands
    <3> QED
      BY <3>1, <3>3 DEF HandInv
  <2> QED
    BY <2>2, <2>3
<1> QED
  BY <1>3, <1>4, <1>5

\* Moves and the wheel.
LEMMA MoveHands ==
  ASSUME IInv, HandInv, NEW pos \in Places, NEW soon \in BOOLEAN, NEW delta \in {-1, 1},
         MouseMove(pos, soon) \/ TapCovered(pos, soon) \/ Wheel(pos, delta)
  PROVE  HandInv'
<1>1. Valid(w) /\ Len(w.rfbs) \in 1 .. Len(w.rfbs) /\ Len(w.rfbs) \in Nat
  BY DEF IInv, Good, Valid, Pages
<1>2. pos \in Spots /\ 0 \in 0 .. 4 /\ delta \in Int
  BY DEF Spots
<1>3. w.capture # 0 => w.capture \in 1 .. Len(w.rfbs)
  BY <1>1 DEF Valid, Pages
<1>4. CASE MouseMove(pos, soon)
  <2> DEFINE i == IF Uncovered THEN Cur ELSE w.capture
  <2> DEFINE p == CanvasMove(w, i, pos, soon)
  <2>1. w' = p /\ UNCHANGED <<pressed, loose, stuck>>
    BY <1>4 DEF MouseMove, Input
  <2>2. i \in 1 .. Len(w.rfbs)
    BY <1>1, <1>3 DEF Uncovered, Cur
  <2> HIDE DEF i
  <2>3. Like(w, p) /\ Touches(w, p, i, w.rfbs[i].mask)
    BY <1>1, <1>2, <2>2, CanvasLike
  <2> HIDE DEF p
  <2>4. Steady(w, p)
    BY <1>1, <2>2, <2>3, OthersSteady DEF Touches, Like
  <2>5. Hands(p, pressed, loose, stuck)
    BY <2>4, SteadyHands DEF HandInv
  <2> QED
    BY <2>1, <2>5 DEF HandInv
<1>5. CASE TapCovered(pos, soon)
  <2> DEFINE i == w.capture
  <2> DEFINE m == CanvasMove(w, i, pos, soon)
  <2> DEFINE u == CaptureUp(m, pos, 0)
  <2>1. /\ w' = u /\ pressed' = pressed /\ i # 0
        /\ loose' = loose /\ stuck' = stuck \ {<<Len(w.rfbs), 0>>}
    BY <1>5 DEF TapCovered, Input, Uncovered, Cur
  <2>2. Like(w, m) /\ Touches(w, m, i, w.rfbs[i].mask)
    BY <1>1, <1>2, <1>3, <2>1, CanvasLike
  <2> HIDE DEF m
  <2>3. Steady(w, m)
    BY <1>1, <1>3, <2>1, <2>2, OthersSteady DEF Touches, Like
  <2>4. Hands(m, pressed, loose, stuck) /\ m.capture # 0 /\ Valid(m)
    BY <2>1, <2>2, <2>3, SteadyHands DEF HandInv, Steady, Like
  <2>5. Leaves(m, u, 0, IF m.capture = Len(m.rfbs) /\ Alive(Last(m)) THEN Last(m).mask \ {0}
                        ELSE Last(m).mask)
    BY <1>2, <2>4, CaptureUpLeaves
  <2> HIDE DEF u
  <2>6. /\ Last(u).state = Last(m).state /\ Lock(u) = Lock(m) /\ u.capture = 0
        /\ Len(u.rfbs) = Len(m.rfbs) /\ Len(m.rfbs) = Len(w.rfbs)
    BY <2>3, <2>5 DEF Leaves, Steady, Lock
  <2>7. pressed = {}
    BY <1>5 DEF TapCovered
  <2>8. ASSUME Alive(Last(u))
        PROVE  Last(u).mask \subseteq pressed \cup Lock(u) \cup Left(Len(u.rfbs), stuck')
    <3>1. Alive(Last(m))
      BY <2>6, <2>8 DEF Alive
    <3>2. CASE m.capture = Len(m.rfbs)
      <4>1. Last(u).mask = Last(m).mask \ {0}
        BY <2>5, <3>1, <3>2 DEF Leaves
      <4>2. Last(m).mask \subseteq pressed \cup Lock(m) \cup Left(Len(m.rfbs), stuck)
        BY <2>4, <3>1 DEF Hands
      <4> QED
        BY <2>1, <2>6, <4>1, <4>2 DEF Left
    <3>3. CASE m.capture # Len(m.rfbs)
      <4>1. Last(u).mask = {}
        BY <2>4, <2>5, <3>3 DEF Leaves, Hands
      <4> QED
        BY <4>1
    <3> QED
      BY <3>2, <3>3
  <2>9. Hands(u, pressed', loose', stuck')
    BY <2>1, <2>6, <2>7, <2>8 DEF Hands
  <2> QED
    BY <2>1, <2>9 DEF HandInv
<1>6. CASE Wheel(pos, delta)
  <2> DEFINE p == HandleWheel(w, Len(w.rfbs), pos, delta)
  <2>1. w' = p /\ UNCHANGED <<pressed, loose, stuck>>
    BY <1>6 DEF Wheel, Input, Cur
  <2>2. Like(w, p) /\ Others(w, p, Len(w.rfbs)) /\ p.rfbs[Len(w.rfbs)].mask \subseteq Last(w).mask
    BY <1>1, <1>2, WheelLike DEF Last
  <2> HIDE DEF p
  <2>3. /\ Len(p.rfbs) = Len(w.rfbs) /\ p.capture = w.capture /\ p.locked = w.locked
        /\ Last(p).state = Last(w).state /\ Last(p).mask \subseteq Last(w).mask
    BY <1>1, <2>2 DEF Others, Like, Last
  <2>4. Hands(p, pressed, loose, stuck)
    BY <2>3 DEF HandInv, Hands, Alive, Lock
  <2> QED
    BY <2>1, <2>4 DEF HandInv
<1> QED
  BY <1>4, <1>5, <1>6

\* The page's buttons: a right click, and the drag lock.
LEMMA TapHands ==
  ASSUME IInv, HandInv, TapRight \/ TapDrag
  PROVE  HandInv'
<1> DEFINE n == Len(w.rfbs)
<1>1. Valid(w) /\ n \in Nat \ {0}
  BY DEF IInv, Good, Valid, Pages
<1>2. 0 \in Spots /\ 0 \in 0 .. 4 /\ 2 \in 0 .. 4
  BY DEF Spots
<1>3. /\ Alive(Last(w)) /\ w.capture = 0 /\ UNCHANGED <<pressed, loose>>
      /\ pressed \subseteq loose
  BY DEF TapRight, TapDrag, Canvas, Uncovered, Input, Cur, Last, HandInv, Hands
<1>4. Last(w).mask \subseteq pressed \cup Lock(w) \cup Left(n, stuck)
  BY <1>3 DEF HandInv, Hands
<1>5. CASE TapRight
  <2> DEFINE d == CanvasDown(w, n, 0, 2)
  <2> DEFINE u == CanvasUp(d, Len(d.rfbs), 0, 2)
  <2>1. Like(w, d) /\ Leaves(w, d, n, Last(w).mask \cup {2})
    BY <1>1, <1>2, <1>3, DownLeaves
  <2>2. Len(d.rfbs) = n /\ Valid(d) /\ Alive(Last(d))
    BY <1>3, <2>1 DEF Leaves, Like, Alive
  <2>3. w' = CanvasUp(d, n, 0, 2) /\ stuck' = stuck \ {<<n, 2>>}
    BY <1>5 DEF TapRight, Input, Cur
  <2> HIDE DEF d
  <2>4. w' = u
    BY <2>2, <2>3
  <2>5. Leaves(d, u, d.capture, IF Alive(Last(d)) THEN Last(d).mask \ {2} ELSE Last(d).mask)
    BY <1>2, <2>2, UpLeaves
  <2> HIDE DEF u
  <2>6. /\ u.capture = n /\ Len(u.rfbs) = n /\ Lock(u) = Lock(w)
        /\ Last(u).mask = (Last(w).mask \cup {2}) \ {2}
    BY <2>1, <2>2, <2>5 DEF Leaves, Lock
  <2>7. Last(u).mask \subseteq pressed \cup Lock(u) \cup Left(n, stuck')
    BY <1>4, <2>3, <2>6 DEF Left
  <2>8. Hands(u, pressed', loose', stuck')
    BY <1>1, <1>3, <2>6, <2>7 DEF Hands
  <2> QED
    BY <2>4, <2>8 DEF HandInv
<1>6. CASE TapDrag /\ w.locked
  <2> DEFINE u == CanvasUp(w, n, 0, 0)
  <2> DEFINE q == [u EXCEPT !.locked = ~@]
  <2>1. w' = q /\ stuck' = stuck \ {<<n, 0>>}
    BY <1>6 DEF TapDrag, Input, Cur
  <2>2. Like(w, u)
        /\ Leaves(w, u, w.capture, IF Alive(Last(w)) THEN Last(w).mask \ {0} ELSE Last(w).mask)
    BY <1>1, <1>2, UpLeaves
  <2> HIDE DEF u
  <2>3. /\ Last(u).mask = Last(w).mask \ {0} /\ u.capture = 0 /\ Len(u.rfbs) = n
        /\ u.locked
    BY <1>3, <1>6, <2>2 DEF Leaves
  <2>4. u \in Pages
    BY <2>2 DEF Like, Valid
  <2>5. q.rfbs = u.rfbs /\ q.capture = u.capture
    BY <2>4 DEF Pages
  <2> HIDE DEF q
  <2>6. Last(q).mask = Last(w).mask \ {0} /\ Len(q.rfbs) = n /\ q.capture = 0
    BY <2>3, <2>5 DEF Last
  <2>7. Last(q).mask \subseteq pressed \cup Left(n, stuck')
    BY <1>4, <2>1, <2>6 DEF Left, Lock
  <2>8. Hands(q, pressed', loose', stuck')
    BY <1>3, <2>6, <2>7 DEF Hands
  <2> QED
    BY <2>1, <2>8 DEF HandInv
<1>7. CASE TapDrag /\ ~w.locked
  <2> DEFINE d == CanvasDown(w, n, 0, 0)
  <2> DEFINE q == [d EXCEPT !.locked = ~@]
  <2>1. w' = q /\ stuck' = stuck \ {<<n, 0>>}
    BY <1>7 DEF TapDrag, Input, Cur
  <2>2. Like(w, d) /\ Leaves(w, d, n, Last(w).mask \cup {0})
    BY <1>1, <1>2, <1>3, DownLeaves
  <2> HIDE DEF d
  <2>3. Last(d).mask = Last(w).mask \cup {0} /\ d.capture = n /\ Len(d.rfbs) = n /\ ~d.locked
    BY <1>7, <2>2 DEF Leaves
  <2>4. d \in Pages
    BY <2>2 DEF Like, Valid
  <2>5. q.rfbs = d.rfbs /\ q.capture = d.capture /\ q.locked
    BY <2>3, <2>4 DEF Pages
  <2> HIDE DEF q
  <2>6. /\ Last(q).mask = Last(w).mask \cup {0} /\ Len(q.rfbs) = n /\ q.capture = n
        /\ Lock(q) = {0} /\ Lock(w) = {}
    BY <1>7, <2>3, <2>5 DEF Last, Lock
  <2>7. Last(q).mask \subseteq pressed \cup Lock(q) \cup Left(n, stuck')
    BY <1>4, <2>1, <2>6 DEF Left
  <2>8. Hands(q, pressed', loose', stuck')
    BY <1>1, <1>3, <2>6, <2>7 DEF Hands
  <2> QED
    BY <2>1, <2>8 DEF HandInv
<1> QED
  BY <1>5, <1>6, <1>7

LEMMA HandStep == IInv /\ HandInv /\ [Next]_vars => HandInv'
<1> SUFFICES ASSUME IInv, HandInv, [Next]_vars PROVE HandInv'
  OBVIOUS
<1>1. CASE \E i \in 1 .. Cur :
              \/ SocketOpen(i) \/ Connected(i) \/ Failed(i) \/ SocketClosed(i)
              \/ DisconnectTimeout(i) \/ MouseMoveTimer(i)
  BY <1>1, SocketStep, DelayedStep
<1>2. CASE Reconnect \/ VisibilityChange \/ UserDisconnect
  BY <1>2, ReconnectStep, VisibilityStep, LeaveStep
<1>3. ASSUME NEW pos \in Places, NEW b \in Buttons,
             MouseDown(b, pos) \/ \E in \in BOOLEAN : MouseUp(b, pos, in)
      PROVE  HandInv'
  <2>1. TRUE \in BOOLEAN
    OBVIOUS
  <2> QED
    BY <1>3, <2>1, ButtonHands
<1>4. ASSUME NEW pos \in Places, NEW soon \in BOOLEAN, NEW delta \in {-1, 1},
             MouseMove(pos, soon) \/ TapCovered(pos, soon) \/ Wheel(pos, delta)
      PROVE  HandInv'
  BY <1>4, MoveHands
<1>5. CASE TapRight \/ TapDrag
  BY <1>5, TapHands
<1>6. CASE UNCHANGED vars
  BY <1>6 DEF vars, hands, HandInv, Hands, Last, Lock
<1>7. CASE \E pos \in Places :
              \/ \E b \in Buttons : MouseDown(b, pos) \/ \E in \in BOOLEAN : MouseUp(b, pos, in)
              \/ \E soon \in BOOLEAN : MouseMove(pos, soon) \/ TapCovered(pos, soon)
              \/ \E delta \in {-1, 1} : Wheel(pos, delta)
  <2>1. PICK pos \in Places :
           \/ \E b \in Buttons : MouseDown(b, pos) \/ \E in \in BOOLEAN : MouseUp(b, pos, in)
           \/ \E soon \in BOOLEAN : MouseMove(pos, soon) \/ TapCovered(pos, soon)
           \/ \E delta \in {-1, 1} : Wheel(pos, delta)
    BY <1>7
  <2>2. TRUE \in BOOLEAN /\ 1 \in {-1, 1}
    OBVIOUS
  <2> QED
    BY <1>3, <1>4, <2>1, <2>2
<1> QED
  BY <1>1, <1>2, <1>5, <1>6, <1>7 DEF Next

-----------------------------------------------------------------------------
(* The theorems.                                                           *)

LEMMA Invariance == Spec => []IInv
<1>1. Init => IInv
  BY Start
<1>2. IInv /\ [Next]_vars => IInv'
  BY Step
<1> QED
  BY <1>1, <1>2, PTL DEF Spec

\* The page always has an RFB object, its fields have their types, and the
\* mouse is captured for the canvas of an object there has been (app.js, and
\* setCapture in util/events.js).
THEOREM ConsoleTypeCorrect == Spec => []TypeOK
<1>1. IInv => TypeOK
  BY DEF IInv
<1> QED
  BY <1>1, Invariance, PTL

\* However connections are lost, timed out and begun again, at most one RFB
\* object is alive, and none while the reconnect timer runs.
THEOREM ConsoleOneSession == Spec => []OneSession
<1> DEFINE live == {i \in 1 .. Cur : Alive(w.rfbs[i])}
<1>1. ASSUME IInv PROVE OneSession
  <2>1. Cur \in Nat /\ Good(w)
    BY <1>1 DEF IInv, Good, Valid, Pages, Cur
  <2>2. \A j \in 1 .. Cur : j # Cur => w.rfbs[j].state = "disconnected"
    BY <2>1 DEF Good, Ordered, Cur
  <2>3. live \subseteq {Cur}
    BY <2>2 DEF Alive
  <2> HIDE DEF live
  <2>4. Cardinality(live) <= 1
    <3>1. IsFiniteSet({Cur}) /\ Cardinality({Cur}) = 1
      BY FS_Singleton
    <3> QED
      BY <2>3, <3>1, FS_Subset
  <2>5. w.timer => \A i \in 1 .. Cur : w.rfbs[i].state = "disconnected"
    BY <2>1, <2>2 DEF Good, Ordered, Cur
  <2> QED
    BY <2>4, <2>5 DEF OneSession, live
<1> QED
  BY <1>1, Invariance, PTL

\* Once the user has disconnected the page makes no RFB object any more,
\* neither when a timer fires nor when the page becomes visible.
THEOREM ConsoleStaysDisconnected == Spec => StaysDisconnected
<1>1. IInv /\ [Next]_vars => [w.user => Cur' = Cur]_vars
  BY Step
<1> QED
  BY <1>1, Invariance, PTL DEF Spec, StaysDisconnected

\* The server has been told where the mouse is and which buttons noVNC holds,
\* unless a move waits to be sent.
THEOREM ConsolePointerFollows == Spec => []PointerFollows
<1>1. ASSUME IInv PROVE PointerFollows
  <2>1. \A i \in 1 .. Cur : Told(w.rfbs[i])
    BY <1>1 DEF IInv, Good, Valid, Cur
  <2> QED
    BY <2>1 DEF Told, PointerFollows
<1> QED
  BY <1>1, Invariance, PTL

\* A button the server holds down is one the user holds, or the drag lock's, or
\* went up beside the canvas after the release of another had ended its capture,
\* whatever becomes of connections (app.js; rfb.js; util/events.js).
THEOREM ConsoleNothingHeld == Spec => []NothingHeld
<1>1. Init => HandInv
  <2> SUFFICES ASSUME Init PROVE HandInv
    OBVIOUS
  <2>1. w.rfbs = <<NewRFB>> /\ pressed = {} /\ w.capture = 0
    BY DEF Init
  <2>2. Last(w) = NewRFB /\ NewRFB.mask = {}
    BY <2>1 DEF Last, NewRFB
  <2> QED
    BY <2>1, <2>2 DEF HandInv, Hands
<1>2. IInv /\ HandInv /\ [Next]_vars => HandInv'
  BY HandStep
<1>3. ASSUME IInv, HandInv PROVE NothingHeld
  <2>1. Told(w.rfbs[Cur]) /\ Last(w) = w.rfbs[Cur]
    BY <1>3 DEF IInv, Good, Valid, Pages, Cur, Last
  <2> QED
    BY <1>3, <2>1 DEF NothingHeld, Told, HandInv, Hands, Alive, Lock, Left, Cur
<1> QED
  BY <1>1, <1>2, <1>3, Invariance, PTL DEF Spec

=============================================================================
