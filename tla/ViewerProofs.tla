---------------------------- MODULE ViewerProofs ----------------------------
(***************************************************************************)
(* What the viewer page takes in from the user's fingers and keys and what *)
(* it draws for him, proved for any number of fingers and touches          *)
(* (Gestures), for any updates and framebuffer sizes (Painting) and for    *)
(* any keys of any system and any text, up to its first character beyond   *)
(* Latin-1 (Keyboard).                                                     *)
(*                                                                         *)
(* The buttons follow the fingers.  What the recognizer can be in is a     *)
(* table (Phases): for each number of touches it tracks, and whether it    *)
(* waits for fingers to be lifted, which gestures are still possible and   *)
(* which timers run.  Beside it, Follows: what is held is what the gesture *)
(* in progress holds; Accounts: while nothing waits, every finger is       *)
(* tracked or ignored at most once and is on the screen; Complete: with a  *)
(* recognizer that saw every event, every finger on the screen is.  The    *)
(* handlers are functions of the recognizer, so the lemmas about them      *)
(* speak of any recognizer g and of the set D of fingers that are on the   *)
(* screen as far as g was told.                                            *)
(*                                                                         *)
(* The screen follows the framebuffer.  Every pixel of the viewport is up  *)
(* to date or in the damaged rectangle (Covered), and outside an update    *)
(* the queue is empty with nothing damaged left, or ends in a flip         *)
(* (Settled).  The display's methods are functions of the display, so the  *)
(* lemmas about them speak of any display e.  The folds over the queue     *)
(* (Painted, ScanRenderQ) are recursive functions; what they compute is    *)
(* characterised one element at a time, by an induction over sets of       *)
(* numbers.                                                                *)
(*                                                                         *)
(* The server follows the keyboard.  Each key of the client's list carries *)
(* a keysym that only this key of the system sends (Tabled), so no two     *)
(* have the same one (Unique), and the server holds those of the list      *)
(* (Mirrors): this is KeyInv.  Proper says it of a keyboard in the middle  *)
(* of a handler, whose calls so far the server has been told of, and       *)
(* Leaves which keys a handler may add to the list and which it takes off. *)
(* HeldInv: while the window has the focus the keys of the list are keys   *)
(* the user holds and will be heard to release, or the other Shift; else   *)
(* there are none.                                                         *)
(***************************************************************************)
EXTENDS Gestures, Painting, Keyboard, FiniteSetTheorems, SequenceTheorems, TLAPS

-----------------------------------------------------------------------------
(* The recognizer.                                                         *)

Touch == [id : Fingers, age : 0 .. TapTimeout, active : BOOLEAN, far : BOOLEAN]

\* What a recognizer is made of.
Recognizer ==
    [state : SUBSET Undecided, tracked : Seq(Touch), ignored : [Fingers -> Nat],
     waiting : BOOLEAN, released : {0, 1}, press : {Off} \cup 0 .. TapTimeout,
     two : {"off", "due", "fired"}, err : BOOLEAN,
     held : SUBSET Held, open : SUBSET Undecided]

OfOne == {Undecided, {}, {"drag"}, {"longpress"}}
OfTwo == {{"twotap", "threetap", "twodrag", "pinch"}, {"twodrag", "pinch"}, {}, {"twodrag"}, {"pinch"}}
Waiting(n) ==
    CASE n = 0 -> {Taps, {}}
      [] n = 1 -> {{"onetap"}, {}}
      [] n = 2 -> {{"twotap"}, {}, {"twodrag"}, {"pinch"}}
      [] OTHER -> {{"threetap"}, {}, {"twodrag"}, {"pinch"}}

\* What n touches can still become, when none was lifted.
Open(n) ==
    CASE n = 0 -> {Undecided, {}}
      [] n = 1 -> OfOne
      [] n = 2 -> OfTwo
      [] OTHER -> {{"threetap"}, {}, {"twodrag"}, {"pinch"}}

Phases(g) ==
    /\ g.state \in IF g.waiting THEN Waiting(Len(g.tracked)) ELSE Open(Len(g.tracked))
    /\ g.press # Off => Len(g.tracked) = 1 /\ ~g.waiting /\ g.state \in {Undecided, {}}
    /\ g.two = "due" => Len(g.tracked) > 1 /\ g.state \in {{"twodrag", "pinch"}, {}}

\* No finger is tracked twice.
Distinct(g) ==
    \A i, j \in DOMAIN g.tracked : g.tracked[i].id = g.tracked[j].id => i = j

Button(k) == CASE k = "drag" -> "left" [] OTHER -> "right"

\* h and o are the buttons held and the gestures open when the gestures of S,
\* at most one, hold a button.
Follows(h, o, S) ==
    /\ o \cap Solid = S
    /\ h = {Button(k) : k \in S}

\* The gesture in progress, if it holds a button.
Holding(g) == IF g.state \in {{"drag"}, {"longpress"}} THEN g.state ELSE {}

Accounts(g, D) ==
    ~g.waiting =>
        /\ \A i \in DOMAIN g.tracked :
              g.tracked[i].active /\ g.tracked[i].id \in D /\ g.ignored[g.tracked[i].id] = 0
        /\ \A f \in Fingers : g.ignored[f] > 0 => g.ignored[f] = 1 /\ f \in D

\* Finger f is in a touch that was not lifted.
ActiveIn(g, f) == \E i \in DOMAIN g.tracked : g.tracked[i].active /\ g.tracked[i].id = f

Complete(g, D) ==
    /\ ~g.err
    /\ \A f \in Fingers : /\ f \in D <=> (ActiveIn(g, f) \/ g.ignored[f] > 0)
                          /\ g.ignored[f] <= 1
                          /\ ActiveIn(g, f) => g.ignored[f] = 0
    /\ g.tracked # <<>> => SomeActive(g)
    /\ g.tracked = <<>> => IF NoneIgnored(g) THEN g.state = Undecided /\ ~g.waiting
                                             ELSE g.state = {}

Sound(g, D) ==
    /\ g \in Recognizer
    /\ Phases(g)
    /\ Distinct(g)
    /\ Follows(g.held, g.open, Holding(g))
    /\ Accounts(g, D)

GestureInv ==
    /\ down \subseteq Fingers
    /\ touches \in 0 .. MaxTouches
    /\ zoomed \in BOOLEAN
    /\ mode \in {"none", "pending", "active"}
    /\ took \in BOOLEAN
    /\ Sound(gh, down)
    /\ ~took => Complete(gh, down)
-----------------------------------------------------------------------------
(* Sets of gestures.                                                       *)

\* The gestures that are detected as soon as they are the only one left, and
\* the taps, which are once no finger is down.
Movers == {{"drag"}, {"longpress"}, {"twodrag"}, {"pinch"}}
LoneTaps == {{"onetap"}, {"twotap"}, {"threetap"}}

\* What a detected gesture is, from its definition by the bits of the state.
LEMMA DetectedIs ==
    ASSUME NEW g
    PROVE  Detected(g) <=> \/ g.state \in Movers
                           \/ g.state \in LoneTaps /\ ~SomeActive(g)
<1>1. ASSUME Detected(g)
      PROVE  g.state \in Movers \/ (g.state \in LoneTaps /\ ~SomeActive(g))
  <2>1. PICK s \in Undecided : g.state = {s} /\ (s \in Taps => ~SomeActive(g))
    BY <1>1 DEF Detected
  <2> QED BY <2>1 DEF Undecided, Taps, Solid, Movers, LoneTaps
<1>2. ASSUME g.state \in Movers
      PROVE  Detected(g)
  <2>1. \E s \in {"drag", "longpress", "twodrag", "pinch"} : g.state = {s}
    BY <1>2 DEF Movers
  <2>2. PICK s \in {"drag", "longpress", "twodrag", "pinch"} : g.state = {s}
    BY <2>1
  <2>3. s \in Undecided /\ s \notin Taps
    BY <2>2 DEF Undecided, Taps, Solid
  <2> QED BY <2>2, <2>3 DEF Detected
<1>3. ASSUME g.state \in LoneTaps, ~SomeActive(g)
      PROVE  Detected(g)
  <2>1. \E s \in {"onetap", "twotap", "threetap"} : g.state = {s}
    BY <1>3 DEF LoneTaps
  <2>2. PICK s \in {"onetap", "twotap", "threetap"} : g.state = {s}
    BY <2>1
  <2>3. s \in Undecided
    BY <2>2 DEF Undecided, Taps, Solid
  <2> QED BY <2>2, <2>3, <1>3 DEF Detected
<1> QED BY <1>1, <1>2, <1>3

\* The sets that touches leave of the gestures.
LEMMA NotAlone ==
    /\ {} \notin Movers /\ {} \notin LoneTaps
    /\ Undecided \notin Movers /\ Undecided \notin LoneTaps
    /\ Taps \notin Movers /\ Taps \notin LoneTaps
    /\ {"twodrag", "pinch"} \notin Movers /\ {"twodrag", "pinch"} \notin LoneTaps
    /\ {"twotap", "threetap", "twodrag", "pinch"} \notin Movers
    /\ {"twotap", "threetap", "twodrag", "pinch"} \notin LoneTaps
    /\ \A S \in LoneTaps : S \notin Movers
    /\ Undecided # {} /\ Taps # {} /\ Undecided # Taps
<1>1. "onetap" \in Taps /\ "twotap" \in Taps
  BY DEF Taps
<1>2. "onetap" \in Undecided /\ "drag" \in Undecided /\ "drag" \notin Taps
  BY DEF Undecided, Taps, Solid
<1>3. \A S \in Movers \cup LoneTaps : \E s : S = {s}
  BY DEF Movers, LoneTaps
<1>4. \A S \in LoneTaps : S \notin Movers
  BY DEF Movers, LoneTaps
<1>5. \A S, a, b : a \in S /\ b \in S /\ a # b => S \notin Movers \cup LoneTaps
  BY <1>3
<1>6. {} \notin Movers \cup LoneTaps
  BY <1>3
<1>7. Undecided \notin Movers \cup LoneTaps
  BY <1>2, <1>5
<1>8. Taps \notin Movers \cup LoneTaps
  BY <1>1, <1>5
<1>9. {"twodrag", "pinch"} \notin Movers \cup LoneTaps
  BY <1>5
<1>10. {"twotap", "threetap", "twodrag", "pinch"} \notin Movers \cup LoneTaps
  BY <1>5
<1> QED BY <1>1, <1>2, <1>4, <1>6, <1>7, <1>8, <1>9, <1>10

\* What a second and a third touch, a movement and a lifted finger leave.
LEMMA Remains ==
    /\ Undecided \ {"onetap", "drag", "longpress"} = {"twotap", "threetap", "twodrag", "pinch"}
    /\ {"twotap", "threetap", "twodrag", "pinch"} \ {"twotap", "twodrag", "pinch"} = {"threetap"}
    /\ {"twodrag", "pinch"} \ {"twotap", "twodrag", "pinch"} = {}
    /\ \A S : {} \cap S = {}
    /\ \A S : {} \ S = {}
    /\ (Undecided \cap Taps) \ {"twotap", "threetap"} = {"onetap"}
    /\ (Undecided \cap Taps) \ {} = Taps
    /\ (Taps \cap Taps) \ {} = Taps
    /\ ({"twotap", "threetap", "twodrag", "pinch"} \cap Taps) \ {"onetap", "threetap"} = {"twotap"}
    /\ ({"twodrag", "pinch"} \cap Taps) \ {"onetap", "threetap"} = {}
    /\ \A S \in LoneTaps : (S \cap Taps) \ {} = S
<1>1. Undecided = {"onetap", "twotap", "threetap", "drag", "longpress", "twodrag", "pinch"}
  BY DEF Undecided, Taps, Solid
<1>2. Taps = {"onetap", "twotap", "threetap"}
  BY DEF Taps
<1>3. Undecided \ {"onetap", "drag", "longpress"} = {"twotap", "threetap", "twodrag", "pinch"}
  BY <1>1
<1>4. {"twotap", "threetap", "twodrag", "pinch"} \ {"twotap", "twodrag", "pinch"} = {"threetap"}
  OBVIOUS
<1>5. {"twodrag", "pinch"} \ {"twotap", "twodrag", "pinch"} = {}
  OBVIOUS
<1>6. (Undecided \cap Taps) \ {"twotap", "threetap"} = {"onetap"}
  BY <1>1, <1>2
<1>7. (Undecided \cap Taps) \ {} = Taps /\ (Taps \cap Taps) \ {} = Taps
  BY DEF Undecided
<1>8. ({"twotap", "threetap", "twodrag", "pinch"} \cap Taps) \ {"onetap", "threetap"} = {"twotap"}
  BY <1>2
<1>9. ({"twodrag", "pinch"} \cap Taps) \ {"onetap", "threetap"} = {}
  BY <1>2
<1>10. \A S \in LoneTaps : (S \cap Taps) \ {} = S
  BY <1>2 DEF LoneTaps
<1> QED BY <1>3, <1>4, <1>5, <1>6, <1>7, <1>8, <1>9, <1>10

-----------------------------------------------------------------------------
(* Gesture events.                                                         *)

\* Two recognizers that differ in what rfb.js was told, at most.
Same(p, g) ==
    /\ p.state = g.state /\ p.tracked = g.tracked /\ p.ignored = g.ignored
    /\ p.waiting = g.waiting /\ p.released = g.released
    /\ p.press = g.press /\ p.two = g.two /\ p.err = g.err

\* The gesture an event names is the only one left.
LEMMA PushIs ==
    ASSUME NEW g, NEW type, NEW k, g.state = {k}, g.tracked # <<>>
    PROVE  Push(g, type) = [g EXCEPT !.held = HandleGesture(@, type, k),
                                     !.open = CASE type = "start" -> @ \cup {k}
                                                [] type = "end" -> @ \ {k}
                                                [] OTHER -> @]
<1>1. (CHOOSE s \in g.state : TRUE) = k
  BY DEF Push
<1> QED BY <1>1 DEF Push

\* A gesture that starts when none holds a button holds its own.
LEMMA PushStart ==
    ASSUME NEW g \in Recognizer, NEW k \in Undecided, g.state = {k}, g.tracked # <<>>,
           Follows(g.held, g.open, {})
    PROVE  /\ Push(g, "start") \in Recognizer
           /\ Same(Push(g, "start"), g)
           /\ Follows(Push(g, "start").held, Push(g, "start").open, Holding(g))
<1> DEFINE p == [g EXCEPT !.held = HandleGesture(@, "start", k), !.open = @ \cup {k}]
<1>1. Push(g, "start") = p
  BY PushIs
<1>2. g.held = {} /\ g.open \in SUBSET Undecided /\ g.open \cap Solid = {}
  BY DEF Follows, Recognizer
<1>3. HandleGesture({}, "start", k) = IF k = "drag" THEN {"left"} ELSE IF k = "longpress" THEN {"right"} ELSE {}
  BY DEF HandleGesture, HandleTapEvent, Press, Click, Release, Undecided, Taps, Solid
<1>4. HandleGesture({}, "start", k) \in SUBSET Held
  BY <1>3 DEF Held
<1>5. p \in Recognizer /\ Same(p, g)
  BY <1>2, <1>4 DEF Recognizer, Same
<1>6. p.held = HandleGesture({}, "start", k) /\ p.open = g.open \cup {k}
  BY <1>2 DEF Recognizer
<1>7. Follows(HandleGesture({}, "start", k), g.open \cup {k}, Holding(g))
  <2>1. CASE k = "drag"
    <3>1. Holding(g) = {"drag"}
      BY <2>1 DEF Holding
    <3>2. {Button(x) : x \in {"drag"}} = {"left"}
      BY DEF Button
    <3> QED BY <2>1, <3>1, <3>2, <1>2, <1>3 DEF Follows, Solid
  <2>2. CASE k = "longpress"
    <3>1. Holding(g) = {"longpress"}
      BY <2>2 DEF Holding
    <3>2. {Button(x) : x \in {"longpress"}} = {"right"}
      BY DEF Button
    <3> QED BY <2>2, <3>1, <3>2, <1>2, <1>3 DEF Follows, Solid
  <2>3. CASE k \notin {"drag", "longpress"}
    <3>1. Holding(g) = {}
      BY <2>3 DEF Holding
    <3> QED BY <2>3, <3>1, <1>2, <1>3 DEF Follows, Solid
  <2> QED BY <2>1, <2>2, <2>3
<1> QED BY <1>1, <1>5, <1>6, <1>7
\* A gesture that goes on holds what it held.
LEMMA PushMove ==
    ASSUME NEW g \in Recognizer, NEW k \in Undecided, g.state = {k}, g.tracked # <<>>,
           Follows(g.held, g.open, Holding(g))
    PROVE  /\ Push(g, "move") \in Recognizer
           /\ Same(Push(g, "move"), g)
           /\ Follows(Push(g, "move").held, Push(g, "move").open, Holding(g))
<1> DEFINE p == [g EXCEPT !.held = HandleGesture(g.held, "move", k)]
<1>1. Push(g, "move") = p
  <2>1. Push(g, "move") = [g EXCEPT !.held = HandleGesture(g.held, "move", k), !.open = g.open]
    BY PushIs
  <2>2. [g EXCEPT !.held = HandleGesture(g.held, "move", k), !.open = g.open] = p
    BY DEF Recognizer
  <2> QED BY <2>1, <2>2
<1>2. g.held \in SUBSET Held
  BY DEF Recognizer
<1>3. g.held \subseteq {"left", "right"}
  BY DEF Follows, Button
<1>4. HandleGesture(g.held, "move", k) = g.held
  BY <1>3 DEF HandleGesture, Press, Click, Release
<1>5. p = g
  BY <1>4 DEF Recognizer
<1> QED BY <1>1, <1>5 DEF Same

\* A gesture that ends holds nothing any more.
LEMMA PushEnd ==
    ASSUME NEW g \in Recognizer, NEW k \in Undecided, g.state = {k}, g.tracked # <<>>,
           Follows(g.held, g.open, Holding(g))
    PROVE  /\ Push(g, "end") \in Recognizer
           /\ Same(Push(g, "end"), g)
           /\ Follows(Push(g, "end").held, Push(g, "end").open, {})
<1> DEFINE p == [g EXCEPT !.held = HandleGesture(g.held, "end", k), !.open = g.open \ {k}]
<1>1. Push(g, "end") = p
  <2> DEFINE o == CASE "end" = "start" -> g.open \cup {k} [] "end" = "end" -> g.open \ {k} [] OTHER -> g.open
  <2>1. o = g.open \ {k}
    OBVIOUS
  <2>2. Push(g, "end") = [g EXCEPT !.held = HandleGesture(g.held, "end", k), !.open = o]
    BY PushIs, Zenon
  <2> QED BY <2>1, <2>2
<1>2. g.held \in SUBSET Held /\ g.open \in SUBSET Undecided
  BY DEF Recognizer
<1>3. HandleGesture(g.held, "end", k)
        = IF k = "drag" THEN g.held \ {"left"} ELSE IF k = "longpress" THEN g.held \ {"right"} ELSE g.held
  BY DEF HandleGesture, Release
<1>4. HandleGesture(g.held, "end", k) \in SUBSET Held
  BY <1>2, <1>3
<1>5. p \in Recognizer /\ Same(p, g)
  BY <1>2, <1>4 DEF Recognizer, Same
<1>6. p.held = HandleGesture(g.held, "end", k) /\ p.open = g.open \ {k}
  BY <1>2 DEF Recognizer
<1>7. Follows(HandleGesture(g.held, "end", k), g.open \ {k}, {})
  <2>1. CASE k = "drag"
    <3>1. Holding(g) = {"drag"}
      BY <2>1 DEF Holding
    <3>2. g.open \cap Solid = {"drag"} /\ g.held = {"left"}
      BY <3>1 DEF Follows, Button
    <3> QED BY <2>1, <3>2, <1>3 DEF Follows
  <2>2. CASE k = "longpress"
    <3>1. Holding(g) = {"longpress"}
      BY <2>2 DEF Holding
    <3>2. g.open \cap Solid = {"longpress"} /\ g.held = {"right"}
      BY <3>1 DEF Follows, Button
    <3> QED BY <2>2, <3>2, <1>3 DEF Follows
  <2>3. CASE k \notin {"drag", "longpress"}
    <3>1. Holding(g) = {}
      BY <2>3 DEF Holding
    <3>2. g.open \cap Solid = {} /\ g.held = {}
      BY <3>1 DEF Follows
    <3> QED BY <2>3, <3>2, <1>3 DEF Follows
  <2> QED BY <2>1, <2>2, <2>3
<1> QED BY <1>1, <1>5, <1>6, <1>7

\* A gesture that starts and ends at once, as taps do.
LEMMA PushBoth ==
    ASSUME NEW g \in Recognizer, NEW k \in Undecided, g.state = {k}, g.tracked # <<>>,
           Follows(g.held, g.open, {})
    PROVE  LET p == Push(Push(g, "start"), "end")
           IN  /\ p \in Recognizer
               /\ Same(p, g)
               /\ Follows(p.held, p.open, {})
<1> DEFINE s == Push(g, "start")
<1>1. s \in Recognizer /\ Same(s, g) /\ Follows(s.held, s.open, Holding(g))
  BY PushStart
<1>2. s.state = {k} /\ s.tracked # <<>> /\ Holding(s) = Holding(g)
  BY <1>1 DEF Same, Holding
<1> HIDE DEF s
<1>3. /\ Push(s, "end") \in Recognizer
      /\ Same(Push(s, "end"), s)
      /\ Follows(Push(s, "end").held, Push(s, "end").open, {})
  BY <1>1, <1>2, PushEnd
<1>4. Same(Push(s, "end"), g)
  BY <1>1, <1>3 DEF Same
<1> QED BY <1>3, <1>4 DEF s

\* A gesture that starts and moves at once, as those of moving fingers do.
LEMMA PushOn ==
    ASSUME NEW g \in Recognizer, NEW k \in Undecided, g.state = {k}, g.tracked # <<>>,
           Follows(g.held, g.open, {})
    PROVE  LET p == Push(Push(g, "start"), "move")
           IN  /\ p \in Recognizer
               /\ Same(p, g)
               /\ Follows(p.held, p.open, Holding(g))
<1> DEFINE s == Push(g, "start")
<1>1. s \in Recognizer /\ Same(s, g) /\ Follows(s.held, s.open, Holding(g))
  BY PushStart
<1>2. s.state = {k} /\ s.tracked # <<>> /\ Holding(s) = Holding(g)
  BY <1>1 DEF Same, Holding
<1> HIDE DEF s
<1>3. /\ Push(s, "move") \in Recognizer
      /\ Same(Push(s, "move"), s)
      /\ Follows(Push(s, "move").held, Push(s, "move").open, Holding(s))
  BY <1>1, <1>2, PushMove
<1>4. Same(Push(s, "move"), g)
  BY <1>1, <1>3 DEF Same
<1> QED BY <1>2, <1>3, <1>4 DEF s

\* What is said of touches does not depend on what rfb.js was told.
LEMMA SameTouches ==
    ASSUME NEW p, NEW g, Same(p, g), NEW D
    PROVE  /\ Phases(p) <=> Phases(g)
           /\ Distinct(p) <=> Distinct(g)
           /\ Accounts(p, D) <=> Accounts(g, D)
           /\ Complete(p, D) <=> Complete(g, D)
           /\ Detected(p) <=> Detected(g)
           /\ SomeActive(p) <=> SomeActive(g)
           /\ \A f : ActiveIn(p, f) <=> ActiveIn(g, f)
           /\ Holding(p) = Holding(g)
<1>1. /\ p.state = g.state /\ p.tracked = g.tracked /\ p.ignored = g.ignored
      /\ p.waiting = g.waiting /\ p.released = g.released
      /\ p.press = g.press /\ p.two = g.two /\ p.err = g.err
  BY DEF Same
<1>2. /\ SomeActive(p) <=> SomeActive(g)
      /\ NoneIgnored(p) <=> NoneIgnored(g)
      /\ \A f : ActiveIn(p, f) <=> ActiveIn(g, f)
  BY <1>1 DEF SomeActive, NoneIgnored, ActiveIn
<1>3. Phases(p) <=> Phases(g)
  BY <1>1 DEF Phases
<1>4. Distinct(p) <=> Distinct(g)
  BY <1>1 DEF Distinct
<1>5. Accounts(p, D) <=> Accounts(g, D)
  BY <1>1 DEF Accounts
<1>6. Complete(p, D) <=> Complete(g, D)
  BY <1>1, <1>2 DEF Complete
<1>7. Detected(p) <=> Detected(g)
  BY <1>1, <1>2 DEF Detected
<1> QED BY <1>1, <1>2, <1>3, <1>4, <1>5, <1>6, <1>7 DEF Holding
-----------------------------------------------------------------------------
(* Touches that begin.                                                     *)

\* The gestures that hold a button are detected.
LEMMA Undetected ==
    ASSUME NEW g, ~Detected(g)
    PROVE  Holding(g) = {} /\ g.state \notin Movers
BY DetectedIs DEF Holding, Movers

\* No gesture is left is one of the things that can always be.
LEMMA NothingLeft ==
    ASSUME NEW n \in Nat
    PROVE  {} \in Waiting(n) /\ {} \in Open(n)
BY DEF Waiting, Open, OfOne, OfTwo

\* Without touches there is no gesture, and no timer runs.
LEMMA NoTouches ==
    ASSUME NEW g, Phases(g), g.tracked = <<>>
    PROVE  /\ g.state \in IF g.waiting THEN {Taps, {}} ELSE {Undecided, {}}
           /\ ~Detected(g) /\ Holding(g) = {}
           /\ g.press = Off /\ g.two # "due"
<1>1. Len(g.tracked) = 0
  OBVIOUS
<1>2. /\ g.state \in IF g.waiting THEN {Taps, {}} ELSE {Undecided, {}}
      /\ g.press = Off /\ g.two # "due"
  BY <1>1 DEF Phases, Waiting, Open
<1>3. g.state \notin Movers /\ g.state \notin LoneTaps
  BY <1>2, NotAlone
<1> QED BY <1>2, <1>3, DetectedIs, Undetected

\* The touches of a recognizer.
LEMMA Touches ==
    ASSUME NEW g \in Recognizer
    PROVE  /\ g.tracked \in Seq(Touch) /\ Len(g.tracked) \in Nat
           /\ DOMAIN g.tracked = 1 .. Len(g.tracked)
           /\ \A i \in DOMAIN g.tracked :
                 /\ g.tracked[i] \in Touch /\ g.tracked[i].id \in Fingers
                 /\ g.tracked[i].active \in BOOLEAN /\ g.tracked[i].far \in BOOLEAN
                 /\ g.tracked[i].age \in 0 .. TapTimeout
<1>1. g.tracked \in Seq(Touch)
  BY DEF Recognizer
<1>2. Len(g.tracked) \in Nat /\ DOMAIN g.tracked = 1 .. Len(g.tracked)
  BY <1>1
<1>3. \A i \in DOMAIN g.tracked : g.tracked[i] \in Touch
  BY <1>1, <1>2
<1> QED BY <1>1, <1>2, <1>3 DEF Touch

\* A finger that is not part of a gesture is ignored, and may spoil it.
LEMMA Ignores ==
    ASSUME NEW g, NEW D, NEW id \in Fingers, id \notin D, Sound(g, D),
           NEW r, r = [Ignore(g, id) EXCEPT !.state = r.state],
           r.state = g.state \/ (r.state = {} /\ ~Detected(g))
    PROVE  /\ Sound(r, D \cup {id})
           /\ Complete(g, D) /\ (g.tracked = <<>> => r.state = {}) => Complete(r, D \cup {id})
           /\ r.err = g.err
<1> DEFINE S == r.state
<1>1. g \in Recognizer /\ Phases(g) /\ Distinct(g) /\ Follows(g.held, g.open, Holding(g))
      /\ Accounts(g, D)
  BY DEF Sound
<1>2. g.ignored \in [Fingers -> Nat] /\ g.tracked \in Seq(Touch) /\ g.state \in SUBSET Undecided
  BY <1>1 DEF Recognizer
<1>3. S \in SUBSET Undecided
  BY <1>2
<1>4. /\ r \in Recognizer
      /\ r.state = S /\ r.tracked = g.tracked /\ r.waiting = g.waiting /\ r.press = g.press
      /\ r.two = g.two /\ r.err = g.err /\ r.held = g.held /\ r.open = g.open
      /\ r.ignored = [g.ignored EXCEPT ![id] = @ + 1]
  <2> DEFINE w == [g.ignored EXCEPT ![id] = @ + 1]
  <2>1. w \in [Fingers -> Nat]
    BY <1>2
  <2>2. Ignore(g, id) = [g EXCEPT !.ignored = w]
    BY DEF Ignore
  <2> HIDE DEF w, S
  <2>3. r = [g EXCEPT !.ignored = w, !.state = S]
    BY <2>2, <1>1 DEF Recognizer, S
  <2>4. /\ r \in Recognizer
        /\ r.state = S /\ r.tracked = g.tracked /\ r.waiting = g.waiting /\ r.press = g.press
        /\ r.two = g.two /\ r.err = g.err /\ r.held = g.held /\ r.open = g.open
        /\ r.ignored = w
    BY <2>1, <2>3, <1>1, <1>3 DEF Recognizer
  <2> QED BY <2>4 DEF w, S
<1>5. \A f \in Fingers : r.ignored[f] = IF f = id THEN g.ignored[f] + 1 ELSE g.ignored[f]
  BY <1>2, <1>4
<1>6. /\ \A f : ActiveIn(r, f) <=> ActiveIn(g, f)
      /\ SomeActive(r) <=> SomeActive(g)
  BY <1>4 DEF ActiveIn, SomeActive
<1>7. Phases(r)
  <2>1. Len(g.tracked) \in Nat
    BY <1>2
  <2> DEFINE T == IF g.waiting THEN Waiting(Len(g.tracked)) ELSE Open(Len(g.tracked))
  <2>2. {} \in T
    BY <2>1, NothingLeft
  <2>3. g.state \in T
    BY <1>1 DEF Phases
  <2>4. r.state \in T
    BY <2>2, <2>3, <1>4
  <2>5. r.press # Off => Len(r.tracked) = 1 /\ ~r.waiting /\ r.state \in {Undecided, {}}
    BY <1>1, <1>4 DEF Phases
  <2>6. r.two = "due" => Len(r.tracked) > 1 /\ r.state \in {{"twodrag", "pinch"}, {}}
    BY <1>1, <1>4 DEF Phases
  <2> QED BY <2>4, <2>5, <2>6, <1>4 DEF Phases
<1>8. Distinct(r)
  BY <1>1, <1>4 DEF Distinct
<1>9. Follows(r.held, r.open, Holding(r))
  <2>1. Holding(r) = Holding(g)
    <3>1. CASE S = g.state
      BY <3>1, <1>4 DEF Holding
    <3>2. CASE S = {} /\ ~Detected(g)
      BY <3>2, <1>4, Undetected DEF Holding
    <3> QED BY <3>1, <3>2
  <2> QED BY <2>1, <1>1, <1>4
<1>10. Accounts(r, D \cup {id})
  <2> SUFFICES ASSUME ~g.waiting
               PROVE  /\ \A i \in DOMAIN g.tracked :
                            /\ g.tracked[i].active /\ g.tracked[i].id \in D \cup {id}
                            /\ r.ignored[g.tracked[i].id] = 0
                      /\ \A f \in Fingers : r.ignored[f] > 0 => r.ignored[f] = 1 /\ f \in D \cup {id}
    BY <1>4 DEF Accounts
  <2>1. /\ \A i \in DOMAIN g.tracked :
            g.tracked[i].active /\ g.tracked[i].id \in D /\ g.ignored[g.tracked[i].id] = 0
        /\ \A f \in Fingers : g.ignored[f] > 0 => g.ignored[f] = 1 /\ f \in D
    BY <1>1 DEF Accounts
  <2>2. ASSUME NEW i \in DOMAIN g.tracked
        PROVE  /\ g.tracked[i].active /\ g.tracked[i].id \in D \cup {id}
               /\ r.ignored[g.tracked[i].id] = 0
    <3>1. g.tracked[i].id \in Fingers
      BY <1>1, Touches
    <3> QED BY <2>1, <3>1, <1>5
  <2>3. g.ignored[id] = 0
    BY <2>1, <1>2
  <2>4. ASSUME NEW f \in Fingers, r.ignored[f] > 0
        PROVE  r.ignored[f] = 1 /\ f \in D \cup {id}
    BY <2>1, <2>3, <2>4, <1>5
  <2> QED BY <2>2, <2>4
<1>11. ASSUME Complete(g, D), g.tracked = <<>> => S = {}
       PROVE  Complete(r, D \cup {id})
  <2>1. \A f \in Fingers : /\ f \in D <=> (ActiveIn(g, f) \/ g.ignored[f] > 0)
                           /\ g.ignored[f] <= 1
                           /\ ActiveIn(g, f) => g.ignored[f] = 0
    BY <1>11 DEF Complete
  <2>2. ~ActiveIn(g, id) /\ g.ignored[id] = 0
    BY <2>1, <1>2
  <2>3. ASSUME NEW f \in Fingers
        PROVE  /\ f \in D \cup {id} <=> (ActiveIn(r, f) \/ r.ignored[f] > 0)
               /\ r.ignored[f] <= 1
               /\ ActiveIn(r, f) => r.ignored[f] = 0
    <3>1. CASE f = id
      BY <3>1, <2>2, <1>5, <1>6
    <3>2. CASE f # id
      <4>1. r.ignored[f] = g.ignored[f] /\ (ActiveIn(r, f) <=> ActiveIn(g, f))
        BY <3>2, <1>5, <1>6
      <4> QED BY <4>1, <3>2, <2>1
    <3> QED BY <3>1, <3>2
  <2>4. ~NoneIgnored(r)
    BY <2>2, <1>5 DEF NoneIgnored
  <2>5. ~r.err /\ (r.tracked # <<>> => SomeActive(r))
    BY <1>11, <1>4, <1>6 DEF Complete
  <2>6. r.tracked = <<>> => r.state = {}
    BY <1>11, <1>4
  <2> QED BY <2>3, <2>4, <2>5, <2>6 DEF Complete
<1>12. Sound(r, D \cup {id})
  BY <1>4, <1>7, <1>8, <1>9, <1>10 DEF Sound
<1> QED BY <1>4, <1>11, <1>12

\* What one touch more leaves of the gestures, when no finger was lifted.
LEMMA OneMore ==
    ASSUME NEW n \in Nat, NEW S \in Open(n), S # {}, S \notin Movers
    PROVE  LET m == n + 1
               R == CASE m = 1 -> S
                      [] m = 2 -> S \ {"onetap", "drag", "longpress"}
                      [] m = 3 -> S \ {"twotap", "twodrag", "pinch"}
                      [] OTHER -> {}
           IN  /\ R \in Open(m)
               /\ R \in {Undecided, {"twotap", "threetap", "twodrag", "pinch"}, {"threetap"}, {}}
               /\ m = 1 => R = Undecided
<1>1. CASE n = 0
  BY <1>1, Remains DEF Open, OfOne
<1>2. CASE n = 1
  <2>1. S = Undecided
    BY <1>2 DEF Open, OfOne, Movers
  <2> QED BY <1>2, <2>1, Remains DEF Open, OfTwo
<1>3. CASE n = 2
  <2>1. S \in {{"twotap", "threetap", "twodrag", "pinch"}, {"twodrag", "pinch"}}
    BY <1>3 DEF Open, OfTwo, Movers
  <2> QED BY <1>3, <2>1, Remains DEF Open
<1>4. CASE n > 2
  BY <1>4 DEF Open
<1> QED BY <1>1, <1>2, <1>3, <1>4
\* A finger that joins the gesture.
LEMMA Joins ==
    ASSUME NEW g, NEW D, NEW id \in Fingers, id \notin D, Sound(g, D),
           ~Detected(g), g.state # {}, ~g.waiting,
           ~(g.tracked # <<>> /\ g.tracked[1].age > 0)
    PROVE  /\ Sound(TouchStart(g, id), D \cup {id})
           /\ Complete(g, D) => Complete(TouchStart(g, id), D \cup {id})
           /\ TouchStart(g, id).err = g.err
<1> DEFINE n == Len(g.tracked)
           t == [id |-> id, age |-> 0, active |-> TRUE, far |-> FALSE]
           R == CASE n + 1 = 1 -> g.state
                  [] n + 1 = 2 -> g.state \ {"onetap", "drag", "longpress"}
                  [] n + 1 = 3 -> g.state \ {"twotap", "twodrag", "pinch"}
                  [] OTHER -> {}
           P == CASE n + 1 = 1 -> TapTimeout [] n + 1 = 2 -> Off [] OTHER -> g.press
           r == [g EXCEPT !.tracked = Append(g.tracked, t), !.press = P, !.state = R]
<1>1. g \in Recognizer /\ Phases(g) /\ Distinct(g) /\ Follows(g.held, g.open, Holding(g))
      /\ Accounts(g, D)
  BY DEF Sound
<1>2. TouchStart(g, id) = r
  BY DEF TouchStart
<1>3. /\ g.tracked \in Seq(Touch) /\ n \in Nat /\ DOMAIN g.tracked = 1 .. n
      /\ \A i \in 1 .. n : g.tracked[i] \in Touch /\ g.tracked[i].id \in Fingers
  BY <1>1, Touches
<1>4. g.state \in Open(n) /\ g.state \notin Movers /\ Holding(g) = {}
  BY <1>1, Undetected DEF Phases
<1>5. /\ R \in Open(n + 1)
      /\ R \in {Undecided, {"twotap", "threetap", "twodrag", "pinch"}, {"threetap"}, {}}
      /\ n + 1 = 1 => R = Undecided
  BY <1>3, <1>4, OneMore
<1>6. R \in SUBSET Undecided
  BY <1>5 DEF Undecided, Taps
<1>7. P \in {Off} \cup 0 .. TapTimeout
  BY <1>1, GesturesAssumption DEF Recognizer
<1>8. P # Off => n = 0
  BY <1>1, <1>3 DEF Phases
<1>9. g.two = "due" => n > 1 /\ R = {}
  <2>1. g.two = "due" => n > 1 /\ g.state = {"twodrag", "pinch"}
    BY <1>1 DEF Phases
  <2> QED BY <2>1, <1>3, Remains
<1>10. t \in Touch
  BY GesturesAssumption DEF Touch
<1>11. /\ Append(g.tracked, t) \in Seq(Touch)
       /\ Len(Append(g.tracked, t)) = n + 1
       /\ DOMAIN Append(g.tracked, t) = 1 .. n + 1
       /\ \A i \in 1 .. n : Append(g.tracked, t)[i] = g.tracked[i]
       /\ Append(g.tracked, t)[n + 1] = t
  BY <1>3, <1>10
<1> HIDE DEF R, P
<1>12. /\ r \in Recognizer
       /\ r.state = R /\ r.press = P /\ r.tracked = Append(g.tracked, t)
       /\ r.ignored = g.ignored /\ r.waiting = g.waiting /\ r.two = g.two
       /\ r.held = g.held /\ r.open = g.open /\ r.err = g.err
  BY <1>1, <1>6, <1>7, <1>11 DEF Recognizer
<1> HIDE DEF r, n
<1>13. /\ Len(r.tracked) = n + 1 /\ DOMAIN r.tracked = 1 .. n + 1
       /\ \A i \in 1 .. n : r.tracked[i] = g.tracked[i]
       /\ r.tracked[n + 1] = t /\ t.id = id /\ t.active = TRUE
  BY <1>11, <1>12
<1>14. Phases(r)
  <2>1. r.state \in IF r.waiting THEN Waiting(Len(r.tracked)) ELSE Open(Len(r.tracked))
    BY <1>5, <1>12, <1>13
  <2>2. r.press # Off => Len(r.tracked) = 1 /\ ~r.waiting /\ r.state \in {Undecided, {}}
    BY <1>3, <1>5, <1>8, <1>12, <1>13
  <2>3. r.two = "due" => Len(r.tracked) > 1 /\ r.state \in {{"twodrag", "pinch"}, {}}
    BY <1>3, <1>9, <1>12, <1>13
  <2> QED BY <2>1, <2>2, <2>3 DEF Phases
<1>15. /\ \A i \in 1 .. n : /\ g.tracked[i].active /\ g.tracked[i].id \in D
                            /\ g.ignored[g.tracked[i].id] = 0
       /\ \A f \in Fingers : g.ignored[f] > 0 => g.ignored[f] = 1 /\ f \in D
  BY <1>1, <1>3 DEF Accounts
<1>16. g.ignored[id] = 0
  BY <1>15, <1>1 DEF Recognizer
<1>17. Distinct(r)
  <2> SUFFICES ASSUME NEW i \in 1 .. n + 1, NEW j \in 1 .. n + 1,
                      r.tracked[i].id = r.tracked[j].id
               PROVE  i = j
    BY <1>13 DEF Distinct
  <2>1. CASE i \in 1 .. n /\ j \in 1 .. n
    <3>1. g.tracked[i].id = g.tracked[j].id
      BY <2>1, <1>13
    <3>2. i \in DOMAIN g.tracked /\ j \in DOMAIN g.tracked
      BY <2>1, <1>3
    <3> QED BY <3>1, <3>2, <1>1 DEF Distinct
  <2>2. CASE i = n + 1 /\ j \in 1 .. n
    BY <2>2, <1>13, <1>15
  <2>3. CASE i \in 1 .. n /\ j = n + 1
    BY <2>3, <1>13, <1>15
  <2> QED BY <2>1, <2>2, <2>3, <1>3
<1>18. Holding(r) = {}
  <2>1. {"threetap"} \notin Movers
    BY NotAlone DEF LoneTaps
  <2>2. R \notin Movers
    BY <2>1, <1>5, NotAlone
  <2> QED BY <2>2, <1>12 DEF Holding, Movers
<1>19. Follows(r.held, r.open, Holding(r))
  BY <1>1, <1>4, <1>12, <1>18
<1>20. Accounts(r, D \cup {id})
  <2>1. ASSUME NEW i \in 1 .. n + 1
        PROVE  r.tracked[i].active /\ r.tracked[i].id \in D \cup {id} /\ r.ignored[r.tracked[i].id] = 0
    <3>1. CASE i \in 1 .. n
      BY <3>1, <1>12, <1>13, <1>15
    <3>2. CASE i = n + 1
      BY <3>2, <1>12, <1>13, <1>16
    <3> QED BY <3>1, <3>2, <1>3
  <2> QED BY <2>1, <1>12, <1>13, <1>15 DEF Accounts
<1>21. Sound(r, D \cup {id})
  BY <1>12, <1>14, <1>17, <1>19, <1>20 DEF Sound
<1>22. ASSUME NEW f PROVE ActiveIn(r, f) <=> ActiveIn(g, f) \/ f = id
  <2>1. ASSUME ActiveIn(r, f) PROVE ActiveIn(g, f) \/ f = id
    <3>1. PICK i \in 1 .. n + 1 : r.tracked[i].active /\ r.tracked[i].id = f
      BY <2>1, <1>13 DEF ActiveIn
    <3>2. CASE i \in 1 .. n
      BY <3>1, <3>2, <1>3, <1>13 DEF ActiveIn
    <3>3. CASE i = n + 1
      BY <3>1, <3>3, <1>13
    <3> QED BY <3>2, <3>3, <1>3
  <2>2. ASSUME ActiveIn(g, f) PROVE ActiveIn(r, f)
    <3>1. PICK i \in 1 .. n : g.tracked[i].active /\ g.tracked[i].id = f
      BY <2>2, <1>3 DEF ActiveIn
    <3>2. i \in 1 .. n + 1
      BY <1>3
    <3> QED BY <3>1, <3>2, <1>13 DEF ActiveIn
  <2>3. ASSUME f = id PROVE ActiveIn(r, f)
    <3>1. n + 1 \in 1 .. n + 1
      BY <1>3
    <3> QED BY <3>1, <2>3, <1>13 DEF ActiveIn
  <2> QED BY <2>1, <2>2, <2>3
<1>23. ASSUME Complete(g, D)
       PROVE  Complete(r, D \cup {id})
  <2>1. \A f \in Fingers : /\ f \in D <=> (ActiveIn(g, f) \/ g.ignored[f] > 0)
                           /\ g.ignored[f] <= 1
                           /\ ActiveIn(g, f) => g.ignored[f] = 0
    BY <1>23 DEF Complete
  <2>2. \A f \in Fingers : /\ f \in D \cup {id} <=> (ActiveIn(r, f) \/ r.ignored[f] > 0)
                           /\ r.ignored[f] <= 1
                           /\ ActiveIn(r, f) => r.ignored[f] = 0
    BY <2>1, <1>12, <1>16, <1>22
  <2>3. r.tracked # <<>>
    BY <1>3, <1>13
  <2>4. SomeActive(r)
    <3>1. n + 1 \in 1 .. n + 1
      BY <1>3
    <3> QED BY <3>1, <1>13 DEF SomeActive
  <2>5. ~r.err
    BY <1>12, <1>23 DEF Complete
  <2> QED BY <2>2, <2>3, <2>4, <2>5 DEF Complete
<1> QED BY <1>2, <1>12, <1>21, <1>23

\* The handler of a touch that begins.
LEMMA TouchStartSound ==
    ASSUME NEW g, NEW D, NEW id \in Fingers, id \notin D, Sound(g, D)
    PROVE  /\ Sound(TouchStart(g, id), D \cup {id})
           /\ Complete(g, D) => Complete(TouchStart(g, id), D \cup {id})
           /\ TouchStart(g, id).err = g.err
<1>1. g \in Recognizer /\ Phases(g)
  BY DEF Sound
<1>2. CASE Detected(g) \/ g.state = {}
  <2>1. TouchStart(g, id) = Ignore(g, id)
    BY <1>2 DEF TouchStart
  <2>2. Ignore(g, id) = [Ignore(g, id) EXCEPT !.state = g.state]
    BY <1>1 DEF Ignore, Recognizer
  <2>3. g.tracked = <<>> => g.state = {}
    BY <1>1, <1>2, NoTouches
  <2>4. Ignore(g, id).state = g.state
    BY <1>1 DEF Ignore, Recognizer
  <2> DEFINE r == Ignore(g, id)
  <2>5. r = [Ignore(g, id) EXCEPT !.state = r.state] /\ r.state = g.state
    BY <2>2, <2>4
  <2> HIDE DEF r
  <2>6. /\ Sound(r, D \cup {id})
        /\ Complete(g, D) /\ (g.tracked = <<>> => r.state = {}) => Complete(r, D \cup {id})
        /\ r.err = g.err
    BY <2>5, Ignores
  <2> QED BY <2>1, <2>3, <2>5, <2>6 DEF r
<1>3. CASE /\ ~Detected(g) /\ g.state # {}
           /\ (g.tracked # <<>> /\ g.tracked[1].age > 0) \/ g.waiting
  <2>1. TouchStart(g, id) = [Ignore(g, id) EXCEPT !.state = {}]
    BY <1>3 DEF TouchStart
  <2> DEFINE r == [Ignore(g, id) EXCEPT !.state = {}]
  <2>2. r.state = {}
    BY <1>1 DEF Ignore, Recognizer
  <2>3. r = [Ignore(g, id) EXCEPT !.state = r.state]
    <3>1. r = [Ignore(g, id) EXCEPT !.state = {}]
      OBVIOUS
    <3> HIDE DEF r
    <3> QED BY <2>2, <3>1
  <2> HIDE DEF r
  <2>4. /\ Sound(r, D \cup {id})
        /\ Complete(g, D) /\ (g.tracked = <<>> => r.state = {}) => Complete(r, D \cup {id})
        /\ r.err = g.err
    <3>1. ~Detected(g)
      BY <1>3
    <3>2. r.state = g.state \/ (r.state = {} /\ ~Detected(g))
      BY <3>1, <2>2
    <3> QED BY <3>2, <2>3, Ignores
  <2> QED BY <2>1, <2>2, <2>4 DEF r
<1>4. CASE /\ ~Detected(g) /\ g.state # {}
           /\ ~((g.tracked # <<>> /\ g.tracked[1].age > 0) \/ g.waiting)
  BY <1>4, Joins
<1> QED BY <1>2, <1>3, <1>4
-----------------------------------------------------------------------------
(* Touches that move, and timers.                                          *)

\* The same fingers, up or down as they were.
Alike(p, g) ==
    /\ DOMAIN p.tracked = DOMAIN g.tracked /\ Len(p.tracked) = Len(g.tracked)
    /\ \A i \in DOMAIN g.tracked : /\ p.tracked[i].id = g.tracked[i].id
                                   /\ p.tracked[i].active = g.tracked[i].active
    /\ p.ignored = g.ignored /\ p.waiting = g.waiting

LEMMA AlikeTouches ==
    ASSUME NEW p, NEW g, Alike(p, g), p \in Recognizer, g \in Recognizer, NEW D
    PROVE  /\ Distinct(g) => Distinct(p)
           /\ Accounts(g, D) => Accounts(p, D)
           /\ p.tracked = <<>> <=> g.tracked = <<>>
           /\ SomeActive(p) <=> SomeActive(g)
           /\ Complete(g, D) /\ g.tracked # <<>> /\ ~p.err => Complete(p, D)
<1>1. /\ DOMAIN p.tracked = DOMAIN g.tracked /\ Len(p.tracked) = Len(g.tracked)
      /\ \A i \in DOMAIN g.tracked : /\ p.tracked[i].id = g.tracked[i].id
                                     /\ p.tracked[i].active = g.tracked[i].active
      /\ p.ignored = g.ignored /\ p.waiting = g.waiting
  BY DEF Alike
<1>2. Distinct(g) => Distinct(p)
  BY <1>1 DEF Distinct
<1>3. Accounts(g, D) => Accounts(p, D)
  BY <1>1 DEF Accounts
<1>4. SomeActive(p) <=> SomeActive(g)
  BY <1>1 DEF SomeActive
<1>5. \A f : ActiveIn(p, f) <=> ActiveIn(g, f)
  BY <1>1 DEF ActiveIn
<1>6. p.tracked \in Seq(Touch) /\ g.tracked \in Seq(Touch)
  BY Touches
<1>7. p.tracked = <<>> <=> g.tracked = <<>>
  BY <1>1, <1>6
<1>8. ASSUME Complete(g, D), g.tracked # <<>>, ~p.err
      PROVE  Complete(p, D)
  BY <1>1, <1>4, <1>5, <1>7, <1>8 DEF Complete
<1> QED BY <1>2, <1>3, <1>4, <1>7, <1>8

\* What rfb.js was told changes no finger.
LEMMA SameAlike ==
    ASSUME NEW p, NEW g, NEW m, Same(p, m), Alike(m, g)
    PROVE  Alike(p, g)
BY DEF Same, Alike

\* A mark on one of the touches.
LEMMA Marks ==
    ASSUME NEW g \in Recognizer, NEW i \in DOMAIN g.tracked, NEW far \in BOOLEAN
    PROVE  LET m == [g EXCEPT !.tracked[i].far = far]
           IN  /\ m \in Recognizer
               /\ Alike(m, g)
               /\ m.state = g.state /\ m.press = g.press /\ m.two = g.two /\ m.err = g.err
               /\ m.held = g.held /\ m.open = g.open
<1> DEFINE t == [g.tracked EXCEPT ![i] = [@ EXCEPT !.far = far]]
           m == [g EXCEPT !.tracked[i].far = far]
<1>1. /\ g.tracked \in Seq(Touch) /\ DOMAIN g.tracked = 1 .. Len(g.tracked)
      /\ Len(g.tracked) \in Nat /\ g.tracked[i] \in Touch
  BY Touches
<1>2. /\ [g.tracked[i] EXCEPT !.far = far] \in Touch
      /\ [g.tracked[i] EXCEPT !.far = far].id = g.tracked[i].id
      /\ [g.tracked[i] EXCEPT !.far = far].active = g.tracked[i].active
  BY <1>1 DEF Touch
<1>3. /\ t \in Seq(Touch) /\ DOMAIN t = DOMAIN g.tracked /\ Len(t) = Len(g.tracked)
      /\ \A j \in DOMAIN g.tracked : t[j] = IF j = i THEN [g.tracked[i] EXCEPT !.far = far]
                                                     ELSE g.tracked[j]
  BY <1>1, <1>2
<1>4. \A j \in DOMAIN g.tracked : t[j].id = g.tracked[j].id /\ t[j].active = g.tracked[j].active
  BY <1>2, <1>3
<1>5. m = [g EXCEPT !.tracked = t]
  BY DEF Recognizer
<1> HIDE DEF m, t
<1>6. /\ m \in Recognizer /\ m.tracked = t
      /\ m.ignored = g.ignored /\ m.waiting = g.waiting
      /\ m.state = g.state /\ m.press = g.press /\ m.two = g.two /\ m.err = g.err
      /\ m.held = g.held /\ m.open = g.open
  BY <1>3, <1>5 DEF Recognizer
<1>7. Alike(m, g)
  BY <1>3, <1>4, <1>6 DEF Alike
<1> QED BY <1>6, <1>7 DEF m

\* R is what the movement of one of n touches can leave of S, in the row T of
\* the table.
LeftBy(n, X, T, S, R) ==
    /\ R \in T
    /\ R \in Movers \cup {{}} \/ (n = 2 /\ R = {"twodrag", "pinch"})
    /\ X = {} => R \in {{}, {"drag"}, {"twodrag", "pinch"}}
    /\ S = {} => R = {}

LEMMA MoveLeaves ==
    ASSUME NEW n \in Nat, n # 0, NEW X \in {{}, {"twodrag"}, {"pinch"}}, X # {} => n = 2,
           NEW T, T = Waiting(n) \/ T = Open(n), NEW S \in T, S \notin Movers,
           NEW R, R = S \ RuledOut(n, X)
    PROVE  LeftBy(n, X, T, S, R)
<1> USE DEF LeftBy
<1>1. Taps = {"onetap", "twotap", "threetap"} /\ Movers = {{"drag"}, {"longpress"}, {"twodrag"}, {"pinch"}}
  BY DEF Taps, Movers
<1>2. CASE S = {}
  <2>1. R = {}
    BY <1>2
  <2> QED BY <1>2, <2>1, NothingLeft
<1>3. CASE S \in LoneTaps
  <2>1. S \subseteq Taps
    BY <1>1, <1>3 DEF LoneTaps
  <2>2. R = {}
    BY <2>1 DEF RuledOut
  <2> QED BY <2>2, NothingLeft
<1>4. CASE S = Undecided /\ n = 1
  <2>1. S = {"onetap", "twotap", "threetap", "drag", "longpress", "twodrag", "pinch"}
    BY <1>4 DEF Undecided, Taps, Solid
  <2>2. RuledOut(n, X) = {"onetap", "twotap", "threetap", "longpress", "twodrag", "pinch"}
    <3>1. X = {}
      BY <1>4
    <3> QED BY <3>1, <1>1, <1>4 DEF RuledOut
  <2>3. R = {"drag"}
    BY <2>1, <2>2
  <2>4. T = Open(1)
    <3>1. Waiting(1) = {{"onetap"}, {}}
      BY DEF Waiting
    <3>2. "twotap" \in S
      BY <2>1
    <3>3. S \notin Waiting(1)
      BY <3>1, <3>2
    <3> QED BY <3>3, <1>4
  <2>5. R \in Open(1)
    BY <2>3 DEF Open, OfOne
  <2> QED BY <1>4, <2>1, <2>3, <2>4, <2>5, <1>1
<1>5. CASE n = 2 /\ S \in {{"twotap", "threetap", "twodrag", "pinch"}, {"twodrag", "pinch"}}
  <2>1. S \ ({"onetap", "twotap", "threetap", "longpress", "drag"}) = {"twodrag", "pinch"}
    BY <1>5
  <2>2. RuledOut(n, X) = {"onetap", "twotap", "threetap", "longpress", "drag"} \cup X
    BY <1>1, <1>5 DEF RuledOut
  <2>3. R = {"twodrag", "pinch"} \ X
    BY <2>1, <2>2
  <2>4. /\ X = {} => R = {"twodrag", "pinch"}
        /\ X = {"twodrag"} => R = {"pinch"}
        /\ X = {"pinch"} => R = {"twodrag"}
    BY <2>3
  <2>5. T = Open(2)
    <3>1. Waiting(2) = {{"twotap"}, {}, {"twodrag"}, {"pinch"}}
      BY DEF Waiting
    <3>2. "twodrag" \in S /\ "pinch" \in S
      BY <1>5
    <3>3. S \notin Waiting(2)
      BY <3>1, <3>2
    <3> QED BY <3>3, <1>5
  <2>6. R \in Open(2)
    BY <2>4 DEF Open, OfTwo
  <2>7. S # {}
    BY <1>5
  <2> QED BY <1>5, <2>4, <2>5, <2>6, <2>7, <1>1
<1>6. \/ S = {} \/ S \in LoneTaps \/ (S = Undecided /\ n = 1)
      \/ n = 2 /\ S \in {{"twotap", "threetap", "twodrag", "pinch"}, {"twodrag", "pinch"}}
  <2>1. CASE T = Waiting(n)
    <3>1. S \in {{"onetap"}, {"twotap"}, {"threetap"}, {}, {"twodrag"}, {"pinch"}}
      BY <2>1 DEF Waiting
    <3> QED BY <3>1, <1>1 DEF LoneTaps
  <2>2. CASE T = Open(n) /\ n = 1
    <3>1. S \in {Undecided, {}, {"drag"}, {"longpress"}}
      BY <2>2 DEF Open, OfOne
    <3> QED BY <2>2, <3>1, <1>1
  <2>3. CASE T = Open(n) /\ n = 2
    <3>1. S \in OfTwo
      BY <2>3 DEF Open
    <3> QED BY <2>3, <3>1, <1>1 DEF OfTwo
  <2>4. CASE T = Open(n) /\ n \notin {1, 2}
    <3>1. S \in {{"threetap"}, {}, {"twodrag"}, {"pinch"}}
      BY <2>4 DEF Open
    <3> QED BY <3>1, <1>1 DEF LoneTaps
  <2> QED BY <2>1, <2>2, <2>3, <2>4
<1> QED BY <1>2, <1>3, <1>4, <1>5, <1>6
\* What is alike and keeps to the table is sound.
LEMMA AlikeSound ==
    ASSUME NEW g, NEW D, Sound(g, D), NEW p \in Recognizer, Alike(p, g), Phases(p),
           Follows(p.held, p.open, Holding(p))
    PROVE  Sound(p, D)
BY AlikeTouches DEF Sound

\* A recognizer that goes on, after the gesture it has found was announced.
LEMMA Announces ==
    ASSUME NEW g, NEW D, Sound(g, D), NEW m \in Recognizer, Alike(m, g), Phases(m),
           NEW p \in Recognizer, Same(p, m), Follows(p.held, p.open, Holding(m))
    PROVE  /\ Sound(p, D)
           /\ Complete(g, D) /\ g.tracked # <<>> /\ ~m.err => Complete(p, D)
<1>1. Alike(p, g)
  BY SameAlike
<1>2. Phases(p) /\ Holding(p) = Holding(m)
  BY SameTouches
<1>3. Sound(p, D)
  BY <1>1, <1>2, AlikeSound
<1>4. p.err = m.err
  BY DEF Same
<1>5. g \in Recognizer
  BY DEF Sound
<1> QED BY <1>1, <1>3, <1>4, <1>5, AlikeTouches

\* The handler of a touch that moves.
LEMMA TouchMoveSound ==
    ASSUME NEW g, NEW D, NEW id \in Fingers, NEW far \in BOOLEAN, NEW apart \in BOOLEAN,
           Sound(g, D)
    PROVE  /\ Sound(TouchMove(g, id, far, apart), D)
           /\ Complete(g, D) /\ ~g.err => Complete(TouchMove(g, id, far, apart), D)
           /\ TouchMove(g, id, far, apart).err = g.err
<1>1. g \in Recognizer /\ Phases(g) /\ Follows(g.held, g.open, Holding(g))
  BY DEF Sound
<1>2. CASE ~Has(g, id)
  BY <1>2 DEF TouchMove
<1>3. CASE Has(g, id)
  <2> DEFINE i == Place(g, id)
             m == [g EXCEPT !.tracked[i].far = far]
             n == Len(m.tracked)
             both == n = 2 /\ m.tracked[3 - i].far
             X == IF ~both THEN {} ELSE IF apart THEN {"twodrag"} ELSE {"pinch"}
             R == m.state \ RuledOut(n, X)
             two == CASE both -> "off"
                      [] n = 2 /\ ~both /\ g.two = "off" -> "due"
                      [] OTHER -> m.two
             e == [m EXCEPT !.state = R, !.press = Off, !.two = two]
  <2>1. i \in DOMAIN g.tracked
    BY <1>3 DEF Has, Place
  <2>2. /\ m \in Recognizer /\ Alike(m, g)
        /\ m.state = g.state /\ m.press = g.press /\ m.two = g.two /\ m.err = g.err
        /\ m.held = g.held /\ m.open = g.open
    BY <1>1, <2>1, Marks
  <2>3. TouchMove(g, id, far, apart)
          = CASE Detected(m) -> Push(m, "move")
              [] ~Detected(m) /\ ~far -> m
              [] OTHER -> IF Detected(e) THEN Push(Push(e, "start"), "move") ELSE e
    BY <1>3 DEF TouchMove
  <2> HIDE DEF i, m
  <2>4. g.tracked # <<>> /\ m.tracked # <<>>
    <3>1. g.tracked # <<>>
      BY <2>1, <1>1, Touches
    <3> QED BY <3>1, <2>2, <1>1, AlikeTouches
  <2>5. n \in Nat \ {0} /\ n = Len(g.tracked) /\ both \in BOOLEAN
    <3>1. m.tracked \in Seq(Touch) /\ n \in Nat
      BY <2>2, Touches
    <3>2. n = Len(g.tracked)
      BY <2>2 DEF Alike
    <3>3. n # 0
      BY <2>4, <3>1
    <3> QED BY <3>1, <3>2, <3>3
  <2>6. Phases(m) /\ Holding(m) = Holding(g)
    <3>1. Len(m.tracked) = Len(g.tracked) /\ m.waiting = g.waiting
      BY <2>2 DEF Alike
    <3>2. Phases(m)
      BY <1>1, <2>2, <3>1 DEF Phases
    <3> QED BY <3>2, <2>2 DEF Holding
  <2>7. CASE Detected(m)
    <3>1. PICK k \in Undecided : m.state = {k}
      BY <2>7 DEF Detected
    <3> DEFINE p == Push(m, "move")
    <3>2. p \in Recognizer /\ Same(p, m) /\ Follows(p.held, p.open, Holding(m))
      BY <1>1, <2>2, <2>4, <2>6, <3>1, PushMove
    <3>3. TouchMove(g, id, far, apart) = p
      BY <2>3, <2>7
    <3> HIDE DEF p
    <3>4. Sound(p, D) /\ (Complete(g, D) /\ g.tracked # <<>> /\ ~m.err => Complete(p, D))
      BY <2>2, <2>6, <3>2, Announces
    <3>5. p.err = g.err
      BY <2>2, <3>2 DEF Same
    <3> QED BY <2>2, <2>4, <3>3, <3>4, <3>5
  <2>8. CASE ~Detected(m) /\ ~far
    <3>1. TouchMove(g, id, far, apart) = m
      BY <2>3, <2>8
    <3>2. Same(m, m)
      BY DEF Same
    <3>3. Follows(m.held, m.open, Holding(m))
      BY <1>1, <2>2, <2>6
    <3>4. Sound(m, D) /\ (Complete(g, D) /\ g.tracked # <<>> /\ ~m.err => Complete(m, D))
      BY <2>2, <2>6, <3>2, <3>3, Announces
    <3> QED BY <2>2, <2>4, <3>1, <3>4
  <2>9. CASE ~Detected(m) /\ far
    <3> HIDE DEF n, both
    <3>1. m.state \notin Movers /\ Holding(m) = {}
      BY <2>9, Undetected
    <3>2. m.state \in (IF m.waiting THEN Waiting(n) ELSE Open(n)) /\ m.waiting \in BOOLEAN
      BY <2>2, <2>6 DEF Phases, Recognizer, n
    <3>3. both => n = 2
      BY DEF both
    <3> DEFINE T == IF m.waiting THEN Waiting(n) ELSE Open(n)
    <3>4. /\ X \in {{}, {"twodrag"}, {"pinch"}}
          /\ both <=> X # {}
      OBVIOUS
    <3> HIDE DEF X, T
    <3>41. /\ R \in T
           /\ R \in Movers \cup {{}} \/ (n = 2 /\ R = {"twodrag", "pinch"})
           /\ X = {} => R \in {{}, {"drag"}, {"twodrag", "pinch"}}
           /\ m.state = {} => R = {}
      <4>1. n \in Nat /\ n # 0
        BY <2>5
      <4>2. T = Waiting(n) \/ T = Open(n)
        BY DEF T
      <4>3. m.state \in T
        BY <3>2 DEF T
      <4>4. X # {} => n = 2
        BY <3>3, <3>4
      <4>5. X \in {{}, {"twodrag"}, {"pinch"}}
        BY <3>4
      <4>6. m.state \notin Movers
        BY <3>1
      <4> DEFINE S == m.state
      <4>7. S \in T /\ S \notin Movers
        BY <4>3, <4>6
      <4>8. R = S \ RuledOut(n, X)
        OBVIOUS
      <4> HIDE DEF S, R
      <4>9. LeftBy(n, X, T, S, R)
        BY <4>1, <4>2, <4>4, <4>5, <4>7, <4>8, MoveLeaves
      <4> QED BY <4>9 DEF S, LeftBy
    <3> HIDE DEF R
    <3>5. R \in SUBSET Undecided
      BY <3>41 DEF Movers, Undecided, Taps, Solid
    <3>6. two \in {"off", "due", "fired"}
      BY <2>2 DEF Recognizer
    <3>7. two = "due" => n > 1 /\ R \in {{"twodrag", "pinch"}, {}}
      <4>1. CASE both
        BY <4>1
      <4>2. CASE n = 2 /\ ~both
        <5>1. R \in {{}, {"twodrag", "pinch"}}
          <6>1. R \in {{}, {"drag"}, {"twodrag", "pinch"}}
            BY <3>4, <3>41, <4>2
          <6>2. R # {"drag"}
            <7>1. "drag" \notin R
              BY <4>2 DEF R, RuledOut
            <7> QED BY <7>1
          <6> QED BY <6>1, <6>2
        <5> QED BY <4>2, <5>1
      <4>3. CASE n # 2
        <5>1. two = m.two
          BY <4>3, <3>3
        <5>2. m.two = "due" => n > 1 /\ m.state \in {{"twodrag", "pinch"}, {}}
          BY <2>6 DEF Phases, n
        <5>3. m.two = "due" => m.state = {}
          <6>1. ASSUME m.two = "due" PROVE m.state # {"twodrag", "pinch"}
            <7> HIDE DEF R
            <7>1. n > 1
              BY <5>2, <6>1
            <7>2. n \notin {0, 1, 2}
              <8>1. n \in Nat
                BY <2>5
              <8> QED BY <7>1, <8>1, <4>3
            <7>3. m.state \in {{"threetap"}, {}, {"twodrag"}, {"pinch"}}
              BY <3>2, <7>2 DEF Open, Waiting
            <7> QED BY <7>3
          <6> QED BY <5>2, <6>1
        <5> QED BY <3>41, <5>1, <5>2, <5>3
      <4> QED BY <4>1, <4>2, <4>3
    <3> HIDE DEF two
    <3>8. /\ e \in Recognizer
          /\ e.state = R /\ e.press = Off /\ e.two = two /\ e.tracked = m.tracked
          /\ e.ignored = m.ignored /\ e.waiting = m.waiting /\ e.err = m.err
          /\ e.held = m.held /\ e.open = m.open
      BY <2>2, <3>5, <3>6 DEF Recognizer
    <3> HIDE DEF e
    <3>9. Alike(e, g)
      BY <2>2, <3>8 DEF Alike
    <3>10. Phases(e)
      BY <3>41, <3>7, <3>8 DEF Phases, n, T
    <3>11. Follows(e.held, e.open, {})
      BY <1>1, <2>2, <2>6, <3>1, <3>8
    <3>12. CASE Detected(e)
      <4>1. PICK k \in Undecided : e.state = {k}
        BY <3>12 DEF Detected
      <4> DEFINE p == Push(Push(e, "start"), "move")
      <4>2. p \in Recognizer /\ Same(p, e) /\ Follows(p.held, p.open, Holding(e))
        BY <2>4, <3>8, <3>11, <4>1, PushOn
      <4>3. TouchMove(g, id, far, apart) = p
        BY <2>3, <2>9, <3>12
      <4> HIDE DEF p
      <4>4. Sound(p, D) /\ (Complete(g, D) /\ g.tracked # <<>> /\ ~e.err => Complete(p, D))
        BY <3>8, <3>9, <3>10, <4>2, Announces
      <4>5. p.err = g.err
        BY <2>2, <3>8, <4>2 DEF Same
      <4> QED BY <2>2, <2>4, <3>8, <4>3, <4>4, <4>5
    <3>13. CASE ~Detected(e)
      <4>1. TouchMove(g, id, far, apart) = e
        BY <2>3, <2>9, <3>13
      <4>2. Same(e, e) /\ Holding(e) = {}
        BY <3>13, Undetected DEF Same
      <4>3. Sound(e, D) /\ (Complete(g, D) /\ g.tracked # <<>> /\ ~e.err => Complete(e, D))
        BY <3>8, <3>9, <3>10, <3>11, <4>2, Announces
      <4> QED BY <2>2, <2>4, <3>8, <4>1, <4>3
    <3> QED BY <3>12, <3>13
  <2> QED BY <2>7, <2>8, <2>9
<1> QED BY <1>2, <1>3

\* The timer of a long press finds one finger that has not moved.
LEMMA LongpressSound ==
    ASSUME NEW g, NEW D, Sound(g, D), g.press = 0
    PROVE  /\ Sound(LongpressTimeout(g), D)
           /\ Complete(g, D) => Complete(LongpressTimeout(g), D)
<1>1. g \in Recognizer /\ Phases(g) /\ Follows(g.held, g.open, Holding(g))
  BY DEF Sound
<1>2. Len(g.tracked) = 1 /\ ~g.waiting /\ g.state \in {Undecided, {}}
  BY <1>1 DEF Phases, Off
<1>3. ~Detected(g) /\ Holding(g) = {}
  BY <1>2, DetectedIs, NotAlone, Undetected
<1> DEFINE m == [g EXCEPT !.press = Off, !.state = {"longpress"}]
           p == Push(m, "start")
<1>4. /\ m \in Recognizer
      /\ m.state = {"longpress"} /\ m.press = Off /\ m.two = g.two /\ m.tracked = g.tracked
      /\ m.ignored = g.ignored /\ m.waiting = g.waiting /\ m.err = g.err
      /\ m.held = g.held /\ m.open = g.open
  BY <1>1 DEF Recognizer, Undecided, Solid
<1>5. LongpressTimeout(g) = p
  BY <1>3 DEF LongpressTimeout
<1> HIDE DEF m
<1>6. g.tracked # <<>>
  <2>1. Len(g.tracked) = 1
    BY <1>2
  <2> QED BY <2>1
<1>7. p \in Recognizer /\ Same(p, m) /\ Follows(p.held, p.open, Holding(m))
  <2>1. "longpress" \in Undecided
    BY DEF Undecided, Solid
  <2> QED BY <2>1, <1>1, <1>3, <1>4, <1>6, PushStart
<1> HIDE DEF p
<1>8. Alike(m, g)
  BY <1>4 DEF Alike
<1>9. Phases(m)
  <2>1. Len(g.tracked) = 1
    BY <1>2
  <2>2. g.two = "due" => Len(g.tracked) > 1
    BY <1>1 DEF Phases
  <2>3. m.two # "due" /\ Len(m.tracked) = 1
    BY <2>1, <2>2, <1>4
  <2>4. m.state \in Open(1)
    BY <1>4 DEF Open, OfOne
  <2> QED BY <2>3, <2>4, <1>2, <1>4 DEF Phases
<1>10. Sound(p, D) /\ (Complete(g, D) /\ g.tracked # <<>> /\ ~m.err => Complete(p, D))
  BY <1>4, <1>7, <1>8, <1>9, Announces
<1>11. Complete(g, D) => ~m.err
  BY <1>4 DEF Complete
<1> QED BY <1>5, <1>6, <1>10, <1>11

\* The timer that decides between two gestures finds two fingers.
LEMMA TwoTouchSound ==
    ASSUME NEW g, NEW D, Sound(g, D), g.two = "due", NEW kind \in {"pinch", "twodrag"}
    PROVE  /\ Sound(TwoTouchTimeout(g, kind), D)
           /\ Complete(g, D) => Complete(TwoTouchTimeout(g, kind), D)
<1>1. g \in Recognizer /\ Phases(g) /\ Follows(g.held, g.open, Holding(g))
  BY DEF Sound
<1>2. /\ Len(g.tracked) > 1 /\ Len(g.tracked) \in Nat
      /\ g.state \in {{"twodrag", "pinch"}, {}} /\ g.press = Off
  BY <1>1, Touches DEF Phases
<1>3. Holding(g) = {}
  BY <1>2, NotAlone DEF Holding, Movers
<1> DEFINE m == [g EXCEPT !.two = "fired", !.state = {kind}]
           p == Push(Push(m, "start"), "move")
<1>4. /\ m \in Recognizer
      /\ m.state = {kind} /\ m.press = Off /\ m.two = "fired" /\ m.tracked = g.tracked
      /\ m.ignored = g.ignored /\ m.waiting = g.waiting /\ m.err = g.err
      /\ m.held = g.held /\ m.open = g.open
  BY <1>1, <1>2 DEF Recognizer, Undecided
<1>5. g.tracked # <<>>
  BY <1>2
<1>6. TwoTouchTimeout(g, kind) = p
  <2>1. m = [[g EXCEPT !.two = "fired"] EXCEPT !.state = {kind}]
    BY <1>1 DEF Recognizer
  <2> QED BY <2>1, <1>5 DEF TwoTouchTimeout
<1> HIDE DEF m
<1>7. p \in Recognizer /\ Same(p, m) /\ Follows(p.held, p.open, Holding(m))
  <2>1. kind \in Undecided
    BY DEF Undecided
  <2> QED BY <2>1, <1>1, <1>3, <1>4, <1>5, PushOn
<1> HIDE DEF p
<1>8. Alike(m, g)
  BY <1>4 DEF Alike
<1>9. Phases(m)
  <2>1. {kind} \in Waiting(Len(g.tracked)) /\ {kind} \in Open(Len(g.tracked))
    <3>1. {kind} \in {{"twodrag"}, {"pinch"}}
      OBVIOUS
    <3> DEFINE n == Len(g.tracked)
    <3>a. n > 1 /\ n \in Nat
      BY <1>2
    <3> HIDE DEF n
    <3>2. n # 0 /\ n # 1
      BY <3>a
    <3>3. n # 0 /\ n # 1 => {kind} \in Waiting(n) /\ {kind} \in Open(n)
      BY <3>1 DEF Waiting, Open, OfTwo
    <3> QED BY <3>2, <3>3 DEF n
  <2> QED BY <2>1, <1>4 DEF Phases
<1>10. Sound(p, D) /\ (Complete(g, D) /\ g.tracked # <<>> /\ ~m.err => Complete(p, D))
  BY <1>4, <1>7, <1>8, <1>9, Announces
<1>11. Complete(g, D) => ~m.err
  BY <1>4 DEF Complete
<1> QED BY <1>5, <1>6, <1>10, <1>11
-----------------------------------------------------------------------------
(* Touches that end.                                                       *)

\* Every finger but id is on the screen just when it is tracked or ignored.
Others(g, D, id) ==
    \A f \in Fingers \ {id} : /\ f \in D <=> (ActiveIn(g, f) \/ g.ignored[f] > 0)
                              /\ g.ignored[f] <= 1
                              /\ ActiveIn(g, f) => g.ignored[f] = 0

\* A recognizer that finishes has no touches, and ignores those it had.
Finished(p, g, id) ==
    /\ p \in Recognizer
    /\ p.tracked = <<>>
    /\ \A f \in Fingers : p.ignored[f] = IF f = id THEN 0
                                         ELSE IF ActiveIn(g, f) THEN g.ignored[f] + 1
                                         ELSE g.ignored[f]
    /\ p.state = IF NoneIgnored(p) THEN Undecided ELSE {}
    /\ p.waiting = IF NoneIgnored(p) THEN FALSE ELSE g.waiting
    /\ p.press = g.press /\ p.two = g.two /\ p.err = g.err
    /\ p.held = g.held /\ p.open = g.open

LEMMA FinishIs ==
    ASSUME NEW g \in Recognizer, NEW id \in Fingers, g.ignored[id] = 0,
           NEW p, p = Finish(g, id)
    PROVE  Finished(p, g, id)
<1> USE DEF Finished
<1> DEFINE left == [f \in Fingers |-> g.ignored[f]
                      + IF \E i \in DOMAIN g.tracked : g.tracked[i].active /\ g.tracked[i].id = f
                        THEN 1 ELSE 0]
           ig == [left EXCEPT ![id] = IF @ > 0 THEN @ - 1 ELSE 0]
           r == [g EXCEPT !.ignored = ig, !.tracked = <<>>, !.state = {}]
<1>1. g.ignored \in [Fingers -> Nat]
  BY DEF Recognizer
<1>2. \A f \in Fingers : left[f] = IF ActiveIn(g, f) THEN g.ignored[f] + 1 ELSE g.ignored[f]
  BY <1>1 DEF ActiveIn
<1>3. left \in [Fingers -> Nat]
  BY <1>1
<1> HIDE DEF left
<1>4. ig \in [Fingers -> Nat]
  BY <1>3
<1>5. \A f \in Fingers : ig[f] = IF f = id THEN 0 ELSE left[f]
  BY <1>2, <1>3
<1> HIDE DEF ig
<1>6. <<>> \in Seq(Touch)
  OBVIOUS
<1>7. /\ r \in Recognizer
      /\ r.tracked = <<>> /\ r.ignored = ig /\ r.state = {} /\ r.waiting = g.waiting
      /\ r.press = g.press /\ r.two = g.two /\ r.err = g.err
      /\ r.held = g.held /\ r.open = g.open
  BY <1>4, <1>6 DEF Recognizer
<1>8. p = IF NoneIgnored(r) THEN Reset(r) ELSE r
  BY DEF Finish, ig, left
<1> HIDE DEF r
<1>9. /\ Reset(r) \in Recognizer
      /\ Reset(r).tracked = <<>> /\ Reset(r).ignored = ig /\ Reset(r).state = Undecided
      /\ Reset(r).waiting = FALSE
      /\ Reset(r).press = g.press /\ Reset(r).two = g.two /\ Reset(r).err = g.err
      /\ Reset(r).held = g.held /\ Reset(r).open = g.open
  BY <1>7 DEF Reset, Recognizer
<1>10. p.ignored = ig
  BY <1>7, <1>8, <1>9
<1>11. NoneIgnored(p) <=> NoneIgnored(r)
  BY <1>7, <1>10 DEF NoneIgnored
<1>12. \A f \in Fingers : p.ignored[f] = IF f = id THEN 0
                                         ELSE IF ActiveIn(g, f) THEN g.ignored[f] + 1
                                         ELSE g.ignored[f]
  BY <1>2, <1>5, <1>10
<1>13. CASE NoneIgnored(r)
  BY <1>8, <1>9, <1>11, <1>12, <1>13
<1>14. CASE ~NoneIgnored(r)
  BY <1>7, <1>8, <1>11, <1>12, <1>14
<1> QED BY <1>13, <1>14

LEMMA FinishSound ==
    ASSUME NEW g \in Recognizer, NEW D, NEW id \in Fingers, g.ignored[id] = 0,
           Accounts(g, D), g.press = Off, g.two # "due", Follows(g.held, g.open, {}),
           NEW p, p = Finish(g, id)
    PROVE  /\ Sound(p, D \ {id})
           /\ ~g.err /\ Others(g, D, id) => Complete(p, D \ {id})
           /\ p.err = g.err
<1>1. /\ p \in Recognizer
      /\ p.tracked = <<>>
      /\ \A f \in Fingers : p.ignored[f] = IF f = id THEN 0
                                           ELSE IF ActiveIn(g, f) THEN g.ignored[f] + 1
                                           ELSE g.ignored[f]
      /\ p.state = IF NoneIgnored(p) THEN Undecided ELSE {}
      /\ p.waiting = IF NoneIgnored(p) THEN FALSE ELSE g.waiting
      /\ p.press = g.press /\ p.two = g.two /\ p.err = g.err
      /\ p.held = g.held /\ p.open = g.open
  <2>1. Finished(p, g, id)
    BY FinishIs
  <2> QED BY <2>1 DEF Finished
<1>2. g.ignored \in [Fingers -> Nat]
  BY DEF Recognizer
<1>3. Phases(p)
  <2>1. Len(p.tracked) = 0
    BY <1>1
  <2>2. p.state \in IF p.waiting THEN Waiting(0) ELSE Open(0)
    BY <1>1 DEF Waiting, Open
  <2> QED BY <1>1, <2>1, <2>2 DEF Phases
<1>4. Distinct(p)
  BY <1>1 DEF Distinct
<1>5. Holding(p) = {}
  BY <1>1, <1>3, NoTouches
<1>6. Accounts(p, D \ {id})
  <2> SUFFICES ASSUME ~p.waiting, NEW f \in Fingers, p.ignored[f] > 0
               PROVE  p.ignored[f] = 1 /\ f \in D \ {id}
    BY <1>1 DEF Accounts
  <2>1. ~NoneIgnored(p)
    BY DEF NoneIgnored
  <2>2. ~g.waiting
    BY <1>1, <2>1
  <2>3. f # id
    BY <1>1
  <2>4. \A i \in DOMAIN g.tracked :
           g.tracked[i].active /\ g.tracked[i].id \in D /\ g.ignored[g.tracked[i].id] = 0
    BY <2>2 DEF Accounts
  <2>5. g.ignored[f] > 0 => g.ignored[f] = 1 /\ f \in D
    BY <2>2 DEF Accounts
  <2>6. ActiveIn(g, f) => f \in D /\ g.ignored[f] = 0
    BY <2>4 DEF ActiveIn
  <2>7. CASE ActiveIn(g, f)
    BY <2>3, <2>6, <2>7, <1>1
  <2>8. CASE ~ActiveIn(g, f)
    BY <2>3, <2>5, <2>8, <1>1
  <2> QED BY <2>7, <2>8
<1>7. Sound(p, D \ {id})
  BY <1>1, <1>3, <1>4, <1>5, <1>6 DEF Sound
<1>8. ASSUME ~g.err, Others(g, D, id)
      PROVE  Complete(p, D \ {id})
  <2>1. \A f : ~ActiveIn(p, f)
    BY <1>1 DEF ActiveIn
  <2>2. ASSUME NEW f \in Fingers
        PROVE  (f \in D \ {id} <=> p.ignored[f] > 0) /\ p.ignored[f] <= 1
    <3>1. CASE f = id
      BY <1>1, <3>1
    <3>2. CASE f # id
      <4>1. /\ f \in D <=> (ActiveIn(g, f) \/ g.ignored[f] > 0)
            /\ g.ignored[f] <= 1
            /\ ActiveIn(g, f) => g.ignored[f] = 0
            /\ g.ignored[f] \in Nat
        BY <1>2, <1>8, <3>2 DEF Others
      <4>2. CASE ActiveIn(g, f)
        BY <1>1, <3>2, <4>1, <4>2
      <4>3. CASE ~ActiveIn(g, f)
        BY <1>1, <3>2, <4>1, <4>3
      <4> QED BY <4>2, <4>3
    <3> QED BY <3>1, <3>2
  <2>3. IF NoneIgnored(p) THEN p.state = Undecided /\ ~p.waiting ELSE p.state = {}
    BY <1>1
  <2> QED BY <1>1, <1>8, <2>1, <2>2, <2>3 DEF Complete
<1> QED BY <1>1, <1>7, <1>8

\* The end of a touch that the recognizer only waits for.
LEMMA IgnoredEndSound ==
    ASSUME NEW g, NEW D, NEW id \in Fingers, Sound(g, D), g.ignored[id] > 0,
           NEW p, p = IgnoredEnd(g, id)
    PROVE  /\ Sound(p, D \ {id})
           /\ Complete(g, D) => Complete(p, D \ {id})
           /\ p.err = g.err
<1>1. g \in Recognizer /\ Phases(g) /\ Distinct(g) /\ Follows(g.held, g.open, Holding(g))
      /\ Accounts(g, D)
  BY DEF Sound
<1>2. g.ignored \in [Fingers -> Nat]
  BY <1>1 DEF Recognizer
<1> DEFINE w == [g.ignored EXCEPT ![id] = @ - 1]
           r == [g EXCEPT !.ignored[id] = @ - 1]
<1>3. w \in [Fingers -> Nat]
  BY <1>2
<1>4. \A f \in Fingers : w[f] = IF f = id THEN g.ignored[f] - 1 ELSE g.ignored[f]
  BY <1>2
<1>5. r = [g EXCEPT !.ignored = w]
  BY <1>1 DEF Recognizer
<1>6. p = IF NoneIgnored(r) /\ r.tracked = <<>> THEN Reset(r) ELSE r
  BY DEF IgnoredEnd
<1> HIDE DEF w, r
<1>7. /\ r \in Recognizer
      /\ r.state = g.state /\ r.tracked = g.tracked /\ r.waiting = g.waiting /\ r.press = g.press
      /\ r.two = g.two /\ r.err = g.err /\ r.held = g.held /\ r.open = g.open
      /\ r.ignored = w
  BY <1>1, <1>3, <1>5 DEF Recognizer
<1>8. /\ \A f : ActiveIn(r, f) <=> ActiveIn(g, f)
      /\ SomeActive(r) <=> SomeActive(g)
  BY <1>7 DEF ActiveIn, SomeActive
<1>9. Phases(r) /\ Distinct(r) /\ Holding(r) = Holding(g)
  BY <1>1, <1>7 DEF Phases, Distinct, Holding
<1>10. Accounts(r, D \ {id})
  <2> SUFFICES ASSUME ~g.waiting
               PROVE  /\ \A i \in DOMAIN g.tracked :
                            /\ g.tracked[i].active /\ g.tracked[i].id \in D \ {id}
                            /\ w[g.tracked[i].id] = 0
                      /\ \A f \in Fingers : w[f] > 0 => w[f] = 1 /\ f \in D \ {id}
    BY <1>7 DEF Accounts
  <2>1. /\ \A i \in DOMAIN g.tracked :
            g.tracked[i].active /\ g.tracked[i].id \in D /\ g.ignored[g.tracked[i].id] = 0
        /\ \A f \in Fingers : g.ignored[f] > 0 => g.ignored[f] = 1 /\ f \in D
    BY <1>1 DEF Accounts
  <2>2. ASSUME NEW i \in DOMAIN g.tracked
        PROVE  /\ g.tracked[i].active /\ g.tracked[i].id \in D \ {id}
               /\ w[g.tracked[i].id] = 0
    <3>1. g.tracked[i].id \in Fingers
      BY <1>1, Touches
    <3>2. g.tracked[i].id # id
      BY <2>1
    <3> QED BY <2>1, <3>1, <3>2, <1>4
  <2>3. ASSUME NEW f \in Fingers, w[f] > 0
        PROVE  w[f] = 1 /\ f \in D \ {id}
    <3>1. CASE f = id
      BY <2>1, <2>3, <3>1, <1>2, <1>4
    <3>2. CASE f # id
      BY <2>1, <2>3, <3>2, <1>4
    <3> QED BY <3>1, <3>2
  <2> QED BY <2>2, <2>3
<1>11. ASSUME Complete(g, D)
       PROVE  \A f \in Fingers : /\ f \in D \ {id} <=> (ActiveIn(g, f) \/ w[f] > 0)
                                 /\ w[f] <= 1
                                 /\ ActiveIn(g, f) => w[f] = 0
  <2> SUFFICES ASSUME NEW f \in Fingers
               PROVE  /\ f \in D \ {id} <=> (ActiveIn(g, f) \/ w[f] > 0)
                      /\ w[f] <= 1
                      /\ ActiveIn(g, f) => w[f] = 0
    OBVIOUS
  <2>1. /\ f \in D <=> (ActiveIn(g, f) \/ g.ignored[f] > 0)
        /\ g.ignored[f] <= 1
        /\ ActiveIn(g, f) => g.ignored[f] = 0
        /\ g.ignored[f] \in Nat
    BY <1>2, <1>11 DEF Complete
  <2>2. CASE f = id
    <3>1. ~ActiveIn(g, f) /\ w[f] = 0
      BY <2>1, <2>2, <1>4
    <3> QED BY <3>1, <2>2
  <2>3. CASE f # id
    <3>1. w[f] = g.ignored[f]
      BY <2>3, <1>4
    <3> QED BY <3>1, <2>1, <2>3
  <2> QED BY <2>2, <2>3
<1>12. CASE NoneIgnored(r) /\ r.tracked = <<>>
  <2>1. p = Reset(r)
    BY <1>6, <1>12
  <2>2. /\ p \in Recognizer
        /\ p.state = Undecided /\ p.tracked = <<>> /\ p.waiting = FALSE /\ p.press = g.press
        /\ p.two = g.two /\ p.err = g.err /\ p.held = g.held /\ p.open = g.open
        /\ p.ignored = w
    BY <1>7, <1>12, <2>1 DEF Reset, Recognizer
  <2>3. Holding(g) = {} /\ g.press = Off /\ g.two # "due"
    BY <1>1, <1>7, <1>12, NoTouches
  <2>4. Phases(p)
    <3>1. Len(p.tracked) = 0
      BY <2>2
    <3>2. p.state \in Open(0)
      BY <2>2 DEF Open
    <3> QED BY <2>2, <2>3, <3>1, <3>2 DEF Phases
  <2>5. Holding(p) = {}
    BY <2>2, <2>4, NoTouches
  <2>6. NoneIgnored(p)
    BY <1>7, <1>12, <2>2 DEF NoneIgnored
  <2>7. Accounts(p, D \ {id}) /\ Distinct(p)
    BY <2>2, <2>6 DEF Accounts, NoneIgnored, Distinct
  <2>8. Sound(p, D \ {id})
    BY <1>1, <2>2, <2>3, <2>4, <2>5, <2>7 DEF Sound
  <2>9. ASSUME Complete(g, D)
        PROVE  Complete(p, D \ {id})
    <3>1. \A f : ~ActiveIn(p, f) /\ ~ActiveIn(g, f)
      BY <1>7, <1>12, <2>2 DEF ActiveIn
    <3>2. ~p.err
      BY <2>2, <2>9 DEF Complete
    <3> QED BY <1>11, <2>2, <2>6, <2>9, <3>1, <3>2 DEF Complete
  <2> QED BY <2>2, <2>8, <2>9
<1>13. CASE ~(NoneIgnored(r) /\ r.tracked = <<>>)
  <2>1. p = r
    BY <1>6, <1>13
  <2>2. Sound(r, D \ {id})
    BY <1>1, <1>7, <1>9, <1>10 DEF Sound
  <2>3. ASSUME Complete(g, D)
        PROVE  Complete(r, D \ {id})
    <3>1. ~NoneIgnored(g)
      BY <1>2 DEF NoneIgnored
    <3>2. r.tracked = <<>> => ~NoneIgnored(r) /\ r.state = {}
      BY <1>7, <1>13, <2>3, <3>1 DEF Complete
    <3>3. ~r.err /\ (r.tracked # <<>> => SomeActive(r))
      BY <1>7, <1>8, <2>3 DEF Complete
    <3>4. \A f \in Fingers : /\ f \in D \ {id} <=> (ActiveIn(r, f) \/ r.ignored[f] > 0)
                             /\ r.ignored[f] <= 1
                             /\ ActiveIn(r, f) => r.ignored[f] = 0
      BY <1>7, <1>8, <1>11, <2>3
    <3> QED BY <3>2, <3>3, <3>4 DEF Complete
  <2> QED BY <1>7, <2>1, <2>2, <2>3
<1> QED BY <1>12, <1>13
\* What a lifted finger leaves of the gestures: taps, of as many fingers as
\* there are.
LEMMA TapsLeft ==
    ASSUME NEW n \in Nat, NEW S, S \notin Movers, NEW F,
           \/ S \in Waiting(n) /\ F = {}
           \/ S \in Open(n) /\ F = CASE n = 1 -> {"twotap", "threetap"}
                                     [] n = 2 -> {"onetap", "threetap"}
                                     [] OTHER -> {}
    PROVE  (S \cap Taps) \ F \in Waiting(n)
<1>1. {"onetap"} \in LoneTaps /\ {"twotap"} \in LoneTaps /\ {"threetap"} \in LoneTaps
  BY DEF LoneTaps
<1>2. CASE S = {}
  BY <1>2, NothingLeft
<1>3. CASE S \in Waiting(n) /\ F = {} /\ S # {}
  <2>1. S = Taps \/ S \in LoneTaps
    BY <1>1, <1>3 DEF Waiting, Movers
  <2>2. (S \cap Taps) \ F = S
    BY <1>3, <2>1, Remains
  <2> QED BY <1>3, <2>2
<1>4. CASE n = 0 /\ S \in Open(n) /\ F = {} /\ S # {}
  <2>1. S = Undecided
    BY <1>4 DEF Open
  <2>2. (S \cap Taps) \ F = Taps
    BY <1>4, <2>1, Remains
  <2> QED BY <1>4, <2>2 DEF Waiting
<1>5. CASE n = 1 /\ S \in Open(n) /\ F = {"twotap", "threetap"} /\ S # {}
  <2>1. S = Undecided
    BY <1>5 DEF Open, OfOne, Movers
  <2>2. (S \cap Taps) \ F = {"onetap"}
    BY <1>5, <2>1, Remains
  <2> QED BY <1>5, <2>2 DEF Waiting
<1>6. CASE n = 2 /\ S \in Open(n) /\ F = {"onetap", "threetap"} /\ S # {}
  <2>1. S \in {{"twotap", "threetap", "twodrag", "pinch"}, {"twodrag", "pinch"}}
    BY <1>6 DEF Open, OfTwo, Movers
  <2>2. (S \cap Taps) \ F \in {{"twotap"}, {}}
    BY <1>6, <2>1, Remains
  <2> QED BY <1>6, <2>2 DEF Waiting
<1>7. CASE n \notin {0, 1, 2} /\ S \in Open(n) /\ F = {} /\ S # {}
  <2>1. S = {"threetap"}
    BY <1>7 DEF Open, Movers
  <2>2. (S \cap Taps) \ F = S
    BY <1>1, <1>7, <2>1, Remains
  <2> QED BY <1>7, <2>1, <2>2 DEF Waiting
<1> QED BY <1>2, <1>3, <1>4, <1>5, <1>6, <1>7

\* What waits for fingers to be lifted is a tap, or a gesture that a timer chose.
LEMMA WaitingIs ==
    ASSUME NEW n \in Nat, NEW S \in Waiting(n)
    PROVE  /\ S \notin {{"drag"}, {"longpress"}}
           /\ n # 0 => S \in Movers \cup LoneTaps \cup {{}}
           /\ S \in SUBSET Undecided
<1>1. S \in {Taps, {}, {"onetap"}, {"twotap"}, {"threetap"}, {"twodrag"}, {"pinch"}}
  BY DEF Waiting
<1>2. Taps \notin Movers
  BY NotAlone
<1>3. S \notin {{"drag"}, {"longpress"}}
  BY <1>1, <1>2 DEF Movers
<1>4. n # 0 => S \in Movers \cup LoneTaps \cup {{}}
  BY DEF Waiting, Movers, LoneTaps
<1>5. S \in SUBSET Undecided
  BY <1>1 DEF Undecided, Taps
<1> QED BY <1>3, <1>4, <1>5

\* The first finger that is lifted starts the wait for the others.
Lifted(b, g) ==
    /\ b \in Recognizer
    /\ b.state \in Waiting(Len(g.tracked)) /\ b.waiting = TRUE
    /\ b.tracked = g.tracked /\ b.ignored = g.ignored /\ b.err = g.err
    /\ b.press = Off /\ b.two # "due"
    /\ Follows(b.held, b.open, {})

LEMMA LiftIs ==
    ASSUME NEW g, NEW D, Sound(g, D), ~Detected(g), NEW b, b = Lift(g)
    PROVE  Lifted(b, g)
<1>1. g \in Recognizer /\ Phases(g) /\ Follows(g.held, g.open, Holding(g))
  BY DEF Sound
<1> DEFINE a == IF g.two # "off" THEN [g EXCEPT !.state = {}, !.two = "off"] ELSE g
           n == Len(a.tracked)
           F == CASE a.waiting -> {}
                  [] ~a.waiting /\ n = 1 -> {"twotap", "threetap"}
                  [] ~a.waiting /\ n = 2 -> {"onetap", "threetap"}
                  [] OTHER -> {}
           R == (a.state \cap Taps) \ F
           V == IF a.waiting THEN a.released ELSE 0
<1>2. /\ a \in Recognizer
      /\ a.state \in {g.state, {}} /\ a.two = "off" /\ a.tracked = g.tracked
      /\ a.ignored = g.ignored /\ a.waiting = g.waiting /\ a.err = g.err
      /\ a.held = g.held /\ a.open = g.open
  BY <1>1 DEF Recognizer
<1>3. b = [a EXCEPT !.state = R, !.press = Off, !.waiting = TRUE, !.released = V]
  BY DEF Lift
<1> HIDE DEF a
<1>4. n \in Nat /\ n = Len(g.tracked)
  BY <1>1, <1>2, Touches
<1>5. g.state \notin Movers /\ {} \notin Movers /\ Holding(g) = {}
  BY Undetected, NotAlone
<1>6. a.state \notin Movers
  BY <1>2, <1>5
<1>7. a.waiting \in BOOLEAN
  BY <1>2 DEF Recognizer
<1>8. a.state \in IF a.waiting THEN Waiting(n) ELSE Open(n)
  <2>1. g.state \in IF a.waiting THEN Waiting(n) ELSE Open(n)
    BY <1>1, <1>2, <1>4 DEF Phases
  <2>2. {} \in Waiting(n) /\ {} \in Open(n)
    BY <1>4, NothingLeft
  <2> QED BY <1>2, <2>1, <2>2
<1> HIDE DEF n
<1>9. R \in Waiting(n)
  <2>1. \/ a.state \in Waiting(n) /\ F = {}
        \/ a.state \in Open(n) /\ F = CASE n = 1 -> {"twotap", "threetap"}
                                        [] n = 2 -> {"onetap", "threetap"}
                                        [] OTHER -> {}
    <3>1. CASE a.waiting
      BY <1>8, <3>1
    <3>2. CASE ~a.waiting
      BY <1>8, <3>2
    <3> QED BY <3>1, <3>2
  <2> HIDE DEF F
  <2> QED BY <2>1, <1>4, <1>6, TapsLeft
<1> HIDE DEF F, R
<1>10. R \in SUBSET Undecided
  BY <1>4, <1>9, WaitingIs
<1>11. V \in {0, 1}
  BY <1>2 DEF Recognizer
<1> HIDE DEF V
<1>12. /\ b \in Recognizer
       /\ b.state = R /\ b.press = Off /\ b.waiting = TRUE /\ b.two = "off"
       /\ b.tracked = g.tracked /\ b.ignored = g.ignored /\ b.err = g.err
       /\ b.held = g.held /\ b.open = g.open
  BY <1>2, <1>3, <1>10, <1>11 DEF Recognizer
<1> QED BY <1>1, <1>4, <1>5, <1>9, <1>12 DEF Lifted

\* A touch that is lifted is not active any more.
LEMMA Lifts ==
    ASSUME NEW c \in Recognizer, Distinct(c), NEW id, NEW i \in DOMAIN c.tracked,
           c.tracked[i].id = id, NEW d, d = [c EXCEPT !.tracked[i].active = FALSE]
    PROVE  /\ d \in Recognizer /\ Distinct(d)
           /\ Len(d.tracked) = Len(c.tracked) /\ d.tracked # <<>>
           /\ \A f : ActiveIn(d, f) <=> ActiveIn(c, f) /\ f # id
           /\ d.state = c.state /\ d.ignored = c.ignored /\ d.waiting = c.waiting
           /\ d.press = c.press /\ d.two = c.two /\ d.err = c.err
           /\ d.held = c.held /\ d.open = c.open
<1> DEFINE t == [c.tracked EXCEPT ![i] = [@ EXCEPT !.active = FALSE]]
<1>1. /\ c.tracked \in Seq(Touch) /\ DOMAIN c.tracked = 1 .. Len(c.tracked)
      /\ Len(c.tracked) \in Nat /\ c.tracked[i] \in Touch
      /\ \A j \in DOMAIN c.tracked : c.tracked[j].active \in BOOLEAN
  BY Touches
<1>2. /\ [c.tracked[i] EXCEPT !.active = FALSE] \in Touch
      /\ [c.tracked[i] EXCEPT !.active = FALSE].id = c.tracked[i].id
      /\ [c.tracked[i] EXCEPT !.active = FALSE].active = FALSE
  BY <1>1 DEF Touch
<1>3. /\ t \in Seq(Touch) /\ DOMAIN t = DOMAIN c.tracked /\ Len(t) = Len(c.tracked)
      /\ \A j \in DOMAIN c.tracked : t[j] = IF j = i THEN [c.tracked[i] EXCEPT !.active = FALSE]
                                                     ELSE c.tracked[j]
  BY <1>1, <1>2
<1>4. \A j \in DOMAIN c.tracked : /\ t[j].id = c.tracked[j].id
                                  /\ t[j].active <=> c.tracked[j].active /\ j # i
  BY <1>1, <1>2, <1>3
<1>5. t # <<>>
  BY <1>1, <1>3
<1>6. d = [c EXCEPT !.tracked = t]
  BY DEF Recognizer
<1> HIDE DEF t
<1>7. /\ d \in Recognizer /\ d.tracked = t
      /\ d.state = c.state /\ d.ignored = c.ignored /\ d.waiting = c.waiting
      /\ d.press = c.press /\ d.two = c.two /\ d.err = c.err
      /\ d.held = c.held /\ d.open = c.open
  BY <1>3, <1>6 DEF Recognizer
<1>8. Distinct(d)
  BY <1>3, <1>4, <1>7 DEF Distinct
<1>9. ASSUME NEW f
      PROVE  ActiveIn(d, f) <=> ActiveIn(c, f) /\ f # id
  <2>1. ASSUME ActiveIn(d, f) PROVE ActiveIn(c, f) /\ f # id
    <3>1. PICK j \in DOMAIN c.tracked : t[j].active /\ t[j].id = f
      BY <2>1, <1>3, <1>7 DEF ActiveIn
    <3>2. c.tracked[j].active /\ c.tracked[j].id = f /\ j # i
      BY <3>1, <1>4
    <3>3. f # id
      BY <3>2 DEF Distinct
    <3> QED BY <3>2, <3>3 DEF ActiveIn
  <2>2. ASSUME ActiveIn(c, f), f # id PROVE ActiveIn(d, f)
    <3>1. PICK j \in DOMAIN c.tracked : c.tracked[j].active /\ c.tracked[j].id = f
      BY <2>2 DEF ActiveIn
    <3>2. j # i
      BY <2>2, <3>1
    <3>3. t[j].active /\ t[j].id = f /\ j \in DOMAIN d.tracked
      BY <3>1, <3>2, <1>3, <1>4, <1>7
    <3> QED BY <3>3, <1>7 DEF ActiveIn
  <2> QED BY <2>1, <2>2
<1> QED BY <1>3, <1>5, <1>7, <1>8, <1>9
\* One of the fingers that are waited for is lifted.
LEMMA ReleasedSound ==
    ASSUME NEW b, NEW g, Lifted(b, g), Distinct(b), NEW D, NEW id \in Fingers,
           b.ignored[id] = 0, NEW p, p = Released(b, id)
    PROVE  /\ Sound(p, D \ {id})
           /\ ~b.err /\ Others(b, D, id) /\ ActiveIn(b, id) => Complete(p, D \ {id})
           /\ p.err => b.err \/ p.waiting
<1> DEFINE n == Len(b.tracked)
<1>1. /\ b \in Recognizer /\ n \in Nat
      /\ b.state \in Waiting(n) /\ b.waiting = TRUE
      /\ b.press = Off /\ b.two # "due"
      /\ Follows(b.held, b.open, {})
  BY Touches DEF Lifted
<1> DEFINE late == b.released > 0 \/ \E i \in DOMAIN b.tracked : b.tracked[i].age = TapTimeout
           c == IF late THEN [b EXCEPT !.state = {}] ELSE b
           i == Place(c, id)
           d == [c EXCEPT !.tracked[i].active = FALSE]
<1>2. /\ c \in Recognizer
      /\ c.state \in {b.state, {}} /\ c.waiting = TRUE /\ c.tracked = b.tracked
      /\ c.ignored = b.ignored /\ c.press = Off /\ c.two = b.two /\ c.err = b.err
      /\ c.held = b.held /\ c.open = b.open
  BY <1>1 DEF Recognizer
<1>3. p = CASE ~Has(c, id) -> [c EXCEPT !.err = TRUE]
            [] Has(c, id) /\ Detected(d) -> Finish(Push(Push(d, "start"), "end"), id)
            [] Has(c, id) /\ ~Detected(d) /\ d.state = {} -> Finish(d, id)
            [] OTHER -> d
  BY DEF Released
<1> HIDE DEF c, n
<1>4. c.state \in Waiting(n) /\ n = Len(c.tracked)
  <2>1. {} \in Waiting(n)
    BY <1>1, NothingLeft
  <2> QED BY <1>1, <1>2, <2>1 DEF n
<1>5. Distinct(c) /\ (\A f : ActiveIn(c, f) <=> ActiveIn(b, f))
  BY <1>2 DEF Distinct, ActiveIn
\* A recognizer that goes on waiting.
<1>6. ASSUME NEW q \in Recognizer, q.state = c.state, q.waiting = TRUE, Len(q.tracked) = n,
             Distinct(q), q.press = Off, q.two = b.two, q.held = b.held, q.open = b.open
      PROVE  Sound(q, D \ {id})
  <2>1. Phases(q)
    BY <1>1, <1>4, <1>6 DEF Phases
  <2>2. Holding(q) = {}
    BY <1>1, <1>4, <1>6, WaitingIs DEF Holding
  <2>3. Accounts(q, D \ {id})
    BY <1>6 DEF Accounts
  <2> QED BY <1>1, <1>6, <2>1, <2>2, <2>3 DEF Sound
<1>7. CASE ~Has(c, id)
  <2>1. p = [c EXCEPT !.err = TRUE]
    BY <1>3, <1>7
  <2>2. /\ p \in Recognizer /\ p.state = c.state /\ p.waiting = TRUE /\ p.tracked = c.tracked
        /\ p.press = Off /\ p.two = b.two /\ p.held = b.held /\ p.open = b.open
    BY <1>2, <2>1 DEF Recognizer
  <2>3. Distinct(p) /\ Len(p.tracked) = n
    BY <1>4, <1>5, <2>2 DEF Distinct
  <2>4. Sound(p, D \ {id})
    BY <1>6, <2>2, <2>3
  <2>5. ~ActiveIn(b, id)
    BY <1>5, <1>7 DEF ActiveIn, Has
  <2> QED BY <2>2, <2>4, <2>5
<1>8. CASE Has(c, id)
  <2>1. i \in DOMAIN c.tracked /\ c.tracked[i].id = id
    BY <1>8 DEF Has, Place
  <2>2. d = [c EXCEPT !.tracked[i].active = FALSE]
    OBVIOUS
  <2> HIDE DEF i, d
  <2>3. /\ d \in Recognizer /\ Distinct(d)
        /\ Len(d.tracked) = Len(c.tracked) /\ d.tracked # <<>>
        /\ \A f : ActiveIn(d, f) <=> ActiveIn(c, f) /\ f # id
        /\ d.state = c.state /\ d.ignored = c.ignored /\ d.waiting = c.waiting
        /\ d.press = c.press /\ d.two = c.two /\ d.err = c.err
        /\ d.held = c.held /\ d.open = c.open
    BY <1>2, <1>5, <2>1, <2>2, Lifts
  <2>4. d.ignored[id] = 0 /\ Accounts(d, D)
    BY <1>2, <2>3 DEF Accounts
  <2>5. Others(b, D, id) => Others(d, D, id)
    BY <1>2, <1>5, <2>3 DEF Others
  <2>6. Follows(d.held, d.open, {})
    BY <1>1, <1>2, <2>3
  <2>7. CASE Detected(d)
    <3>1. PICK k \in Undecided : d.state = {k}
      BY <2>7 DEF Detected
    <3> DEFINE q == Push(Push(d, "start"), "end")
    <3>2. q \in Recognizer /\ Same(q, d) /\ Follows(q.held, q.open, {})
      BY <2>3, <2>6, <3>1, PushBoth
    <3>3. p = Finish(q, id)
      BY <1>3, <1>8, <2>7
    <3> HIDE DEF q
    <3>4. /\ q.ignored[id] = 0 /\ q.press = Off /\ q.two # "due" /\ q.err = b.err
          /\ q.waiting = TRUE
      BY <1>1, <1>2, <2>3, <2>4, <3>2 DEF Same
    <3>5. Accounts(q, D)
      BY <3>4 DEF Accounts
    <3>6. Others(d, D, id) => Others(q, D, id)
      <4>1. (\A f : ActiveIn(q, f) <=> ActiveIn(d, f)) /\ q.ignored = d.ignored
        BY <3>2, SameTouches DEF Same
      <4> QED BY <4>1 DEF Others
    <3>7. /\ Sound(p, D \ {id})
          /\ ~q.err /\ Others(q, D, id) => Complete(p, D \ {id})
          /\ p.err = q.err
      BY <3>2, <3>3, <3>4, <3>5, FinishSound
    <3> QED BY <2>5, <3>4, <3>6, <3>7
  <2>8. CASE ~Detected(d) /\ d.state = {}
    <3>1. p = Finish(d, id)
      BY <1>3, <1>8, <2>8
    <3>2. d.press = Off /\ d.two # "due" /\ d.err = b.err
      BY <1>1, <1>2, <2>3
    <3>3. /\ Sound(p, D \ {id})
          /\ ~d.err /\ Others(d, D, id) => Complete(p, D \ {id})
          /\ p.err = d.err
      BY <2>3, <2>4, <2>6, <3>1, <3>2, FinishSound
    <3> QED BY <2>5, <3>2, <3>3
  <2>9. CASE ~Detected(d) /\ d.state # {}
    <3>1. p = d
      BY <1>3, <1>8, <2>9
    <3>2. d.waiting = TRUE /\ Len(d.tracked) = n /\ d.press = Off /\ d.two = b.two
          /\ d.held = b.held /\ d.open = b.open /\ d.err = b.err
      BY <1>2, <1>4, <2>3
    <3>3. Sound(d, D \ {id})
      BY <1>6, <2>3, <3>2
    <3>4. n # 0
      <4>1. d.tracked \in Seq(Touch)
        BY <2>3, Touches
      <4> QED BY <2>3, <3>2, <4>1
    <3>5. d.state \in LoneTaps
      <4>1. d.state \in Movers \cup LoneTaps \cup {{}}
        BY <1>1, <1>4, <2>3, <3>4, WaitingIs
      <4>2. d.state \notin Movers
        BY <2>9, Undetected
      <4> QED BY <2>9, <4>1, <4>2
    <3>6. SomeActive(d)
      BY <2>9, <3>5, DetectedIs
    <3>7. ASSUME ~b.err, Others(b, D, id)
          PROVE  Complete(d, D \ {id})
      <4>1. ASSUME NEW f \in Fingers
            PROVE  /\ f \in D \ {id} <=> (ActiveIn(d, f) \/ d.ignored[f] > 0)
                   /\ d.ignored[f] <= 1
                   /\ ActiveIn(d, f) => d.ignored[f] = 0
        <5>1. CASE f = id
          BY <2>3, <2>4, <5>1
        <5>2. CASE f # id
          BY <2>5, <3>7, <5>2 DEF Others
        <5> QED BY <5>1, <5>2
      <4> QED BY <2>3, <3>2, <3>6, <3>7, <4>1 DEF Complete
    <3> QED BY <3>1, <3>2, <3>3, <3>7
  <2> QED BY <2>7, <2>8, <2>9
<1> QED BY <1>7, <1>8

\* Whoever knows all fingers knows the others.
LEMMA CompleteOthers ==
    ASSUME NEW g, NEW D, Complete(g, D), NEW id \in Fingers
    PROVE  /\ Others(g, D, id) /\ ~g.err
           /\ id \in D /\ g.ignored[id] = 0 => ActiveIn(g, id)
BY DEF Complete, Others

\* The handler of a touch that ends.
LEMMA TouchEndSound ==
    ASSUME NEW g, NEW D, NEW id \in Fingers, Sound(g, D), NEW p, p = TouchEnd(g, id)
    PROVE  /\ Sound(p, D \ {id})
           /\ Complete(g, D) /\ id \in D => Complete(p, D \ {id})
           /\ p.err => g.err \/ p.waiting
<1>1. g \in Recognizer /\ Phases(g) /\ Distinct(g) /\ Follows(g.held, g.open, Holding(g))
      /\ Accounts(g, D) /\ g.ignored \in [Fingers -> Nat] /\ g.waiting \in BOOLEAN
  BY DEF Sound, Recognizer
<1> DEFINE b == Lift(g)
<1>2. p = CASE g.ignored[id] > 0 -> IgnoredEnd(g, id)
            [] g.ignored[id] = 0 /\ b.waiting -> Released(b, id)
            [] OTHER -> Finish(IF Detected(b) THEN Push(b, "end") ELSE b, id)
  BY DEF TouchEnd
<1>3. Detected(g) => b = g
  BY DEF Lift
<1>4. ~Detected(g) => Lifted(b, g)
  BY LiftIs
<1> HIDE DEF b
<1>5. g.ignored[id] \in Nat
  BY <1>1
<1>6. CASE g.ignored[id] > 0
  <2>1. p = IgnoredEnd(g, id)
    BY <1>2, <1>6
  <2> QED BY <1>6, <2>1, IgnoredEndSound
<1>7. CASE g.ignored[id] = 0 /\ Lifted(b, g)
  <2>1. b.waiting = TRUE /\ b.tracked = g.tracked /\ b.ignored = g.ignored /\ b.err = g.err
    BY <1>7 DEF Lifted
  <2>2. p = Released(b, id)
    BY <1>2, <1>7, <2>1
  <2>3. Distinct(b) /\ (\A f : ActiveIn(b, f) <=> ActiveIn(g, f))
    BY <1>1, <2>1 DEF Distinct, ActiveIn
  <2>4. /\ Sound(p, D \ {id})
        /\ ~b.err /\ Others(b, D, id) /\ ActiveIn(b, id) => Complete(p, D \ {id})
        /\ p.err => b.err \/ p.waiting
    BY <1>7, <2>1, <2>2, <2>3, ReleasedSound
  <2>5. Others(g, D, id) => Others(b, D, id)
    BY <2>1, <2>3 DEF Others
  <2>6. Complete(g, D) /\ id \in D => Others(g, D, id) /\ ActiveIn(g, id) /\ ~g.err
    BY <1>7, CompleteOthers
  <2> QED BY <2>1, <2>3, <2>4, <2>5, <2>6
<1>8. CASE g.ignored[id] = 0 /\ Detected(g)
  <2>1. b = g
    BY <1>3, <1>8
  <2>2. /\ g.state \in Movers \cup LoneTaps
        /\ g.press = Off /\ g.two # "due"
    <3>1. g.state \in Movers \cup LoneTaps
      BY <1>8, DetectedIs
    <3>2. g.state \notin {Undecided, {}, {"twodrag", "pinch"}}
      BY <3>1, NotAlone
    <3> QED BY <1>1, <3>1, <3>2 DEF Phases
  <2>3. CASE g.waiting
    <3>1. g.state \in Waiting(Len(g.tracked)) /\ Len(g.tracked) \in Nat
      BY <1>1, <2>3, Touches DEF Phases
    <3>2. Holding(g) = {}
      BY <3>1, WaitingIs DEF Holding
    <3>3. g.waiting = TRUE
      BY <1>1, <2>3
    <3>4. Lifted(b, g)
      BY <1>1, <2>1, <2>2, <3>1, <3>2, <3>3 DEF Lifted
    <3> QED BY <1>7, <1>8, <3>4
  <2>4. CASE ~g.waiting
    <3>1. g.tracked # <<>>
      BY <1>1, <1>8, NoTouches
    <3>2. PICK k \in Undecided : g.state = {k}
      BY <1>8 DEF Detected
    <3> DEFINE q == Push(g, "end")
    <3>3. q \in Recognizer /\ Same(q, g) /\ Follows(q.held, q.open, {})
      BY <1>1, <3>1, <3>2, PushEnd
    <3>4. p = Finish(q, id)
      BY <1>2, <1>8, <2>1, <2>4
    <3> HIDE DEF q
    <3>5. /\ q.ignored = g.ignored /\ q.press = Off /\ q.two # "due" /\ q.err = g.err
      BY <2>2, <3>3 DEF Same
    <3>6. Accounts(q, D) /\ (\A f : ActiveIn(q, f) <=> ActiveIn(g, f))
      BY <1>1, <3>3, SameTouches
    <3>7. q.ignored[id] = 0
      BY <1>8, <3>5
    <3>8. /\ Sound(p, D \ {id})
          /\ ~q.err /\ Others(q, D, id) => Complete(p, D \ {id})
          /\ p.err = q.err
      BY <3>3, <3>4, <3>5, <3>6, <3>7, FinishSound
    <3>9. Others(g, D, id) => Others(q, D, id)
      BY <3>5, <3>6 DEF Others
    <3>10. Complete(g, D) => Others(g, D, id) /\ ~g.err
      BY CompleteOthers
    <3> QED BY <3>5, <3>8, <3>9, <3>10
  <2> QED BY <2>3, <2>4
<1>9. g.ignored[id] > 0 \/ g.ignored[id] = 0
  BY <1>5
<1> QED BY <1>4, <1>6, <1>7, <1>8, <1>9
-----------------------------------------------------------------------------
(* Touch events.                                                           *)

\* One finger, or two different ones.
LEMMA ChangedIs ==
    ASSUME NEW changed \in Changed
    PROVE  \/ /\ Len(changed) = 1 /\ changed[1] \in Fingers
              /\ ToSet(changed) = {changed[1]}
           \/ /\ Len(changed) = 2 /\ changed[1] \in Fingers /\ changed[2] \in Fingers
              /\ changed[1] # changed[2]
              /\ ToSet(changed) = {changed[1], changed[2]}
<1>1. CASE \E f \in Fingers : changed = <<f>>
  <2>1. PICK f \in Fingers : changed = <<f>>
    BY <1>1
  <2>2. Len(changed) = 1 /\ changed[1] = f /\ DOMAIN changed = {1}
    BY <2>1
  <2>3. ToSet(changed) = {changed[1]}
    BY <2>2 DEF ToSet
  <2> QED BY <2>2, <2>3
<1>2. CASE changed \in {p \in Fingers \X Fingers : p[1] < p[2]}
  <2>1. PICK a \in Fingers, b \in Fingers : changed = <<a, b>> /\ a < b
    BY <1>2
  <2>2. Len(changed) = 2 /\ changed[1] = a /\ changed[2] = b /\ DOMAIN changed = {1, 2}
    BY <2>1
  <2>3. ToSet(changed) = {changed[1], changed[2]}
    BY <2>2 DEF ToSet
  <2>4. a \in Nat /\ b \in Nat
    BY GesturesAssumption
  <2>5. a # b
    BY <2>1, <2>4
  <2> QED BY <2>2, <2>3, <2>5
<1> QED BY <1>1, <1>2 DEF Changed

\* An exception of the event before is no part of what follows.
LEMMA Forget ==
    ASSUME NEW g, NEW D, Sound(g, D), NEW h, h = [g EXCEPT !.err = FALSE]
    PROVE  /\ Sound(h, D) /\ h.err = FALSE
           /\ Complete(g, D) => Complete(h, D)
<1>1. g \in Recognizer /\ Phases(g) /\ Distinct(g) /\ Follows(g.held, g.open, Holding(g))
      /\ Accounts(g, D)
  BY DEF Sound
<1>2. /\ h \in Recognizer
      /\ h.state = g.state /\ h.tracked = g.tracked /\ h.ignored = g.ignored
      /\ h.waiting = g.waiting /\ h.press = g.press /\ h.two = g.two /\ h.err = FALSE
      /\ h.held = g.held /\ h.open = g.open
  BY <1>1 DEF Recognizer
<1>3. Phases(h) /\ Distinct(h) /\ Accounts(h, D) /\ Holding(h) = Holding(g)
  BY <1>1, <1>2 DEF Phases, Distinct, Accounts, Holding
<1>4. Sound(h, D)
  BY <1>1, <1>2, <1>3 DEF Sound
<1>5. ASSUME Complete(g, D)
      PROVE  Complete(h, D)
  <2>1. /\ \A f : ActiveIn(h, f) <=> ActiveIn(g, f)
        /\ SomeActive(h) <=> SomeActive(g)
        /\ NoneIgnored(h) <=> NoneIgnored(g)
    BY <1>2 DEF ActiveIn, SomeActive, NoneIgnored
  <2> QED BY <1>2, <1>5, <2>1 DEF Complete
<1> QED BY <1>2, <1>4, <1>5

\* While a recognizer waits it does not matter who is on the screen, and a
\* finger that it has not heard of does not either.
LEMMA OtherFingers ==
    ASSUME NEW g, NEW D, NEW E, Sound(g, D), D \subseteq E \/ g.waiting
    PROVE  Sound(g, E)
BY DEF Sound, Accounts

LEMMA StartEvent ==
    ASSUME NEW D, Sound(gh, D), NEW changed \in Changed, ToSet(changed) \cap D = {},
           NEW p, p = EventHandler("touchstart", changed, FALSE, FALSE)
    PROVE  /\ Sound(p, D \cup ToSet(changed))
           /\ Complete(gh, D) => Complete(p, D \cup ToSet(changed))
<1> DEFINE g == [gh EXCEPT !.err = FALSE]
           q == TouchStart(g, changed[1])
           r == TouchStart(q, changed[2])
<1>1. Sound(g, D) /\ g.err = FALSE /\ (Complete(gh, D) => Complete(g, D))
  BY Forget
<1>2. p = IF Len(changed) = 1 \/ q.err THEN q ELSE r
  BY DEF EventHandler, Handler
<1> HIDE DEF g
<1>3. changed[1] \in Fingers /\ changed[1] \notin D
  BY ChangedIs
<1>4. /\ Sound(q, D \cup {changed[1]})
      /\ Complete(g, D) => Complete(q, D \cup {changed[1]})
      /\ q.err = FALSE
  BY <1>1, <1>3, TouchStartSound
<1> HIDE DEF q
<1>5. CASE Len(changed) = 1
  <2>1. p = q /\ D \cup ToSet(changed) = D \cup {changed[1]}
    BY <1>2, <1>5, ChangedIs
  <2> QED BY <1>1, <1>4, <2>1
<1>6. CASE Len(changed) # 1
  <2>1. /\ changed[2] \in Fingers /\ changed[2] \notin D \cup {changed[1]}
        /\ ToSet(changed) = {changed[1], changed[2]}
    BY <1>6, ChangedIs
  <2>2. /\ Sound(r, (D \cup {changed[1]}) \cup {changed[2]})
        /\ Complete(q, D \cup {changed[1]}) => Complete(r, (D \cup {changed[1]}) \cup {changed[2]})
    BY <1>4, <2>1, TouchStartSound
  <2>3. p = r /\ D \cup ToSet(changed) = (D \cup {changed[1]}) \cup {changed[2]}
    BY <1>2, <1>4, <1>6, <2>1
  <2> QED BY <1>1, <1>4, <2>2, <2>3
<1> QED BY <1>5, <1>6

LEMMA MoveEvent ==
    ASSUME NEW D, Sound(gh, D), NEW changed \in Changed,
           NEW far \in BOOLEAN, NEW apart \in BOOLEAN,
           NEW p, p = EventHandler("touchmove", changed, far, apart)
    PROVE  /\ Sound(p, D)
           /\ Complete(gh, D) => Complete(p, D)
<1> DEFINE g == [gh EXCEPT !.err = FALSE]
           q == TouchMove(g, changed[1], far, apart)
           r == TouchMove(q, changed[2], far, apart)
<1>1. Sound(g, D) /\ g.err = FALSE /\ (Complete(gh, D) => Complete(g, D))
  BY Forget
<1>2. p = IF Len(changed) = 1 \/ q.err THEN q ELSE r
  BY DEF EventHandler, Handler
<1> HIDE DEF g
<1>3. changed[1] \in Fingers
  BY ChangedIs
<1>4. /\ Sound(q, D)
      /\ Complete(g, D) => Complete(q, D)
      /\ q.err = FALSE
  BY <1>1, <1>3, TouchMoveSound
<1> HIDE DEF q
<1>5. CASE Len(changed) = 1
  <2>1. p = q
    BY <1>2, <1>5
  <2> QED BY <1>1, <1>4, <2>1
<1>6. CASE Len(changed) # 1
  <2>1. changed[2] \in Fingers
    BY <1>6, ChangedIs
  <2>2. Sound(r, D) /\ (Complete(q, D) => Complete(r, D))
    BY <1>4, <2>1, TouchMoveSound
  <2>3. p = r
    BY <1>2, <1>4, <1>6
  <2> QED BY <1>1, <1>4, <2>2, <2>3
<1> QED BY <1>5, <1>6

\* An exception ends the loop, and the end of the second finger is lost: the
\* recognizer was waiting then.
LEMMA EndEvent ==
    ASSUME NEW D, Sound(gh, D), NEW changed \in Changed, ToSet(changed) \subseteq D,
           NEW p, p = EventHandler("touchend", changed, FALSE, FALSE)
    PROVE  /\ Sound(p, D \ ToSet(changed))
           /\ Complete(gh, D) => Complete(p, D \ ToSet(changed))
<1> DEFINE g == [gh EXCEPT !.err = FALSE]
           q == TouchEnd(g, changed[1])
           r == TouchEnd(q, changed[2])
<1>1. Sound(g, D) /\ g.err = FALSE /\ (Complete(gh, D) => Complete(g, D))
  BY Forget
<1>2. p = IF Len(changed) = 1 \/ q.err THEN q ELSE r
  BY DEF EventHandler, Handler
<1> HIDE DEF g
<1>3. changed[1] \in Fingers /\ changed[1] \in D
  BY ChangedIs
<1>4. /\ Sound(q, D \ {changed[1]})
      /\ Complete(g, D) => Complete(q, D \ {changed[1]})
      /\ q.err => q.waiting
  BY <1>1, <1>3, TouchEndSound
<1> HIDE DEF q
<1>5. CASE Len(changed) = 1
  <2>1. p = q /\ D \ ToSet(changed) = D \ {changed[1]}
    BY <1>2, <1>5, ChangedIs
  <2> QED BY <1>1, <1>4, <2>1
<1>6. CASE Len(changed) # 1
  <2>1. /\ changed[2] \in Fingers /\ changed[2] \in D \ {changed[1]}
        /\ ToSet(changed) = {changed[1], changed[2]}
    BY <1>6, ChangedIs
  <2>2. D \ ToSet(changed) = (D \ {changed[1]}) \ {changed[2]}
    BY <2>1
  <2>3. CASE q.err
    <3>1. p = q
      BY <1>2, <2>3
    <3>2. Sound(q, D \ ToSet(changed))
      BY <1>4, <2>3, OtherFingers
    <3>3. ~Complete(q, D \ {changed[1]})
      BY <2>3 DEF Complete
    <3> QED BY <1>1, <1>4, <3>1, <3>2, <3>3
  <2>4. CASE ~q.err
    <3>1. p = r
      BY <1>2, <1>6, <2>4
    <3>2. /\ Sound(r, (D \ {changed[1]}) \ {changed[2]})
          /\ Complete(q, D \ {changed[1]}) => Complete(r, (D \ {changed[1]}) \ {changed[2]})
      BY <1>4, <2>1, TouchEndSound
    <3> QED BY <1>1, <1>4, <2>2, <3>1, <3>2
  <2> QED BY <2>3, <2>4
<1> QED BY <1>5, <1>6

\* Time that passes changes no gesture.
LEMMA TickSound ==
    ASSUME NEW g, NEW D, Sound(g, D), g.press # 0, NEW p, p = Later(g)
    PROVE  /\ Sound(p, D)
           /\ Complete(g, D) => Complete(p, D)
<1>1. g \in Recognizer /\ Phases(g) /\ Distinct(g) /\ Follows(g.held, g.open, Holding(g))
      /\ Accounts(g, D)
  BY DEF Sound
<1> DEFINE t == [i \in DOMAIN g.tracked |-> Older(g.tracked[i])]
           P == IF g.press = Off THEN Off ELSE g.press - 1
           V == IF g.waiting THEN 1 ELSE 0
<1>2. /\ g.tracked \in Seq(Touch) /\ DOMAIN g.tracked = 1 .. Len(g.tracked)
      /\ Len(g.tracked) \in Nat
      /\ \A i \in DOMAIN g.tracked : g.tracked[i] \in Touch
  BY <1>1, Touches
<1>3. \A x \in Touch : /\ Older(x) \in Touch
                       /\ Older(x).id = x.id
                       /\ Older(x).active = x.active
  <2> SUFFICES ASSUME NEW x \in Touch
               PROVE  Older(x) \in Touch /\ Older(x).id = x.id /\ Older(x).active = x.active
    OBVIOUS
  <2> DEFINE a == IF x.age < TapTimeout THEN x.age + 1 ELSE x.age
  <2>1. Older(x) = [x EXCEPT !.age = a]
    BY DEF Older
  <2>2. a \in 0 .. TapTimeout
    BY GesturesAssumption DEF Touch
  <2> HIDE DEF a
  <2> QED BY <2>1, <2>2 DEF Touch
<1>4. /\ DOMAIN t = 1 .. Len(g.tracked) /\ DOMAIN t = DOMAIN g.tracked
      /\ \A i \in DOMAIN t : /\ t[i] \in Touch
                             /\ t[i].id = g.tracked[i].id
                             /\ t[i].active = g.tracked[i].active
  BY <1>2, <1>3
<1>5. P \in {Off} \cup 0 .. TapTimeout /\ (P # Off => g.press # Off)
  BY <1>1, GesturesAssumption DEF Recognizer, Off
<1>6. V \in {0, 1}
  OBVIOUS
<1>7. t = [i \in 1 .. Len(g.tracked) |-> Older(g.tracked[i])]
  BY <1>2
<1>8. t \in Seq(Touch) /\ Len(t) = Len(g.tracked)
  BY <1>2, <1>3, <1>7
<1>9. p = [g EXCEPT !.err = FALSE, !.tracked = t, !.released = V, !.press = P]
  BY DEF Later
<1> HIDE DEF t, P, V
<1>10. /\ p \in Recognizer /\ p.tracked = t /\ p.press = P /\ p.err = FALSE
       /\ p.state = g.state /\ p.ignored = g.ignored /\ p.waiting = g.waiting
      /\ p.two = g.two /\ p.held = g.held /\ p.open = g.open
  BY <1>1, <1>5, <1>6, <1>8, <1>9 DEF Recognizer
<1>11. Alike(p, g)
  BY <1>4, <1>8, <1>10 DEF Alike
<1>12. Phases(p) /\ Holding(p) = Holding(g)
  BY <1>1, <1>5, <1>8, <1>10 DEF Phases, Holding
<1>13. Sound(p, D)
  BY <1>1, <1>10, <1>11, <1>12, AlikeSound
<1>14. ASSUME Complete(g, D), g.tracked = <<>>
       PROVE  Complete(p, D)
  <2>1. p.tracked = <<>>
    BY <1>1, <1>10, <1>11, <1>14, AlikeTouches
  <2>2. /\ \A f : ActiveIn(p, f) <=> ActiveIn(g, f)
        /\ NoneIgnored(p) <=> NoneIgnored(g)
    BY <1>10, <1>14, <2>1 DEF ActiveIn, NoneIgnored
  <2> QED BY <1>10, <1>14, <2>1, <2>2 DEF Complete
<1>15. ASSUME Complete(g, D), g.tracked # <<>>
       PROVE  Complete(p, D)
  BY <1>1, <1>10, <1>11, <1>15, AlikeTouches
<1> QED BY <1>13, <1>14, <1>15
-----------------------------------------------------------------------------
(* The steps.                                                              *)

LEMMA GestureInit == Init => GestureInv
<1> SUFFICES ASSUME Init PROVE GestureInv
  OBVIOUS
<1>1. gh = NewRecognizer /\ down = {} /\ took = FALSE
  BY DEF Init
<1>2. <<>> \in Seq(Touch)
  OBVIOUS
<1>3. /\ gh.state = Undecided /\ gh.tracked = <<>> /\ gh.ignored = [f \in Fingers |-> 0]
      /\ gh.waiting = FALSE /\ gh.press = Off /\ gh.two = "off" /\ gh.err = FALSE
      /\ gh.held = {} /\ gh.open = {}
  BY <1>1 DEF NewRecognizer
<1>4. gh \in Recognizer
  BY <1>1, <1>2 DEF NewRecognizer, Recognizer
<1>5. Len(gh.tracked) = 0 /\ DOMAIN gh.tracked = {}
  BY <1>3
<1>6. Phases(gh)
  BY <1>3, <1>5 DEF Phases, Open
<1>7. Holding(gh) = {}
  BY <1>3, <1>4, <1>6, NoTouches
<1>8. Distinct(gh) /\ Accounts(gh, down)
  BY <1>3, <1>5 DEF Distinct, Accounts
<1>9. Follows(gh.held, gh.open, Holding(gh))
  BY <1>3, <1>7 DEF Follows
<1>10. Complete(gh, down)
  BY <1>1, <1>3, <1>5 DEF Complete, ActiveIn, NoneIgnored
<1>11. Sound(gh, down)
  BY <1>4, <1>6, <1>8, <1>9 DEF Sound
<1>12. touches \in 0 .. MaxTouches
  BY GesturesAssumption DEF Init
<1>13. /\ down \subseteq Fingers /\ zoomed \in BOOLEAN
       /\ mode \in {"none", "pending", "active"} /\ took \in BOOLEAN
  BY DEF Init
<1> QED BY <1>10, <1>11, <1>12, <1>13 DEF GestureInv

\* Every finger of an event is one.
LEMMA SomeFingers ==
    ASSUME NEW changed \in Changed
    PROVE  ToSet(changed) \subseteq Fingers /\ Len(changed) \in Nat
BY ChangedIs

LEMMA StartStep ==
    ASSUME GestureInv, NEW changed \in Changed, OnTouchStartCapture(changed)
    PROVE  GestureInv'
<1> DEFINE now == down \cup ToSet(changed)
<1>1. /\ down' = now /\ zoomed' = zoomed
      /\ touches' = touches + Len(changed) /\ touches' <= MaxTouches
      /\ mode' \in {"none", "pending", "active"}
      /\ ToSet(changed) \cap down = {}
      /\ Keep \/ Pass(EventHandler("touchstart", changed, FALSE, FALSE))
  BY DEF OnTouchStartCapture
<1>2. down' \subseteq Fingers /\ touches' \in 0 .. MaxTouches
  <2>1. ToSet(changed) \subseteq Fingers /\ Len(changed) \in Nat
    BY SomeFingers
  <2>2. down \subseteq Fingers /\ touches \in 0 .. MaxTouches
    BY DEF GestureInv
  <2>3. down' \subseteq Fingers
    BY <1>1, <2>1, <2>2
  <2>4. touches' \in 0 .. MaxTouches
    BY <1>1, <2>1, <2>2, GesturesAssumption
  <2> QED BY <2>3, <2>4
<1>3. Sound(gh, down) /\ (~took => Complete(gh, down)) /\ took \in BOOLEAN /\ zoomed \in BOOLEAN
  BY DEF GestureInv
<1>4. CASE Keep
  <2>1. Sound(gh, now)
    BY <1>3, OtherFingers
  <2> QED BY <1>1, <1>2, <1>3, <1>4, <2>1 DEF Keep, GestureInv
<1>5. CASE Pass(EventHandler("touchstart", changed, FALSE, FALSE))
  <2> DEFINE p == EventHandler("touchstart", changed, FALSE, FALSE)
  <2>1. gh' = p /\ took' = took
    BY <1>5 DEF Pass
  <2>2. Sound(p, now) /\ (Complete(gh, down) => Complete(p, now))
    BY <1>1, <1>3, StartEvent
  <2> HIDE DEF p
  <2> QED BY <1>1, <1>2, <1>3, <2>1, <2>2 DEF GestureInv
<1> QED BY <1>1, <1>4, <1>5

LEMMA MoveStep ==
    ASSUME GestureInv, NEW changed \in Changed, NEW far \in BOOLEAN, NEW apart \in BOOLEAN,
           NEW ratio, OnTouchMoveCapture(changed, far, apart, ratio)
    PROVE  GestureInv'
<1>1. /\ down' = down /\ touches' = touches
      /\ zoomed' = zoomed \/ zoomed' \in BOOLEAN
      /\ mode' = mode \/ mode' = "active"
      /\ Keep \/ Pass(EventHandler("touchmove", changed, far, apart))
  BY DEF OnTouchMoveCapture
<1>2. Sound(gh, down) /\ (~took => Complete(gh, down)) /\ took \in BOOLEAN /\ zoomed \in BOOLEAN
  BY DEF GestureInv
<1>3. CASE Keep
  BY <1>1, <1>2, <1>3 DEF Keep, GestureInv
<1>4. CASE Pass(EventHandler("touchmove", changed, far, apart))
  <2> DEFINE p == EventHandler("touchmove", changed, far, apart)
  <2>1. gh' = p /\ took' = took
    BY <1>4 DEF Pass
  <2>2. Sound(p, down) /\ (Complete(gh, down) => Complete(p, down))
    BY <1>2, MoveEvent
  <2> HIDE DEF p
  <2> QED BY <1>1, <1>2, <2>1, <2>2 DEF GestureInv
<1> QED BY <1>1, <1>3, <1>4

LEMMA EndStep ==
    ASSUME GestureInv, NEW changed \in Changed, OnTouchEndCapture(changed)
    PROVE  GestureInv'
<1> DEFINE left == down \ ToSet(changed)
           p == EventHandler("touchend", changed, FALSE, FALSE)
<1>1. /\ down' = left /\ touches' = touches /\ zoomed' = zoomed
      /\ mode' = mode \/ mode' = "none"
      /\ ToSet(changed) \subseteq down
      /\ gh' = p /\ took' = took
  BY DEF OnTouchEndCapture, Pass
<1>2. Sound(gh, down) /\ (~took => Complete(gh, down)) /\ took \in BOOLEAN
  BY DEF GestureInv
<1>3. Sound(p, left) /\ (Complete(gh, down) => Complete(p, left))
  BY <1>1, <1>2, EndEvent
<1> HIDE DEF p
<1> QED BY <1>1, <1>2, <1>3 DEF GestureInv

\* A timer, or time, changes the recognizer only.
LEMMA TimerStep ==
    ASSUME GestureInv, UNCHANGED <<down, touches, zoomed, mode, took>>,
           Sound(gh', down), Complete(gh, down) => Complete(gh', down)
    PROVE  GestureInv'
BY DEF GestureInv

LEMMA GestureStep == GestureInv /\ [Next]_vars => GestureInv'
<1> SUFFICES ASSUME GestureInv, [Next]_vars PROVE GestureInv'
  OBVIOUS
<1>1. Sound(gh, down)
  BY DEF GestureInv
<1>2. CASE \E changed \in Changed : OnTouchStartCapture(changed)
  BY <1>2, StartStep
<1>3. CASE \E changed \in Changed, far, apart \in BOOLEAN, ratio \in {mode = "pending", FALSE} :
              OnTouchMoveCapture(changed, far, apart, ratio)
  BY <1>3, MoveStep
<1>4. CASE \E changed \in Changed : OnTouchEndCapture(changed)
  BY <1>4, EndStep
<1>5. CASE LongpressFires
  BY <1>1, <1>5, LongpressSound, TimerStep DEF LongpressFires, Pass
<1>6. CASE TwoTouchFires
  <2>1. PICK kind \in {"pinch", "twodrag"} : Pass(TwoTouchTimeout(gh, kind))
    BY <1>6 DEF TwoTouchFires
  <2> QED BY <1>1, <1>6, <2>1, TwoTouchSound, TimerStep DEF TwoTouchFires, Pass
<1>7. CASE Tick
  BY <1>1, <1>7, TickSound, TimerStep DEF Tick, Pass
<1>8. CASE ZoomStep
  BY <1>8 DEF ZoomStep, GestureInv
<1>9. CASE UNCHANGED vars
  BY <1>9 DEF vars, GestureInv
<1> QED BY <1>2, <1>3, <1>4, <1>5, <1>6, <1>7, <1>8, <1>9 DEF Next

LEMMA GestureInvariant == Spec => []GestureInv
BY GestureInit, GestureStep, PTL DEF Spec

-----------------------------------------------------------------------------
(* What it is for.                                                         *)

\* Whatever the page keeps to itself and whenever the timers fire, the server
\* holds exactly the button of the drag or long press in progress, and none
\* once no finger is on the screen (gesturehandler.js, rfb.js _handleGesture).
THEOREM ButtonsFollow == Spec => []ButtonFollowsGesture
<1>1. GestureInv => ButtonFollowsGesture
  <2> SUFFICES ASSUME GestureInv PROVE ButtonFollowsGesture
    OBVIOUS
  <2> DEFINE S == Holding(gh)
  <2>1. /\ gh \in Recognizer /\ Phases(gh) /\ Accounts(gh, down)
        /\ gh.open \cap Solid = S /\ gh.held = {Button(k) : k \in S}
    BY DEF GestureInv, Sound, Follows
  <2>2. S \in {{}, {"drag"}, {"longpress"}}
    BY DEF Holding
  <2>3. gh.held = {IF g = "drag" THEN "left" ELSE "right" : g \in gh.open \cap Solid}
    BY <2>1 DEF Button
  <2>4. gh.held \in {{}, {"left"}, {"right"}}
    BY <2>1, <2>2 DEF Button
  <2>5. ASSUME S # {}
        PROVE  down # {}
    <3>1. gh.state \in {{"drag"}, {"longpress"}}
      BY <2>5 DEF Holding
    <3>2. ~gh.waiting /\ gh.tracked # <<>>
      <4>1. \A n \in Nat : Waiting(n) \cap {{"drag"}, {"longpress"}} = {}
        BY DEF Waiting, Taps
      <4>2. Len(gh.tracked) \in Nat
        BY <2>1, Touches
      <4>3. ~gh.waiting
        BY <2>1, <3>1, <4>1, <4>2 DEF Phases
      <4> QED BY <2>1, <2>5, <4>3, NoTouches
    <3>3. 1 \in DOMAIN gh.tracked
      BY <2>1, <3>2, Touches
    <3> QED BY <2>1, <3>2, <3>3 DEF Accounts
  <2>6. down = {} => gh.held = {}
    BY <2>1, <2>5
  <2> QED BY <2>3, <2>4, <2>6 DEF ButtonFollowsGesture
<1> QED BY <1>1, GestureInvariant, PTL

\* A recognizer that saw every event tracks, ignores and waits for nothing once
\* no finger is left, and has not thrown (gesturehandler.js _touchEnd).
THEOREM RecognizerReady == Spec => []ReadyAgain
<1>1. GestureInv => ReadyAgain
  <2> SUFFICES ASSUME GestureInv, ~took
               PROVE  /\ ~gh.err
                      /\ down = {} => /\ gh.state = Undecided
                                      /\ gh.tracked = <<>> /\ NoneIgnored(gh)
                                      /\ gh.press = Off /\ gh.two # "due" /\ ~gh.waiting
    BY DEF ReadyAgain
  <2>1. gh \in Recognizer /\ Phases(gh) /\ Complete(gh, down)
    BY DEF GestureInv, Sound
  <2>2. ~gh.err
    BY <2>1 DEF Complete
  <2>3. ASSUME down = {}
        PROVE  /\ gh.state = Undecided
               /\ gh.tracked = <<>> /\ NoneIgnored(gh)
               /\ gh.press = Off /\ gh.two # "due" /\ ~gh.waiting
    <3>1. \A f \in Fingers : ~ActiveIn(gh, f) /\ ~(gh.ignored[f] > 0)
      BY <2>1, <2>3 DEF Complete
    <3>2. gh.tracked = <<>>
      <4>1. ~SomeActive(gh)
        BY <2>1, <3>1, Touches DEF SomeActive, ActiveIn
      <4> QED BY <2>1, <4>1 DEF Complete
    <3>3. NoneIgnored(gh)
      <4>1. \A f \in Fingers : gh.ignored[f] \in Nat
        BY <2>1 DEF Recognizer
      <4> QED BY <3>1, <4>1 DEF NoneIgnored
    <3>4. gh.state = Undecided /\ ~gh.waiting
      BY <2>1, <3>2, <3>3 DEF Complete
    <3> QED BY <2>1, <3>2, <3>3, <3>4, NoTouches
  <2> QED BY <2>2, <2>3
<1> QED BY <1>1, GestureInvariant, PTL

-----------------------------------------------------------------------------
(* A display whose parts fit together.                                     *)

Shapes ==
    [type : {"fill"}, x : Nat, w : Nat, color : Int]
        \cup [type : {"copy"}, old : Nat, x : Nat, w : Nat]
        \cup [type : {"img"}, x : Nat, w : Nat, color : Int, id : Nat \X Nat]
        \cup [type : {"blit"}, x : Nat, w : Nat, color : Int, view : BOOLEAN]
Resizes == [type : {"resize"}, w : Nat]
Queueable == Shapes \cup [type : {"flip"}]

Rows == UNION {[0 .. n - 1 -> Int] : n \in Nat}

Displays ==
    [fb : Nat, back : Rows, x : Nat, w : Nat, seen : Rows, clip : BOOLEAN,
     left : Int, right : Int, q : Seq(Queueable)]

Sized(e) ==
    /\ e \in Displays
    /\ e.back \in [0 .. e.fb - 1 -> Int]
    /\ e.seen \in [0 .. e.w - 1 -> Int]

Placed(e) == Sized(e) /\ e.x + e.w <= e.fb

SamePixel(e, i) == e.seen[i] = e.back[e.x + i]
Damaged(e, i) == e.left <= e.x + i /\ e.x + i < e.right

\* What the viewport shows of the framebuffer is up to date.
Shown(e) == \A i \in 0 .. e.w - 1 : e.x + i < e.fb => SamePixel(e, i)

\* ... or damaged.
Covered(e) == \A i \in 0 .. e.w - 1 : e.x + i < e.fb => SamePixel(e, i) \/ Damaged(e, i)

\* ... or will be shown when the queue has been drawn.
Settled(e) == IF e.q = <<>> THEN Shown(e) ELSE e.q[Len(e.q)].type = "flip"

LEMMA RowIn == ASSUME NEW n \in Nat, NEW r \in [0 .. n - 1 -> Int] PROVE r \in Rows
BY DEF Rows

LEMMA SameRow ==
  ASSUME NEW k, NEW b \in [0 .. k - 1 -> Int], NEW c \in [0 .. k - 1 -> Int],
         \A i \in 0 .. k - 1 : c[i] = b[i]
  PROVE  c = b
<1>1. b = [i \in 0 .. k - 1 |-> b[i]] /\ c = [i \in 0 .. k - 1 |-> c[i]]
  OBVIOUS
<1> QED BY <1>1, Zenon

LEMMA ShapeParts ==
  ASSUME NEW a \in Queueable
  PROVE  /\ a.type \in {"fill", "copy", "img", "blit", "flip"}
         /\ a.type # "flip" => a.x \in Nat /\ a.w \in Nat /\ a \in Shapes
         /\ a.type \notin {"flip", "copy"} => a.color \in Int
BY DEF Queueable, Shapes

LEMMA FieldTypes ==
  ASSUME NEW e \in Displays
  PROVE  /\ e.fb \in Nat /\ e.x \in Nat /\ e.w \in Nat /\ e.left \in Int /\ e.right \in Int
         /\ e.back \in Rows /\ e.seen \in Rows /\ e.clip \in BOOLEAN /\ e.q \in Seq(Queueable)
BY DEF Displays

\* What an assignment to some fields leaves alone.
Assigned(e, s, l, r) == [e EXCEPT !.seen = s, !.left = l, !.right = r]

LEMMA AssignedParts ==
  ASSUME NEW e \in Displays, NEW s \in Rows, NEW l \in Int, NEW r \in Int
  PROVE  LET n == Assigned(e, s, l, r) IN
         /\ n \in Displays
         /\ n.fb = e.fb /\ n.back = e.back /\ n.x = e.x /\ n.w = e.w
         /\ n.clip = e.clip /\ n.q = e.q
         /\ n.seen = s /\ n.left = l /\ n.right = r
BY DEF Assigned, Displays

LEMMA DamageParts ==
  ASSUME NEW e \in Displays, NEW x \in Nat, NEW w \in Nat
  PROVE  LET n == Damage(e, x, w) IN
         /\ n \in Displays
         /\ n.fb = e.fb /\ n.back = e.back /\ n.x = e.x /\ n.w = e.w /\ n.seen = e.seen
         /\ n.clip = e.clip /\ n.q = e.q
         /\ n.left = IF x < e.left THEN x ELSE e.left
         /\ n.right = IF x + w > e.right THEN x + w ELSE e.right
<1> DEFINE l == IF x < e.left THEN x ELSE e.left
           r == IF x + w > e.right THEN x + w ELSE e.right
<1>1. l \in Int /\ r \in Int
  BY FieldTypes
<1>2. Damage(e, x, w) = [e EXCEPT !.left = l, !.right = r]
  BY Zenon DEF Damage
<1> HIDE DEF l, r
<1>3. LET n == Damage(e, x, w) IN
         /\ n \in Displays
         /\ n.fb = e.fb /\ n.back = e.back /\ n.x = e.x /\ n.w = e.w /\ n.seen = e.seen
         /\ n.clip = e.clip /\ n.q = e.q
         /\ n.left = l /\ n.right = r
  BY <1>1, <1>2 DEF Displays
<1> QED BY <1>3 DEF l, r

LEMMA FlipNowParts ==
  ASSUME NEW e, Sized(e)
  PROVE  LET n == FlipNow(e) IN
         /\ Sized(n)
         /\ n.fb = e.fb /\ n.back = e.back /\ n.x = e.x /\ n.w = e.w
         /\ n.clip = e.clip /\ n.q = e.q
         /\ n.seen = [i \in 0 .. e.w - 1 |->
                        LET p == e.x + i
                        IN  IF e.left <= p /\ p < e.right /\ p < e.fb THEN e.back[p]
                            ELSE e.seen[i]]
<1> DEFINE new == [i \in 0 .. e.w - 1 |->
                     LET p == e.x + i
                     IN  IF e.left <= p /\ p < e.right /\ p < e.fb THEN e.back[p] ELSE e.seen[i]]
<1>1. e \in Displays /\ e.w \in Nat /\ e.x \in Nat /\ e.fb \in Nat /\ e.left \in Int /\ e.right \in Int
  BY FieldTypes DEF Sized
<1>2. new \in [0 .. e.w - 1 -> Int]
  <2> SUFFICES ASSUME NEW i \in 0 .. e.w - 1 PROVE new[i] \in Int
    BY Zenon
  <2>1. e.seen[i] \in Int
    BY DEF Sized
  <2>2. e.x + i < e.fb => e.back[e.x + i] \in Int
    BY <1>1 DEF Sized
  <2> QED BY <2>1, <2>2
<1>3. new \in Rows
  BY <1>1, <1>2, RowIn
<1>4. FlipNow(e) = Assigned(e, new, Far, 0)
  BY Zenon DEF FlipNow, Assigned
<1> HIDE DEF new
<1>5. LET n == FlipNow(e) IN
         /\ n \in Displays
         /\ n.fb = e.fb /\ n.back = e.back /\ n.x = e.x /\ n.w = e.w
         /\ n.clip = e.clip /\ n.q = e.q
         /\ n.seen = new
  <2>1. Far \in Int /\ 0 \in Int
    BY DEF Far
  <2> QED BY <1>1, <1>3, <1>4, <2>1, AssignedParts
<1>6. Sized(FlipNow(e))
  BY <1>2, <1>5 DEF Sized
<1> QED BY <1>5, <1>6 DEF new

\* Induction, for a set of numbers instead of a predicate.
LEMMA Induction ==
  ASSUME NEW S, 0 \in S, \A n \in Nat : n \in S => n + 1 \in S
  PROVE  Nat \subseteq S
<1> SUFFICES ASSUME NEW n \in Nat, n \notin S PROVE FALSE
  OBVIOUS
<1> DEFINE U == {m \in 0 .. n : m \in S}
           f == [m \in U |-> m + 1]
<1>1. U \in SUBSET (0 .. n) /\ 0 \in U
  OBVIOUS
<1>2. IsFiniteSet(U)
  <2>1. IsFiniteSet(0 .. n)
    BY FS_Interval
  <2> QED BY <1>1, <2>1, FS_Subset
<1>3. \A m \in U : m + 1 \in U
  OBVIOUS
<1>4. f \in [U -> U \ {0}]
  BY <1>3
<1>5. /\ IsFiniteSet(U \ {0}) /\ Cardinality(U \ {0}) = Cardinality(U) - 1
      /\ Cardinality(U) \in Nat
  BY <1>1, <1>2, FS_RemoveElement, FS_CardinalityType
<1>6. \E x, y \in U : x # y /\ f[x] = f[y]
  <2> HIDE DEF f, U
  <2> QED BY <1>2, <1>4, <1>5, FS_PigeonHole
<1> QED BY <1>6

-----------------------------------------------------------------------------
(* What a queue draws.                                                     *)

PaintOne(b, a) == IF a.type = "flip" THEN b ELSE Drawn(b, a)

\* p[k] is the backbuffer after k actions of the queue.
Paints(p, b, q) ==
    /\ p = [k \in 0 .. Len(q) |-> p[k]]
    /\ p[0] = b
    /\ \A k \in 1 .. Len(q) : p[k] = PaintOne(p[k - 1], q[k])

PaintRule(p, b, q, m) ==
    p = [k \in 0 .. m |-> IF k = 0 THEN b ELSE PaintOne(p[k - 1], q[k])]

LEMMA PaintExists ==
  ASSUME NEW b, NEW q, NEW n \in Nat
  PROVE  \E p : PaintRule(p, b, q, n)
<1> DEFINE S == {m \in Nat : \E p : PaintRule(p, b, q, m)}
<1>1. 0 \in S
  <2> DEFINE p == [k \in 0 .. 0 |-> b]
  <2>1. p = [k \in 0 .. 0 |-> IF k = 0 THEN b ELSE PaintOne(p[k - 1], q[k])]
    OBVIOUS
  <2> HIDE DEF p
  <2>2. PaintRule(p, b, q, 0)
    BY <2>1 DEF PaintRule
  <2> QED BY <2>2
<1>2. \A m \in Nat : m \in S => m + 1 \in S
  <2> SUFFICES ASSUME NEW m \in Nat, NEW p, PaintRule(p, b, q, m)
               PROVE  \E r : PaintRule(r, b, q, m + 1)
    OBVIOUS
  <2> DEFINE r == [k \in 0 .. m + 1 |-> IF k <= m THEN p[k] ELSE PaintOne(p[m], q[k])]
             s == [k \in 0 .. m + 1 |-> IF k = 0 THEN b ELSE PaintOne(r[k - 1], q[k])]
  <2>1. ASSUME NEW k \in 0 .. m + 1 PROVE r[k] = s[k]
    <3>1. CASE k = 0
      BY <3>1 DEF PaintRule
    <3>2. CASE k \in 1 .. m
      <4>1. r[k] = p[k] /\ r[k - 1] = p[k - 1] /\ k - 1 \in 0 .. m
        BY <3>2
      <4>2. p[k] = PaintOne(p[k - 1], q[k])
        BY <3>2 DEF PaintRule
      <4> QED BY <3>2, <4>1, <4>2
    <3>3. CASE k = m + 1
      BY <3>3
    <3> QED BY <3>1, <3>2, <3>3
  <2>2. r = s
    BY <2>1
  <2> HIDE DEF r
  <2>3. PaintRule(r, b, q, m + 1)
    BY <2>2 DEF PaintRule
  <2> QED BY <2>3
<1>3. n \in S
  <2> HIDE DEF S
  <2> QED BY <1>1, <1>2, Induction
<1> QED BY <1>3

LEMMA PaintedBy ==
  ASSUME NEW b, NEW S, NEW q \in Seq(S)
  PROVE  \E p : Paints(p, b, q) /\ Painted(b, q) = p[Len(q)]
<1> DEFINE p == CHOOSE p : PaintRule(p, b, q, Len(q))
<1>1. PaintRule(p, b, q, Len(q))
  BY PaintExists
<1>2. Painted(b, q) = p[Len(q)]
  BY DEF Painted, PaintRule, PaintOne
<1> HIDE DEF p
<1>3. Paints(p, b, q)
  BY <1>1 DEF PaintRule, Paints
<1> QED BY <1>2, <1>3

LEMMA PaintedIs ==
  ASSUME NEW b, NEW S, NEW q \in Seq(S), NEW r, Paints(r, b, q)
  PROVE  Painted(b, q) = r[Len(q)]
<1>1. PICK p : Paints(p, b, q) /\ Painted(b, q) = p[Len(q)]
  BY PaintedBy
<1> DEFINE K == {k \in Nat : k <= Len(q) => p[k] = r[k]}
<1>2. 0 \in K
  BY <1>1 DEF Paints
<1>3. \A k \in Nat : k \in K => k + 1 \in K
  <2> SUFFICES ASSUME NEW k \in Nat, k + 1 <= Len(q), p[k] = r[k]
               PROVE  p[k + 1] = r[k + 1]
    OBVIOUS
  <2>1. k + 1 \in 1 .. Len(q) /\ (k + 1) - 1 = k
    OBVIOUS
  <2>2. p[k + 1] = PaintOne(p[k], q[k + 1]) /\ r[k + 1] = PaintOne(r[k], q[k + 1])
    BY <1>1, <2>1 DEF Paints
  <2> QED BY <2>2
<1>4. Len(q) \in K
  <2> HIDE DEF K
  <2> QED BY <1>2, <1>3, Induction
<1> QED BY <1>1, <1>4

LEMMA PaintedEmpty == ASSUME NEW b PROVE Painted(b, <<>>) = b
<1>1. <<>> \in Seq({})
  OBVIOUS
<1>2. PICK p : Paints(p, b, <<>>) /\ Painted(b, <<>>) = p[Len(<<>>)]
  BY <1>1, PaintedBy
<1> QED BY <1>2 DEF Paints

LEMMA PaintedAppend ==
  ASSUME NEW b, NEW S, NEW q \in Seq(S), NEW a \in S
  PROVE  Painted(b, Append(q, a)) = PaintOne(Painted(b, q), a)
<1>1. PICK p : Paints(p, b, q) /\ Painted(b, q) = p[Len(q)]
  BY PaintedBy
<1> DEFINE n == Len(q)
           t == Append(q, a)
           r == [k \in 0 .. n + 1 |-> IF k <= n THEN p[k] ELSE PaintOne(p[n], a)]
<1>2. t \in Seq(S) /\ Len(t) = n + 1 /\ t[n + 1] = a /\ \A k \in 1 .. n : t[k] = q[k]
  OBVIOUS
<1>3. n \in Nat
  OBVIOUS
<1> HIDE DEF t
<1>4. Paints(r, b, t)
  <2>1. r = [k \in 0 .. Len(t) |-> r[k]] /\ r[0] = b
    BY <1>1, <1>2, <1>3 DEF Paints
  <2>2. ASSUME NEW k \in 1 .. Len(t) PROVE r[k] = PaintOne(r[k - 1], t[k])
    <3>1. CASE k = n + 1
      <4>1. r[k] = PaintOne(p[n], a) /\ r[k - 1] = p[n]
        BY <1>3, <3>1
      <4> QED BY <1>2, <3>1, <4>1
    <3>2. CASE k \in 1 .. n
      <4>1. r[k] = p[k] /\ r[k - 1] = p[k - 1] /\ t[k] = q[k]
        BY <1>2, <1>3, <3>2
      <4> QED BY <1>1, <3>2, <4>1 DEF Paints
    <3> QED BY <1>2, <1>3, <3>1, <3>2
  <2> QED BY <2>1, <2>2 DEF Paints
<1>5. r[n + 1] = PaintOne(p[n], a)
  BY <1>3
<1> HIDE DEF r
<1>6. Painted(b, t) = r[Len(t)]
  BY <1>2, <1>4, PaintedIs
<1> QED BY <1>1, <1>2, <1>5, <1>6 DEF t

LEMMA PaintedTail ==
  ASSUME NEW b, NEW S, NEW q \in Seq(S), q # <<>>
  PROVE  Painted(b, q) = Painted(PaintOne(b, Head(q)), Tail(q))
<1>1. PICK p : Paints(p, b, q) /\ Painted(b, q) = p[Len(q)]
  BY PaintedBy
<1> DEFINE n == Len(q)
           t == Tail(q)
           c == PaintOne(b, Head(q))
           r == [k \in 0 .. n - 1 |-> p[k + 1]]
<1>2. t \in Seq(S) /\ Len(t) = n - 1 /\ (\A k \in 1 .. n - 1 : t[k] = q[k + 1]) /\ Head(q) = q[1]
  OBVIOUS
<1>3. n \in Nat /\ n >= 1
  OBVIOUS
<1>4. p[1] = c
  BY <1>1, <1>2, <1>3 DEF Paints
<1> HIDE DEF t, c
<1>5. Paints(r, c, t)
  <2>1. r = [k \in 0 .. Len(t) |-> r[k]] /\ r[0] = c
    BY <1>2, <1>3, <1>4
  <2>2. ASSUME NEW k \in 1 .. Len(t) PROVE r[k] = PaintOne(r[k - 1], t[k])
    <3>1. k \in 1 .. n - 1 /\ k + 1 \in 1 .. n /\ (k + 1) - 1 = k
      BY <1>2, <1>3
    <3>2. r[k] = p[k + 1] /\ r[k - 1] = p[k] /\ t[k] = q[k + 1]
      BY <1>2, <1>3, <3>1
    <3>3. p[k + 1] = PaintOne(p[k], q[k + 1])
      BY <1>1, <3>1 DEF Paints
    <3> QED BY <3>2, <3>3
  <2> QED BY <2>1, <2>2 DEF Paints
<1>6. r[n - 1] = p[n]
  BY <1>3
<1> HIDE DEF r
<1>7. Painted(c, t) = r[Len(t)]
  BY <1>2, <1>5, PaintedIs
<1> QED BY <1>1, <1>2, <1>6, <1>7 DEF t, c

\* The same for the actions that are drawn while no image is missing.
ScanRule(p, e, arrived, m) ==
    p = [k \in 0 .. m |-> IF k = 0 THEN e ELSE DrawHead(p[k - 1], arrived)]

LEMMA ScanExists ==
  ASSUME NEW e, NEW arrived, NEW n \in Nat
  PROVE  \E p : ScanRule(p, e, arrived, n)
<1> DEFINE S == {m \in Nat : \E p : ScanRule(p, e, arrived, m)}
<1>1. 0 \in S
  <2> DEFINE p == [k \in 0 .. 0 |-> e]
  <2>1. p = [k \in 0 .. 0 |-> IF k = 0 THEN e ELSE DrawHead(p[k - 1], arrived)]
    OBVIOUS
  <2> HIDE DEF p
  <2>2. ScanRule(p, e, arrived, 0)
    BY <2>1 DEF ScanRule
  <2> QED BY <2>2
<1>2. \A m \in Nat : m \in S => m + 1 \in S
  <2> SUFFICES ASSUME NEW m \in Nat, NEW p, ScanRule(p, e, arrived, m)
               PROVE  \E r : ScanRule(r, e, arrived, m + 1)
    OBVIOUS
  <2> DEFINE r == [k \in 0 .. m + 1 |-> IF k <= m THEN p[k] ELSE DrawHead(p[m], arrived)]
             s == [k \in 0 .. m + 1 |-> IF k = 0 THEN e ELSE DrawHead(r[k - 1], arrived)]
  <2>1. ASSUME NEW k \in 0 .. m + 1 PROVE r[k] = s[k]
    <3>1. CASE k = 0
      BY <3>1 DEF ScanRule
    <3>2. CASE k \in 1 .. m
      <4>1. r[k] = p[k] /\ r[k - 1] = p[k - 1] /\ k - 1 \in 0 .. m
        BY <3>2
      <4>2. p[k] = DrawHead(p[k - 1], arrived)
        BY <3>2 DEF ScanRule
      <4> QED BY <3>2, <4>1, <4>2
    <3>3. CASE k = m + 1
      BY <3>3
    <3> QED BY <3>1, <3>2, <3>3
  <2>2. r = s
    BY <2>1
  <2> HIDE DEF r
  <2>3. ScanRule(r, e, arrived, m + 1)
    BY <2>2 DEF ScanRule
  <2> QED BY <2>3
<1>3. n \in S
  <2> HIDE DEF S
  <2> QED BY <1>1, <1>2, Induction
<1> QED BY <1>3

LEMMA ScanBy ==
  ASSUME NEW e, NEW arrived, Len(e.q) \in Nat
  PROVE  \E p : /\ p[0] = e
                /\ \A k \in 0 .. Len(e.q) - 1 : p[k + 1] = DrawHead(p[k], arrived)
                /\ ScanRenderQ(e, arrived) = p[Len(e.q)]
<1> DEFINE p == CHOOSE p : ScanRule(p, e, arrived, Len(e.q))
<1>1. ScanRule(p, e, arrived, Len(e.q))
  BY ScanExists
<1>2. ScanRenderQ(e, arrived) = p[Len(e.q)]
  BY DEF ScanRenderQ, ScanRule
<1> HIDE DEF p
<1>3. p[0] = e
  BY <1>1 DEF ScanRule
<1>4. ASSUME NEW k \in 0 .. Len(e.q) - 1 PROVE p[k + 1] = DrawHead(p[k], arrived)
  <2>1. k + 1 \in 0 .. Len(e.q) /\ k + 1 # 0 /\ (k + 1) - 1 = k
    OBVIOUS
  <2> QED BY <1>1, <2>1 DEF ScanRule
<1> QED BY <1>2, <1>3, <1>4

-----------------------------------------------------------------------------
(* Showing.                                                                *)

\* The same drawing actions, in the same order.
Keeps(q, r) ==
    /\ \A b : Painted(b, r) = Painted(b, q)
    /\ \A i \in DOMAIN r : r[i].type = "flip" \/ \E j \in DOMAIN q : q[j] = r[i]
    /\ r = <<>> <=> q = <<>>

LEMMA KeepsSelf == ASSUME NEW q PROVE Keeps(q, q)
BY DEF Keeps

LEMMA KeepsOn ==
  ASSUME NEW q, NEW r, NEW s, Keeps(q, r), Keeps(r, s)
  PROVE  Keeps(q, s)
<1>1. \A b : Painted(b, s) = Painted(b, q)
  BY Zenon DEF Keeps
<1>2. ASSUME NEW i \in DOMAIN s PROVE s[i].type = "flip" \/ \E j \in DOMAIN q : q[j] = s[i]
  BY Zenon DEF Keeps
<1>3. s = <<>> <=> q = <<>>
  BY Zenon DEF Keeps
<1> QED BY Zenon, <1>1, <1>2, <1>3 DEF Keeps

LEMMA KeepsFlip ==
  ASSUME NEW q \in Seq(Queueable), q # <<>>
  PROVE  LET r == Append(q, [type |-> "flip"]) IN
         /\ r \in Seq(Queueable)
         /\ Keeps(q, r)
         /\ r # <<>> /\ r[Len(r)].type = "flip"
<1> DEFINE f == [type |-> "flip"]
           r == Append(q, f)
<1>1. f \in Queueable /\ f.type = "flip"
  BY DEF Queueable
<1> HIDE DEF f
<1>2. r \in Seq(Queueable) /\ r # <<>> /\ r[Len(r)] = f /\ Len(r) = Len(q) + 1
      /\ \A i \in 1 .. Len(q) : r[i] = q[i]
  BY <1>1
<1>3. ASSUME NEW b PROVE Painted(b, r) = Painted(b, q)
  BY <1>1, PaintedAppend DEF PaintOne
<1>4. ASSUME NEW i \in DOMAIN r PROVE r[i].type = "flip" \/ \E j \in DOMAIN q : q[j] = r[i]
  BY <1>1, <1>2
<1> HIDE DEF r
<1>5. Keeps(q, r)
  BY <1>2, <1>3, <1>4 DEF Keeps
<1> QED BY <1>1, <1>2, <1>5 DEF r, f

LEMMA DamageKeepsCover ==
  ASSUME NEW e, Sized(e), NEW x \in Nat, NEW w \in Nat
  PROVE  /\ Sized(Damage(e, x, w))
         /\ Covered(e) => Covered(Damage(e, x, w))
<1> DEFINE n == Damage(e, x, w)
<1>1. /\ n \in Displays
      /\ n.fb = e.fb /\ n.back = e.back /\ n.x = e.x /\ n.w = e.w /\ n.seen = e.seen
      /\ n.left = IF x < e.left THEN x ELSE e.left
      /\ n.right = IF x + w > e.right THEN x + w ELSE e.right
  BY DamageParts DEF Sized
<1>2. e.left \in Int /\ e.right \in Int /\ e.x \in Nat /\ e.w \in Nat
  BY FieldTypes DEF Sized
<1> HIDE DEF n
<1>3. Sized(n)
  BY <1>1 DEF Sized
<1>4. ASSUME Covered(e), NEW i \in 0 .. n.w - 1, n.x + i < n.fb
      PROVE  SamePixel(n, i) \/ Damaged(n, i)
  <2>1. SamePixel(e, i) \/ Damaged(e, i)
    BY <1>1, <1>4 DEF Covered
  <2> QED BY <1>1, <1>2, <2>1 DEF SamePixel, Damaged
<1> QED BY <1>3, <1>4 DEF Covered, n

LEMMA DamageAll ==
  ASSUME NEW e, Sized(e)
  PROVE  Covered(Damage(e, e.x, e.w))
<1> DEFINE n == Damage(e, e.x, e.w)
<1>2. e.left \in Int /\ e.right \in Int /\ e.x \in Nat /\ e.w \in Nat /\ e \in Displays
  BY FieldTypes DEF Sized
<1>1. /\ n.fb = e.fb /\ n.x = e.x /\ n.w = e.w
      /\ n.left = IF e.x < e.left THEN e.x ELSE e.left
      /\ n.right = IF e.x + e.w > e.right THEN e.x + e.w ELSE e.right
  BY <1>2, DamageParts
<1> HIDE DEF n
<1>3. ASSUME NEW i \in 0 .. n.w - 1 PROVE Damaged(n, i)
  BY <1>1, <1>2 DEF Damaged
<1> QED BY <1>3 DEF Covered, n

LEMMA FlipNowShows ==
  ASSUME NEW e, Sized(e), Covered(e)
  PROVE  Shown(FlipNow(e)) /\ Covered(FlipNow(e))
<1> DEFINE n == FlipNow(e)
<1>1. /\ n.fb = e.fb /\ n.back = e.back /\ n.x = e.x /\ n.w = e.w
      /\ n.seen = [i \in 0 .. e.w - 1 |->
                     LET p == e.x + i
                     IN  IF e.left <= p /\ p < e.right /\ p < e.fb THEN e.back[p]
                         ELSE e.seen[i]]
  BY FlipNowParts
<1> HIDE DEF n
<1>2. ASSUME NEW i \in 0 .. n.w - 1, n.x + i < n.fb PROVE SamePixel(n, i)
  <2>1. n.seen[i] = IF e.left <= e.x + i /\ e.x + i < e.right /\ e.x + i < e.fb
                    THEN e.back[e.x + i] ELSE e.seen[i]
    BY <1>1
  <2>2. SamePixel(e, i) \/ Damaged(e, i)
    BY <1>1, <1>2 DEF Covered
  <2> QED BY <1>1, <1>2, <2>1, <2>2 DEF SamePixel, Damaged
<1> QED BY <1>2 DEF Shown, Covered, n

Requeued(e, q) == [e EXCEPT !.q = q]

LEMMA RequeuedParts ==
  ASSUME NEW e, Sized(e), NEW q \in Seq(Queueable)
  PROVE  LET n == Requeued(e, q) IN
         /\ Sized(n)
         /\ n.fb = e.fb /\ n.back = e.back /\ n.x = e.x /\ n.w = e.w /\ n.seen = e.seen
         /\ n.clip = e.clip /\ n.left = e.left /\ n.right = e.right /\ n.q = q
         /\ Covered(e) => Covered(n)
         /\ Shown(e) => Shown(n)
<1> DEFINE n == Requeued(e, q)
<1>1. /\ n \in Displays
      /\ n.fb = e.fb /\ n.back = e.back /\ n.x = e.x /\ n.w = e.w /\ n.seen = e.seen
      /\ n.clip = e.clip /\ n.left = e.left /\ n.right = e.right /\ n.q = q
  BY DEF Requeued, Displays, Sized
<1> HIDE DEF n
<1>2. Sized(n)
  BY <1>1 DEF Sized
<1>3. \A i : SamePixel(n, i) = SamePixel(e, i) /\ Damaged(n, i) = Damaged(e, i)
  BY <1>1 DEF SamePixel, Damaged
<1>4. (Covered(e) => Covered(n)) /\ (Shown(e) => Shown(n))
  BY <1>1, <1>3 DEF Covered, Shown
<1> QED BY <1>1, <1>2, <1>4 DEF n

LEMMA FlipSettles ==
  ASSUME NEW e, Sized(e)
  PROVE  LET n == Flip(e) IN
         /\ Sized(n)
         /\ n.fb = e.fb /\ n.back = e.back /\ n.x = e.x /\ n.w = e.w /\ n.clip = e.clip
         /\ Keeps(e.q, n.q)
         /\ Covered(e) => Covered(n) /\ Settled(n)
<1> DEFINE n == Flip(e)
<1>1. e.q \in Seq(Queueable)
  BY FieldTypes DEF Sized
<1>2. CASE e.q = <<>>
  <2>1. n = FlipNow(e)
    BY <1>2 DEF Flip
  <2> HIDE DEF n
  <2>2. /\ Sized(n)
        /\ n.fb = e.fb /\ n.back = e.back /\ n.x = e.x /\ n.w = e.w /\ n.clip = e.clip /\ n.q = e.q
    BY <2>1, FlipNowParts
  <2>3. Keeps(e.q, n.q)
    BY <2>2, KeepsSelf
  <2>4. Covered(e) => Covered(n) /\ Settled(n)
    BY <1>2, <2>1, <2>2, FlipNowShows DEF Settled
  <2> QED BY <2>2, <2>3, <2>4 DEF n
<1>3. CASE e.q # <<>>
  <2> DEFINE q == Append(e.q, [type |-> "flip"])
  <2>1. n = Requeued(e, q)
    BY Zenon, <1>3 DEF Flip, Requeued
  <2>2. q \in Seq(Queueable) /\ Keeps(e.q, q) /\ q # <<>> /\ q[Len(q)].type = "flip"
    BY <1>1, <1>3, KeepsFlip
  <2> HIDE DEF n, q
  <2> QED BY <2>1, <2>2, RequeuedParts DEF Settled, n
<1> QED BY <1>2, <1>3

-----------------------------------------------------------------------------
(* The viewport.                                                           *)

\* n shows what e shows, in another place or size.
Reframed(e, n) ==
    /\ Sized(n)
    /\ n.fb = e.fb /\ n.back = e.back /\ n.clip = e.clip
    /\ Keeps(e.q, n.q)

LEMMA ReframedOn ==
  ASSUME NEW e, NEW n, NEW m, Reframed(e, n), Reframed(n, m)
  PROVE  Reframed(e, m)
BY KeepsOn DEF Reframed

LEMMA ShowAll ==
  ASSUME NEW e, Sized(e)
  PROVE  LET n == Flip(Damage(e, e.x, e.w)) IN
         /\ Reframed(e, n) /\ n.x = e.x /\ n.w = e.w
         /\ Covered(n) /\ Settled(n)
<1> DEFINE m == Damage(e, e.x, e.w)
           n == Flip(m)
<1>1. e \in Displays /\ e.x \in Nat /\ e.w \in Nat
  BY FieldTypes DEF Sized
<1>2. /\ m.fb = e.fb /\ m.back = e.back /\ m.x = e.x /\ m.w = e.w
      /\ m.clip = e.clip /\ m.q = e.q
  BY <1>1, DamageParts
<1>3. Sized(m) /\ Covered(m)
  BY <1>1, DamageKeepsCover, DamageAll
<1> HIDE DEF m
<1>4. /\ Sized(n)
      /\ n.fb = m.fb /\ n.back = m.back /\ n.x = m.x /\ n.w = m.w /\ n.clip = m.clip
      /\ Keeps(m.q, n.q)
      /\ Covered(n) /\ Settled(n)
  BY <1>3, FlipSettles
<1> HIDE DEF n
<1> QED BY <1>2, <1>4 DEF Reframed, n, m

MovedTo(e, x) == [e EXCEPT !.x = x]

LEMMA MovedToParts ==
  ASSUME NEW e, Sized(e), NEW x \in Nat
  PROVE  LET n == MovedTo(e, x) IN
         /\ Sized(n)
         /\ n.fb = e.fb /\ n.back = e.back /\ n.x = x /\ n.w = e.w /\ n.clip = e.clip
         /\ n.q = e.q
BY DEF MovedTo, Displays, Sized

LEMMA PosParts ==
  ASSUME NEW e, Sized(e), e.w <= e.fb, NEW delta \in Int
  PROVE  LET n == ViewportChangePos(e, delta) IN
         /\ Placed(n) /\ Reframed(e, n) /\ n.w = e.w
         /\ e.x + e.w > e.fb \/ Covered(e) => Covered(n)
         /\ e.x + e.w > e.fb \/ Settled(e) => Settled(n)
<1> DEFINE dx1 == IF e.clip THEN delta ELSE -e.w
           dx2 == IF dx1 < 0 /\ e.x + dx1 < 0 THEN -e.x ELSE dx1
           over == e.x + e.w - 1 + dx2 - e.fb + 1
           dx == IF over > 0 THEN dx2 - over ELSE dx2
           n == ViewportChangePos(e, delta)
<1>1. e.fb \in Nat /\ e.x \in Nat /\ e.w \in Nat
  BY FieldTypes DEF Sized
<1>2. dx1 \in Int
  BY <1>1
<1>3. dx2 \in Int /\ e.x + dx2 >= 0
  BY <1>1, <1>2
<1> HIDE DEF dx1
<1>4. dx \in Int /\ e.x + dx >= 0 /\ e.x + dx + e.w <= e.fb
  <2> HIDE DEF dx2
  <2> QED BY <1>1, <1>3
<1> HIDE DEF dx2, over
<1>5. n = IF dx = 0 THEN e ELSE Flip(Damage(MovedTo(e, e.x + dx), e.x + dx, e.w))
  BY Zenon DEF ViewportChangePos, MovedTo, dx1, dx2, over
<1> HIDE DEF dx, n
<1>6. CASE dx = 0
  <2>1. n = e /\ e.x + e.w <= e.fb
    BY <1>1, <1>4, <1>5, <1>6
  <2> QED BY <1>1, <2>1, KeepsSelf DEF Placed, Reframed, n
<1>7. CASE dx # 0
  <2> DEFINE m == MovedTo(e, e.x + dx)
  <2>1. e.x + dx \in Nat
    BY <1>1, <1>4
  <2>2. /\ Sized(m)
        /\ m.fb = e.fb /\ m.back = e.back /\ m.x = e.x + dx /\ m.w = e.w /\ m.clip = e.clip
        /\ m.q = e.q
    BY <2>1, MovedToParts
  <2> HIDE DEF m
  <2>3. n = Flip(Damage(m, m.x, m.w))
    BY <1>5, <1>7, <2>2 DEF m
  <2>4. Reframed(m, n) /\ n.x = m.x /\ n.w = m.w /\ Covered(n) /\ Settled(n)
    BY <2>2, <2>3, ShowAll
  <2>5. Reframed(e, n)
    BY <2>2, <2>4 DEF Reframed
  <2>6. Placed(n)
    BY <1>4, <2>2, <2>4 DEF Placed, Reframed
  <2> QED BY <2>2, <2>4, <2>5, <2>6 DEF n
<1> QED BY <1>6, <1>7

Widened(e, w) == [e EXCEPT !.w = w, !.seen = Blank(w)]

LEMMA BlankIn == ASSUME NEW w \in Nat PROVE Blank(w) \in [0 .. w - 1 -> Int] /\ Blank(w) \in Rows
<1>1. Blank(w) \in [0 .. w - 1 -> Int]
  BY DEF Blank
<1> QED BY <1>1, RowIn

LEMMA WidenedParts ==
  ASSUME NEW e, Sized(e), NEW w \in Nat
  PROVE  LET n == Widened(e, w) IN
         /\ Sized(n)
         /\ n.fb = e.fb /\ n.back = e.back /\ n.x = e.x /\ n.w = w /\ n.clip = e.clip
         /\ n.q = e.q
<1> DEFINE n == Widened(e, w)
<1>1. /\ n \in Displays
      /\ n.fb = e.fb /\ n.back = e.back /\ n.x = e.x /\ n.w = w /\ n.clip = e.clip
      /\ n.q = e.q /\ n.seen = Blank(w)
  BY BlankIn DEF Widened, Displays, Sized
<1> HIDE DEF n
<1>2. Sized(n)
  BY <1>1, BlankIn DEF Sized
<1> QED BY <1>1, <1>2 DEF n

LEMMA SizeParts ==
  ASSUME NEW e, Sized(e), NEW width \in Nat
  PROVE  LET n == ViewportChangeSize(e, width) IN
         /\ Reframed(e, n) /\ n.w <= n.fb
         /\ n = e \/ (Placed(n) /\ Covered(n) /\ Settled(n))
<1> DEFINE want == IF e.clip /\ width <= e.fb THEN width ELSE e.fb
           grown == ViewportChangePos(Widened(e, want), 0)
           n == ViewportChangeSize(e, width)
<1>1. e.fb \in Nat /\ e.w \in Nat
  BY FieldTypes DEF Sized
<1>2. want \in Nat /\ want <= e.fb
  BY <1>1
<1> HIDE DEF want
<1>3. n = IF e.w = want THEN e ELSE Flip(Damage(grown, grown.x, grown.w))
  BY Zenon DEF ViewportChangeSize, Widened, want
<1>4. CASE e.w = want
  <2>1. n = e
    BY <1>3, <1>4
  <2> HIDE DEF n
  <2> QED BY <1>2, <1>4, <2>1, KeepsSelf DEF Reframed, n
<1>5. CASE e.w # want
  <2> DEFINE m == Widened(e, want)
  <2>1. /\ Sized(m)
        /\ m.fb = e.fb /\ m.back = e.back /\ m.w = want /\ m.clip = e.clip /\ m.q = e.q
    BY <1>2, WidenedParts
  <2> HIDE DEF m
  <2>2. Reframed(e, m)
    BY <2>1, KeepsSelf DEF Reframed
  <2>3. Placed(grown) /\ Reframed(m, grown)
    BY <1>2, <2>1, PosParts DEF m
  <2> HIDE DEF grown
  <2>4. n = Flip(Damage(grown, grown.x, grown.w))
    BY <1>3, <1>5
  <2> HIDE DEF n
  <2>5. Reframed(grown, n) /\ n.x = grown.x /\ n.w = grown.w /\ Covered(n) /\ Settled(n)
    BY <2>3, <2>4, ShowAll DEF Placed
  <2>6. Reframed(e, n)
    BY <2>2, <2>3, <2>5, ReframedOn
  <2>7. Placed(n)
    BY <2>3, <2>5 DEF Placed, Reframed
  <2>8. n.w <= n.fb
    <3>1. n.fb \in Nat /\ n.x \in Nat /\ n.w \in Nat
      BY <2>7, FieldTypes DEF Placed, Sized
    <3> QED BY <2>7, <3>1 DEF Placed
  <2> QED BY <2>5, <2>6, <2>7, <2>8 DEF n
<1> QED BY <1>4, <1>5

\* The viewport fitted to the framebuffer, as every change of either ends.
LEMMA Refit ==
  ASSUME NEW e, Sized(e), Covered(e), NEW width \in Nat
  PROVE  LET n == ViewportChangePos(ViewportChangeSize(e, width), 0) IN
         /\ Reframed(e, n) /\ Placed(n) /\ Covered(n)
         /\ Settled(e) => Settled(n)
<1> DEFINE m == ViewportChangeSize(e, width)
           n == ViewportChangePos(m, 0)
<1>1. Reframed(e, m) /\ m.w <= m.fb /\ (m = e \/ (Placed(m) /\ Covered(m) /\ Settled(m)))
  BY SizeParts
<1> HIDE DEF m
<1>2. Covered(m) /\ (Settled(e) => Settled(m)) /\ Sized(m)
  BY <1>1 DEF Reframed
<1>3. Placed(n) /\ Reframed(m, n) /\ Covered(n) /\ (Settled(m) => Settled(n))
  BY <1>1, <1>2, PosParts
<1> HIDE DEF n
<1>4. Reframed(e, n)
  BY <1>1, <1>3, ReframedOn
<1> QED BY <1>2, <1>3, <1>4 DEF n, m

-----------------------------------------------------------------------------
(* Drawing.                                                                *)

LEMMA DrawnIn ==
  ASSUME NEW k \in Nat, NEW b \in [0 .. k - 1 -> Int], NEW a \in Shapes
  PROVE  Drawn(b, a) \in [0 .. k - 1 -> Int]
<1>1. a.type # "copy" => a.color \in Int
  BY DEF Shapes
<1>2. DOMAIN b = 0 .. k - 1 /\ \A i \in 0 .. k - 1 : b[i] \in Int
  OBVIOUS
<1>3. ASSUME NEW i \in 0 .. k - 1 PROVE Drawn(b, a)[i] \in Int
  <2> DEFINE from == a.old + i - a.x
  <2>1. Drawn(b, a)[i] = IF i < a.x \/ i >= a.x + a.w THEN b[i]
                         ELSE IF a.type # "copy" THEN a.color
                         ELSE IF from \in DOMAIN b THEN b[from] ELSE b[i]
    BY <1>2 DEF Drawn
  <2> HIDE DEF from
  <2> QED BY <1>1, <1>2, <2>1
<1>4. Drawn(b, a) = [i \in 0 .. k - 1 |-> Drawn(b, a)[i]]
  BY <1>2 DEF Drawn
<1> QED BY <1>3, <1>4

LEMMA PaintOneIn ==
  ASSUME NEW k \in Nat, NEW b \in [0 .. k - 1 -> Int], NEW a \in Queueable
  PROVE  PaintOne(b, a) \in [0 .. k - 1 -> Int]
BY ShapeParts, DrawnIn DEF PaintOne

LEMMA PaintedIn ==
  ASSUME NEW k \in Nat, NEW b \in [0 .. k - 1 -> Int], NEW q \in Seq(Queueable)
  PROVE  Painted(b, q) \in [0 .. k - 1 -> Int]
<1>1. PICK p : Paints(p, b, q) /\ Painted(b, q) = p[Len(q)]
  BY PaintedBy
<1> DEFINE R == [0 .. k - 1 -> Int]
           K == {i \in Nat : i <= Len(q) => p[i] \in R}
<1>2. 0 \in K
  BY <1>1 DEF Paints
<1>3. \A i \in Nat : i \in K => i + 1 \in K
  <2> HIDE DEF R
  <2> SUFFICES ASSUME NEW i \in Nat, i + 1 <= Len(q), p[i] \in R
               PROVE  p[i + 1] \in R
    OBVIOUS
  <2> HIDE DEF K
  <2>1. i + 1 \in 1 .. Len(q) /\ (i + 1) - 1 = i
    OBVIOUS
  <2>2. q[i + 1] \in Queueable
    BY <2>1
  <2>3. p[i + 1] = PaintOne(p[i], q[i + 1])
    BY <1>1, <2>1 DEF Paints
  <2>4. PaintOne(p[i], q[i + 1]) \in R
    BY <2>2, PaintOneIn DEF R
  <2> QED BY <2>3, <2>4
<1>4. Len(q) \in K
  <2>1. Len(q) \in Nat
    OBVIOUS
  <2> HIDE DEF K
  <2> QED BY <1>2, <1>3, <2>1, Induction
<1> QED BY <1>1, <1>4

Backed(e, b) == [e EXCEPT !.back = b]

LEMMA BackedParts ==
  ASSUME NEW e, Sized(e), NEW b \in [0 .. e.fb - 1 -> Int]
  PROVE  LET n == Backed(e, b) IN
         /\ Sized(n)
         /\ n.fb = e.fb /\ n.back = b /\ n.x = e.x /\ n.w = e.w /\ n.seen = e.seen
         /\ n.clip = e.clip /\ n.left = e.left /\ n.right = e.right /\ n.q = e.q
<1> DEFINE n == Backed(e, b)
<1>1. e.fb \in Nat
  BY FieldTypes DEF Sized
<1>2. b \in Rows
  BY <1>1, RowIn
<1>3. /\ n \in Displays
      /\ n.fb = e.fb /\ n.back = b /\ n.x = e.x /\ n.w = e.w /\ n.seen = e.seen
      /\ n.clip = e.clip /\ n.left = e.left /\ n.right = e.right /\ n.q = e.q
  BY <1>2 DEF Backed, Displays, Sized
<1> HIDE DEF n
<1>4. Sized(n)
  BY <1>3 DEF Sized
<1> QED BY <1>3, <1>4 DEF n

LEMMA DrawNowParts ==
  ASSUME NEW e, Sized(e), NEW a \in Queueable
  PROVE  LET n == DrawNow(e, a) IN
         /\ Sized(n)
         /\ n.fb = e.fb /\ n.x = e.x /\ n.w = e.w /\ n.q = e.q
         /\ n.back = PaintOne(e.back, a)
         /\ Covered(e) => Covered(n)
         /\ Covered(e) /\ a.type = "flip" => Shown(n)
<1> DEFINE n == DrawNow(e, a)
<1>1. CASE a.type = "flip"
  <2>1. n = FlipNow(e)
    BY <1>1 DEF DrawNow
  <2> HIDE DEF n
  <2>2. Sized(n) /\ n.fb = e.fb /\ n.back = e.back /\ n.x = e.x /\ n.w = e.w /\ n.q = e.q
    BY <2>1, FlipNowParts
  <2>3. n.back = PaintOne(e.back, a)
    BY <1>1, <2>2 DEF PaintOne
  <2> QED BY <2>1, <2>2, <2>3, FlipNowShows DEF n
<1>2. CASE a.type # "flip"
  <2> DEFINE b == Drawn(e.back, a)
             m == Backed(e, b)
  <2>1. a.x \in Nat /\ a.w \in Nat /\ a \in Shapes
    BY <1>2, ShapeParts
  <2>2. e.fb \in Nat /\ e.x \in Nat /\ e.w \in Nat /\ e.left \in Int /\ e.right \in Int
    BY FieldTypes DEF Sized
  <2>3. e.back \in [0 .. e.fb - 1 -> Int]
    BY DEF Sized
  <2>4. b \in [0 .. e.fb - 1 -> Int]
    BY <2>1, <2>2, <2>3, DrawnIn
  <2>5. \A p \in 0 .. e.fb - 1 : p < a.x \/ p >= a.x + a.w => b[p] = e.back[p]
    BY <2>3 DEF Drawn
  <2>6. n = Damage(m, a.x, a.w)
    BY Zenon, <1>2 DEF DrawNow, Backed
  <2>7. b = PaintOne(e.back, a)
    BY <1>2 DEF PaintOne
  <2> HIDE DEF b
  <2>8. /\ Sized(m)
        /\ m.fb = e.fb /\ m.back = b /\ m.x = e.x /\ m.w = e.w /\ m.seen = e.seen
        /\ m.left = e.left /\ m.right = e.right /\ m.q = e.q
    BY <2>4, BackedParts
  <2> HIDE DEF m, n
  <2>9. /\ n.fb = m.fb /\ n.back = m.back /\ n.x = m.x /\ n.w = m.w /\ n.seen = m.seen
        /\ n.q = m.q
        /\ n.left = IF a.x < m.left THEN a.x ELSE m.left
        /\ n.right = IF a.x + a.w > m.right THEN a.x + a.w ELSE m.right
    BY <2>1, <2>6, <2>8, DamageParts DEF Sized
  <2>10. Sized(n)
    BY <2>1, <2>6, <2>8, DamageKeepsCover
  <2>11. ASSUME Covered(e), NEW i \in 0 .. n.w - 1, n.x + i < n.fb
         PROVE  SamePixel(n, i) \/ Damaged(n, i)
    <3> DEFINE p == e.x + i
    <3>1. p \in 0 .. e.fb - 1 /\ i \in 0 .. e.w - 1 /\ e.x + i < e.fb
      BY <2>2, <2>8, <2>9, <2>11
    <3>2. SamePixel(e, i) \/ Damaged(e, i)
      BY Zenon, <2>11, <3>1 DEF Covered
    <3>3. n.x + i = p /\ n.seen[i] = e.seen[i] /\ n.back[n.x + i] = b[p]
      BY <2>8, <2>9
    <3> HIDE DEF p
    <3>4. CASE p < a.x \/ p >= a.x + a.w
      <4>1. b[p] = e.back[p]
        BY <2>5, <3>1, <3>4
      <4> QED BY <2>1, <2>2, <2>8, <2>9, <3>1, <3>2, <3>3, <4>1 DEF SamePixel, Damaged, p
    <3>5. CASE a.x <= p /\ p < a.x + a.w
      BY <2>1, <2>2, <2>8, <2>9, <3>1, <3>3, <3>5 DEF Damaged
    <3> QED BY <2>1, <3>1, <3>4, <3>5
  <2>12. Covered(e) => Covered(n)
    BY <2>11 DEF Covered
  <2> QED BY <1>2, <2>7, <2>8, <2>9, <2>10, <2>12 DEF n
<1> QED BY <1>1, <1>2

\* n has drawn what was at the head of the queue of e.
Draws(e, n) ==
    /\ Placed(n) /\ Covered(n) /\ n.fb = e.fb
    /\ Painted(n.back, n.q) = Painted(e.back, e.q)
    /\ \A i \in DOMAIN n.q : \E j \in DOMAIN e.q : e.q[j] = n.q[i]
    /\ Settled(e) => Settled(n)

LEMMA DrawsOn ==
  ASSUME NEW e, NEW n, NEW m, Draws(e, n), Draws(n, m)
  PROVE  Draws(e, m)
<1>1. ASSUME NEW i \in DOMAIN m.q PROVE \E j \in DOMAIN e.q : e.q[j] = m.q[i]
  BY Zenon DEF Draws
<1> QED BY <1>1 DEF Draws

LEMMA DrawHeadDraws ==
  ASSUME NEW e, Placed(e), Covered(e), NEW arrived
  PROVE  Draws(e, DrawHead(e, arrived))
<1> DEFINE a == Head(e.q)
           n == DrawHead(e, arrived)
<1>1. e.q \in Seq(Queueable)
  BY FieldTypes DEF Placed, Sized
<1>2. CASE n = e
  <2> HIDE DEF n
  <2> QED BY <1>2 DEF Draws, n
<1>3. CASE n # e
  <2> DEFINE m == DrawNow(e, a)
             t == Tail(e.q)
  <2>1. e.q # <<>>
    BY <1>3 DEF DrawHead
  <2>2. a \in Queueable /\ t \in Seq(Queueable) /\ Len(t) = Len(e.q) - 1 /\ Len(e.q) \in Nat
        /\ \A i \in 1 .. Len(t) : t[i] = e.q[i + 1]
    BY <1>1, <2>1
  <2>3. /\ Sized(m)
        /\ m.fb = e.fb /\ m.x = e.x /\ m.w = e.w /\ m.q = e.q
        /\ m.back = PaintOne(e.back, a)
        /\ Covered(m)
        /\ a.type = "flip" => Shown(m)
    BY <2>2, DrawNowParts DEF Placed
  <2>4. n = Requeued(m, Tail(m.q))
    BY Zenon, <1>3, <2>1 DEF DrawHead, Requeued
  <2>5. n = Requeued(m, t)
    BY <2>3, <2>4
  <2> HIDE DEF m, n
  <2>6. /\ Sized(n)
        /\ n.fb = m.fb /\ n.back = m.back /\ n.x = m.x /\ n.w = m.w /\ n.q = t
        /\ Covered(n)
        /\ Shown(m) => Shown(n)
    BY <2>2, <2>3, <2>5, RequeuedParts
  <2>7. Placed(n)
    BY <2>3, <2>6 DEF Placed
  <2>8. Painted(n.back, n.q) = Painted(e.back, e.q)
    BY <1>1, <2>1, <2>3, <2>6, PaintedTail
  <2>9. ASSUME NEW i \in DOMAIN n.q PROVE \E j \in DOMAIN e.q : e.q[j] = n.q[i]
    <3>1. i \in 1 .. Len(t)
      BY <2>2, <2>6, <2>9
    <3>2. i + 1 \in DOMAIN e.q
      BY <1>1, <2>2, <3>1
    <3> QED BY <2>2, <2>6, <3>1, <3>2
  <2>10. ASSUME Settled(e) PROVE Settled(n)
    <3>1. e.q[Len(e.q)].type = "flip"
      BY <2>1, <2>10 DEF Settled
    <3>2. CASE t = <<>>
      <4>1. Len(e.q) = 1
        <5> HIDE DEF t
        <5>1. Len(t) = 0
          BY <3>2
        <5> QED BY <2>2, <5>1
      <4>2. a = e.q[Len(e.q)]
        BY <1>1, <4>1
      <4> QED BY <2>3, <2>6, <3>1, <3>2, <4>2 DEF Settled
    <3>3. CASE t # <<>>
      <4>1. t[Len(t)] = e.q[Len(e.q)]
        BY <1>1, <2>1, <2>2, <3>3
      <4> QED BY <2>6, <3>1, <3>3, <4>1 DEF Settled
    <3> QED BY <3>2, <3>3
  <2> QED BY <2>3, <2>6, <2>7, <2>8, <2>9, <2>10 DEF Draws, n
<1> QED BY <1>2, <1>3

LEMMA ScanDraws ==
  ASSUME NEW e, Placed(e), Covered(e), NEW arrived
  PROVE  Draws(e, ScanRenderQ(e, arrived))
<1>1. Len(e.q) \in Nat
  BY FieldTypes DEF Placed, Sized
<1>2. PICK p : /\ p[0] = e
               /\ \A k \in 0 .. Len(e.q) - 1 : p[k + 1] = DrawHead(p[k], arrived)
               /\ ScanRenderQ(e, arrived) = p[Len(e.q)]
  BY <1>1, ScanBy
<1> DEFINE K == {k \in Nat : k <= Len(e.q) => Draws(e, p[k])}
<1>3. 0 \in K
  BY <1>2 DEF Draws
<1>4. \A k \in Nat : k \in K => k + 1 \in K
  <2> SUFFICES ASSUME NEW k \in Nat, k + 1 <= Len(e.q), Draws(e, p[k])
               PROVE  Draws(e, p[k + 1])
    BY <1>1
  <2>1. p[k + 1] = DrawHead(p[k], arrived)
    BY <1>1, <1>2
  <2>2. Placed(p[k]) /\ Covered(p[k])
    BY DEF Draws
  <2> QED BY <2>1, <2>2, DrawHeadDraws, DrawsOn
<1>5. Len(e.q) \in K
  <2> HIDE DEF K
  <2> QED BY <1>1, <1>3, <1>4, Induction
<1> QED BY <1>2, <1>5

\* n is e with one more action drawn, or waiting to be.
Adds(e, n, a) ==
    /\ Placed(n) /\ Covered(n) /\ n.fb = e.fb
    /\ Painted(n.back, n.q) = Drawn(Painted(e.back, e.q), a)
    /\ \A i \in DOMAIN n.q : n.q[i] = a \/ \E j \in DOMAIN e.q : e.q[j] = n.q[i]

LEMMA PushAdds ==
  ASSUME NEW e, Placed(e), Covered(e), NEW a \in Shapes, NEW arrived
  PROVE  Adds(e, RenderQPush(e, a, arrived), a)
<1> DEFINE t == Append(e.q, a)
           m == Requeued(e, t)
           n == RenderQPush(e, a, arrived)
<1>1. e.q \in Seq(Queueable) /\ a \in Queueable /\ a.type # "flip"
  BY FieldTypes DEF Placed, Sized, Queueable, Shapes
<1>2. t \in Seq(Queueable) /\ Len(t) = Len(e.q) + 1 /\ t[Len(t)] = a
      /\ \A i \in 1 .. Len(e.q) : t[i] = e.q[i]
  BY <1>1
<1>3. Painted(e.back, t) = Drawn(Painted(e.back, e.q), a)
  BY <1>1, PaintedAppend DEF PaintOne
<1>4. n = IF Len(m.q) = 1 THEN ScanRenderQ(m, arrived) ELSE m
  BY Zenon DEF RenderQPush, Requeued
<1>5. ASSUME NEW i \in DOMAIN t PROVE t[i] = a \/ \E j \in DOMAIN e.q : e.q[j] = t[i]
  <2>1. CASE i = Len(t)
    BY <1>2, <2>1
  <2>2. CASE i # Len(t)
    BY <1>1, <1>2, <2>2
  <2> QED BY <2>1, <2>2
<1> HIDE DEF t
<1>6. /\ Sized(m) /\ Covered(m) /\ m.fb = e.fb /\ m.back = e.back /\ m.x = e.x /\ m.w = e.w
      /\ m.q = t
  BY <1>2, RequeuedParts DEF Placed
<1> HIDE DEF m, n
<1>7. Placed(m)
  BY <1>6 DEF Placed
<1>8. CASE n = m
  BY <1>3, <1>5, <1>6, <1>7, <1>8 DEF Adds, n
<1>9. CASE n = ScanRenderQ(m, arrived)
  <2>1. Draws(m, n)
    BY <1>6, <1>7, <1>9, ScanDraws
  <2>2. ASSUME NEW i \in DOMAIN n.q PROVE n.q[i] = a \/ \E j \in DOMAIN e.q : e.q[j] = n.q[i]
    <3>1. PICK j \in DOMAIN t : t[j] = n.q[i]
      BY <1>6, <2>1 DEF Draws
    <3> QED BY <1>5, <3>1
  <2> QED BY <1>3, <1>6, <2>1, <2>2 DEF Adds, Draws, n
<1> QED BY <1>4, <1>8, <1>9

LEMMA QueuedShape ==
  ASSUME NEW a \in Shapes
  PROVE  /\ Queued(a) \in Shapes
         /\ Queued(a).type = a.type
         /\ a.type = "blit" \/ Queued(a) = a
         /\ a.type = "blit" /\ ~a.view => Queued(a) = a
BY DEF Queued, Shapes, Wrong

LEMMA DrawAdds ==
  ASSUME NEW e, Placed(e), Covered(e), NEW a \in Shapes, NEW arrived
  PROVE  LET n == Draw(e, a, arrived)
         IN  Adds(e, n, a) \/ Adds(e, n, Queued(a))
<1> DEFINE n == Draw(e, a, arrived)
<1>1. e.q \in Seq(Queueable) /\ a \in Queueable /\ a.type # "flip" /\ a.x \in Nat /\ a.w \in Nat
      /\ e.fb \in Nat /\ e.back \in [0 .. e.fb - 1 -> Int]
  BY FieldTypes DEF Placed, Sized, Queueable, Shapes
<1>2. CASE a.type = "img" /\ a.w = 0
  <2>1. n = e
    BY <1>2 DEF Draw
  <2> DEFINE b == Painted(e.back, e.q)
  <2>2. b \in [0 .. e.fb - 1 -> Int]
    BY <1>1, PaintedIn
  <2> HIDE DEF b, n
  <2>3. \A i \in DOMAIN b : Drawn(b, a)[i] = b[i]
    <3> SUFFICES ASSUME NEW i \in DOMAIN b PROVE Drawn(b, a)[i] = b[i]
      OBVIOUS
    <3>1. i < a.x \/ i >= a.x + a.w
      BY <1>1, <1>2, <2>2
    <3> QED BY <3>1 DEF Drawn
  <2>4. Drawn(b, a) = b
    <3> DEFINE c == Drawn(b, a)
    <3>1. c \in [0 .. e.fb - 1 -> Int]
      BY <1>1, <2>2, DrawnIn
    <3>2. \A i \in 0 .. e.fb - 1 : c[i] = b[i]
      BY <2>2, <2>3
    <3> HIDE DEF c
    <3>3. c = b
      BY <2>2, <3>1, <3>2, SameRow
    <3> QED BY <3>3 DEF c
  <2> QED BY <2>1, <2>4 DEF Adds, b, n
<1>3. CASE a.type = "img" /\ a.w # 0
  BY <1>3, PushAdds DEF Draw
<1>4. CASE a.type # "img" /\ e.q # <<>>
  <2>1. n = RenderQPush(e, Queued(a), arrived)
    BY <1>4 DEF Draw
  <2> QED BY <2>1, PushAdds, QueuedShape
<1>5. CASE a.type # "img" /\ e.q = <<>>
  <2>1. n = DrawNow(e, a)
    BY <1>5 DEF Draw
  <2> HIDE DEF n
  <2>2. /\ Sized(n)
        /\ n.fb = e.fb /\ n.x = e.x /\ n.w = e.w /\ n.q = e.q
        /\ n.back = Drawn(e.back, a)
        /\ Covered(n)
    BY <1>1, <2>1, DrawNowParts DEF Placed, PaintOne
  <2>3. Placed(n)
    BY <2>2 DEF Placed
  <2>4. Painted(n.back, n.q) = Drawn(Painted(e.back, e.q), a)
    BY <1>5, <2>2, PaintedEmpty
  <2>5. \A i \in DOMAIN n.q : \E j \in DOMAIN e.q : e.q[j] = n.q[i]
    BY <2>2
  <2> QED BY <2>2, <2>3, <2>4, <2>5 DEF Adds, n
<1> QED BY <1>2, <1>3, <1>4, <1>5

-----------------------------------------------------------------------------
(* What the page does with the viewport, and a new size.                   *)

Clipped(e, clip) == [e EXCEPT !.clip = clip]

LEMMA ClippedParts ==
  ASSUME NEW e, Sized(e), NEW clip \in BOOLEAN
  PROVE  LET n == Clipped(e, clip) IN
         /\ Sized(n)
         /\ n.fb = e.fb /\ n.back = e.back /\ n.x = e.x /\ n.w = e.w /\ n.seen = e.seen
         /\ n.left = e.left /\ n.right = e.right /\ n.q = e.q
         /\ Covered(e) => Covered(n)
         /\ Settled(e) => Settled(n)
<1> DEFINE n == Clipped(e, clip)
<1>1. /\ n \in Displays
      /\ n.fb = e.fb /\ n.back = e.back /\ n.x = e.x /\ n.w = e.w /\ n.seen = e.seen
      /\ n.left = e.left /\ n.right = e.right /\ n.q = e.q
  BY DEF Clipped, Displays, Sized
<1> HIDE DEF n
<1>2. Sized(n)
  BY <1>1 DEF Sized
<1>3. \A i : SamePixel(n, i) = SamePixel(e, i) /\ Damaged(n, i) = Damaged(e, i)
  BY <1>1 DEF SamePixel, Damaged
<1>4. (Covered(e) => Covered(n)) /\ (Shown(e) => Shown(n))
  BY <1>1, <1>3 DEF Covered, Shown
<1>5. Settled(e) => Settled(n)
  BY <1>1, <1>4 DEF Settled
<1> QED BY <1>1, <1>2, <1>4, <1>5 DEF n

\* The framebuffer, and the content that was shown or not, stay.
Views(e, n) ==
    /\ Placed(n) /\ Covered(n)
    /\ n.fb = e.fb /\ n.back = e.back
    /\ Keeps(e.q, n.q)
    /\ Settled(e) => Settled(n)

LEMMA ClipViews ==
  ASSUME NEW e, Placed(e), Covered(e), NEW clip \in BOOLEAN
  PROVE  Views(e, ClipViewport(e, clip))
<1> DEFINE m == Clipped(e, clip)
           n == ClipViewport(e, clip)
<1>1. n = ViewportChangePos(ViewportChangeSize(m, e.w), 0)
  BY Zenon DEF ClipViewport, Clipped
<1>2. /\ Sized(m) /\ Covered(m) /\ m.fb = e.fb /\ m.back = e.back /\ m.q = e.q
      /\ Settled(e) => Settled(m)
  BY ClippedParts DEF Placed
<1>3. e.w \in Nat
  BY FieldTypes DEF Placed, Sized
<1> HIDE DEF m, n
<1>4. Reframed(m, n) /\ Placed(n) /\ Covered(n) /\ (Settled(m) => Settled(n))
  BY <1>1, <1>2, <1>3, Refit
<1> QED BY <1>2, <1>4 DEF Views, Reframed, n

LEMMA PosViews ==
  ASSUME NEW e, Placed(e), Covered(e), NEW delta \in Int
  PROVE  Views(e, ViewportChangePos(e, delta))
<1>1. Sized(e) /\ e.w <= e.fb
  <2>1. e.fb \in Nat /\ e.x \in Nat /\ e.w \in Nat
    BY FieldTypes DEF Placed, Sized
  <2> QED BY <2>1 DEF Placed
<1> QED BY <1>1, PosParts DEF Views, Reframed

LEMMA SizeViews ==
  ASSUME NEW e, Placed(e), Covered(e), NEW width \in Nat
  PROVE  Views(e, ViewportChangeSize(e, width))
BY SizeParts DEF Views, Reframed, Placed

LEMMA ViewsOn ==
  ASSUME NEW e, NEW n, NEW m, Views(e, n), Views(n, m)
  PROVE  Views(e, m)
BY KeepsOn DEF Views

LEMMA RepaintViews ==
  ASSUME NEW e, Placed(e), Covered(e)
  PROVE  Views(e, FlipNow(Damage(e, e.x, e.w)))
<1> DEFINE m == Damage(e, e.x, e.w)
           n == FlipNow(m)
<1>1. e \in Displays /\ e.x \in Nat /\ e.w \in Nat
  BY FieldTypes DEF Placed, Sized
<1>2. m.fb = e.fb /\ m.back = e.back /\ m.x = e.x /\ m.w = e.w /\ m.q = e.q
  BY <1>1, DamageParts
<1>3. Sized(m) /\ Covered(m)
  BY <1>1, DamageKeepsCover, DamageAll DEF Placed
<1> HIDE DEF m
<1>4. /\ Sized(n) /\ n.fb = m.fb /\ n.back = m.back /\ n.x = m.x /\ n.w = m.w /\ n.q = m.q
      /\ Shown(n) /\ Covered(n)
  BY <1>3, FlipNowParts, FlipNowShows
<1> HIDE DEF n
<1>5. Keeps(e.q, n.q)
  BY <1>2, <1>4, KeepsSelf
<1>6. Placed(n)
  BY <1>2, <1>4 DEF Placed
<1>7. Settled(e) => Settled(n)
  BY <1>2, <1>4 DEF Settled
<1> QED BY <1>2, <1>4, <1>5, <1>6, <1>7 DEF Views, n, m

Grown(e, width) == [e EXCEPT !.fb = width, !.back = ResizeBack(@, width)]

LEMMA ResizeBackIn ==
  ASSUME NEW k \in Nat, NEW b \in [0 .. k - 1 -> Int], NEW width \in Nat
  PROVE  /\ ResizeBack(b, width) \in [0 .. width - 1 -> Int]
         /\ \A i \in 0 .. width - 1 : i < k => ResizeBack(b, width)[i] = b[i]
         /\ \A i \in 0 .. width - 1 : i >= k => ResizeBack(b, width)[i] = 0
BY DEF ResizeBack

LEMMA ResizeParts ==
  ASSUME NEW e, Placed(e), Covered(e), NEW width \in Nat
  PROVE  LET n == Resize(e, width) IN
         /\ Placed(n) /\ Covered(n)
         /\ n.fb = width /\ n.back = ResizeBack(e.back, width)
         /\ Keeps(e.q, n.q)
         /\ Settled(e) => Settled(n)
<1> DEFINE b == ResizeBack(e.back, width)
           m == Grown(e, width)
           n == Resize(e, width)
<1>1. /\ e \in Displays /\ e.fb \in Nat /\ e.x \in Nat /\ e.w \in Nat
      /\ e.back \in [0 .. e.fb - 1 -> Int] /\ e.x + e.w <= e.fb
  BY FieldTypes DEF Placed, Sized
<1>2. /\ b \in [0 .. width - 1 -> Int]
      /\ \A i \in 0 .. width - 1 : i < e.fb => b[i] = e.back[i]
  BY <1>1, ResizeBackIn
<1>3. b \in Rows
  BY <1>2, RowIn
<1>4. n = ViewportChangePos(ViewportChangeSize(m, m.w), 0)
  BY Zenon DEF Resize, Grown
<1> HIDE DEF n
<1>5. m = [e EXCEPT !.fb = width, !.back = b]
  BY Zenon DEF Grown
<1> HIDE DEF b, m
<1>6. /\ m \in Displays
      /\ m.fb = width /\ m.back = b /\ m.x = e.x /\ m.w = e.w /\ m.seen = e.seen
      /\ m.left = e.left /\ m.right = e.right /\ m.q = e.q
  BY <1>1, <1>3, <1>5 DEF Displays
<1>7. Sized(m)
  BY <1>2, <1>6 DEF Sized, Placed
<1>8. ASSUME NEW i \in 0 .. m.w - 1, m.x + i < m.fb
      PROVE  /\ e.x + i < e.fb
             /\ SamePixel(m, i) = SamePixel(e, i) /\ Damaged(m, i) = Damaged(e, i)
  <2>1. e.x + i < e.fb /\ e.x + i \in 0 .. width - 1
    BY <1>1, <1>6, <1>8
  <2>2. m.back[m.x + i] = e.back[e.x + i]
    BY <1>2, <1>6, <2>1
  <2> QED BY <1>6, <2>1, <2>2 DEF SamePixel, Damaged
<1>9. Covered(m)
  BY <1>6, <1>8 DEF Covered
<1>10. Settled(e) => Settled(m)
  BY <1>6, <1>8 DEF Settled, Shown
<1>11. Reframed(m, n) /\ Placed(n) /\ Covered(n) /\ (Settled(m) => Settled(n))
  BY <1>1, <1>4, <1>6, <1>7, <1>9, Refit
<1> QED BY <1>6, <1>10, <1>11 DEF Reframed, n, b

-----------------------------------------------------------------------------
(* The invariant.                                                          *)

Arriving == Shapes \cup Resizes

Fits ==
    /\ Placed(screen) /\ Covered(screen)
    /\ rects \in Seq(Arriving)
    /\ within \in BOOLEAN /\ flushing \in BOOLEAN /\ asked \in BOOLEAN
    /\ sent \in Nat

\* Outside an update everything is shown, or will be with the queue.
Quiet == ~within => Settled(screen) /\ rects = <<>>

LEMMA NumberedParts ==
  ASSUME NEW ops \in Updates, sent \in Nat
  PROVE  LET r == Numbered(ops) IN
         /\ r \in Seq(Arriving)
         /\ DOMAIN r = DOMAIN ops
         /\ \A i \in DOMAIN r :
               /\ r[i].type = ops[i].type
               /\ r[i].type # "resize" => r[i].x = ops[i].x
               /\ r[i].w = ops[i].w
               /\ r[i].type = "img" => r[i].id[1] = sent
               /\ r[i].type = "blit" => r[i].view = ops[i].view
         /\ r = <<>> <=> ops = <<>>
<1> DEFINE r == Numbered(ops)
<1>1. ops \in Seq(Rectangles)
  BY PaintingAssumption
<1>2. ASSUME NEW i \in DOMAIN ops
      PROVE  /\ r[i] \in Arriving
             /\ r[i].type = ops[i].type
             /\ r[i].type # "resize" => r[i].x = ops[i].x
             /\ r[i].w = ops[i].w
             /\ r[i].type = "img" => r[i].id[1] = sent
             /\ r[i].type = "blit" => r[i].view = ops[i].view
  <2> DEFINE a == ops[i]
             id == <<sent, i>>
  <2>1. a \in Rectangles /\ i \in Nat
    BY <1>1
  <2>2. r[i] = IF a.type = "img" THEN [a EXCEPT !.id = id] ELSE a
    BY DEF Numbered
  <2>3. id \in Nat \X Nat /\ id[1] = sent
    BY <2>1
  <2> HIDE DEF a, id, r
  <2>4. CASE a.type # "img"
    <3>1. r[i] = a
      BY <2>2, <2>4
    <3>2. a \in Arriving
      BY <2>1, <2>4 DEF Rectangles, Arriving, Shapes, Resizes
    <3> QED BY <2>4, <3>1, <3>2 DEF a
  <2>5. CASE a.type = "img"
    <3>1. a \in [type : {"img"}, x : Nat, w : Nat, color : Int, id : Nat]
      BY <2>1, <2>5 DEF Rectangles
    <3>2. r[i] = [a EXCEPT !.id = id]
      BY <2>2, <2>5
    <3>3. /\ r[i] \in [type : {"img"}, x : Nat, w : Nat, color : Int, id : Nat \X Nat]
          /\ r[i].type = a.type /\ r[i].x = a.x /\ r[i].w = a.w /\ r[i].id = id
      BY <2>3, <3>1, <3>2
    <3> QED BY <2>3, <2>5, <3>3 DEF Arriving, Shapes, a
  <2> QED BY <2>4, <2>5
<1>3. r = [i \in DOMAIN ops |-> r[i]] /\ DOMAIN r = DOMAIN ops
  BY DEF Numbered
<1> HIDE DEF r
<1>4. r \in Seq(Arriving) /\ (r = <<>> <=> ops = <<>>)
  <2>1. DOMAIN r = 1 .. Len(ops) /\ Len(ops) \in Nat
    BY <1>1, <1>3
  <2>2. r \in [1 .. Len(ops) -> Arriving]
    BY <1>2, <1>3, <2>1
  <2>3. r \in Seq(Arriving) /\ Len(r) = Len(ops)
    BY <2>1, <2>2
  <2> QED BY <1>1, <2>3
<1> QED BY <1>2, <1>3, <1>4 DEF r

LEMMA DecodedParts ==
  ASSUME Fits, NEW a \in Arriving
  PROVE  LET e == Decoded(a) IN
         /\ Placed(e) /\ Covered(e)
         /\ \A i \in DOMAIN e.q :
               \/ e.q[i].type = "flip"
               \/ \E j \in DOMAIN screen.q : screen.q[j] = e.q[i]
               \/ e.q[i] = a \/ e.q[i] = Queued(a)
         /\ a.type = "resize" => /\ e.fb = a.w /\ e.back = ResizeBack(screen.back, a.w)
                                 /\ Keeps(screen.q, e.q)
         /\ a.type # "resize" => /\ a \in Shapes
                                 /\ Adds(screen, e, a) \/ Adds(screen, e, Queued(a))
<1> DEFINE e == Decoded(a)
<1>1. CASE a.type = "resize"
  <2>1. a.w \in Nat
    BY <1>1 DEF Arriving, Shapes, Resizes
  <2>2. e = Resize(screen, a.w)
    BY <1>1 DEF Decoded
  <2> HIDE DEF e
  <2>3. /\ Placed(e) /\ Covered(e)
        /\ e.fb = a.w /\ e.back = ResizeBack(screen.back, a.w)
        /\ Keeps(screen.q, e.q)
    BY <2>1, <2>2, ResizeParts DEF Fits
  <2>4. \A i \in DOMAIN e.q : e.q[i].type = "flip" \/ \E j \in DOMAIN screen.q : screen.q[j] = e.q[i]
    BY <2>3 DEF Keeps
  <2> QED BY <1>1, <2>3, <2>4 DEF e
<1>2. CASE a.type # "resize"
  <2>1. a \in Shapes
    BY <1>2 DEF Arriving, Shapes, Resizes
  <2>2. e = Draw(screen, a, loaded)
    BY <1>2 DEF Decoded
  <2> HIDE DEF e
  <2>3. Adds(screen, e, a) \/ Adds(screen, e, Queued(a))
    BY <2>1, <2>2, DrawAdds DEF Fits
  <2> QED BY <1>2, <2>1, <2>3 DEF e, Adds
<1> QED BY <1>1, <1>2

LEMMA FinishParts ==
  ASSUME NEW e, Placed(e), Covered(e), FinishUpdate(e)
  PROVE  /\ Placed(screen') /\ Covered(screen') /\ Settled(screen')
         /\ screen'.fb = e.fb /\ screen'.back = e.back /\ Keeps(e.q, screen'.q)
         /\ within' = FALSE /\ asked' = TRUE
BY FlipSettles DEF FinishUpdate, Placed

Moves == (\E delta \in {-1, 1} : Pan(delta)) \/ (\E width \in 1 .. screen.fb : SetClip(width))
            \/ ClearClip \/ ForceRepaint

LEMMA MovesParts ==
  ASSUME Fits, Moves
  PROVE  /\ Views(screen, screen')
         /\ UNCHANGED <<loaded, rects, within, flushing, asked, sent, ideal>>
<1>1. Placed(screen) /\ Covered(screen) /\ screen.fb \in Nat
  BY FieldTypes DEF Fits, Placed, Sized
<1>2. ASSUME NEW delta \in {-1, 1}, Pan(delta)
      PROVE  Views(screen, screen') /\ UNCHANGED <<loaded, rects, within, flushing, asked, sent, ideal>>
  BY <1>1, <1>2, PosViews DEF Pan, MoveViewport
<1>3. ASSUME NEW width \in 1 .. screen.fb, SetClip(width)
      PROVE  Views(screen, screen') /\ UNCHANGED <<loaded, rects, within, flushing, asked, sent, ideal>>
  <2> DEFINE e == ClipViewport(screen, TRUE)
  <2>1. Views(screen, e)
    BY <1>1, ClipViews
  <2>2. width \in Nat
    BY <1>1
  <2>3. screen' = ViewportChangeSize(e, width)
    BY <1>3 DEF SetClip, MoveViewport
  <2> HIDE DEF e
  <2>4. Views(e, screen')
    BY <2>1, <2>2, <2>3, SizeViews DEF Views
  <2> QED BY <1>3, <2>1, <2>4, ViewsOn DEF SetClip, MoveViewport
<1>4. ASSUME ClearClip
      PROVE  Views(screen, screen') /\ UNCHANGED <<loaded, rects, within, flushing, asked, sent, ideal>>
  BY <1>1, <1>4, ClipViews DEF ClearClip, MoveViewport
<1>5. ASSUME ForceRepaint
      PROVE  Views(screen, screen') /\ UNCHANGED <<loaded, rects, within, flushing, asked, sent, ideal>>
  BY <1>1, <1>5, RepaintViews DEF ForceRepaint, MoveViewport
<1> QED BY <1>2, <1>3, <1>4, <1>5 DEF Moves

LEMMA LoadParts ==
  ASSUME Fits, NEW id, ImageLoads(id)
  PROVE  /\ Draws(screen, screen')
         /\ flushing' = (flushing /\ screen'.q # <<>>)
         /\ UNCHANGED <<rects, within, asked, sent, moves, ideal>>
<1>1. Placed(screen) /\ Covered(screen)
  BY DEF Fits
<1>2. screen' = ScanRenderQ(screen, loaded') \/ screen' = screen
  BY DEF ImageLoads
<1>3. Draws(screen, screen')
  <2>1. CASE screen' = screen
    BY <1>1, <2>1 DEF Draws
  <2>2. CASE screen' = ScanRenderQ(screen, loaded')
    BY <1>1, <2>2, ScanDraws
  <2> QED BY <1>2, <2>1, <2>2
<1>4. flushing' = StaysFlushing(screen') /\ UNCHANGED <<rects, within, asked, sent, moves, ideal>>
  BY Zenon DEF ImageLoads
<1> QED BY <1>3, <1>4 DEF StaysFlushing, Pending

LEMMA RectParts ==
  ASSUME Fits, HandleRect
  PROVE  LET a == Head(rects)
             e == Decoded(a)
         IN  /\ rects # <<>> /\ ~flushing
             /\ a \in Arriving /\ a = rects[1] /\ 1 \in DOMAIN rects
             /\ rects' = Tail(rects) /\ rects' \in Seq(Arriving)
             /\ \A i \in DOMAIN rects' : i + 1 \in DOMAIN rects /\ rects'[i] = rects[i + 1]
             /\ Placed(screen') /\ Covered(screen')
             /\ screen'.fb = e.fb /\ screen'.back = e.back /\ Keeps(e.q, screen'.q)
             /\ \/ rects' = <<>> /\ Settled(screen') /\ within' = FALSE /\ asked' = TRUE
                \/ rects' # <<>> /\ UNCHANGED <<within, asked>>
             /\ ideal' = IF a.type = "resize" THEN ResizeBack(ideal, a.w) ELSE Drawn(ideal, a)
             /\ UNCHANGED <<loaded, flushing, sent, moves>>
<1> DEFINE a == Head(rects)
           e == Decoded(a)
<1>1. rects # <<>> /\ ~flushing /\ rects' = Tail(rects)
      /\ ideal' = (IF a.type = "resize" THEN ResizeBack(ideal, a.w) ELSE Drawn(ideal, a))
      /\ UNCHANGED <<loaded, flushing, sent, moves>>
  BY DEF HandleRect
<1>2. rects \in Seq(Arriving)
  BY DEF Fits
<1>3. a \in Arriving /\ a = rects[1] /\ 1 \in DOMAIN rects
  BY <1>1, <1>2
<1>4. rects' \in Seq(Arriving)
      /\ \A i \in DOMAIN rects' : i + 1 \in DOMAIN rects /\ rects'[i] = rects[i + 1]
  BY <1>1, <1>2
<1>5. Placed(e) /\ Covered(e)
  BY <1>3, DecodedParts
<1>6. \/ rects' = <<>> /\ FinishUpdate(e)
      \/ rects' # <<>> /\ screen' = e /\ UNCHANGED <<within, asked>>
  BY Zenon DEF HandleRect
<1> HIDE DEF e, a
<1>7. CASE rects' = <<>> /\ FinishUpdate(e)
  BY <1>1, <1>3, <1>4, <1>5, <1>7, FinishParts DEF e, a
<1>8. CASE rects' # <<>> /\ screen' = e /\ UNCHANGED <<within, asked>>
  <2>1. Keeps(e.q, screen'.q)
    BY <1>8, KeepsSelf
  <2> QED BY <1>1, <1>3, <1>4, <1>5, <1>8, <2>1 DEF e, a
<1> QED BY <1>6, <1>7, <1>8

\* A header: the queue and the framebuffer stay as they are, and unless the
\* update has to wait the queue is empty.
LEMMA HeaderParts ==
  ASSUME Fits, NEW ops \in Updates, FramebufferUpdate(ops)
  PROVE  /\ ~within /\ sent' = sent + 1 /\ rects' = Numbered(ops) /\ UNCHANGED <<loaded, moves, ideal>>
         /\ Placed(screen') /\ Covered(screen')
         /\ screen'.fb = screen.fb /\ screen'.back = screen.back /\ Keeps(screen.q, screen'.q)
         /\ flushing' \in BOOLEAN /\ asked' \in BOOLEAN /\ within' \in BOOLEAN
         /\ flushing' \/ screen'.q = <<>>
         /\ Settled(screen) => Settled(screen')
         /\ within' \/ ops = <<>>
<1>1. /\ ~within /\ sent' = sent + 1 /\ rects' = Numbered(ops)
      /\ UNCHANGED <<loaded, moves, ideal>>
  BY DEF FramebufferUpdate
<1>2. Placed(screen) /\ Covered(screen)
  BY DEF Fits
<1>3. Keeps(screen.q, screen.q)
  BY KeepsSelf
<1>4. \/ flushing' = TRUE /\ within' = (ops # <<>>) /\ asked' = FALSE /\ screen' = screen
      \/ flushing' = FALSE /\ screen.q = <<>> /\ ops = <<>> /\ FinishUpdate(screen)
      \/ flushing' = FALSE /\ screen.q = <<>> /\ within' = TRUE /\ asked' = FALSE /\ screen' = screen
  BY DEF FramebufferUpdate, HoldBack, Pending
<1>5. CASE flushing' = TRUE /\ within' = (ops # <<>>) /\ asked' = FALSE /\ screen' = screen
  BY <1>1, <1>2, <1>3, <1>5
<1>6. CASE flushing' = FALSE /\ screen.q = <<>> /\ ops = <<>> /\ FinishUpdate(screen)
  <2>1. /\ Placed(screen') /\ Covered(screen') /\ Settled(screen')
        /\ screen'.fb = screen.fb /\ screen'.back = screen.back /\ Keeps(screen.q, screen'.q)
        /\ within' = FALSE /\ asked' = TRUE
    BY <1>2, <1>6, FinishParts
  <2>2. screen'.q = <<>>
    BY <1>6, <2>1 DEF Keeps
  <2> QED BY <1>1, <1>6, <2>1, <2>2
<1>7. CASE flushing' = FALSE /\ screen.q = <<>> /\ within' = TRUE /\ asked' = FALSE /\ screen' = screen
  BY <1>1, <1>2, <1>3, <1>7
<1> QED BY <1>4, <1>5, <1>6, <1>7

LEMMA PaintSteps ==
  ASSUME [PaintNext]_paintVars
  PROVE  \/ \E ops \in Updates : FramebufferUpdate(ops)
         \/ HandleRect
         \/ \E id \in Decoding : ImageLoads(id)
         \/ Moves
         \/ UNCHANGED paintVars
BY Zenon DEF PaintNext, Moves

LEMMA FitsStep ==
  ASSUME Fits, Quiet, [PaintNext]_paintVars
  PROVE  Fits' /\ Quiet'
<1>1. /\ Placed(screen) /\ Covered(screen) /\ rects \in Seq(Arriving)
      /\ within \in BOOLEAN /\ flushing \in BOOLEAN /\ asked \in BOOLEAN /\ sent \in Nat
      /\ ~within => Settled(screen) /\ rects = <<>>
  BY DEF Fits, Quiet
<1> SUFFICES /\ Placed(screen') /\ Covered(screen') /\ rects' \in Seq(Arriving)
             /\ within' \in BOOLEAN /\ flushing' \in BOOLEAN /\ asked' \in BOOLEAN /\ sent' \in Nat
             /\ ~within' => Settled(screen') /\ rects' = <<>>
  BY DEF Fits, Quiet
<1>2. ASSUME NEW ops \in Updates, FramebufferUpdate(ops)
      PROVE  /\ Placed(screen') /\ Covered(screen') /\ rects' \in Seq(Arriving)
             /\ within' \in BOOLEAN /\ flushing' \in BOOLEAN /\ asked' \in BOOLEAN /\ sent' \in Nat
             /\ ~within' => Settled(screen') /\ rects' = <<>>
  BY <1>1, <1>2, HeaderParts, NumberedParts
<1>3. CASE HandleRect
  BY <1>1, <1>3, RectParts
<1>4. ASSUME NEW id \in Decoding, ImageLoads(id)
      PROVE  /\ Placed(screen') /\ Covered(screen') /\ rects' \in Seq(Arriving)
             /\ within' \in BOOLEAN /\ flushing' \in BOOLEAN /\ asked' \in BOOLEAN /\ sent' \in Nat
             /\ ~within' => Settled(screen') /\ rects' = <<>>
  BY <1>1, <1>4, LoadParts DEF Draws
<1>5. CASE Moves
  BY <1>1, <1>5, MovesParts DEF Views
<1>6. CASE UNCHANGED paintVars
  BY <1>1, <1>6 DEF paintVars
<1> QED BY <1>2, <1>3, <1>4, <1>5, <1>6, PaintSteps

LEMMA StartParts ==
  ASSUME PaintInit
  PROVE  /\ Placed(screen) /\ Covered(screen) /\ Settled(screen)
         /\ screen.fb = Width /\ screen.back = Blank(Width) /\ screen.q = <<>>
<1> DEFINE e == NewDisplay
<1>1. Blank(0) \in [0 .. 0 - 1 -> Int] /\ Blank(0) \in Rows /\ <<>> \in Seq(Queueable) /\ Far \in Int
  BY BlankIn DEF Far
<1>2. /\ e \in Displays /\ e.fb = 0 /\ e.back = Blank(0) /\ e.x = 0 /\ e.w = 0 /\ e.seen = Blank(0)
      /\ e.q = <<>>
  BY <1>1 DEF NewDisplay, Displays
<1> HIDE DEF e
<1>3. Placed(e)
  BY <1>1, <1>2 DEF Placed, Sized
<1>4. Covered(e) /\ Shown(e)
  BY <1>2 DEF Covered, Shown
<1>5. Settled(e)
  BY <1>2, <1>4 DEF Settled
<1>6. Width \in Nat
  BY PaintingAssumption
<1>7. /\ Placed(screen) /\ Covered(screen)
      /\ screen.fb = Width /\ screen.back = ResizeBack(e.back, Width)
      /\ Keeps(e.q, screen.q) /\ Settled(screen)
  BY <1>3, <1>4, <1>5, <1>6, ResizeParts DEF PaintInit, e
<1>8. ResizeBack(e.back, Width) = Blank(Width)
  <2>1. \A i \in 0 .. Width - 1 : i \notin DOMAIN Blank(0)
    BY DEF Blank
  <2>2. ResizeBack(Blank(0), Width) = [i \in 0 .. Width - 1 |-> 0]
    BY <2>1 DEF ResizeBack
  <2>3. Blank(Width) = [i \in 0 .. Width - 1 |-> 0]
    BY Zenon DEF Blank
  <2> QED BY <1>2, <2>2, <2>3
<1> QED BY <1>2, <1>7, <1>8 DEF Keeps

LEMMA FitsInit == PaintInit => Fits /\ Quiet
<1> SUFFICES ASSUME PaintInit PROVE Fits /\ Quiet
  OBVIOUS
<1>1. rects = <<>> /\ within = FALSE /\ flushing = FALSE /\ asked = TRUE /\ sent = 0
  BY DEF PaintInit
<1>2. rects \in Seq(Arriving)
  BY <1>1
<1> QED BY <1>1, <1>2, StartParts DEF Fits, Quiet

\* The display and the update being received fit together in every state,
\* and outside an update what is shown is up to date or a flip ends the queue,
\* whatever a server sends and however the viewport is moved (display.js).
THEOREM PaintingFits == PaintSpec => [](Fits /\ Quiet)
<1>1. Fits /\ Quiet /\ [PaintNext]_paintVars => (Fits /\ Quiet)'
  BY FitsStep
<1> QED BY FitsInit, <1>1, PTL DEF PaintSpec

\* Between updates, with every image drawn, the viewport shows the framebuffer:
\* whatever updates came, in whatever order the images were decoded and however
\* the user moved and resized the viewport meanwhile (display.js flip, _damage).
THEOREM PaintingShown == PaintSpec => []NothingUnshown
<1>1. Fits /\ Quiet => NothingUnshown
  <2> SUFFICES ASSUME Fits, Quiet, ~within, screen.q = <<>>, NEW i \in 0 .. screen.w - 1
               PROVE  screen.seen[i] = screen.back[screen.x + i]
    BY DEF NothingUnshown, Pending
  <2>1. Shown(screen)
    BY DEF Quiet, Settled
  <2>2. screen.x \in Nat /\ screen.w \in Nat /\ screen.fb \in Nat /\ screen.x + screen.w <= screen.fb
    BY FieldTypes DEF Fits, Placed, Sized
  <2> QED BY <2>1, <2>2 DEF Shown, SamePixel
<1> QED BY <1>1, PaintingFits, PTL

-----------------------------------------------------------------------------
(* One update at a time.                                                   *)

\* The images of u are the only ones in the queue.
OnlyFrom(u, q) == \A i \in DOMAIN q : q[i].type = "img" => q[i].id[1] = u

\* The images that wait are of one update; while rectangles are drawn it is the
\* one they belong to.
OneBatch ==
    /\ \A i \in DOMAIN rects : rects[i].type = "img" => rects[i].id[1] = sent - 1
    /\ \E u : /\ OnlyFrom(u, screen.q)
              /\ rects # <<>> /\ ~flushing => u = sent - 1

LEMMA OnlyFromFewer ==
  ASSUME NEW u, NEW q, NEW r, OnlyFrom(u, q),
         \A i \in DOMAIN r : r[i].type = "flip" \/ \E j \in DOMAIN q : q[j] = r[i]
  PROVE  OnlyFrom(u, r)
BY DEF OnlyFrom

LEMMA OneBatchStep ==
  ASSUME Fits, Quiet, OneBatch, [PaintNext]_paintVars
  PROVE  OneBatch'
<1>1. PICK u : /\ OnlyFrom(u, screen.q)
               /\ rects # <<>> /\ ~flushing => u = sent - 1
  BY Zenon DEF OneBatch
<1>2. \A i \in DOMAIN rects : rects[i].type = "img" => rects[i].id[1] = sent - 1
  BY DEF OneBatch
<1>3. sent \in Nat /\ (rects # <<>> => within)
  BY DEF Fits, Quiet
<1>4. ASSUME NEW ops \in Updates, FramebufferUpdate(ops)
      PROVE  OneBatch'
  <2>1. /\ sent' = sent + 1 /\ rects' = Numbered(ops) /\ Keeps(screen.q, screen'.q)
        /\ flushing' \in BOOLEAN /\ (flushing' \/ screen'.q = <<>>)
    BY <1>4, HeaderParts
  <2>2. \A i \in DOMAIN rects' : rects'[i].type = "img" => rects'[i].id[1] = sent' - 1
    BY <1>3, <2>1, NumberedParts
  <2>3. CASE flushing'
    <3>1. OnlyFrom(u, screen'.q)
      BY <1>1, <2>1, OnlyFromFewer DEF Keeps
    <3> QED BY <2>2, <2>3, <3>1 DEF OneBatch
  <2>4. CASE screen'.q = <<>>
    <3>1. OnlyFrom(sent' - 1, screen'.q)
      BY <2>4 DEF OnlyFrom
    <3> QED BY <2>2, <3>1 DEF OneBatch
  <2> QED BY <2>1, <2>3, <2>4
<1>5. CASE HandleRect
  <2> DEFINE a == Head(rects)
             e == Decoded(a)
  <2>1. /\ rects # <<>> /\ ~flushing /\ a \in Arriving /\ a = rects[1] /\ 1 \in DOMAIN rects
        /\ \A i \in DOMAIN rects' : i + 1 \in DOMAIN rects /\ rects'[i] = rects[i + 1]
        /\ Keeps(e.q, screen'.q) /\ UNCHANGED <<flushing, sent>>
    BY <1>5, RectParts
  <2>2. \A i \in DOMAIN rects' : rects'[i].type = "img" => rects'[i].id[1] = sent' - 1
    BY <1>2, <2>1
  <2>3. u = sent - 1
    BY <1>1, <2>1
  <2>4. a.type = "img" => a.id[1] = u
    BY <1>2, <2>1, <2>3
  <2>5. OnlyFrom(u, e.q)
    <3> SUFFICES ASSUME NEW i \in DOMAIN e.q, e.q[i].type = "img" PROVE e.q[i].id[1] = u
      BY DEF OnlyFrom
    <3>1. \/ \E j \in DOMAIN screen.q : screen.q[j] = e.q[i]
          \/ e.q[i] = a
          \/ e.q[i] = Queued(a)
      BY <2>1, DecodedParts
    <3>2. CASE \E j \in DOMAIN screen.q : screen.q[j] = e.q[i]
      BY <1>1, <3>2 DEF OnlyFrom
    <3>3. CASE e.q[i] = a
      BY <2>4, <3>3
    <3>4. CASE e.q[i] = Queued(a)
      <4>1. Queued(a) = a \/ Queued(a).type = "blit"
        <5>1. CASE a \in Shapes
          BY <5>1, QueuedShape
        <5>2. CASE a \in Resizes
          BY <5>2 DEF Resizes, Queued
        <5> QED BY <2>1, <5>1, <5>2 DEF Arriving
      <4> QED BY <2>4, <3>4, <4>1
    <3> QED BY <3>1, <3>2, <3>3, <3>4
  <2> HIDE DEF e
  <2>6. OnlyFrom(u, screen'.q)
    BY <2>1, <2>5, OnlyFromFewer DEF Keeps
  <2> QED BY <2>1, <2>2, <2>3, <2>6 DEF OneBatch
<1>6. ASSUME NEW id \in Decoding, ImageLoads(id)
      PROVE  OneBatch'
  <2>1. /\ Draws(screen, screen') /\ flushing' = (flushing /\ screen'.q # <<>>)
        /\ UNCHANGED <<rects, sent>>
    BY <1>6, LoadParts
  <2>2. CASE flushing' = flushing
    <3>1. OnlyFrom(u, screen'.q)
      BY <1>1, <2>1, OnlyFromFewer DEF Draws
    <3> QED BY <1>1, <1>2, <2>1, <2>2, <3>1 DEF OneBatch
  <2>3. CASE flushing' # flushing
    <3>1. screen'.q = <<>>
      BY <2>1, <2>3 DEF Fits
    <3>2. OnlyFrom(sent' - 1, screen'.q)
      BY <3>1 DEF OnlyFrom
    <3> QED BY <1>2, <2>1, <3>2 DEF OneBatch
  <2> QED BY <2>2, <2>3
<1>7. CASE Moves
  <2>1. Keeps(screen.q, screen'.q) /\ UNCHANGED <<rects, flushing, sent>>
    BY <1>7, MovesParts DEF Views
  <2>2. OnlyFrom(u, screen'.q)
    BY <1>1, <2>1, OnlyFromFewer DEF Keeps
  <2> QED BY <1>1, <1>2, <2>1, <2>2 DEF OneBatch
<1>8. CASE UNCHANGED paintVars
  BY <1>1, <1>2, <1>8 DEF OneBatch, paintVars
<1> QED BY <1>4, <1>5, <1>6, <1>7, <1>8, PaintSteps

\* The images that wait all belong to one update: the next update is not read
\* before the queue has been drawn (rfb.js _framebufferUpdate, display.js
\* flush), whatever a server sends and however slowly the browser decodes.
THEOREM PaintingBounded == PaintSpec => []QueueBounded
<1>1. PaintInit => OneBatch
  <2> SUFFICES ASSUME PaintInit PROVE OneBatch
    OBVIOUS
  <2>1. rects = <<>> /\ screen.q = <<>>
    BY StartParts DEF PaintInit
  <2>2. OnlyFrom(0, screen.q) /\ \A i \in DOMAIN rects : FALSE
    BY <2>1 DEF OnlyFrom
  <2> QED BY Zenon, <2>1, <2>2 DEF OneBatch
<1>2. Fits /\ Quiet /\ OneBatch /\ [PaintNext]_paintVars => OneBatch'
  BY OneBatchStep
<1>3. OneBatch => QueueBounded
  <2> SUFFICES ASSUME NEW u, OnlyFrom(u, screen.q) PROVE QueueBounded
    BY Zenon DEF OneBatch
  <2> QED BY DEF OnlyFrom, QueueBounded
<1> QED BY <1>1, <1>2, <1>3, PaintingFits, PTL DEF PaintSpec

-----------------------------------------------------------------------------
(* One order.                                                              *)

LEMMA PaintsIn ==
  ASSUME NEW k \in Nat, NEW b \in [0 .. k - 1 -> Int], NEW q \in Seq(Queueable),
         NEW p, Paints(p, b, q)
  PROVE  \A i \in 0 .. Len(q) : p[i] \in [0 .. k - 1 -> Int]
<1> DEFINE R == [0 .. k - 1 -> Int]
           K == {i \in Nat : i <= Len(q) => p[i] \in R}
<1>1. 0 \in K
  BY DEF Paints
<1>2. \A i \in Nat : i \in K => i + 1 \in K
  <2> HIDE DEF R
  <2> SUFFICES ASSUME NEW i \in Nat, i + 1 <= Len(q), p[i] \in R
               PROVE  p[i + 1] \in R
    OBVIOUS
  <2> HIDE DEF K
  <2>1. i + 1 \in 1 .. Len(q) /\ (i + 1) - 1 = i
    OBVIOUS
  <2>2. q[i + 1] \in Queueable
    BY <2>1
  <2>3. p[i + 1] = PaintOne(p[i], q[i + 1])
    BY <2>1 DEF Paints
  <2>4. PaintOne(p[i], q[i + 1]) \in R
    BY <2>2, PaintOneIn DEF R
  <2> QED BY <2>3, <2>4
<1>3. Nat \subseteq K
  <2> HIDE DEF K
  <2> QED BY <1>1, <1>2, Induction
<1> QED BY <1>3

LEMMA OneResized ==
  ASSUME NEW k \in Nat, NEW b \in [0 .. k - 1 -> Int], NEW width \in Nat, NEW a \in Queueable,
         a.type = "flip" \/ (a.type # "copy" /\ a.x + a.w <= k)
  PROVE  PaintOne(ResizeBack(b, width), a) = ResizeBack(PaintOne(b, a), width)
<1>1. CASE a.type = "flip"
  BY <1>1 DEF PaintOne
<1>2. CASE a.type # "flip"
  <2>1. a.x \in Nat /\ a.w \in Nat /\ a \in Shapes /\ a.type # "copy" /\ a.x + a.w <= k
    BY <1>2, ShapeParts
  <2> DEFINE c == ResizeBack(b, width)
             l == Drawn(c, a)
             d == Drawn(b, a)
             r == ResizeBack(d, width)
  <2>2. /\ c \in [0 .. width - 1 -> Int]
        /\ \A i \in 0 .. width - 1 : c[i] = IF i < k THEN b[i] ELSE 0
    <3>1. /\ c \in [0 .. width - 1 -> Int]
          /\ \A i \in 0 .. width - 1 : i < k => c[i] = b[i]
          /\ \A i \in 0 .. width - 1 : i >= k => c[i] = 0
      BY ResizeBackIn
    <3> HIDE DEF c
    <3> QED BY <3>1
  <2>3. d \in [0 .. k - 1 -> Int]
    BY <2>1, DrawnIn
  <2>4. \A i \in 0 .. k - 1 : d[i] = IF i < a.x \/ i >= a.x + a.w THEN b[i] ELSE a.color
    BY <2>1 DEF Drawn
  <2> HIDE DEF c
  <2>5. l \in [0 .. width - 1 -> Int]
    BY <2>1, <2>2, DrawnIn
  <2>6. \A i \in 0 .. width - 1 : l[i] = IF i < a.x \/ i >= a.x + a.w THEN c[i] ELSE a.color
    BY <2>1, <2>2 DEF Drawn
  <2> HIDE DEF d, l
  <2>7. /\ r \in [0 .. width - 1 -> Int]
        /\ \A i \in 0 .. width - 1 : r[i] = IF i < k THEN d[i] ELSE 0
    BY <2>3, ResizeBackIn
  <2> HIDE DEF r
  <2>8. ASSUME NEW i \in 0 .. width - 1 PROVE l[i] = r[i]
    <3>1. CASE i < k
      <4>1. i \in 0 .. k - 1
        BY <3>1
      <4> QED BY <2>2, <2>4, <2>6, <2>7, <3>1, <4>1
    <3>2. CASE i >= k
      <4>1. i >= a.x + a.w /\ ~(i < k)
        BY <2>1, <3>2
      <4> QED BY <2>2, <2>6, <2>7, <4>1
    <3> QED BY <3>1, <3>2
  <2>9. l = r
    BY <2>5, <2>7, <2>8, SameRow
  <2> QED BY <1>2, <2>9 DEF PaintOne, l, r, c, d
<1> QED BY <1>1, <1>2

LEMMA PaintedResized ==
  ASSUME NEW k \in Nat, NEW b \in [0 .. k - 1 -> Int], NEW width \in Nat,
         NEW q \in Seq(Queueable),
         \A i \in DOMAIN q : q[i].type = "flip" \/ (q[i].type # "copy" /\ q[i].x + q[i].w <= k)
  PROVE  Painted(ResizeBack(b, width), q) = ResizeBack(Painted(b, q), width)
<1>1. PICK p : Paints(p, b, q) /\ Painted(b, q) = p[Len(q)]
  BY PaintedBy
<1>2. \A i \in 0 .. Len(q) : p[i] \in [0 .. k - 1 -> Int]
  BY <1>1, PaintsIn
<1> DEFINE r == [i \in 0 .. Len(q) |-> ResizeBack(p[i], width)]
           c == ResizeBack(b, width)
<1>3. Len(q) \in Nat
  OBVIOUS
<1>4. ASSUME NEW i \in 1 .. Len(q) PROVE r[i] = PaintOne(r[i - 1], q[i])
  <2>1. i \in 0 .. Len(q) /\ i - 1 \in 0 .. Len(q) /\ i \in DOMAIN q /\ q[i] \in Queueable
    BY <1>3
  <2>2. p[i] = PaintOne(p[i - 1], q[i]) /\ p[i - 1] \in [0 .. k - 1 -> Int]
    BY <1>1, <1>2, <2>1 DEF Paints
  <2>3. PaintOne(ResizeBack(p[i - 1], width), q[i]) = ResizeBack(PaintOne(p[i - 1], q[i]), width)
    BY <2>1, <2>2, OneResized
  <2>4. r[i] = ResizeBack(p[i], width) /\ r[i - 1] = ResizeBack(p[i - 1], width)
    BY <2>1
  <2> QED BY <2>2, <2>3, <2>4
<1>5. r[0] = c /\ r = [i \in 0 .. Len(q) |-> r[i]] /\ r[Len(q)] = ResizeBack(p[Len(q)], width)
  BY <1>1, <1>3 DEF Paints
<1> HIDE DEF r, c
<1>6. Paints(r, c, q)
  BY <1>4, <1>5 DEF Paints
<1>7. Painted(c, q) = r[Len(q)]
  BY <1>6, PaintedIs
<1> QED BY <1>1, <1>5, <1>7 DEF c

\* While a resize is to come, only plain actions wait.
Ordered ==
    /\ Painted(screen.back, screen.q) = ideal
    /\ screen.fb \in Sizes
    /\ \A i \in DOMAIN rects : /\ rects[i].type = "blit" => ~rects[i].view
                               /\ rects[i].type = "resize" => rects[i].w \in Sizes
    /\ \A i, j \in DOMAIN rects :
          i < j /\ rects[j].type = "resize" => rects[i].type = "resize" \/ Plain(rects[i])
    /\ \A j \in DOMAIN rects :
          ~flushing /\ rects[j].type = "resize" => \A i \in DOMAIN screen.q : Plain(screen.q[i])

LEMMA PlainFewer ==
  ASSUME NEW q, NEW r, \A i \in DOMAIN q : Plain(q[i]),
         \A i \in DOMAIN r : r[i].type = "flip" \/ \E j \in DOMAIN q : q[j] = r[i]
  PROVE  \A i \in DOMAIN r : Plain(r[i])
<1> SUFFICES ASSUME NEW i \in DOMAIN r PROVE Plain(r[i])
  OBVIOUS
<1>1. CASE r[i].type = "flip"
  BY <1>1 DEF Plain
<1>2. CASE \E j \in DOMAIN q : q[j] = r[i]
  BY <1>2
<1> QED BY <1>1, <1>2

LEMMA OrderedUnder ==
  ASSUME Ordered, UNCHANGED <<rects, flushing, ideal>>,
         Painted(screen'.back, screen'.q) = Painted(screen.back, screen.q), screen'.fb = screen.fb,
         \A i \in DOMAIN screen'.q : \/ screen'.q[i].type = "flip"
                                   \/ \E j \in DOMAIN screen.q : screen.q[j] = screen'.q[i]
  PROVE  Ordered'
<1>1. ASSUME NEW j \in DOMAIN rects', ~flushing', rects'[j].type = "resize", NEW i \in DOMAIN screen'.q
      PROVE  Plain(screen'.q[i])
  <2>1. \A k \in DOMAIN screen.q : Plain(screen.q[k])
    BY <1>1 DEF Ordered
  <2> QED BY <2>1, PlainFewer
<1> QED BY <1>1 DEF Ordered

LEMMA OrderedStep ==
  ASSUME PlainBeforeResize, NoViews, Fits, Quiet, Ordered, [PaintNext]_paintVars
  PROVE  Ordered'
<1>1. /\ Placed(screen) /\ rects \in Seq(Arriving) /\ flushing \in BOOLEAN /\ sent \in Nat
      /\ screen.q \in Seq(Queueable) /\ screen.fb \in Nat
      /\ screen.back \in [0 .. screen.fb - 1 -> Int]
  BY FieldTypes DEF Fits, Placed, Sized
<1>2. ASSUME NEW ops \in Updates, FramebufferUpdate(ops)
      PROVE  Ordered'
  <2>1. /\ rects' = Numbered(ops) /\ ideal' = ideal
        /\ screen'.fb = screen.fb /\ screen'.back = screen.back /\ Keeps(screen.q, screen'.q)
        /\ flushing' \in BOOLEAN /\ (flushing' \/ screen'.q = <<>>)
    BY <1>2, HeaderParts
  <2>2. /\ DOMAIN rects' = DOMAIN ops
        /\ \A i \in DOMAIN rects' :
              /\ rects'[i].type = ops[i].type
              /\ rects'[i].type # "resize" => rects'[i].x = ops[i].x
              /\ rects'[i].w = ops[i].w
              /\ rects'[i].type = "blit" => rects'[i].view = ops[i].view
    BY <1>1, <2>1, NumberedParts
  <2>3. Painted(screen'.back, screen'.q) = ideal' /\ screen'.fb \in Sizes
    BY <2>1 DEF Ordered, Keeps
  <2>4. ASSUME NEW i \in DOMAIN rects'
        PROVE  /\ rects'[i].type = "blit" => ~rects'[i].view
               /\ rects'[i].type = "resize" => rects'[i].w \in Sizes
    <3>1. rects'[i].type = "blit" => ~rects'[i].view
      BY <2>2 DEF NoViews
    <3>2. ASSUME rects'[i].type = "resize" PROVE rects'[i].w \in Sizes
      <4>1. i \in DOMAIN ops /\ ops[i].type = "resize" /\ rects'[i].w = ops[i].w
        BY <2>2, <3>2
      <4>2. ops[i].w \in Sizes
        BY <4>1 DEF Sizes
      <4> QED BY <4>1, <4>2
    <3> QED BY <3>1, <3>2
  <2>5. ASSUME NEW i \in DOMAIN rects', NEW j \in DOMAIN rects', i < j, rects'[j].type = "resize",
               rects'[i].type # "resize"
        PROVE  Plain(rects'[i])
    <3>1. Plain(ops[i])
      BY <2>2, <2>5 DEF PlainBeforeResize
    <3> QED BY <2>2, <2>5, <3>1 DEF Plain
  <2>6. ASSUME ~flushing' PROVE \A i \in DOMAIN screen'.q : Plain(screen'.q[i])
    BY <2>1, <2>6
  <2> QED BY <2>3, <2>4, <2>5, <2>6 DEF Ordered
<1>3. CASE HandleRect
  <2> DEFINE a == Head(rects)
             e == Decoded(a)
  <2>1. /\ rects # <<>> /\ ~flushing /\ a \in Arriving /\ a = rects[1] /\ 1 \in DOMAIN rects
        /\ \A i \in DOMAIN rects' : i + 1 \in DOMAIN rects /\ rects'[i] = rects[i + 1]
        /\ rects' \in Seq(Arriving)
        /\ screen'.fb = e.fb /\ screen'.back = e.back /\ Keeps(e.q, screen'.q)
        /\ ideal' = IF a.type = "resize" THEN ResizeBack(ideal, a.w) ELSE Drawn(ideal, a)
        /\ UNCHANGED flushing
    BY <1>3, RectParts
  <2>2. /\ a.type = "blit" => ~a.view
        /\ a.type = "resize" => a.w \in Sizes
        /\ \A j \in DOMAIN rects : rects[j].type = "resize" => \A i \in DOMAIN screen.q : Plain(screen.q[i])
    <3> HIDE DEF a, e
    <3>1. \A i \in DOMAIN rects : /\ rects[i].type = "blit" => ~rects[i].view
                                  /\ rects[i].type = "resize" => rects[i].w \in Sizes
      BY Zenon DEF Ordered
    <3>2. (a.type = "blit" => ~a.view) /\ (a.type = "resize" => a.w \in Sizes)
      BY <2>1, <3>1
    <3>3. \A j \in DOMAIN rects : rects[j].type = "resize" => \A i \in DOMAIN screen.q : Plain(screen.q[i])
      BY Zenon, <2>1 DEF Ordered
    <3> QED BY <3>2, <3>3
  <2>3. /\ \A i \in DOMAIN e.q :
              \/ e.q[i].type = "flip"
              \/ \E j \in DOMAIN screen.q : screen.q[j] = e.q[i]
              \/ e.q[i] = a \/ e.q[i] = Queued(a)
        /\ a.type = "resize" => /\ e.fb = a.w /\ e.back = ResizeBack(screen.back, a.w)
                                /\ Keeps(screen.q, e.q)
        /\ a.type # "resize" => /\ a \in Shapes
                                /\ Adds(screen, e, a) \/ Adds(screen, e, Queued(a))
    BY <2>1, DecodedParts
  <2>4. Queued(a) = a
    <3>1. CASE a \in Shapes
      BY <2>2, <3>1, QueuedShape
    <3>2. CASE a \in Resizes
      BY <3>2 DEF Resizes, Queued
    <3> QED BY <2>1, <3>1, <3>2 DEF Arriving
  <2> HIDE DEF e, a
  <2>5. Painted(e.back, e.q) = ideal' /\ e.fb \in Sizes
    <3>1. CASE a.type = "resize"
      <4>1. a.w \in Nat
        BY <2>1, <3>1 DEF Arriving, Shapes, Resizes
      <4>2. ASSUME NEW i \in DOMAIN screen.q
            PROVE  \/ screen.q[i].type = "flip"
                   \/ screen.q[i].type # "copy" /\ screen.q[i].x + screen.q[i].w <= screen.fb
        <5>1. Plain(screen.q[i])
          BY <2>1, <2>2, <3>1
        <5> QED BY <5>1 DEF Plain, Ordered
      <4>3. Painted(ResizeBack(screen.back, a.w), screen.q) = ResizeBack(Painted(screen.back, screen.q), a.w)
        BY <1>1, <4>1, <4>2, PaintedResized
      <4>4. Painted(e.back, e.q) = Painted(e.back, screen.q)
        BY <2>3, <3>1 DEF Keeps
      <4> QED BY <2>1, <2>2, <2>3, <3>1, <4>3, <4>4 DEF Ordered
    <3>2. CASE a.type # "resize"
      BY <2>1, <2>3, <2>4, <3>2 DEF Adds, Ordered
    <3> QED BY <3>1, <3>2
  <2>6. Painted(screen'.back, screen'.q) = ideal' /\ screen'.fb \in Sizes
    BY <2>1, <2>5 DEF Keeps
  <2>7. ASSUME NEW j \in DOMAIN rects', rects'[j].type = "resize", NEW i \in DOMAIN screen'.q
        PROVE  Plain(screen'.q[i])
    <3>1. j \in Nat /\ j + 1 \in DOMAIN rects /\ rects[j + 1].type = "resize" /\ 1 < j + 1
      BY <2>1, <2>7
    <3>2. \A k \in DOMAIN screen.q : Plain(screen.q[k])
      BY <2>2, <3>1
    <3>3. a.type = "resize" \/ Plain(a)
      BY <2>1, <3>1 DEF Ordered
    <3>4. ASSUME NEW k \in DOMAIN e.q PROVE Plain(e.q[k])
      <4>1. CASE a.type = "resize"
        <5>1. \A m \in DOMAIN e.q : e.q[m].type = "flip" \/ \E n \in DOMAIN screen.q : screen.q[n] = e.q[m]
          BY <2>3, <4>1 DEF Keeps
        <5> QED BY <3>2, <5>1, PlainFewer
      <4>2. CASE a.type # "resize"
        <5>1. CASE e.q[k].type = "flip"
          BY <5>1 DEF Plain
        <5>2. CASE \E m \in DOMAIN screen.q : screen.q[m] = e.q[k]
          BY <3>2, <5>2
        <5>3. CASE e.q[k] = a
          BY <3>3, <4>2, <5>3
        <5> QED BY <2>3, <2>4, <5>1, <5>2, <5>3
      <4> QED BY <4>1, <4>2
    <3> QED BY <2>1, <3>4, PlainFewer DEF Keeps
  <2>8. ASSUME NEW i \in DOMAIN rects'
        PROVE  /\ rects'[i].type = "blit" => ~rects'[i].view
               /\ rects'[i].type = "resize" => rects'[i].w \in Sizes
    <3>1. i + 1 \in DOMAIN rects /\ rects'[i] = rects[i + 1]
      BY <2>1
    <3>2. /\ rects[i + 1].type = "blit" => ~rects[i + 1].view
          /\ rects[i + 1].type = "resize" => rects[i + 1].w \in Sizes
      BY Zenon, <3>1 DEF Ordered
    <3> QED BY <3>1, <3>2
  <2>9. ASSUME NEW i \in DOMAIN rects', NEW j \in DOMAIN rects', i < j, rects'[j].type = "resize",
               rects'[i].type # "resize"
        PROVE  Plain(rects'[i])
    <3>1. i \in Nat /\ j \in Nat
      BY <2>1
    <3>2. i + 1 \in DOMAIN rects /\ j + 1 \in DOMAIN rects /\ i + 1 < j + 1
          /\ rects[j + 1].type = "resize" /\ rects[i + 1].type # "resize" /\ rects'[i] = rects[i + 1]
      BY <2>1, <2>9, <3>1
    <3> QED BY <3>2 DEF Ordered
  <2> QED BY <2>6, <2>7, <2>8, <2>9 DEF Ordered
<1>4. ASSUME NEW id \in Decoding, ImageLoads(id)
      PROVE  Ordered'
  <2>1. /\ Draws(screen, screen') /\ flushing' = (flushing /\ screen'.q # <<>>)
        /\ UNCHANGED <<rects, ideal>>
    BY <1>4, LoadParts
  <2>2. CASE flushing' = flushing
    BY <2>1, <2>2, OrderedUnder DEF Draws
  <2>3. CASE flushing' # flushing
    <3>1. screen'.q = <<>>
      BY <1>1, <2>1, <2>3
    <3>2. \A i \in DOMAIN screen'.q : Plain(screen'.q[i])
      BY <3>1
    <3> QED BY <2>1, <3>2 DEF Ordered, Draws
  <2> QED BY <2>2, <2>3
<1>5. CASE Moves
  <2>1. Views(screen, screen') /\ UNCHANGED <<rects, flushing, ideal>>
    BY <1>5, MovesParts
  <2> QED BY <2>1, OrderedUnder DEF Views, Keeps
<1>6. CASE UNCHANGED paintVars
  <2>1. UNCHANGED <<screen, rects, flushing, ideal>>
    BY <1>6 DEF paintVars
  <2> QED BY <2>1, OrderedUnder
<1> QED BY <1>2, <1>3, <1>4, <1>5, <1>6, PaintSteps

\* What was drawn and what waits in the queue make up the framebuffer the server
\* has, whatever images arrive when (display.js _renderQPush, _scanRenderQ), as
\* long as nothing that waits when the framebuffer is resized depends on its
\* size, and no rectangle is blitted from a view of the receive queue.  Neither
\* can be dropped: a resize does not wait in the queue (display.js resize), so a
\* copy that does is drawn into a framebuffer it was not sent for.
THEOREM PaintingInOrder ==
  ASSUME PlainBeforeResize, NoViews
  PROVE  PaintSpec => []InOrder
<1>1. PaintInit => Ordered
  <2> SUFFICES ASSUME PaintInit PROVE Ordered
    OBVIOUS
  <2>1. rects = <<>> /\ ideal = Blank(Width) /\ screen.q = <<>> /\ screen.back = Blank(Width)
        /\ screen.fb = Width
    BY StartParts DEF PaintInit
  <2>2. Painted(screen.back, screen.q) = ideal
    BY <2>1, PaintedEmpty
  <2> QED BY <2>1, <2>2 DEF Ordered, Sizes
<1>2. Fits /\ Quiet /\ Ordered /\ [PaintNext]_paintVars => Ordered'
  BY OrderedStep
<1>3. Ordered => InOrder
  BY DEF Ordered, InOrder
<1> QED BY <1>1, <1>2, <1>3, PaintingFits, PTL DEF PaintSpec

-----------------------------------------------------------------------------
(* The keyboard: what recursive functions compute, one element at a time.  *)

\* p[k] is the remote text after k keys of q.
Typings(p, b, q) ==
    /\ p = [k \in 0 .. Len(q) |-> p[k]]
    /\ p[0] = b
    /\ \A k \in 1 .. Len(q) : p[k] = Typed(p[k - 1], q[k])

TypingRule(p, b, q, m) ==
    p = [k \in 0 .. m |-> IF k = 0 THEN b ELSE Typed(p[k - 1], q[k])]

\* The texts after the first n keys of q, one after another, are a function.
LEMMA TypingExists ==
  ASSUME NEW b, NEW q, NEW n \in Nat
  PROVE  \E p : TypingRule(p, b, q, n)
<1> DEFINE S == {m \in Nat : \E p : TypingRule(p, b, q, m)}
<1>1. 0 \in S
  <2> DEFINE p == [k \in 0 .. 0 |-> b]
  <2>1. p = [k \in 0 .. 0 |-> IF k = 0 THEN b ELSE Typed(p[k - 1], q[k])]
    OBVIOUS
  <2> HIDE DEF p
  <2>2. TypingRule(p, b, q, 0)
    BY <2>1 DEF TypingRule
  <2> QED BY <2>2
<1>2. \A m \in Nat : m \in S => m + 1 \in S
  <2> SUFFICES ASSUME NEW m \in Nat, NEW p, TypingRule(p, b, q, m)
               PROVE  \E r : TypingRule(r, b, q, m + 1)
    OBVIOUS
  <2> DEFINE r == [k \in 0 .. m + 1 |-> IF k <= m THEN p[k] ELSE Typed(p[m], q[k])]
             s == [k \in 0 .. m + 1 |-> IF k = 0 THEN b ELSE Typed(r[k - 1], q[k])]
  <2>1. ASSUME NEW k \in 0 .. m + 1 PROVE r[k] = s[k]
    <3>1. CASE k = 0
      BY <3>1 DEF TypingRule
    <3>2. CASE k \in 1 .. m
      <4>1. r[k] = p[k] /\ r[k - 1] = p[k - 1] /\ k - 1 \in 0 .. m
        BY <3>2
      <4>2. p[k] = Typed(p[k - 1], q[k])
        BY <3>2 DEF TypingRule
      <4> QED BY <3>2, <4>1, <4>2
    <3>3. CASE k = m + 1
      BY <3>3
    <3> QED BY <3>1, <3>2, <3>3
  <2>2. r = s
    BY <2>1
  <2> HIDE DEF r
  <2>3. TypingRule(r, b, q, m + 1)
    BY <2>2 DEF TypingRule
  <2> QED BY <2>3
<1>3. n \in S
  <2> HIDE DEF S
  <2> QED BY <1>1, <1>2, Induction
<1> QED BY <1>3

\* TypedAll goes through the keys one at a time.
LEMMA TypedBy ==
  ASSUME NEW b, NEW S, NEW q \in Seq(S)
  PROVE  \E p : Typings(p, b, q) /\ TypedAll(b, q) = p[Len(q)]
<1> DEFINE p == CHOOSE p : TypingRule(p, b, q, Len(q))
<1>1. TypingRule(p, b, q, Len(q))
  BY TypingExists
<1>2. TypedAll(b, q) = p[Len(q)]
  BY DEF TypedAll, TypingRule
<1> HIDE DEF p
<1>3. Typings(p, b, q)
  BY <1>1 DEF TypingRule, Typings
<1> QED BY <1>2, <1>3

\* Any function that goes through them one at a time ends where TypedAll does.
LEMMA TypedIs ==
  ASSUME NEW b, NEW S, NEW q \in Seq(S), NEW r, Typings(r, b, q)
  PROVE  TypedAll(b, q) = r[Len(q)]
<1>1. PICK p : Typings(p, b, q) /\ TypedAll(b, q) = p[Len(q)]
  BY TypedBy
<1> DEFINE K == {k \in Nat : k <= Len(q) => p[k] = r[k]}
<1>2. 0 \in K
  BY <1>1 DEF Typings
<1>3. \A k \in Nat : k \in K => k + 1 \in K
  <2> SUFFICES ASSUME NEW k \in Nat, k + 1 <= Len(q), p[k] = r[k]
               PROVE  p[k + 1] = r[k + 1]
    OBVIOUS
  <2>1. k + 1 \in 1 .. Len(q) /\ (k + 1) - 1 = k
    OBVIOUS
  <2>2. p[k + 1] = Typed(p[k], q[k + 1]) /\ r[k + 1] = Typed(r[k], q[k + 1])
    BY <1>1, <2>1 DEF Typings
  <2> QED BY <2>2
<1>4. Len(q) \in K
  <2> HIDE DEF K
  <2> QED BY <1>2, <1>3, Induction
<1> QED BY <1>1, <1>4

\* No key leaves the text as it is.
LEMMA TypedNothing == ASSUME NEW b PROVE TypedAll(b, <<>>) = b
<1>1. <<>> \in Seq({})
  OBVIOUS
<1>2. PICK p : Typings(p, b, <<>>) /\ TypedAll(b, <<>>) = p[Len(<<>>)]
  BY <1>1, TypedBy
<1> QED BY <1>2 DEF Typings

\* One more key is typed after the others.
LEMMA TypedAppend ==
  ASSUME NEW b, NEW S, NEW q \in Seq(S), NEW a \in S
  PROVE  TypedAll(b, Append(q, a)) = Typed(TypedAll(b, q), a)
<1>1. PICK p : Typings(p, b, q) /\ TypedAll(b, q) = p[Len(q)]
  BY TypedBy
<1> DEFINE n == Len(q)
           t == Append(q, a)
           r == [k \in 0 .. n + 1 |-> IF k <= n THEN p[k] ELSE Typed(p[n], a)]
<1>2. t \in Seq(S) /\ Len(t) = n + 1 /\ t[n + 1] = a /\ \A k \in 1 .. n : t[k] = q[k]
  OBVIOUS
<1>3. n \in Nat
  OBVIOUS
<1> HIDE DEF t
<1>4. Typings(r, b, t)
  <2>1. r = [k \in 0 .. Len(t) |-> r[k]] /\ r[0] = b
    BY <1>1, <1>2, <1>3 DEF Typings
  <2>2. ASSUME NEW k \in 1 .. Len(t) PROVE r[k] = Typed(r[k - 1], t[k])
    <3>1. CASE k = n + 1
      <4>1. r[k] = Typed(p[n], a) /\ r[k - 1] = p[n]
        BY <1>3, <3>1
      <4> QED BY <1>2, <3>1, <4>1
    <3>2. CASE k \in 1 .. n
      <4>1. r[k] = p[k] /\ r[k - 1] = p[k - 1] /\ t[k] = q[k]
        BY <1>2, <1>3, <3>2
      <4> QED BY <1>1, <3>2, <4>1 DEF Typings
    <3> QED BY <1>2, <1>3, <3>1, <3>2
  <2> QED BY <2>1, <2>2 DEF Typings
<1>5. r[n + 1] = Typed(p[n], a)
  BY <1>3
<1> HIDE DEF r
<1>6. TypedAll(b, t) = r[Len(t)]
  BY <1>2, <1>4, TypedIs
<1> QED BY <1>1, <1>2, <1>5, <1>6 DEF t

-----------------------------------------------------------------------------
(* The soft keyboard.                                                      *)

\* The seed of the field is one character.
LEMMA SeedParts ==
  /\ Seed \in Seq(Nat) /\ <<>> \in Seq(Nat) /\ Len(<<>>) = 0
  /\ Len(Seed) = 1 /\ Seed # <<>> /\ Seed \o <<>> = Seed /\ Front(Seed) = <<>>
BY DEF Seed, Front

\* A sequence before another can be cut off from it, on either side.
LEMMA Parts ==
  ASSUME NEW S, NEW s \in Seq(S), NEW w \in Seq(S)
  PROVE  /\ s \o w \in Seq(S) /\ Len(s \o w) = Len(s) + Len(w)
         /\ \A i \in 1 .. Len(s) : (s \o w)[i] = s[i]
         /\ SubSeq(s \o w, 1, Len(s)) = s
         /\ SubSeq(s \o w, Len(s) + 1, Len(s \o w)) = w
<1> DEFINE t == s \o w
<1>1. /\ t \in Seq(S) /\ Len(t) = Len(s) + Len(w)
      /\ \A i \in 1 .. Len(s) + Len(w) : t[i] = IF i <= Len(s) THEN s[i] ELSE w[i - Len(s)]
  BY ConcatProperties
<1>2. Len(s) \in Nat /\ Len(w) \in Nat /\ \A i \in 1 .. Len(t) : t[i] \in S
  BY <1>1, ElementOfSeq
<1> HIDE DEF t
<1>3. SubSeq(t, 1, Len(s)) = s
  <2>1. /\ SubSeq(t, 1, Len(s)) \in Seq(S) /\ Len(SubSeq(t, 1, Len(s))) = Len(s)
        /\ \A i \in 1 .. Len(s) : SubSeq(t, 1, Len(s))[i] = t[i]
    BY <1>1, <1>2
  <2> QED BY <1>1, <1>2, <2>1, SeqEqual
<1>4. SubSeq(t, Len(s) + 1, Len(t)) = w
  <2> DEFINE u == SubSeq(t, Len(s) + 1, Len(t))
  <2>1. u \in Seq(S) /\ Len(u) = Len(w) /\ \A i \in 1 .. Len(w) : u[i] = t[i + Len(s)]
    BY <1>1, <1>2
  <2>2. \A i \in 1 .. Len(w) : u[i] = w[i]
    <3> HIDE DEF u
    <3> QED BY <1>1, <1>2, <2>1
  <2>3. u = w
    <3> HIDE DEF u
    <3>1. Len(u) = Len(w) /\ \A i \in 1 .. Len(u) : u[i] = w[i]
      BY <2>1, <2>2
    <3> QED BY <2>1, <3>1, SeqEqual
  <2> QED BY <2>3
<1> QED BY <1>1, <1>2, <1>3, <1>4 DEF t

\* An empty sequence and a first element in common, or none.
LEMMA CommonPrefix ==
  ASSUME NEW S, NEW s \in Seq(S), NEW t \in Seq(S), NEW n \in Nat,
         n <= Len(s), n <= Len(t), \A i \in 1 .. n : s[i] = t[i],
         n = Len(s) \/ n = Len(t)
  PROVE  Len(LongestCommonPrefix({s, t})) = n
<1> DEFINE C == CommonPrefixes({s, t})
           u == SubSeq(s, 1, n)
<1>1. \A c \in C : c \in Seq(S) /\ Len(c) <= Len(s) /\ Len(c) <= Len(t)
  BY DEF CommonPrefixes, IsPrefix, Prefixes
<1>2. u \in Seq(S) /\ Len(u) = n /\ u = SubSeq(t, 1, n) /\ SubSeq(u, 1, n) = u
  OBVIOUS
<1>3. u \in C
  <2>1. u \in Prefixes(s)
    BY DEF Prefixes
  <2>2. IsPrefix(u, s) /\ IsPrefix(u, t)
    BY <1>2 DEF IsPrefix
  <2> QED BY <2>1, <2>2 DEF CommonPrefixes
<1>4. \A c \in C : Len(c) \in Nat /\ Len(c) <= Len(u)
  BY <1>1, <1>2
<1> DEFINE l == CHOOSE l \in C : \A c \in C : Len(c) <= Len(l)
<1>5. LongestCommonPrefix({s, t}) = l
  BY DEF LongestCommonPrefix
<1> HIDE DEF C, u
<1>6. \E m \in C : \A c \in C : Len(c) <= Len(m)
  BY <1>3, <1>4
<1>7. l \in C /\ \A c \in C : Len(c) <= Len(l)
  BY <1>6
<1> HIDE DEF l
<1>8. Len(l) \in Nat /\ Len(l) <= n /\ n <= Len(l)
  BY <1>2, <1>3, <1>4, <1>7
<1> QED BY <1>5, <1>8

\* A sequence read backwards, and what it begins with.
LEMMA Reversed ==
  ASSUME NEW S, NEW s \in Seq(S)
  PROVE  Reverse(s) \in Seq(S) /\ Len(Reverse(s)) = Len(s)
BY DEF Reverse

\* The seed before what the user entered.
LEMMA SeedBefore ==
  ASSUME NEW w \in Seq(Nat)
  PROVE  /\ Seed \in Seq(Nat) /\ Seed \o w \in Seq(Nat) /\ Len(Seed) = 1
         /\ Len(Seed \o w) = Len(w) + 1 /\ Len(w) \in Nat /\ (Seed \o w)[1] = Seed[1]
         /\ SubSeq(Seed \o w, 2, Len(Seed \o w)) = w
<1>1. Seed \in Seq(Nat) /\ w \in Seq(Nat) /\ Len(Seed) = 1 /\ Len(w) \in Nat
  BY SeedParts
<1>2. /\ Seed \o w \in Seq(Nat) /\ Len(Seed \o w) = Len(Seed) + Len(w)
      /\ \A i \in 1 .. Len(Seed) : (Seed \o w)[i] = Seed[i]
  BY <1>1, Parts
<1>3. SubSeq(Seed \o w, Len(Seed) + 1, Len(Seed \o w)) = w
  <2>1. \A s \in Seq(Nat), v \in Seq(Nat) : SubSeq(s \o v, Len(s) + 1, Len(s \o v)) = v
    BY Parts
  <2> QED BY <1>1, <2>1
<1> HIDE DEF Seed
<1>4. (Seed \o w)[1] = Seed[1]
  BY <1>1, <1>2
<1>5. SubSeq(Seed \o w, 2, Len(Seed \o w)) = w
  BY <1>1, <1>3
<1>6. Len(Seed \o w) = Len(w) + 1
  BY <1>1, <1>2
<1> QED BY <1>1, <1>2, <1>4, <1>5, <1>6

\* A field that had the seed and more characters: they are sent.
LEMMA EditMore ==
  ASSUME NEW w \in Seq(Nat)
  PROVE  EditKeys(Seed, Seed \o w) = w
<1> DEFINE new == Seed \o w
           prefix == Len(LongestCommonPrefix({Seed, new}))
           o == SubSeq(Seed, prefix + 1, Len(Seed))
           n == SubSeq(new, prefix + 1, Len(new))
           suffix == Len(LongestCommonPrefix({Reverse(o), Reverse(n)}))
<1>1. /\ Seed \in Seq(Nat) /\ new \in Seq(Nat) /\ Len(Seed) = 1
      /\ Len(new) = Len(w) + 1 /\ Len(w) \in Nat /\ new[1] = Seed[1]
      /\ SubSeq(new, 2, Len(new)) = w
  BY SeedBefore
<1>2. prefix = 1
  <2>1. /\ 1 <= Len(Seed) /\ 1 <= Len(new) /\ (\A i \in 1 .. 1 : Seed[i] = new[i])
        /\ (1 = Len(Seed) \/ 1 = Len(new)) /\ 1 \in Nat
    BY <1>1
  <2> HIDE DEF new
  <2> QED BY <1>1, <2>1, CommonPrefix
<1>3. o = <<>> /\ n = w
  <2> HIDE DEF prefix
  <2>1. o = <<>>
    BY <1>1, <1>2
  <2>2. n = w
    BY <1>1, <1>2
  <2> QED BY <2>1, <2>2
<1>4. suffix = 0
  <2>1. Reverse(<<>>) \in Seq(Nat) /\ Len(Reverse(<<>>)) = 0
    BY DEF Reverse
  <2>2. Reverse(w) \in Seq(Nat) /\ Len(Reverse(w)) \in Nat
    BY Reversed
  <2> DEFINE e == Reverse(<<>>)
             v == Reverse(w)
  <2>3. /\ e \in Seq(Nat) /\ v \in Seq(Nat) /\ 0 \in Nat /\ 0 <= Len(e) /\ 0 <= Len(v)
        /\ (\A i \in 1 .. 0 : e[i] = v[i]) /\ (0 = Len(e) \/ 0 = Len(v))
    <3> HIDE DEF e, v
    <3>1. e \in Seq(Nat) /\ Len(e) = 0 /\ v \in Seq(Nat) /\ Len(v) \in Nat
      BY <2>1, <2>2 DEF e, v
    <3> QED BY <3>1
  <2>4. Len(LongestCommonPrefix({e, v})) = 0
    <3> HIDE DEF e, v, new, prefix, o, n, suffix
    <3> QED BY <2>3, CommonPrefix
  <2> HIDE DEF o, n
  <2> QED BY <1>3, <2>4
<1>5. EditKeys(Seed, new) = [i \in 1 .. Len(o) - suffix |-> BackSpace]
                                \o [i \in 1 .. Len(n) - suffix |-> CharKeysym(n[i])]
  BY DEF EditKeys
<1> HIDE DEF new, prefix, o, n, suffix
<1>6. [i \in 1 .. Len(o) - suffix |-> BackSpace] = <<>>
  BY <1>3, <1>4
<1>7. [i \in 1 .. Len(n) - suffix |-> CharKeysym(n[i])] = w
  BY <1>3, <1>4 DEF CharKeysym
<1>8. <<>> \o w = w
  OBVIOUS
<1> QED BY <1>5, <1>6, <1>7, <1>8 DEF new

\* A field that did not change gives no keys.
LEMMA EditSame == EditKeys(Seed, Seed) = <<>>
BY SeedParts, EditMore

\* A field that was emptied.
LEMMA EditLess == EditKeys(Seed, <<>>) = <<BackSpace>>
<1> DEFINE prefix == Len(LongestCommonPrefix({Seed, <<>>}))
           o == SubSeq(Seed, prefix + 1, Len(Seed))
           n == SubSeq(<<>>, prefix + 1, Len(<<>>))
           suffix == Len(LongestCommonPrefix({Reverse(o), Reverse(n)}))
<1>1. Seed \in Seq(Nat) /\ Len(Seed) = 1 /\ <<>> \in Seq(Nat) /\ Len(<<>>) = 0
  BY SeedParts
<1>2. prefix = 0
  <2>1. /\ 0 <= Len(Seed) /\ 0 <= Len(<<>>) /\ (\A i \in 1 .. 0 : Seed[i] = <<>>[i])
        /\ (0 = Len(Seed) \/ 0 = Len(<<>>)) /\ 0 \in Nat
    BY <1>1
  <2> QED BY <1>1, <2>1, CommonPrefix
<1>3. o = Seed /\ n = <<>>
  <2> HIDE DEF prefix
  <2> QED BY <1>1, <1>2
<1>4. suffix = 0
  <2>1. Reverse(<<>>) \in Seq(Nat) /\ Len(Reverse(<<>>)) = 0
    BY DEF Reverse
  <2>2. Reverse(Seed) \in Seq(Nat) /\ Len(Reverse(Seed)) \in Nat
    BY <1>1, Reversed
  <2>3. Len(LongestCommonPrefix({Reverse(Seed), Reverse(<<>>)})) = 0
    BY <2>1, <2>2, CommonPrefix
  <2> HIDE DEF o, n
  <2> QED BY <1>3, <2>3
<1>5. EditKeys(Seed, <<>>) = [i \in 1 .. Len(o) - suffix |-> BackSpace]
                                \o [i \in 1 .. Len(n) - suffix |-> CharKeysym(n[i])]
  BY DEF EditKeys
<1> HIDE DEF prefix, o, n, suffix
<1>6. [i \in 1 .. Len(o) - suffix |-> BackSpace] = <<BackSpace>>
  <2>1. Len(o) - suffix = 1
    BY <1>1, <1>3, <1>4
  <2> QED BY <2>1
<1>7. [i \in 1 .. Len(n) - suffix |-> CharKeysym(n[i])] = <<>>
  BY <1>3, <1>4
<1>8. <<BackSpace>> \o <<>> = <<BackSpace>>
  OBVIOUS
<1> QED BY <1>5, <1>6, <1>7, <1>8

\* BackSpace is no character.
LEMMA NoBackSpace == BackSpace \notin Latin1
BY DEF Latin1, BackSpace

\* Characters of Latin-1 are appended to the remote text.
LEMMA TypedCharacters ==
  ASSUME NEW t \in Seq(Nat), NEW w \in Seq(Nat), ~Foreign(w)
  PROVE  TypedAll(t, w) = t \o w
<1> DEFINE p == [k \in 0 .. Len(w) |-> t \o SubSeq(w, 1, k)]
<1>1. p[0] = t
  OBVIOUS
<1>2. ASSUME NEW k \in 1 .. Len(w) PROVE p[k] = Typed(p[k - 1], w[k])
  <2>1. w[k] \in Latin1
    BY DEF Foreign
  <2>4. w[k] # BackSpace
    BY <2>1, NoBackSpace
  <2>2. p[k] = t \o SubSeq(w, 1, k) /\ p[k - 1] = t \o SubSeq(w, 1, k - 1)
    OBVIOUS
  <2>3. t \o SubSeq(w, 1, k) = Append(t \o SubSeq(w, 1, k - 1), w[k])
    OBVIOUS
  <2> QED BY <2>1, <2>2, <2>3, <2>4 DEF Typed
<1>3. p = [k \in 0 .. Len(w) |-> p[k]]
  OBVIOUS
<1>4. Typings(p, t, w)
  <2> HIDE DEF p
  <2> QED BY <1>1, <1>2, <1>3 DEF Typings
<1>5. p[Len(w)] = t \o w
  <2>1. SubSeq(w, 1, Len(w)) = w /\ Len(w) \in 0 .. Len(w)
    OBVIOUS
  <2>2. p[Len(w)] = t \o SubSeq(w, 1, Len(w))
    BY <2>1
  <2> QED BY <2>1, <2>2
<1> HIDE DEF p
<1> QED BY <1>4, <1>5, TypedIs

\* ... and no keys leave the text as it is.
LEMMA TypedNone == ASSUME NEW t \in Seq(Nat) PROVE TypedAll(t, <<>>) = t
BY TypedNothing

\* One character taken off the field is one BackSpace.
LEMMA TypedBack ==
  ASSUME NEW t \in Seq(Nat)
  PROVE  TypedAll(t, <<BackSpace>>) = Typed(t, BackSpace) /\ Typed(t, BackSpace) \in Seq(Nat)
<1>1. <<>> \in Seq(Nat) /\ BackSpace \in Nat /\ Append(<<>>, BackSpace) = <<BackSpace>>
  BY DEF BackSpace
<1>2. TypedAll(t, Append(<<>>, BackSpace)) = Typed(TypedAll(t, <<>>), BackSpace)
  BY <1>1, TypedAppend
<1>3. Typed(t, BackSpace) \in Seq(Nat)
  <2>1. t # <<>> => Front(t) \in Seq(Nat)
    BY DEF Front
  <2>2. Typed(t, BackSpace) = IF t = <<>> THEN t ELSE Front(t)
    BY NoBackSpace DEF Typed
  <2> QED BY <2>1, <2>2
<1> QED BY <1>1, <1>2, <1>3, TypedNone

SoftInv ==
    /\ typed \in Seq(Nat) /\ (~foreign => text = typed)
    /\ prev = Seed
    /\ composing \in Seq(Nat)
    /\ field = Seed \o composing

\* The texts agree at first, and the field holds its seed.
LEMMA SoftInit == KeyboardInit => SoftInv
BY SeedParts DEF KeyboardInit, SoftInv

\* Every step leaves the texts in agreement and the field with its seed.
LEMMA SoftStep == SoftInv /\ [KeyboardNext]_keyboardVars => SoftInv'
<1> SUFFICES ASSUME SoftInv, [KeyboardNext]_keyboardVars PROVE SoftInv'
  OBVIOUS
<1>1. /\ typed \in Seq(Nat) /\ (~foreign => text = typed) /\ prev = Seed
      /\ composing \in Seq(Nat) /\ field = Seed \o composing
  BY DEF SoftInv
<1>2. /\ Seed \in Seq(Nat) /\ Len(Seed) = 1 /\ Seed # <<>> /\ Seed \o <<>> = Seed
      /\ Front(Seed) = <<>> /\ <<>> \in Seq(Nat)
  BY SeedParts
<1>3. \A w \in Words : w \in Seq(Nat) /\ w # <<>>
  BY KeyboardAssumption
<1>4. CASE UNCHANGED softVars
  BY <1>4 DEF softVars, SoftInv
<1>5. CASE \E w \in Words : InsertText(w)
  <2>1. PICK w \in Words : InsertText(w)
    BY <1>5
  <2>2. field = Seed /\ EditKeys(prev, field \o w) = w
    BY <1>1, <1>2, <1>3, <2>1, EditMore DEF InsertText
  <2>3. /\ text' = TypedAll(text, w) /\ typed' = typed \o w
        /\ foreign' = (foreign \/ Foreign(w))
    BY <2>1, <2>2 DEF InsertText, OnInput
  <2>4. ~foreign' => text' = typed'
    <3> SUFFICES ASSUME ~foreign' PROVE text' = typed'
      OBVIOUS
    <3>1. ~Foreign(w) /\ text = typed
      BY <1>1, <2>3
    <3> QED BY <1>1, <1>3, <2>3, <3>1, TypedCharacters
  <2>5. field' = Seed /\ prev' = Seed /\ composing' = <<>>
    BY <2>1 DEF InsertText, OnInput, KbdSeedField
  <2> QED BY <1>1, <1>2, <1>3, <2>3, <2>4, <2>5 DEF SoftInv
<1>6. CASE \E w \in Words : Compose(w)
  <2>1. PICK w \in Words : Compose(w)
    BY <1>6
  <2>2. SubSeq(field, 1, Len(field) - Len(composing)) = Seed
    <3>1. Len(field) - Len(composing) = Len(Seed)
      <4>1. Len(Seed \o composing) = Len(Seed) + Len(composing)
        BY <1>1, <1>2, Parts
      <4>2. Len(composing) \in Nat /\ Len(Seed) \in Nat
        BY <1>1, <1>2
      <4> QED BY <1>1, <4>1, <4>2
    <3> QED BY <1>1, <1>2, <3>1, Parts
  <2>3. field' = Seed \o w /\ composing' = w /\ UNCHANGED <<prev, typed, text, foreign>>
    BY <2>1, <2>2 DEF Compose
  <2> QED BY <1>1, <1>3, <2>3 DEF SoftInv
<1>7. CASE DeleteBack
  <2>1. field = Seed /\ composing = <<>>
    BY <1>1, <1>2, <1>7 DEF DeleteBack
  <2>2. EditKeys(prev, Front(field)) = <<BackSpace>>
    BY <1>1, <1>2, <2>1, EditLess
  <2>3. /\ text' = TypedAll(text, <<BackSpace>>) /\ typed' = Typed(typed, BackSpace)
        /\ foreign' = foreign
    BY <1>7, <2>2 DEF DeleteBack, OnInput
  <2>4. field' = Seed /\ prev' = Seed /\ composing' = <<>>
    BY <1>7, <2>1 DEF DeleteBack, OnInput, KbdSeedField
  <2> QED BY <1>1, <1>2, <2>3, <2>4, TypedBack DEF SoftInv
<1>8. CASE \E follow \in BOOLEAN : OnCompositionEnd(follow)
  <2>1. PICK follow \in BOOLEAN : OnCompositionEnd(follow)
    BY <1>8
  <2> DEFINE whole == TypedAll(text, [i \in DOMAIN composing |-> CharKeysym(composing[i])])
  <2>2. [i \in DOMAIN composing |-> CharKeysym(composing[i])] = composing
    BY <1>1 DEF CharKeysym
  <2>3. text' = (IF follow THEN TypedAll(whole, EditKeys(Seed, Seed)) ELSE whole)
    BY <2>1 DEF OnCompositionEnd
  <2>4. typed' = typed \o composing /\ foreign' = (foreign \/ Foreign(composing))
    BY <2>1 DEF OnCompositionEnd
  <2>5. ~foreign' => text' = typed'
    <3> SUFFICES ASSUME ~foreign' PROVE text' = typed'
      OBVIOUS
    <3>1. ~Foreign(composing) /\ text = typed
      BY <1>1, <2>4
    <3>2. whole = typed \o composing /\ typed \o composing \in Seq(Nat)
      BY <1>1, <2>2, <3>1, TypedCharacters, ConcatProperties
    <3> HIDE DEF whole
    <3> QED BY <2>3, <2>4, <3>2, EditSame, TypedNone
  <2>6. field' = Seed /\ prev' = Seed /\ composing' = <<>>
    BY <2>1 DEF OnCompositionEnd, KbdSeedField
  <2>7. typed' \in Seq(Nat)
    BY <1>1, <2>4, ConcatProperties
  <2> QED BY <1>1, <1>2, <2>5, <2>6, <2>7 DEF SoftInv
<1>9. CASE SpecialKey
  BY <1>1, <1>9, TypedBack DEF SpecialKey, SoftInv
<1>10. CASE \/ \E p \in Keys, near \in BOOLEAN : \E key \in Names(p) : PressKey(p, key, near)
            \/ \E p \in Keys : \E key \in Names(p) : RepeatKey(p, key) \/ ReleaseKey(p, key)
            \/ \E key \in {"a", "Unidentified"} : VirtualKey(key)
            \/ AltGrTimeout \/ Blur \/ Focus \/ HandleLedEvent
            \/ \E l \in Locks \cap Keys : RemoteToggle(l)
  <2>1. UNCHANGED softVars
    BY <1>10 DEF PressKey, RepeatKey, ReleaseKey, VirtualKey, AltGrTimeout, Blur, Focus,
                 HandleLedEvent, RemoteToggle
  <2> QED BY <1>4, <2>1
<1>11. CASE UNCHANGED keyboardVars
  BY <1>4, <1>11 DEF keyboardVars
<1> QED BY <1>5, <1>6, <1>7, <1>8, <1>9, <1>10, <1>11 DEF KeyboardNext

\* Whatever the user enters, character by character, in words, as compositions or
\* in a mixture, the remote side gets it once and in order (app.js input and
\* compositionend), for any words, until one has a character beyond Latin-1.
THEOREM KeyboardTypedOnce == KeyboardSpec => []TypedOnce
<1>1. SoftInv => TypedOnce
  BY DEF SoftInv, TypedOnce
<1> QED BY <1>1, SoftInit, SoftStep, PTL DEF KeyboardSpec
\* p[k] is what the server has after k calls of q.
Callings(p, b, q, caps, num) ==
    /\ p = [k \in 0 .. Len(q) |-> p[k]]
    /\ p[0] = b
    /\ \A k \in 1 .. Len(q) : p[k] = HandleKeyEvent(p[k - 1], q[k], caps, num)

CallRule(p, b, q, m, caps, num) ==
    p = [k \in 0 .. m |-> IF k = 0 THEN b ELSE HandleKeyEvent(p[k - 1], q[k], caps, num)]

\* The server's states after the first n calls are a function.
LEMMA CallExists ==
  ASSUME NEW b, NEW q, NEW n \in Nat, NEW caps, NEW num
  PROVE  \E p : CallRule(p, b, q, n, caps, num)
<1> DEFINE S == {m \in Nat : \E p : CallRule(p, b, q, m, caps, num)}
<1>1. 0 \in S
  <2> DEFINE p == [k \in 0 .. 0 |-> b]
  <2>1. p = [k \in 0 .. 0 |-> IF k = 0 THEN b ELSE HandleKeyEvent(p[k - 1], q[k], caps, num)]
    OBVIOUS
  <2> HIDE DEF p
  <2>2. CallRule(p, b, q, 0, caps, num)
    BY <2>1 DEF CallRule
  <2> QED BY <2>2
<1>2. \A m \in Nat : m \in S => m + 1 \in S
  <2> SUFFICES ASSUME NEW m \in Nat, NEW p, CallRule(p, b, q, m, caps, num)
               PROVE  \E r : CallRule(r, b, q, m + 1, caps, num)
    OBVIOUS
  <2> DEFINE r == [k \in 0 .. m + 1 |-> IF k <= m THEN p[k] ELSE HandleKeyEvent(p[m], q[k], caps, num)]
             s == [k \in 0 .. m + 1 |-> IF k = 0 THEN b ELSE HandleKeyEvent(r[k - 1], q[k], caps, num)]
  <2>1. ASSUME NEW k \in 0 .. m + 1 PROVE r[k] = s[k]
    <3>1. CASE k = 0
      BY <3>1 DEF CallRule
    <3>2. CASE k \in 1 .. m
      <4>1. r[k] = p[k] /\ r[k - 1] = p[k - 1] /\ k - 1 \in 0 .. m
        BY <3>2
      <4>2. p[k] = HandleKeyEvent(p[k - 1], q[k], caps, num)
        BY <3>2 DEF CallRule
      <4> QED BY <3>2, <4>1, <4>2
    <3>3. CASE k = m + 1
      BY <3>3
    <3> QED BY <3>1, <3>2, <3>3
  <2>2. r = s
    BY <2>1
  <2> HIDE DEF r
  <2>3. CallRule(r, b, q, m + 1, caps, num)
    BY <2>2 DEF CallRule
  <2> QED BY <2>3
<1>3. n \in S
  <2> HIDE DEF S
  <2> QED BY <1>1, <1>2, Induction
<1> QED BY <1>3

\* HandleCalls goes through the calls one at a time.
LEMMA CalledBy ==
  ASSUME NEW b, NEW S, NEW q \in Seq(S), NEW caps, NEW num
  PROVE  \E p : Callings(p, b, q, caps, num) /\ HandleCalls(q, b, caps, num) = p[Len(q)]
<1> DEFINE p == CHOOSE p : CallRule(p, b, q, Len(q), caps, num)
<1>1. CallRule(p, b, q, Len(q), caps, num)
  <2>1. Len(q) \in Nat
    OBVIOUS
  <2>2. \E x : CallRule(x, b, q, Len(q), caps, num)
    BY <2>1, CallExists
  <2> QED BY <2>2
<1>2. HandleCalls(q, b, caps, num) = p[Len(q)]
  BY DEF HandleCalls, CallRule
<1> HIDE DEF p
<1>3. Callings(p, b, q, caps, num)
  BY <1>1 DEF CallRule, Callings
<1> QED BY <1>2, <1>3

\* Any function that goes through them one at a time ends where HandleCalls does.
LEMMA CalledIs ==
  ASSUME NEW b, NEW S, NEW q \in Seq(S), NEW r, NEW caps, NEW num, Callings(r, b, q, caps, num)
  PROVE  HandleCalls(q, b, caps, num) = r[Len(q)]
<1>1. PICK p : Callings(p, b, q, caps, num) /\ HandleCalls(q, b, caps, num) = p[Len(q)]
  BY CalledBy
<1> DEFINE K == {k \in Nat : k <= Len(q) => p[k] = r[k]}
<1>2. 0 \in K
  BY <1>1 DEF Callings
<1>3. \A k \in Nat : k \in K => k + 1 \in K
  <2> SUFFICES ASSUME NEW k \in Nat, k + 1 <= Len(q), p[k] = r[k]
               PROVE  p[k + 1] = r[k + 1]
    OBVIOUS
  <2>1. k + 1 \in 1 .. Len(q) /\ (k + 1) - 1 = k
    OBVIOUS
  <2>2. p[k + 1] = HandleKeyEvent(p[k], q[k + 1], caps, num) /\ r[k + 1] = HandleKeyEvent(r[k], q[k + 1], caps, num)
    BY <1>1, <2>1 DEF Callings
  <2> QED BY <2>2
<1>4. Len(q) \in K
  <2> HIDE DEF K
  <2> QED BY <1>2, <1>3, Induction
<1> QED BY <1>1, <1>4

\* No call leaves the server as it is.
LEMMA CalledNothing == ASSUME NEW b, NEW caps, NEW num PROVE HandleCalls(<<>>, b, caps, num) = b
<1>1. <<>> \in Seq({})
  OBVIOUS
<1>2. PICK p : Callings(p, b, <<>>, caps, num) /\ HandleCalls(<<>>, b, caps, num) = p[Len(<<>>)]
  BY <1>1, CalledBy
<1> QED BY <1>2 DEF Callings

\* One more call is handled after the others.
LEMMA CalledAppend ==
  ASSUME NEW b, NEW S, NEW q \in Seq(S), NEW a \in S, NEW caps, NEW num
  PROVE  HandleCalls(Append(q, a), b, caps, num) = HandleKeyEvent(HandleCalls(q, b, caps, num), a, caps, num)
<1>1. PICK p : Callings(p, b, q, caps, num) /\ HandleCalls(q, b, caps, num) = p[Len(q)]
  BY CalledBy
<1> DEFINE n == Len(q)
           t == Append(q, a)
           r == [k \in 0 .. n + 1 |-> IF k <= n THEN p[k] ELSE HandleKeyEvent(p[n], a, caps, num)]
<1>2. t \in Seq(S) /\ Len(t) = n + 1 /\ t[n + 1] = a /\ \A k \in 1 .. n : t[k] = q[k]
  OBVIOUS
<1>3. n \in Nat
  OBVIOUS
<1> HIDE DEF t
<1>4. Callings(r, b, t, caps, num)
  <2>1. r = [k \in 0 .. Len(t) |-> r[k]] /\ r[0] = b
    BY <1>1, <1>2, <1>3 DEF Callings
  <2>2. ASSUME NEW k \in 1 .. Len(t) PROVE r[k] = HandleKeyEvent(r[k - 1], t[k], caps, num)
    <3>1. CASE k = n + 1
      <4>1. r[k] = HandleKeyEvent(p[n], a, caps, num) /\ r[k - 1] = p[n]
        BY <1>3, <3>1
      <4> QED BY <1>2, <3>1, <4>1
    <3>2. CASE k \in 1 .. n
      <4>1. r[k] = p[k] /\ r[k - 1] = p[k - 1] /\ t[k] = q[k]
        BY <1>2, <1>3, <3>2
      <4> QED BY <1>1, <3>2, <4>1 DEF Callings
    <3> QED BY <1>2, <1>3, <3>1, <3>2
  <2> QED BY <2>1, <2>2 DEF Callings
<1>5. r[n + 1] = HandleKeyEvent(p[n], a, caps, num)
  BY <1>3
<1> HIDE DEF r
<1>6. HandleCalls(t, b, caps, num) = r[Len(t)]
  BY <1>2, <1>4, CalledIs
<1> QED BY <1>1, <1>2, <1>5, <1>6 DEF t

\* p[k] is the keyboard after k releases.
Releases(p, b, q) ==
    /\ p = [k \in 0 .. Len(q) |-> p[k]]
    /\ p[0] = b
    /\ \A k \in 1 .. Len(q) : p[k] = ReleaseIfDown(p[k - 1], q[k])

ReleaseRule(p, b, q, m) ==
    p = [k \in 0 .. m |-> IF k = 0 THEN b ELSE ReleaseIfDown(p[k - 1], q[k])]

\* The keyboards after the first n releases are a function.
LEMMA ReleasesExist ==
  ASSUME NEW b, NEW q, NEW n \in Nat
  PROVE  \E p : ReleaseRule(p, b, q, n)
<1> DEFINE S == {m \in Nat : \E p : ReleaseRule(p, b, q, m)}
<1>1. 0 \in S
  <2> DEFINE p == [k \in 0 .. 0 |-> b]
  <2>1. p = [k \in 0 .. 0 |-> IF k = 0 THEN b ELSE ReleaseIfDown(p[k - 1], q[k])]
    OBVIOUS
  <2> HIDE DEF p
  <2>2. ReleaseRule(p, b, q, 0)
    BY <2>1 DEF ReleaseRule
  <2> QED BY <2>2
<1>2. \A m \in Nat : m \in S => m + 1 \in S
  <2> SUFFICES ASSUME NEW m \in Nat, NEW p, ReleaseRule(p, b, q, m)
               PROVE  \E r : ReleaseRule(r, b, q, m + 1)
    OBVIOUS
  <2> DEFINE r == [k \in 0 .. m + 1 |-> IF k <= m THEN p[k] ELSE ReleaseIfDown(p[m], q[k])]
             s == [k \in 0 .. m + 1 |-> IF k = 0 THEN b ELSE ReleaseIfDown(r[k - 1], q[k])]
  <2>1. ASSUME NEW k \in 0 .. m + 1 PROVE r[k] = s[k]
    <3>1. CASE k = 0
      BY <3>1 DEF ReleaseRule
    <3>2. CASE k \in 1 .. m
      <4>1. r[k] = p[k] /\ r[k - 1] = p[k - 1] /\ k - 1 \in 0 .. m
        BY <3>2
      <4>2. p[k] = ReleaseIfDown(p[k - 1], q[k])
        BY <3>2 DEF ReleaseRule
      <4> QED BY <3>2, <4>1, <4>2
    <3>3. CASE k = m + 1
      BY <3>3
    <3> QED BY <3>1, <3>2, <3>3
  <2>2. r = s
    BY <2>1
  <2> HIDE DEF r
  <2>3. ReleaseRule(r, b, q, m + 1)
    BY <2>2 DEF ReleaseRule
  <2> QED BY <2>3
<1>3. n \in S
  <2> HIDE DEF S
  <2> QED BY <1>1, <1>2, Induction
<1> QED BY <1>3

\* ReleaseAll goes through the codes one at a time.
LEMMA ReleasedBy ==
  ASSUME NEW b, NEW S, NEW q \in Seq(S)
  PROVE  \E p : Releases(p, b, q) /\ ReleaseAll(b, q) = p[Len(q)]
<1> DEFINE p == CHOOSE p : ReleaseRule(p, b, q, Len(q))
<1>1. ReleaseRule(p, b, q, Len(q))
  BY ReleasesExist
<1>2. ReleaseAll(b, q) = p[Len(q)]
  BY DEF ReleaseAll, ReleaseRule
<1> HIDE DEF p
<1>3. Releases(p, b, q)
  BY <1>1 DEF ReleaseRule, Releases
<1> QED BY <1>2, <1>3

-----------------------------------------------------------------------------
(* Keys, keysyms and what the server is told.                              *)

Codes == Physical \cup {"Platform65", "Platform242", "Unidentified"}

KeySyms ==
    {NoSym, <<"a", 0>>, <<"A", 0>>, <<"4", 3>>, <<"ArrowLeft", 3>>,
     <<"Zenkaku_Hankaku", 0>>, <<"Zenkaku", 0>>, <<"Hankaku", 0>>,
     <<"Shift", 1>>, <<"Shift", 2>>, LeftCtrl, <<"Alt", 1>>, <<"Alt", 2>>, Level3,
     <<"Mode_switch", 0>>, <<"Meta", 1>>, <<"Meta", 2>>, CapsSym, <<"NumLock", 0>>}

Calls == [sym : KeySyms, code : Codes, down : BOOLEAN]
KeyLists == UNION {[D -> KeySyms] : D \in SUBSET Codes}
Keyboards == [keys : KeyLists, armed : BOOLEAN, out : Seq(Calls)]

Lit == {"on", "off"}
Reports == {"on", "off", Unknown}
ServerSide ==
    [srv : SUBSET KeySyms, twice : BOOLEAN, remote : [Locks -> Lit],
     known : [Locks -> Reports], leds : Seq([Locks -> Lit])]

\* The server holds the keys of the list, lock keys perhaps not.
Mirrors(s, keys) ==
    /\ NoSym \notin s.srv /\ ~s.twice
    /\ \A y \in s.srv : \E c \in DOMAIN keys : keys[c] = y
    /\ \A c \in DOMAIN keys : keys[c] \notin LockSyms \cup {NoSym} => keys[c] \in s.srv

Unique(keys) ==
    \A c, d \in DOMAIN keys : keys[c] = keys[d] /\ keys[c] # NoSym => c = d

OSes == {"windows", "mac", "other", "android"}
Makes == {"modern", "mozilla", "legacy"}

\* What stays the same while a handler runs.
Contexts ==
    [os : OSes, browser : Makes, base : ServerSide, caps : Reports, num : Reports]

\* What the server has after the calls of a keyboard's handler.
Told(x, out) == HandleCalls(out, x.base, x.caps, x.num)

\* A keyboard in the middle of a handler, which has made the calls k.out.
Faithful(x, k) ==
    /\ k \in Keyboards
    /\ Unique(k.keys)
    /\ Told(x, k.out) \in ServerSide
    /\ Mirrors(Told(x, k.out), k.keys)

\* No other key of the list has the keysym.
Fresh(keys, code, sym) ==
    sym # NoSym => \A c \in DOMAIN keys \ {code} : keys[c] # sym

\* The keysyms of the lock keys.
LEMMA LockSymbols ==
  /\ LockSyms = {CapsSym, <<"NumLock", 0>>} /\ NoSym \notin LockSyms
  /\ \A y \in KeySyms : y[1] \in Locks <=> y \in LockSyms
  /\ \A l \in Locks : <<l, 0>> \in KeySyms /\ <<l, 0>> \in LockSyms /\ <<l, 0>>[1] = l
<1>1. LockSyms = {CapsSym, <<"NumLock", 0>>} /\ NoSym \notin LockSyms
  BY DEF LockSyms, Locks, CapsSym, NoSym
<1>2. \A y \in KeySyms : y[1] \in Locks <=> y \in LockSyms
  BY <1>1 DEF KeySyms, Locks, CapsSym, NoSym, LeftCtrl, Level3
<1>3. \A l \in Locks : <<l, 0>> \in KeySyms /\ <<l, 0>> \in LockSyms /\ <<l, 0>>[1] = l
  BY <1>1 DEF KeySyms, Locks, CapsSym
<1> QED BY <1>1, <1>2, <1>3

\* A key the server holds is pressed.
Again(held, sym, isDown) == sym # NoSym /\ isDown /\ sym \notin LockSyms /\ sym \in held

\* One key event changes one key of the server, and counts a second press.
LEMMA SendKeyIs ==
  ASSUME NEW s \in ServerSide, NEW sym \in KeySyms, NEW isDown \in BOOLEAN
  PROVE  /\ SendKey(s, sym, isDown) \in ServerSide
         /\ SendKey(s, sym, isDown).srv =
              IF sym = NoSym THEN s.srv
              ELSE IF isDown THEN s.srv \cup {sym} ELSE s.srv \ {sym}
         /\ ~s.twice => (SendKey(s, sym, isDown).twice => Again(s.srv, sym, isDown))
<1> DEFINE lock == sym[1] \in Locks /\ isDown
           r == IF lock THEN [s.remote EXCEPT ![sym[1]] = Toggled(@)] ELSE s.remote
           v == IF isDown THEN s.srv \cup {sym} ELSE s.srv \ {sym}
           t == s.twice \/ (isDown /\ ~lock /\ sym \in s.srv)
           q == IF lock THEN Append(s.leds, r) ELSE s.leds
<1>1. /\ s.srv \in SUBSET KeySyms /\ s.twice \in BOOLEAN /\ s.remote \in [Locks -> Lit]
      /\ s.known \in [Locks -> Reports] /\ s.leds \in Seq([Locks -> Lit])
  BY DEF ServerSide
<1>2. r \in [Locks -> Lit]
  BY <1>1 DEF Toggled, Lit
<1>3. v \in SUBSET KeySyms /\ t \in BOOLEAN /\ q \in Seq([Locks -> Lit])
  BY <1>1, <1>2
<1>4. lock <=> isDown /\ sym \in LockSyms
  BY LockSymbols
<1>5. SendKey(s, sym, isDown) = IF sym = NoSym THEN s
                                ELSE [s EXCEPT !.srv = v, !.twice = t, !.remote = r, !.leds = q]
  BY DEF SendKey
<1> HIDE DEF r, v, t, q
<1>6. CASE sym = NoSym
  BY <1>5, <1>6
<1>7. CASE sym # NoSym
  <2> DEFINE n == [s EXCEPT !.srv = v, !.twice = t, !.remote = r, !.leds = q]
  <2>1. n \in ServerSide /\ n.known = s.known /\ n.srv = v /\ n.twice = t
    BY <1>2, <1>3 DEF ServerSide
  <2>2. SendKey(s, sym, isDown) = n
    BY <1>5, <1>7
  <2> HIDE DEF n
  <2>3. ~s.twice => (t => Again(s.srv, sym, isDown))
    BY <1>4, <1>7 DEF t, Again
  <2> QED BY <1>7, <2>1, <2>2, <2>3 DEF v
<1> QED BY <1>6, <1>7

\* Bringing a lock into step leaves every other key as it is.
LEMMA SyncLockIs ==
  ASSUME NEW s \in ServerSide, NEW l \in Locks, NEW here \in Reports,
         NEW code \in Codes, NEW isDown \in BOOLEAN
  PROVE  /\ SyncLock(s, l, here, code, isDown) \in ServerSide
         /\ ~s.twice => ~SyncLock(s, l, here, code, isDown).twice
         /\ SyncLock(s, l, here, code, isDown).srv \subseteq s.srv
         /\ s.srv \ SyncLock(s, l, here, code, isDown).srv \subseteq LockSyms
<1> DEFINE a == IF code = l /\ isDown THEN [s EXCEPT !.known[l] = Unknown] ELSE s
           sym == <<l, 0>>
           b == SendKey(a, sym, TRUE)
           c == SendKey(b, sym, FALSE)
           d == [c EXCEPT !.known[l] = Unknown]
<1>1. \A x \in ServerSide : /\ [x EXCEPT !.known[l] = Unknown] \in ServerSide
                            /\ [x EXCEPT !.known[l] = Unknown].srv = x.srv
                            /\ [x EXCEPT !.known[l] = Unknown].twice = x.twice
  <2> SUFFICES ASSUME NEW x \in ServerSide
               PROVE  /\ [x EXCEPT !.known[l] = Unknown] \in ServerSide
                      /\ [x EXCEPT !.known[l] = Unknown].srv = x.srv
                      /\ [x EXCEPT !.known[l] = Unknown].twice = x.twice
    OBVIOUS
  <2>1. Unknown \in Reports /\ x.known \in [Locks -> Reports]
    BY DEF Reports, ServerSide
  <2>2. [x.known EXCEPT ![l] = Unknown] \in [Locks -> Reports]
    BY <2>1
  <2> QED BY <2>2 DEF ServerSide
<1>2. a \in ServerSide /\ a.srv = s.srv /\ a.twice = s.twice
  BY <1>1
<1>3. sym \in KeySyms /\ sym \in LockSyms /\ sym # NoSym
  BY LockSymbols
<1> HIDE DEF a, sym
<1> HIDE DEF c, d
<1>4. b \in ServerSide /\ b.srv = s.srv \cup {sym} /\ (~s.twice => ~b.twice)
  <2>1. ~Again(a.srv, sym, TRUE) /\ TRUE \in BOOLEAN
    BY <1>3 DEF Again
  <2>2. b \in ServerSide /\ b.srv = a.srv \cup {sym} /\ (~a.twice => ~b.twice)
    BY <1>2, <1>3, <2>1, SendKeyIs
  <2> QED BY <1>2, <2>2
<1> HIDE DEF b
<1>5. c \in ServerSide /\ c.srv = s.srv \ {sym} /\ (~s.twice => ~c.twice)
  BY <1>3, <1>4, SendKeyIs DEF Again, c
<1>6. d \in ServerSide /\ d.srv = s.srv \ {sym} /\ (~s.twice => ~d.twice)
  BY <1>1, <1>5 DEF d
<1>7. SyncLock(s, l, here, code, isDown) \in {a, d}
  BY DEF SyncLock, a, b, c, d, sym
<1> QED BY <1>2, <1>3, <1>6, <1>7

\* A call first brings the locks into step, then changes one key.
LEMMA HandleKeyEventIs ==
  ASSUME NEW s \in ServerSide, NEW call \in Calls, NEW caps \in Reports, NEW num \in Reports
  PROVE  /\ HandleKeyEvent(s, call, caps, num) \in ServerSide
         /\ \E r \in SUBSET s.srv :
              /\ s.srv \ r \subseteq LockSyms
              /\ HandleKeyEvent(s, call, caps, num).srv =
                   IF call.sym = NoSym THEN r
                   ELSE IF call.down THEN r \cup {call.sym} ELSE r \ {call.sym}
              /\ ~s.twice => (HandleKeyEvent(s, call, caps, num).twice
                                => Again(r, call.sym, call.down))
<1> DEFINE t == SyncLock(s, "CapsLock", caps, call.code, call.down)
           u == SyncLock(t, "NumLock", num, call.code, call.down)
<1>1. call.sym \in KeySyms /\ call.code \in Codes /\ call.down \in BOOLEAN
  BY DEF Calls
<1>2. "CapsLock" \in Locks /\ "NumLock" \in Locks
  BY DEF Locks
<1>3. /\ t \in ServerSide /\ (~s.twice => ~t.twice)
      /\ t.srv \subseteq s.srv /\ s.srv \ t.srv \subseteq LockSyms
  BY <1>1, <1>2, SyncLockIs
<1> HIDE DEF t
<1>4. /\ u \in ServerSide /\ (~t.twice => ~u.twice)
      /\ u.srv \subseteq t.srv /\ t.srv \ u.srv \subseteq LockSyms
  BY <1>1, <1>2, <1>3, SyncLockIs
<1>5. HandleKeyEvent(s, call, caps, num) = SendKey(u, call.sym, call.down)
  BY DEF HandleKeyEvent, t, u
<1> HIDE DEF u
<1>6. u.srv \in SUBSET s.srv /\ s.srv \ u.srv \subseteq LockSyms
  BY <1>3, <1>4
<1> DEFINE n == SendKey(u, call.sym, call.down)
<1>7. /\ n \in ServerSide
      /\ n.srv = IF call.sym = NoSym THEN u.srv
                 ELSE IF call.down THEN u.srv \cup {call.sym} ELSE u.srv \ {call.sym}
      /\ ~s.twice => (n.twice => Again(u.srv, call.sym, call.down))
  <2>1. /\ n \in ServerSide
        /\ n.srv = IF call.sym = NoSym THEN u.srv
                   ELSE IF call.down THEN u.srv \cup {call.sym} ELSE u.srv \ {call.sym}
        /\ ~u.twice => (n.twice => Again(u.srv, call.sym, call.down))
    <3> DEFINE y == call.sym
               z == call.down
               x == SendKey(u, y, z)
    <3>1. y \in KeySyms /\ z \in BOOLEAN /\ u \in ServerSide
      BY <1>1, <1>4
    <3> HIDE DEF y, z
    <3>2. /\ x \in ServerSide
          /\ x.srv = IF y = NoSym THEN u.srv ELSE IF z THEN u.srv \cup {y} ELSE u.srv \ {y}
          /\ ~u.twice => (x.twice => Again(u.srv, y, z))
      <4>1. CASE z = TRUE
        <5>1. /\ SendKey(u, y, TRUE) \in ServerSide
              /\ SendKey(u, y, TRUE).srv = IF y = NoSym THEN u.srv ELSE u.srv \cup {y}
              /\ ~u.twice => (SendKey(u, y, TRUE).twice => Again(u.srv, y, TRUE))
          BY <3>1, SendKeyIs
        <5> QED BY <4>1, <5>1
      <4>2. CASE z = FALSE
        <5>1. /\ SendKey(u, y, FALSE) \in ServerSide
              /\ SendKey(u, y, FALSE).srv = IF y = NoSym THEN u.srv ELSE u.srv \ {y}
              /\ ~u.twice => (SendKey(u, y, FALSE).twice => Again(u.srv, y, FALSE))
          BY <3>1, SendKeyIs
        <5> QED BY <4>2, <5>1
      <4> QED BY <3>1, <4>1, <4>2
    <3> QED BY <3>2 DEF y, z
  <2> QED BY <1>3, <1>4, <2>1
<1> HIDE DEF n
<1>8. n = HandleKeyEvent(s, call, caps, num)
  BY <1>5 DEF n
<1> QED BY <1>6, <1>7, <1>8

\* A list of keys gives each of its codes a keysym.
LEMMA ListParts ==
  ASSUME NEW keys \in KeyLists
  PROVE  /\ DOMAIN keys \in SUBSET Codes /\ keys = [c \in DOMAIN keys |-> keys[c]]
         /\ \A c \in DOMAIN keys : keys[c] \in KeySyms
BY DEF KeyLists

\* The list with one more key.
LEMMA AddedParts ==
  ASSUME NEW keys \in KeyLists, NEW code \in Codes, NEW sym \in KeySyms
  PROVE  /\ KeyAdded(keys, code, sym) \in KeyLists
         /\ DOMAIN KeyAdded(keys, code, sym) = DOMAIN keys \cup {code}
         /\ KeyAdded(keys, code, sym)[code] = sym
         /\ \A c \in DOMAIN keys : c # code => KeyAdded(keys, code, sym)[c] = keys[c]
<1> DEFINE n == KeyAdded(keys, code, sym)
           D == DOMAIN keys \cup {code}
<1>1. /\ DOMAIN keys \in SUBSET Codes /\ \A c \in DOMAIN keys : keys[c] \in KeySyms
  BY ListParts
<1>2. n = [c \in D |-> IF c = code THEN sym ELSE keys[c]]
  BY DEF KeyAdded
<1>3. D \in SUBSET Codes /\ n \in [D -> KeySyms]
  BY <1>1, <1>2
<1> QED BY <1>2, <1>3 DEF KeyLists

\* The list without a key.
LEMMA RemovedParts ==
  ASSUME NEW keys \in KeyLists, NEW code
  PROVE  /\ Restrict(keys, DOMAIN keys \ {code}) \in KeyLists
         /\ DOMAIN Restrict(keys, DOMAIN keys \ {code}) = DOMAIN keys \ {code}
         /\ \A c \in DOMAIN keys \ {code} : Restrict(keys, DOMAIN keys \ {code})[c] = keys[c]
<1> DEFINE D == DOMAIN keys \ {code}
<1>1. /\ DOMAIN keys \in SUBSET Codes /\ \A c \in DOMAIN keys : keys[c] \in KeySyms
  BY ListParts
<1>2. Restrict(keys, D) = [c \in D |-> keys[c]]
  BY DEF Restrict
<1>3. D \in SUBSET Codes /\ Restrict(keys, D) \in [D -> KeySyms]
  BY <1>1, <1>2
<1> QED BY <1>2, <1>3 DEF KeyLists

\* A press of a key that is on neither side leaves it on both.
LEMMA PressMirrored ==
  ASSUME NEW s \in ServerSide, NEW keys \in KeyLists, Mirrors(s, keys),
         NEW caps \in Reports, NEW num \in Reports,
         NEW code \in Codes, NEW sym \in KeySyms, code \notin DOMAIN keys,
         sym # NoSym => \A c \in DOMAIN keys : keys[c] # sym
  PROVE  LET n == HandleKeyEvent(s, Call(sym, code, TRUE), caps, num)
         IN  n \in ServerSide /\ Mirrors(n, KeyAdded(keys, code, sym))
<1> DEFINE n == HandleKeyEvent(s, Call(sym, code, TRUE), caps, num)
           m == KeyAdded(keys, code, sym)
<1> DEFINE c0 == Call(sym, code, TRUE)
<1>1. c0 \in Calls /\ c0.sym = sym /\ c0.down = TRUE
  BY DEF Calls, Call
<1>0. n = HandleKeyEvent(s, c0, caps, num)
  OBVIOUS
<1> HIDE DEF c0, n
<1>2. /\ n \in ServerSide
      /\ \E r \in SUBSET s.srv :
           /\ s.srv \ r \subseteq LockSyms
           /\ n.srv = IF sym = NoSym THEN r ELSE r \cup {sym}
           /\ ~s.twice => (n.twice => Again(r, sym, TRUE))
  BY <1>0, <1>1, HandleKeyEventIs DEF Again
<1>3. /\ DOMAIN m = DOMAIN keys \cup {code} /\ m[code] = sym
      /\ \A c \in DOMAIN keys : m[c] = keys[c]
  <2>1. /\ DOMAIN m = DOMAIN keys \cup {code} /\ m[code] = sym
        /\ \A c \in DOMAIN keys : c # code => m[c] = keys[c]
    BY AddedParts
  <2> HIDE DEF m
  <2> QED BY <2>1
<1> HIDE DEF m
<1>4. PICK r \in SUBSET s.srv :
           /\ s.srv \ r \subseteq LockSyms
           /\ n.srv = IF sym = NoSym THEN r ELSE r \cup {sym}
           /\ ~s.twice => (n.twice => Again(r, sym, TRUE))
  BY <1>2
<1>5. NoSym \notin n.srv /\ ~n.twice
  BY <1>4 DEF Mirrors, Again
<1>6. \A y \in n.srv : \E c \in DOMAIN m : m[c] = y
  BY <1>3, <1>4 DEF Mirrors
<1>7. \A c \in DOMAIN m : m[c] \notin LockSyms \cup {NoSym} => m[c] \in n.srv
  BY <1>3, <1>4 DEF Mirrors
<1> QED BY <1>2, <1>5, <1>6, <1>7 DEF n, m, Mirrors

\* A release of a key of the list takes it from both sides.
LEMMA ReleaseMirrored ==
  ASSUME NEW s \in ServerSide, NEW keys \in KeyLists, Mirrors(s, keys), Unique(keys),
         NEW caps \in Reports, NEW num \in Reports, NEW code \in DOMAIN keys
  PROVE  LET n == HandleKeyEvent(s, Call(keys[code], code, FALSE), caps, num)
         IN  n \in ServerSide /\ Mirrors(n, Restrict(keys, DOMAIN keys \ {code}))
<1> DEFINE sym == keys[code]
           n == HandleKeyEvent(s, Call(sym, code, FALSE), caps, num)
           m == Restrict(keys, DOMAIN keys \ {code})
           c0 == Call(sym, code, FALSE)
<1>1. c0 \in Calls /\ c0.sym = sym /\ c0.down = FALSE
  BY ListParts DEF Calls, Call
<1>0. n = HandleKeyEvent(s, c0, caps, num)
  OBVIOUS
<1>9. sym = keys[code]
  OBVIOUS
<1> HIDE DEF c0, n, sym
<1>2. /\ n \in ServerSide
      /\ \E r \in SUBSET s.srv :
           /\ s.srv \ r \subseteq LockSyms
           /\ n.srv = IF sym = NoSym THEN r ELSE r \ {sym}
           /\ ~s.twice => ~n.twice
  BY <1>0, <1>1, HandleKeyEventIs DEF Again
<1>3. /\ DOMAIN m = DOMAIN keys \ {code} /\ \A c \in DOMAIN m : m[c] = keys[c]
  BY RemovedParts
<1> HIDE DEF m
<1>4. PICK r \in SUBSET s.srv :
           /\ s.srv \ r \subseteq LockSyms
           /\ n.srv = IF sym = NoSym THEN r ELSE r \ {sym}
           /\ ~s.twice => ~n.twice
  BY <1>2
<1>5. NoSym \notin n.srv /\ ~n.twice
  BY <1>4 DEF Mirrors, Again
<1>6. \A y \in n.srv : \E c \in DOMAIN m : m[c] = y
  BY <1>3, <1>4, <1>9 DEF Mirrors
<1>7. \A c \in DOMAIN m : m[c] \notin LockSyms \cup {NoSym} => m[c] \in n.srv
  BY <1>3, <1>4, <1>9 DEF Mirrors, Unique
<1> QED BY <1>2, <1>5, <1>6, <1>7 DEF n, m, sym, Mirrors

\* What a keyboard is made of.
LEMMA KeyboardParts ==
  ASSUME NEW k \in Keyboards
  PROVE  /\ k.keys \in KeyLists /\ k.armed \in BOOLEAN /\ k.out \in Seq(Calls)
         /\ k = [keys |-> k.keys, armed |-> k.armed, out |-> k.out]
BY DEF Keyboards

\* What a call is made of.
LEMMA CallIs ==
  ASSUME NEW sym \in KeySyms, NEW code \in Codes, NEW isDown \in BOOLEAN
  PROVE  Call(sym, code, isDown) \in Calls
BY DEF Call, Calls

\* The keyboard n is k with a key more, or with one less.
With(k, n, code, sym) == n.keys = KeyAdded(k.keys, code, sym) /\ n.armed = k.armed
Without(k, n, code) ==
    n.keys = Restrict(k.keys, DOMAIN k.keys \ {code}) /\ n.armed = k.armed

\* Releasing a key of the list and telling the server.
LEMMA SendUp ==
  ASSUME NEW x \in Contexts, NEW k, Faithful(x, k),
         NEW code \in DOMAIN k.keys
  PROVE  /\ Faithful(x, SendKeyEvent(k, k.keys[code], code, FALSE))
         /\ Without(k, SendKeyEvent(k, k.keys[code], code, FALSE), code)
<1> DEFINE sym == k.keys[code]
           n == SendKeyEvent(k, sym, code, FALSE)
           m == Restrict(k.keys, DOMAIN k.keys \ {code})
           c0 == Call(sym, code, FALSE)
           s == HandleCalls(k.out, x.base, x.caps, x.num)
<1>0. x.caps \in Reports /\ x.num \in Reports
  BY DEF Contexts
<1>1. /\ k \in Keyboards /\ k.keys \in KeyLists /\ k.armed \in BOOLEAN /\ k.out \in Seq(Calls)
      /\ k = [keys |-> k.keys, armed |-> k.armed, out |-> k.out]
      /\ Unique(k.keys) /\ s \in ServerSide /\ Mirrors(s, k.keys)
  BY KeyboardParts DEF Faithful, Told
<1>2. sym \in KeySyms /\ code \in Codes
  BY <1>1, ListParts
<1>3. c0 \in Calls
  BY <1>2, CallIs
<1>4. m \in KeyLists /\ DOMAIN m = DOMAIN k.keys \ {code} /\ \A c \in DOMAIN m : m[c] = k.keys[c]
  BY <1>1, RemovedParts
<1>5. /\ HandleKeyEvent(s, c0, x.caps, x.num) \in ServerSide
      /\ Mirrors(HandleKeyEvent(s, c0, x.caps, x.num), m)
  <2> HIDE DEF s
  <2> QED BY <1>1, <1>0, ReleaseMirrored
<1>6. HandleCalls(Append(k.out, c0), x.base, x.caps, x.num) = HandleKeyEvent(s, c0, x.caps, x.num)
  <2> HIDE DEF c0
  <2> QED BY <1>1, <1>3, CalledAppend
<1> HIDE DEF s
<1>7. n = [k EXCEPT !.keys = m, !.out = k.out \o <<>> \o <<c0>>]
  BY DEF SendKeyEvent
<1> HIDE DEF m, c0
<1>8. k.out \o <<>> \o <<c0>> = Append(k.out, c0) /\ Append(k.out, c0) \in Seq(Calls)
  BY <1>1, <1>3
<1>9. n = [keys |-> m, armed |-> k.armed, out |-> Append(k.out, c0)]
  <2> HIDE DEF n
  <2> QED BY <1>1, <1>7, <1>8
<1>10. n \in Keyboards
  <2> HIDE DEF n
  <2> QED BY <1>1, <1>4, <1>8, <1>9 DEF Keyboards
<1>11. Unique(m)
  BY <1>1, <1>4 DEF Unique
<1>12. n.keys = m /\ n.armed = k.armed /\ n.out = Append(k.out, c0)
  <2> HIDE DEF n
  <2> QED BY <1>9
<1>13. Faithful(x, n)
  <2> HIDE DEF n
  <2> QED BY <1>5, <1>6, <1>10, <1>11, <1>12 DEF Faithful, Told
<1> QED BY <1>12, <1>13 DEF m, Without

\* Pressing a key and telling the server, first of its release if it is held.
LEMMA SendDown ==
  ASSUME NEW x \in Contexts, NEW k, Faithful(x, k),
         NEW code \in Codes, NEW sym \in KeySyms, Fresh(k.keys, code, sym)
  PROVE  /\ Faithful(x, SendKeyEvent(k, sym, code, TRUE))
         /\ With(k, SendKeyEvent(k, sym, code, TRUE), code, sym)
<1> DEFINE n == SendKeyEvent(k, sym, code, TRUE)
           l == Restrict(k.keys, DOMAIN k.keys \ {code})
           m == KeyAdded(k.keys, code, sym)
           c0 == Call(sym, code, TRUE)
           c1 == Call(k.keys[code], code, FALSE)
           s == HandleCalls(k.out, x.base, x.caps, x.num)
           again == IF code \in DOMAIN k.keys THEN <<c1>> ELSE <<>>
           out == k.out \o again \o <<c0>>
<1>0. x.caps \in Reports /\ x.num \in Reports
  BY DEF Contexts
<1>1. /\ k \in Keyboards /\ k.keys \in KeyLists /\ k.armed \in BOOLEAN /\ k.out \in Seq(Calls)
      /\ k = [keys |-> k.keys, armed |-> k.armed, out |-> k.out]
      /\ Unique(k.keys) /\ s \in ServerSide /\ Mirrors(s, k.keys)
  BY KeyboardParts DEF Faithful, Told
<1>2. c0 \in Calls
  BY CallIs
<1>3. /\ m \in KeyLists /\ DOMAIN m = DOMAIN k.keys \cup {code} /\ m[code] = sym
      /\ \A c \in DOMAIN k.keys : c # code => m[c] = k.keys[c]
  <2> DEFINE keys == k.keys
  <2>1. keys \in KeyLists
    BY <1>1
  <2> HIDE DEF keys
  <2>2. /\ KeyAdded(keys, code, sym) \in KeyLists
        /\ DOMAIN KeyAdded(keys, code, sym) = DOMAIN keys \cup {code}
        /\ KeyAdded(keys, code, sym)[code] = sym
        /\ \A c \in DOMAIN keys : c # code => KeyAdded(keys, code, sym)[c] = keys[c]
    BY <2>1, AddedParts
  <2> QED BY <2>2 DEF keys
<1>4. n = [k EXCEPT !.keys = m, !.out = out]
  BY DEF SendKeyEvent
<1>5. /\ out \in Seq(Calls)
      /\ HandleCalls(out, x.base, x.caps, x.num) \in ServerSide /\ Mirrors(HandleCalls(out, x.base, x.caps, x.num), m)
  <2>1. CASE code \notin DOMAIN k.keys
    <3>1. out = Append(k.out, c0) /\ Append(k.out, c0) \in Seq(Calls)
      <4> HIDE DEF c0
      <4> QED BY <1>1, <1>2, <2>1
    <3>2. HandleCalls(Append(k.out, c0), x.base, x.caps, x.num) = HandleKeyEvent(s, c0, x.caps, x.num)
      <4> HIDE DEF c0
      <4> QED BY <1>1, <1>2, CalledAppend
    <3>3. /\ HandleKeyEvent(s, c0, x.caps, x.num) \in ServerSide
          /\ Mirrors(HandleKeyEvent(s, c0, x.caps, x.num), m)
      <4>1. sym # NoSym => \A c \in DOMAIN k.keys : k.keys[c] # sym
        BY <2>1 DEF Fresh
      <4> HIDE DEF s
      <4> QED BY <1>1, <2>1, <4>1, <1>0, PressMirrored
    <3> HIDE DEF out, s, c0, m
    <3> QED BY <3>1, <3>2, <3>3
  <2>2. CASE code \in DOMAIN k.keys
    <3> DEFINE t == HandleKeyEvent(s, c1, x.caps, x.num)
    <3>1. c1 \in Calls
      BY <1>1, <2>2, ListParts, CallIs
    <3>2. /\ out = Append(Append(k.out, c1), c0) /\ Append(k.out, c1) \in Seq(Calls)
          /\ Append(Append(k.out, c1), c0) \in Seq(Calls)
      <4> HIDE DEF c0, c1
      <4> QED BY <1>1, <1>2, <2>2, <3>1
    <3>3. HandleCalls(Append(k.out, c1), x.base, x.caps, x.num) = t
      <4> HIDE DEF c1
      <4> QED BY <1>1, <3>1, CalledAppend
    <3>4. HandleCalls(Append(Append(k.out, c1), c0), x.base, x.caps, x.num) = HandleKeyEvent(t, c0, x.caps, x.num)
      <4> DEFINE q == Append(k.out, c1)
      <4>1. q \in Seq(Calls) /\ HandleCalls(q, x.base, x.caps, x.num) = t
        BY <3>2, <3>3
      <4> HIDE DEF c0, q, t
      <4>2. HandleCalls(Append(q, c0), x.base, x.caps, x.num) = HandleKeyEvent(HandleCalls(q, x.base, x.caps, x.num), c0, x.caps, x.num)
        BY <1>2, <4>1, CalledAppend
      <4> QED BY <4>1, <4>2 DEF q
    <3>5. t \in ServerSide /\ Mirrors(t, l)
      <4> HIDE DEF s
      <4> QED BY <1>1, <2>2, <1>0, ReleaseMirrored
    <3>6. l \in KeyLists /\ DOMAIN l = DOMAIN k.keys \ {code} /\ \A c \in DOMAIN l : l[c] = k.keys[c]
      BY <1>1, RemovedParts
    <3>7. KeyAdded(l, code, sym) = m
      <4> HIDE DEF l
      <4> QED BY <3>6 DEF KeyAdded
    <3>8. sym # NoSym => \A c \in DOMAIN l : l[c] # sym
      <4> HIDE DEF l
      <4> QED BY <3>6 DEF Fresh
    <3>9. /\ HandleKeyEvent(t, c0, x.caps, x.num) \in ServerSide
          /\ Mirrors(HandleKeyEvent(t, c0, x.caps, x.num), KeyAdded(l, code, sym))
      <4> HIDE DEF t, l
      <4> QED BY <3>5, <3>6, <3>8, <1>0, PressMirrored
    <3> HIDE DEF out, c0, c1, m, l, t
    <3> QED BY <3>2, <3>4, <3>7, <3>9
  <2> QED BY <2>1, <2>2
<1> HIDE DEF m, out, n
<1>6. n = [keys |-> m, armed |-> k.armed, out |-> out]
  BY <1>1, <1>4
<1>7. n \in Keyboards
  BY <1>1, <1>3, <1>5, <1>6 DEF Keyboards
<1>8. Unique(m)
  BY <1>1, <1>3 DEF Unique, Fresh
<1>9. n.keys = m /\ n.armed = k.armed /\ n.out = out
  BY <1>6
<1>10. Faithful(x, n)
  BY <1>5, <1>7, <1>8, <1>9 DEF Faithful, Told
<1> QED BY <1>9, <1>10 DEF m, n, With

-----------------------------------------------------------------------------
(* The keys of each system, their codes and what they mean.                *)

\* The code keyboard.js finds for a key.
CodeOf(b, p) ==
    IF b = "legacy" /\ p = "KeyA" THEN "Platform65"
    ELSE IF b = "legacy" /\ p = "Kana" THEN "Platform242" ELSE p

\* The keysyms it sends for one.
SymsOf(o, p) ==
    CASE p = "KeyA" -> {NoSym, <<"a", 0>>, <<"A", 0>>}
      [] p = "Numpad4" -> {<<"4", 3>>, <<"ArrowLeft", 3>>}
      [] p = "Kana" -> IF o = "windows" THEN {<<"Zenkaku_Hankaku", 0>>}
                       ELSE {<<"Zenkaku", 0>>, <<"Hankaku", 0>>}
      [] p = "ShiftLeft" -> {<<"Shift", 1>>}
      [] p = "ShiftRight" -> {<<"Shift", 2>>}
      [] p = "ControlLeft" -> {LeftCtrl}
      [] p = "AltLeft" -> IF o = "mac" THEN {<<"Mode_switch", 0>>} ELSE {<<"Alt", 1>>}
      [] p = "AltRight" -> IF o = "mac" THEN {Level3} ELSE {Level3, <<"Alt", 2>>}
      [] p = "MetaLeft" -> IF o = "mac" THEN {<<"Alt", 1>>} ELSE {<<"Meta", 1>>}
      [] p = "MetaRight" -> IF o = "mac" THEN {<<"Meta", 1>>} ELSE {<<"Meta", 2>>}
      [] p = "CapsLock" -> {CapsSym}
      [] OTHER -> {<<"NumLock", 0>>}

\* The one key of a system that sends a keysym.
Owner(o, y) ==
    CASE y[1] \in {"a", "A"} -> "KeyA"
      [] y[1] \in {"4", "ArrowLeft"} -> "Numpad4"
      [] y[1] \in {"Zenkaku_Hankaku", "Zenkaku", "Hankaku"} -> "Kana"
      [] y[1] = "Shift" -> IF y[2] = 1 THEN "ShiftLeft" ELSE "ShiftRight"
      [] y[1] = "Control" -> "ControlLeft"
      [] y[1] = "Mode_switch" -> "AltLeft"
      [] y[1] = "AltGraph" -> "AltRight"
      [] y[1] = "Alt" -> IF y[2] = 2 THEN "AltRight" ELSE IF o = "mac" THEN "MetaLeft" ELSE "AltLeft"
      [] y[1] = "Meta" -> IF y[2] = 2 \/ o = "mac" THEN "MetaRight" ELSE "MetaLeft"
      [] OTHER -> y[1]

Tabled(o, b, keys) ==
    \A c \in DOMAIN keys : \E p \in Physical : c = CodeOf(b, p) /\ keys[c] \in SymsOf(o, p)

\* A keysym comes from one key of the system.
LEMMA SymsOwned ==
  ASSUME NEW o \in OSes, NEW p \in Physical, NEW y \in SymsOf(o, p)
  PROVE  y \in KeySyms /\ (y # NoSym => Owner(o, y) = p)
<1>1. CASE y = NoSym
  BY <1>1 DEF KeySyms
<1>2. CASE y # NoSym
  <2>1. /\ p = "KeyA" => y \in {<<"a", 0>>, <<"A", 0>>}
        /\ p = "Numpad4" => y \in {<<"4", 3>>, <<"ArrowLeft", 3>>}
        /\ p = "Kana" => y \in {<<"Zenkaku_Hankaku", 0>>, <<"Zenkaku", 0>>, <<"Hankaku", 0>>}
        /\ p = "ShiftLeft" => y = <<"Shift", 1>>
        /\ p = "ShiftRight" => y = <<"Shift", 2>>
        /\ p = "ControlLeft" => y = <<"Control", 1>>
    BY <1>2 DEF SymsOf, LeftCtrl
  <2>2. /\ p = "AltLeft" => y = IF o = "mac" THEN <<"Mode_switch", 0>> ELSE <<"Alt", 1>>
        /\ p = "AltRight" => y = <<"AltGraph", 0>> \/ (o # "mac" /\ y = <<"Alt", 2>>)
        /\ p = "MetaLeft" => y = IF o = "mac" THEN <<"Alt", 1>> ELSE <<"Meta", 1>>
        /\ p = "MetaRight" => y = IF o = "mac" THEN <<"Meta", 1>> ELSE <<"Meta", 2>>
        /\ p = "CapsLock" => y = <<"CapsLock", 0>>
        /\ p = "NumLock" => y = <<"NumLock", 0>>
    BY DEF SymsOf, Level3, CapsSym
  <2>3. y \in KeySyms
    BY <2>1, <2>2 DEF Physical, KeySyms, LeftCtrl, Level3, CapsSym
  <2>4. CASE p \in {"KeyA", "Numpad4", "Kana"}
    <3>1. y[1] \in IF p = "KeyA" THEN {"a", "A"} ELSE IF p = "Numpad4" THEN {"4", "ArrowLeft"}
                   ELSE {"Zenkaku_Hankaku", "Zenkaku", "Hankaku"}
      BY <2>1, <2>4
    <3> QED BY <2>3, <2>4, <3>1 DEF Owner
  <2>5. CASE p \in {"ShiftLeft", "ShiftRight", "ControlLeft"}
    <3>1. /\ y[1] = IF p = "ControlLeft" THEN "Control" ELSE "Shift"
          /\ y[2] = IF p = "ShiftRight" THEN 2 ELSE 1
      BY <2>1, <2>5
    <3> QED BY <2>3, <2>5, <3>1 DEF Owner
  <2>6. CASE p \in {"AltLeft", "AltRight"}
    <3>1. \/ p = "AltLeft" /\ o = "mac" /\ y[1] = "Mode_switch"
          \/ p = "AltLeft" /\ o # "mac" /\ y[1] = "Alt" /\ y[2] = 1
          \/ p = "AltRight" /\ y[1] = "AltGraph"
          \/ p = "AltRight" /\ y[1] = "Alt" /\ y[2] = 2
      BY <2>2, <2>6
    <3> QED BY <2>3, <3>1 DEF Owner
  <2>7. CASE p \in {"MetaLeft", "MetaRight"}
    <3>1. \/ p = "MetaLeft" /\ o = "mac" /\ y[1] = "Alt" /\ y[2] = 1
          \/ p = "MetaLeft" /\ o # "mac" /\ y[1] = "Meta" /\ y[2] = 1
          \/ p = "MetaRight" /\ o = "mac" /\ y[1] = "Meta" /\ y[2] = 1
          \/ p = "MetaRight" /\ o # "mac" /\ y[1] = "Meta" /\ y[2] = 2
      BY <2>2, <2>7
    <3> QED BY <2>3, <3>1 DEF Owner
  <2>8. CASE p \in {"CapsLock", "NumLock"}
    <3>1. y[1] = p
      BY <2>2, <2>8
    <3> QED BY <2>3, <2>8, <3>1 DEF Owner
  <2> QED BY <2>4, <2>5, <2>6, <2>7, <2>8 DEF Physical
<1> QED BY <1>1, <1>2

\* Different keys have different codes.
LEMMA CodesDiffer ==
  ASSUME NEW b \in Makes, NEW p \in Physical, NEW q \in Physical
  PROVE  /\ CodeOf(b, p) \in Codes \ {"Unidentified"}
         /\ CodeOf(b, p) = CodeOf(b, q) => p = q
         /\ CodeOf(b, p) \in Physical => CodeOf(b, p) = p
         /\ p \notin {"KeyA", "Kana"} => CodeOf(b, p) = p
<1>1. CodeOf(b, p) \in Codes \ {"Unidentified"}
  BY DEF CodeOf, Codes, Physical
<1>2. CodeOf(b, p) = CodeOf(b, q) => p = q
  BY DEF CodeOf, Physical
<1>3. CodeOf(b, p) \in Physical => CodeOf(b, p) = p
  BY DEF CodeOf, Physical
<1>4. p \notin {"KeyA", "Kana"} => CodeOf(b, p) = p
  BY DEF CodeOf
<1> QED BY <1>1, <1>2, <1>3, <1>4

\* The list says of each key what it means, and the server has been told.
Proper(x, k) == Faithful(x, k) /\ Tabled(x.os, x.browser, k.keys)

\* The keys of a list are those of another, and the Ctrl waits as before.
SameBut(k, n, D) == DOMAIN n.keys = D /\ n.armed = k.armed

\* The list with some of its keys.
LEMMA RestrictedTo ==
  ASSUME NEW keys, NEW S
  PROVE  DOMAIN Restrict(keys, S) = S /\ \A c \in S : Restrict(keys, S)[c] = keys[c]
BY DEF Restrict

\* sendKeyEvent with a key that is down.
LEMMA DownProper ==
  ASSUME NEW x \in Contexts, NEW k, Proper(x, k),
         NEW p \in Physical, NEW sym \in SymsOf(x.os, p), NEW c, c = CodeOf(x.browser, p)
  PROVE  /\ Proper(x, SendKeyEvent(k, sym, c, TRUE))
         /\ With(k, SendKeyEvent(k, sym, c, TRUE), c, sym)
<1> DEFINE n == SendKeyEvent(k, sym, c, TRUE)
<1>1. x.os \in OSes /\ x.browser \in Makes
  BY DEF Contexts
<1>2. c \in Codes /\ sym \in KeySyms
  BY <1>1, CodesDiffer, SymsOwned
<1>3. Faithful(x, k) /\ Tabled(x.os, x.browser, k.keys)
  BY DEF Proper
<1>4. Fresh(k.keys, c, sym)
  <2> SUFFICES ASSUME sym # NoSym, NEW d \in DOMAIN k.keys, d # c, k.keys[d] = sym
               PROVE  FALSE
    BY DEF Fresh
  <2>1. PICK q \in Physical : d = CodeOf(x.browser, q) /\ sym \in SymsOf(x.os, q)
    BY <1>3 DEF Tabled
  <2>2. q = Owner(x.os, sym) /\ p = Owner(x.os, sym)
    BY <1>1, <2>1, SymsOwned
  <2> QED BY <2>1, <2>2
<1>5. Faithful(x, n) /\ With(k, n, c, sym)
  BY <1>2, <1>3, <1>4, SendDown
<1>6. Tabled(x.os, x.browser, KeyAdded(k.keys, c, sym))
  BY <1>3 DEF KeyAdded, Tabled
<1> QED BY <1>5, <1>6 DEF Proper, With

\* sendKeyEvent with a key of the list that is up.
LEMMA UpProper ==
  ASSUME NEW x \in Contexts, NEW k, Proper(x, k), NEW code \in DOMAIN k.keys
  PROVE  /\ Proper(x, SendKeyEvent(k, k.keys[code], code, FALSE))
         /\ SameBut(k, SendKeyEvent(k, k.keys[code], code, FALSE), DOMAIN k.keys \ {code})
<1> DEFINE n == SendKeyEvent(k, k.keys[code], code, FALSE)
           m == Restrict(k.keys, DOMAIN k.keys \ {code})
<1>1. Faithful(x, n) /\ Without(k, n, code)
  BY SendUp DEF Proper
<1>2. DOMAIN m = DOMAIN k.keys \ {code} /\ \A c \in DOMAIN m : m[c] = k.keys[c]
  BY RestrictedTo
<1>3. Tabled(x.os, x.browser, m)
  <2> HIDE DEF m
  <2> QED BY <1>2 DEF Proper, Tabled
<1>4. n.keys = m /\ n.armed = k.armed
  BY <1>1 DEF Without
<1> HIDE DEF m, n
<1>5. Proper(x, n) /\ SameBut(k, n, DOMAIN k.keys \ {code})
  BY <1>1, <1>2, <1>3, <1>4 DEF Proper, SameBut
<1> QED BY <1>5 DEF n

\* A release, whether the key is on the list or not.
LEMMA ReleaseProper ==
  ASSUME NEW x \in Contexts, NEW k, Proper(x, k), NEW code
  PROVE  /\ Proper(x, ReleaseIfDown(k, code))
         /\ SameBut(k, ReleaseIfDown(k, code), DOMAIN k.keys \ {code})
<1>1. CASE code \in DOMAIN k.keys
  <2>1. ReleaseIfDown(k, code) = SendKeyEvent(k, k.keys[code], code, FALSE)
    BY <1>1 DEF ReleaseIfDown
  <2> QED BY <1>1, <2>1, UpProper
<1>2. CASE code \notin DOMAIN k.keys
  <2>1. ReleaseIfDown(k, code) = k /\ DOMAIN k.keys \ {code} = DOMAIN k.keys
    BY <1>2 DEF ReleaseIfDown
  <2> QED BY <2>1 DEF SameBut
<1> QED BY <1>1, <1>2

\* A key that is pressed and released at once leaves the list.
LEMMA PressReleaseProper ==
  ASSUME NEW x \in Contexts, NEW k, Proper(x, k),
         NEW p \in Physical, NEW sym \in SymsOf(x.os, p), NEW c, c = CodeOf(x.browser, p)
  PROVE  /\ Proper(x, PressRelease(k, sym, c))
         /\ SameBut(k, PressRelease(k, sym, c), DOMAIN k.keys \ {c})
<1> DEFINE n == SendKeyEvent(k, sym, c, TRUE)
           m == SendKeyEvent(n, n.keys[c], c, FALSE)
<1>1. Proper(x, n) /\ With(k, n, c, sym)
  BY DownProper
<1>2. DOMAIN n.keys = DOMAIN k.keys \cup {c} /\ n.keys[c] = sym /\ n.armed = k.armed
  <2>1. n.keys = KeyAdded(k.keys, c, sym) /\ n.armed = k.armed
    BY <1>1 DEF With
  <2> HIDE DEF n
  <2> QED BY <2>1 DEF KeyAdded
<1>3. PressRelease(k, sym, c) = m
  BY <1>2 DEF PressRelease
<1> HIDE DEF n
<1>4. Proper(x, m) /\ SameBut(n, m, DOMAIN n.keys \ {c})
  BY <1>1, <1>2, UpProper
<1> HIDE DEF m
<1>5. SameBut(k, m, DOMAIN k.keys \ {c})
  BY <1>2, <1>4 DEF SameBut
<1> QED BY <1>3, <1>4, <1>5

-----------------------------------------------------------------------------
(* The handlers.  An event of key p carries p's code and one of its        *)
(* keysyms.                                                                *)

EventOf(o, b, p, e) ==
    /\ GetKeyCode(o, e) = CodeOf(b, p)
    /\ GetKeysym(o, e) \in KeySyms
    /\ (IF o = "mac" THEN MacSym(GetKeysym(o, e)) ELSE GetKeysym(o, e)) \in SymsOf(o, p)

\* What a handler leaves of the keyboard k, if the keys in extra may be added
\* to the list and those in gone may not stay.
Leaves(x, k, n, extra, gone) ==
    /\ Proper(x, n)
    /\ DOMAIN n.keys \subseteq (DOMAIN k.keys \cup extra) \ gone

\* The Ctrl held back goes down after all.
LEMMA CtrlProper ==
  ASSUME NEW x \in Contexts, NEW k, Proper(x, k)
  PROVE  Leaves(x, k, CtrlAfterAll(k), {"ControlLeft"}, {}) /\ CtrlAfterAll(k).armed = FALSE
<1> DEFINE a == [k EXCEPT !.armed = FALSE]
           n == SendKeyEvent(a, LeftCtrl, "ControlLeft", TRUE)
<1>1. Proper(x, a) /\ a.keys = k.keys /\ a.armed = FALSE
  <2>1. k \in Keyboards
    BY DEF Proper, Faithful
  <2>2. a \in Keyboards /\ a.keys = k.keys /\ a.armed = FALSE /\ a.out = k.out
    BY <2>1 DEF Keyboards
  <2> HIDE DEF a
  <2> QED BY <2>2 DEF Proper, Faithful
<1>2. /\ "ControlLeft" \in Physical /\ LeftCtrl \in SymsOf(x.os, "ControlLeft")
      /\ "ControlLeft" = CodeOf(x.browser, "ControlLeft")
  BY DEF Physical, SymsOf, CodeOf
<1> HIDE DEF a
<1>3. Proper(x, n) /\ With(a, n, "ControlLeft", LeftCtrl)
  BY <1>1, <1>2, DownProper
<1>4. n = CtrlAfterAll(k)
  BY DEF CtrlAfterAll, a
<1> HIDE DEF n
<1>5. n.keys = KeyAdded(k.keys, "ControlLeft", LeftCtrl) /\ n.armed = FALSE
  BY <1>1, <1>3 DEF With
<1>6. DOMAIN n.keys = DOMAIN k.keys \cup {"ControlLeft"}
  BY <1>5 DEF KeyAdded
<1> QED BY <1>3, <1>4, <1>5, <1>6 DEF Leaves

\* The keys a press may add to the list: its own, and the Ctrl held back.
DownExtra(k, c, e) ==
    {c} \cup (IF k.armed /\ ~(c = "AltRight" /\ e.near) THEN {"ControlLeft"} ELSE {})

\* The keys that are released at once.
AtOnce(o, p, e) ==
    \/ o = "mac" /\ e.meta /\ p \notin {"MetaLeft", "MetaRight"}
    \/ o = "mac" /\ p = "CapsLock"
    \/ o = "windows" /\ p = "Kana"

DownGone(o, b, p, e) == IF AtOnce(o, p, e) THEN {CodeOf(b, p)} ELSE {}

\* What _handleKeyDown leaves, for any key.
LEMMA DownLeaves ==
  ASSUME NEW x \in Contexts, NEW k, Proper(x, k), NEW p \in Physical, NEW e,
         e.meta \in BOOLEAN, EventOf(x.os, x.browser, p, e),
         k.armed => x.os = "windows"
  PROVE  /\ Leaves(x, k, HandleKeyDown(x.os, k, e), DownExtra(k, CodeOf(x.browser, p), e),
                   DownGone(x.os, x.browser, p, e))
         /\ HandleKeyDown(x.os, k, e).armed => x.os = "windows" /\ p = "ControlLeft"
<1> DEFINE o == x.os
           c == CodeOf(x.browser, p)
           altGr == k.armed /\ c = "AltRight" /\ e.near
           a == IF ~k.armed THEN k
                ELSE IF altGr THEN [k EXCEPT !.armed = FALSE] ELSE CtrlAfterAll(k)
           sym1 == IF altGr THEN Level3 ELSE GetKeysym(o, e)
           sym2 == IF o = "mac" THEN MacSym(sym1) ELSE sym1
           sym == IF c \in DOMAIN a.keys THEN a.keys[c] ELSE sym2
           extra == DownExtra(k, c, e)
           n == HandleKeyDown(o, k, e)
<1>1. /\ o \in OSes /\ x.browser \in Makes /\ GetKeyCode(o, e) = c
      /\ c \in Codes \ {"Unidentified"} /\ (c \in Physical => c = p)
  BY CodesDiffer DEF Contexts, EventOf
<1>2. Proper(x, a) /\ a.armed = FALSE /\ DOMAIN a.keys \subseteq DOMAIN k.keys \cup extra
  <2>1. k \in Keyboards
    BY DEF Proper, Faithful
  <2>2. CASE ~k.armed
    BY <2>1, <2>2, KeyboardParts
  <2>3. CASE k.armed /\ altGr
    <3> DEFINE m == [k EXCEPT !.armed = FALSE]
    <3>1. m \in Keyboards /\ m.keys = k.keys /\ m.armed = FALSE /\ m.out = k.out
      BY <2>1 DEF Keyboards
    <3>2. a = m
      BY <2>3
    <3> HIDE DEF m, a
    <3> QED BY <3>1, <3>2 DEF Proper, Faithful
  <2>4. CASE k.armed /\ ~altGr
    <3>1. a = CtrlAfterAll(k)
      BY <2>4
    <3>2. "ControlLeft" \in extra
      BY <2>4 DEF DownExtra
    <3> HIDE DEF a, extra, altGr
    <3> QED BY <3>1, <3>2, CtrlProper DEF Leaves
  <2> QED BY <2>2, <2>3, <2>4
<1>3. sym2 \in SymsOf(o, p)
  <2>1. CASE altGr
    <3>1. p = "AltRight" /\ sym1 = Level3 /\ o = "windows"
      BY <1>1, <2>1 DEF Physical
    <3> QED BY <3>1 DEF SymsOf
  <2>2. CASE ~altGr
    BY <2>2 DEF EventOf
  <2> QED BY <2>1, <2>2
<1>4. sym \in SymsOf(o, p)
  <2>1. CASE c \in DOMAIN a.keys
    <3> HIDE DEF a
    <3>1. PICK q \in Physical : c = CodeOf(x.browser, q) /\ a.keys[c] \in SymsOf(o, q)
      BY <1>2, <2>1 DEF Proper, Tabled
    <3>2. q = p
      BY <1>1, <3>1, CodesDiffer
    <3> QED BY <2>1, <3>1, <3>2
  <2>2. CASE c \notin DOMAIN a.keys
    BY <1>3, <2>2
  <2> QED BY <2>1, <2>2
<1>5. c \in extra
  BY DEF DownExtra
<1> DEFINE once == IF AtOnce(o, p, e) THEN {c} ELSE {}
           r == PressRelease(a, sym, c)
           caps == PressRelease(a, CapsSym, c)
           held == [a EXCEPT !.armed = TRUE]
           added == SendKeyEvent(a, sym, c, TRUE)
<1>6. Leaves(x, k, r, extra, {c}) /\ r.armed = FALSE
  <2>1. Proper(x, r) /\ SameBut(a, r, DOMAIN a.keys \ {c})
    <3> HIDE DEF a, sym
    <3> QED BY <1>2, <1>4, PressReleaseProper
  <2> HIDE DEF r, a, extra
  <2> QED BY <1>2, <2>1 DEF SameBut, Leaves
<1>7. p = "CapsLock" => Leaves(x, k, caps, extra, {c}) /\ caps.armed = FALSE
  <2> SUFFICES ASSUME p = "CapsLock" PROVE Leaves(x, k, caps, extra, {c}) /\ caps.armed = FALSE
    OBVIOUS
  <2>1. CapsSym \in SymsOf(o, p)
    BY DEF SymsOf
  <2>2. Proper(x, caps) /\ SameBut(a, caps, DOMAIN a.keys \ {c})
    <3> HIDE DEF a, sym
    <3> QED BY <1>2, <2>1, PressReleaseProper
  <2> HIDE DEF caps, a, extra
  <2> QED BY <1>2, <2>2 DEF SameBut, Leaves
<1>8. Leaves(x, k, held, extra, {})
  <2>1. a \in Keyboards
    <3> HIDE DEF a
    <3> QED BY <1>2 DEF Proper, Faithful
  <2>2. held \in Keyboards /\ held.keys = a.keys /\ held.out = a.out
    <3> HIDE DEF a
    <3> QED BY <2>1 DEF Keyboards
  <2> HIDE DEF held, a, extra
  <2> QED BY <1>2, <2>2 DEF Proper, Faithful, Leaves
<1>9. Leaves(x, k, added, extra, {}) /\ added.armed = FALSE
  <2>1. Proper(x, added) /\ With(a, added, c, sym)
    <3> HIDE DEF a, sym
    <3> QED BY <1>2, <1>4, DownProper
  <2> HIDE DEF added, a, extra, sym
  <2>2. DOMAIN added.keys = DOMAIN a.keys \cup {c} /\ added.armed = a.armed
    BY <2>1 DEF With, KeyAdded
  <2> QED BY <1>2, <1>5, <2>1, <2>2 DEF Leaves
<1>10. n = CASE c = "Unidentified" -> IF sym1 = NoSym THEN a ELSE PressRelease(a, sym1, c)
            [] c # "Unidentified" /\ o = "mac" /\ e.meta
                 /\ c \notin {"MetaLeft", "MetaRight"} -> r
            [] c = "CapsLock" /\ o = "mac" /\ ~e.meta -> caps
            [] sym = <<"Zenkaku_Hankaku", 0>> /\ o = "windows" -> r
            [] c = "ControlLeft" /\ o = "windows" /\ c \notin DOMAIN a.keys -> held
            [] OTHER -> added
  BY <1>1 DEF HandleKeyDown
<1> HIDE DEF n, a, sym, sym1, r, caps, held, added, o, c
<1>11. o = "windows" /\ p = "Kana" => sym = <<"Zenkaku_Hankaku", 0>>
  BY <1>4 DEF SymsOf
<1>12. /\ c = "CapsLock" => p = "CapsLock"
       /\ c = "ControlLeft" => p = "ControlLeft"
       /\ c \in {"MetaLeft", "MetaRight"} => p \in {"MetaLeft", "MetaRight"}
       /\ p = "CapsLock" => c = "CapsLock"
  BY <1>1 DEF Physical, CodeOf, c
<1>13. \/ n = r
       \/ n = caps /\ p = "CapsLock"
       \/ n = held /\ o = "windows" /\ p = "ControlLeft" /\ ~AtOnce(o, p, e)
       \/ n = added /\ ~AtOnce(o, p, e)
  <2>1. CASE AtOnce(o, p, e)
    BY <1>1, <1>10, <1>11, <1>12, <2>1 DEF AtOnce
  <2>2. CASE ~AtOnce(o, p, e)
    BY <1>1, <1>10, <1>12, <2>2
  <2> QED BY <2>1, <2>2
<1> HIDE DEF extra
<1>14. /\ Leaves(x, k, n, extra, once)
       /\ n.armed => o = "windows" /\ p = "ControlLeft"
  <2>1. CASE n = r
    BY <1>6, <2>1 DEF Leaves
  <2>2. CASE n = caps /\ p = "CapsLock"
    BY <1>7, <2>2 DEF Leaves
  <2>3. CASE n = held /\ o = "windows" /\ p = "ControlLeft" /\ ~AtOnce(o, p, e)
    BY <1>8, <2>3
  <2>4. CASE n = added /\ ~AtOnce(o, p, e)
    BY <1>9, <2>4
  <2> QED BY <1>13, <2>1, <2>2, <2>3, <2>4
<1> QED BY <1>14 DEF n, o, c, extra, DownGone

\* The keys a release takes off the list.
UpGone(o, p, c) ==
    {c} \cup (IF o = "windows" /\ p \in {"ShiftLeft", "ShiftRight"}
              THEN {"ShiftLeft", "ShiftRight"} ELSE {})

\* What _handleKeyUp leaves, for any key.
LEMMA UpLeaves ==
  ASSUME NEW x \in Contexts, NEW k, Proper(x, k), NEW p \in Physical, NEW e,
         GetKeyCode(x.os, e) = CodeOf(x.browser, p)
  PROVE  /\ Leaves(x, k, HandleKeyUp(x.os, k, e), IF k.armed THEN {"ControlLeft"} ELSE {},
                   UpGone(x.os, p, CodeOf(x.browser, p)))
         /\ HandleKeyUp(x.os, k, e).armed = FALSE
<1> DEFINE o == x.os
           c == CodeOf(x.browser, p)
           a == IF k.armed THEN CtrlAfterAll(k) ELSE k
           up == ReleaseIfDown(a, c)
           caps == PressRelease(a, CapsSym, c)
           rt == ReleaseIfDown(up, "ShiftRight")
           both == ReleaseIfDown(rt, "ShiftLeft")
           extra == IF k.armed THEN {"ControlLeft"} ELSE {}
           gone == UpGone(o, p, c)
           n == HandleKeyUp(o, k, e)
<1>1. /\ o \in OSes /\ x.browser \in Makes /\ GetKeyCode(o, e) = c
      /\ c \in Codes \ {"Unidentified"}
      /\ c = "CapsLock" => p = "CapsLock"
      /\ c \in {"ShiftLeft", "ShiftRight"} <=> p \in {"ShiftLeft", "ShiftRight"}
  BY CodesDiffer DEF Contexts, Physical, CodeOf
<1>2. Proper(x, a) /\ a.armed = FALSE /\ DOMAIN a.keys \subseteq DOMAIN k.keys \cup extra
  <2>1. CASE k.armed
    <3>1. a = CtrlAfterAll(k) /\ extra = {"ControlLeft"}
      BY <2>1
    <3> HIDE DEF a, extra
    <3> QED BY <3>1, CtrlProper DEF Leaves
  <2>2. CASE ~k.armed
    <3>1. k \in Keyboards
      BY DEF Proper, Faithful
    <3> QED BY <2>2, <3>1, KeyboardParts
  <2> QED BY <2>1, <2>2
<1>3. n = CASE o = "mac" /\ c = "CapsLock" -> caps
            [] o = "windows" /\ c \in {"ShiftLeft", "ShiftRight"} -> both
            [] OTHER -> up
  BY <1>1 DEF HandleKeyUp
<1> HIDE DEF a, c
<1>4. Proper(x, up) /\ SameBut(a, up, DOMAIN a.keys \ {c})
  BY <1>2, ReleaseProper
<1> HIDE DEF up
<1>5. Proper(x, rt) /\ SameBut(up, rt, DOMAIN up.keys \ {"ShiftRight"})
  BY <1>4, ReleaseProper
<1> HIDE DEF rt
<1>6. Proper(x, both) /\ SameBut(rt, both, DOMAIN rt.keys \ {"ShiftLeft"})
  BY <1>5, ReleaseProper
<1>7. p = "CapsLock" => Proper(x, caps) /\ SameBut(a, caps, DOMAIN a.keys \ {c})
  <2>1. p = "CapsLock" => CapsSym \in SymsOf(o, p)
    BY DEF SymsOf
  <2> QED BY <1>2, <2>1, PressReleaseProper DEF c
<1> HIDE DEF both, caps, n, extra
<1>8. CASE n = caps /\ p = "CapsLock"
  <2>1. gone = {c}
    BY <1>8 DEF UpGone
  <2>2. Leaves(x, k, n, extra, gone) /\ n.armed = FALSE
    BY <1>2, <1>7, <1>8, <2>1 DEF SameBut, Leaves
  <2> QED BY <2>2 DEF n, c, extra
<1>9. CASE n = both
  <2>1. gone \subseteq {c, "ShiftLeft", "ShiftRight"}
    BY DEF UpGone
  <2>2. /\ DOMAIN both.keys = DOMAIN a.keys \ {c, "ShiftLeft", "ShiftRight"}
        /\ both.armed = FALSE
    BY <1>2, <1>4, <1>5, <1>6 DEF SameBut
  <2>3. Leaves(x, k, n, extra, gone) /\ n.armed = FALSE
    BY <1>2, <1>6, <1>9, <2>1, <2>2 DEF Leaves
  <2> QED BY <2>3 DEF n, c, extra
<1>10. CASE n = up /\ ~(o = "windows" /\ c \in {"ShiftLeft", "ShiftRight"})
  <2>1. gone = {c}
    BY <1>1, <1>10 DEF UpGone
  <2>2. Leaves(x, k, n, extra, gone) /\ n.armed = FALSE
    BY <1>2, <1>4, <1>10, <2>1 DEF SameBut, Leaves
  <2> QED BY <2>2 DEF n, c, extra
<1>11. \/ n = caps /\ p = "CapsLock"
       \/ n = both
       \/ n = up /\ ~(o = "windows" /\ c \in {"ShiftLeft", "ShiftRight"})
  BY <1>1, <1>3
<1> QED BY <1>8, <1>9, <1>10, <1>11

\* A key without a code, on a keyboard with nothing down, leaves no trace.
LEMMA BareLeaves ==
  ASSUME NEW x \in Contexts, NEW k, Proper(x, k), DOMAIN k.keys = {},
         NEW sym \in KeySyms, NEW c \in Codes
  PROVE  /\ Proper(x, PressRelease(k, sym, c))
         /\ SameBut(k, PressRelease(k, sym, c), {})
<1> DEFINE n == SendKeyEvent(k, sym, c, TRUE)
           m == SendKeyEvent(n, n.keys[c], c, FALSE)
<1>1. Fresh(k.keys, c, sym) /\ Faithful(x, k)
  BY DEF Fresh, Proper
<1>2. Faithful(x, n) /\ With(k, n, c, sym)
  BY <1>1, SendDown
<1>3. DOMAIN n.keys = {c} /\ n.keys[c] = sym /\ n.armed = k.armed
  <2> HIDE DEF n
  <2> QED BY <1>2 DEF With, KeyAdded
<1>4. PressRelease(k, sym, c) = m
  BY <1>3 DEF PressRelease
<1> HIDE DEF n
<1>5. Faithful(x, m) /\ Without(n, m, c)
  BY <1>2, <1>3, SendUp
<1> HIDE DEF m
<1>6. m.keys = Restrict(n.keys, {}) /\ m.armed = k.armed
  BY <1>3, <1>5 DEF Without
<1>7. DOMAIN m.keys = {}
  BY <1>6, RestrictedTo
<1> QED BY <1>4, <1>5, <1>6, <1>7 DEF Proper, Tabled, SameBut

\* There is a finite number of codes, so the keys of a list can be counted.
LEMMA CodesFinite == IsFiniteSet(Codes)
<1> DEFINE f == <<"KeyA", "Numpad4", "Kana", "ShiftLeft", "ShiftRight", "ControlLeft", "AltLeft",
                 "AltRight", "MetaLeft", "MetaRight", "CapsLock", "NumLock",
                 "Platform65", "Platform242", "Unidentified">>
<1>1. /\ f \in [1 .. 15 -> Codes]
      /\ f[1] = "KeyA" /\ f[2] = "Numpad4" /\ f[3] = "Kana" /\ f[4] = "ShiftLeft"
      /\ f[5] = "ShiftRight" /\ f[6] = "ControlLeft" /\ f[7] = "AltLeft" /\ f[8] = "AltRight"
      /\ f[9] = "MetaLeft" /\ f[10] = "MetaRight" /\ f[11] = "CapsLock" /\ f[12] = "NumLock"
      /\ f[13] = "Platform65" /\ f[14] = "Platform242" /\ f[15] = "Unidentified"
  BY DEF Codes, Physical
<1> HIDE DEF f
<1>2. \A c \in Codes : \E i \in 1 .. 15 : f[i] = c
  BY <1>1 DEF Codes, Physical
<1>3. f \in Surjection(1 .. 15, Codes)
  BY <1>1, <1>2 DEF Surjection
<1>4. IsFiniteSet(1 .. 15)
  <2>1. 1 \in Int /\ 15 \in Int
    OBVIOUS
  <2> QED BY <2>1, FS_Interval
<1> QED BY <1>3, <1>4, FS_Surjection

\* Every key of a finite set is in its sequence.
LEMMA SetInSequence ==
  ASSUME NEW S, IsFiniteSet(S)
  PROVE  SetToSeq(S) \in Seq(S) /\ \A c \in S : \E i \in 1 .. Len(SetToSeq(S)) : SetToSeq(S)[i] = c
<1> DEFINE n == Cardinality(S)
           q == SetToSeq(S)
<1>1. n \in Nat /\ Bijection(1 .. n, S) # {}
  BY FS_CardinalityType DEF ExistsBijection
<1>2. \E f \in [1 .. n -> S] : IsInjective(f)
  BY <1>1 DEF Bijection, Injection
<1>3. q \in [1 .. n -> S] /\ IsInjective(q)
  BY <1>2 DEF SetToSeq
<1> HIDE DEF q
<1>4. q \in Injection(1 .. n, S)
  BY <1>3 DEF Injection
<1>5. Cardinality(1 .. n) = n
  BY <1>1, FS_Interval
<1> HIDE DEF n
<1>6. q \in Surjection(1 .. n, S)
  BY <1>4, <1>5, FS_Injection DEF n
<1>7. q \in Seq(S) /\ Len(q) = n
  BY <1>1, <1>3
<1>8. \A c \in S : \E i \in 1 .. Len(q) : q[i] = c
  BY <1>6, <1>7 DEF Surjection
<1> QED BY <1>7, <1>8 DEF q

\* _allKeysUp empties the list.
LEMMA AllUp ==
  ASSUME NEW x \in Contexts, NEW k, Proper(x, k)
  PROVE  Proper(x, AllKeysUp(k)) /\ SameBut(k, AllKeysUp(k), {})
<1> DEFINE q == SetToSeq(DOMAIN k.keys)
<1>1. IsFiniteSet(DOMAIN k.keys)
  <2>1. DOMAIN k.keys \in SUBSET Codes
    BY KeyboardParts, ListParts DEF Proper, Faithful
  <2> QED BY <2>1, CodesFinite, FS_Subset
<1>2. q \in Seq(DOMAIN k.keys) /\ \A c \in DOMAIN k.keys : \E i \in 1 .. Len(q) : q[i] = c
  BY <1>1, SetInSequence
<1> HIDE DEF q
<1>3. PICK p : Releases(p, k, q) /\ ReleaseAll(k, q) = p[Len(q)]
  BY <1>2, ReleasedBy
<1> DEFINE Up(i) == Proper(x, p[i]) /\ SameBut(k, p[i], DOMAIN k.keys \ {q[j] : j \in 1 .. i})
           T == {i \in Nat : i <= Len(q) => Up(i)}
<1>4. Up(0)
  <2>1. p[0] = k
    BY <1>3 DEF Releases
  <2> QED BY <2>1 DEF SameBut
<1>5. ASSUME NEW i \in Nat, i + 1 <= Len(q), Up(i) PROVE Up(i + 1)
  <2>1. i + 1 \in 1 .. Len(q) /\ (i + 1) - 1 = i
    BY <1>2, <1>5
  <2>2. p[i + 1] = ReleaseIfDown(p[i], q[i + 1])
    BY <1>3, <1>5, <2>1 DEF Releases
  <2>3. Proper(x, p[i + 1]) /\ SameBut(p[i], p[i + 1], DOMAIN p[i].keys \ {q[i + 1]})
    BY <1>5, <2>2, ReleaseProper
  <2>4. {q[j] : j \in 1 .. i + 1} = {q[j] : j \in 1 .. i} \cup {q[i + 1]}
    OBVIOUS
  <2> QED BY <1>5, <2>3, <2>4 DEF SameBut
<1> HIDE DEF Up
<1>6. Len(q) \in T
  <2>1. Len(q) \in Nat
    BY <1>2
  <2>2. 0 \in T /\ \A i \in Nat : i \in T => i + 1 \in T
    BY <1>4, <1>5, <2>1
  <2> HIDE DEF T
  <2> QED BY <2>1, <2>2, Induction
<1>7. Up(Len(q))
  BY <1>2, <1>6
<1> USE DEF Up
<1>8. DOMAIN k.keys \ {q[j] : j \in 1 .. Len(q)} = {}
  BY <1>2
<1>9. AllKeysUp(k) = p[Len(q)]
  BY <1>3 DEF AllKeysUp, q
<1> QED BY <1>7, <1>8, <1>9

-----------------------------------------------------------------------------
(* The browser's events.                                                   *)

\* The browser's event of a key carries its code and one of its keysyms.
LEMMA KeyEventIs ==
  ASSUME os \in OSes, browser \in Makes, NEW p \in Physical, NEW key \in Names(p),
         NEW near \in BOOLEAN, NEW held
  PROVE  /\ EventOf(os, browser, p, KeyEvent(p, key, near, held))
         /\ KeyEvent(p, key, near, held).near = near
         /\ KeyEvent(p, key, near, held).meta \in BOOLEAN
         /\ KeyEvent(p, key, near, held).meta <=> held \cap {"MetaLeft", "MetaRight"} # {}
<1> DEFINE e == KeyEvent(p, key, near, held)
           metas == held \cap {"MetaLeft", "MetaRight"} # {}
<1>1. /\ e.code = CASE browser = "legacy" -> ""
                    [] browser = "mozilla" /\ p = "MetaLeft" -> "OSLeft"
                    [] browser = "mozilla" /\ p = "MetaRight" -> "OSRight"
                    [] OTHER -> p
      /\ e.vk = CASE p = "ShiftRight" -> "ShiftLeft"
                  [] p = "AltRight" -> "AltLeft"
                  [] p = "MetaRight" /\ os = "mac" -> "ContextMenu"
                  [] p = "Numpad4" /\ key = "ArrowLeft" -> "ArrowLeft"
                  [] p \in {"KeyA", "Kana"} -> ""
                  [] OTHER -> p
      /\ e.plat = IF p = "KeyA" THEN "Platform65" ELSE IF p = "Kana" THEN "Platform242" ELSE ""
      /\ e.key = key
      /\ e.location = CASE p \in {"ShiftLeft", "AltLeft", "ControlLeft", "MetaLeft"} -> 1
                        [] p \in {"ShiftRight", "AltRight", "MetaRight"} -> 2
                        [] p = "Numpad4" -> 3
                        [] OTHER -> 0
  BY DEF KeyEvent
<1>2. e.near = near /\ e.meta = metas /\ metas \in BOOLEAN
  BY DEF KeyEvent
<1> HIDE DEF e, metas
<1>3. GetKeycode(os, e) \in {p, "Unidentified"} /\ GetKeyCode(os, e) = CodeOf(browser, p)
  <2>1. CASE browser # "legacy"
    <3>1. e.code = IF browser = "mozilla" /\ p = "MetaLeft" THEN "OSLeft"
                   ELSE IF browser = "mozilla" /\ p = "MetaRight" THEN "OSRight" ELSE p
      BY <1>1, <2>1
    <3>2. GetKeycode(os, e) = p
      BY <3>1 DEF GetKeycode, Physical
    <3> QED BY <2>1, <3>2 DEF GetKeyCode, CodeOf, Physical
  <2>2. CASE browser = "legacy" /\ p \in {"KeyA", "Kana"}
    <3>1. e.code = "" /\ e.vk = "" /\ e.plat = CodeOf(browser, p) /\ e.plat # ""
      BY <1>1, <2>2 DEF CodeOf
    <3>2. GetKeycode(os, e) = "Unidentified"
      BY <3>1 DEF GetKeycode
    <3> QED BY <3>1, <3>2 DEF GetKeyCode
  <2>3. CASE browser = "legacy" /\ p \in {"ShiftRight", "AltRight", "MetaRight", "Numpad4"}
    <3>1. e.code = ""
      BY <1>1, <2>3
    <3>2. GetKeycode(os, e) = p
      BY <1>1, <2>3, <3>1 DEF GetKeycode
    <3> QED BY <2>3, <3>2 DEF GetKeyCode, CodeOf
  <2>4. CASE browser = "legacy"
             /\ p \in {"ShiftLeft", "AltLeft", "ControlLeft", "MetaLeft", "CapsLock", "NumLock"}
    <3>1. /\ e.code = "" /\ e.vk = p /\ e.vk \notin {"", "ContextMenu", "ArrowLeft"}
          /\ e.location # 2 /\ p # "Unidentified"
      <4>1. e.code = ""
        BY <1>1, <2>4
      <4>2. e.vk = p
        BY <1>1, <2>4
      <4>3. e.location \in {0, 1}
        BY <1>1, <2>4
      <4>4. p \notin {"", "ContextMenu", "ArrowLeft", "Unidentified"}
        BY <2>4
      <4>5. e.location # 2
        BY <4>3
      <4> QED BY <4>1, <4>2, <4>4, <4>5
    <3>2. GetKeycode(os, e) = p
      BY <3>1 DEF GetKeycode
    <3> QED BY <2>4, <3>1, <3>2 DEF GetKeyCode, CodeOf
  <2> QED BY <2>1, <2>2, <2>3, <2>4 DEF Physical
<1> DEFINE y == GetKeysym(os, e)
           meant == IF os = "mac" THEN MacSym(y) ELSE y
<1>4. y \in KeySyms /\ meant \in SymsOf(os, p)
  <2>1. CASE p = "KeyA"
    <3>1. key \in {"a", "A", "Dead"}
      BY <2>1 DEF Names
    <3>2. y = IF key = "Dead" THEN NoSym ELSE <<key, 0>>
      BY <1>1, <3>1 DEF GetKeysym, GetKey, Kana, LeftRight, OnNumpad, Standard, Letters
    <3>3. y \in {NoSym, <<"a", 0>>, <<"A", 0>>}
      BY <3>1, <3>2
    <3>4. MacSym(y) = y
      BY <3>3 DEF MacSym, NoSym
    <3> QED BY <2>1, <3>3, <3>4 DEF SymsOf, KeySyms
  <2>2. CASE p = "Numpad4"
    <3>1. key \in {"4", "ArrowLeft"} /\ e.location = 3
      BY <1>1, <2>2 DEF Names
    <3>2. y = <<key, 3>>
      BY <1>1, <3>1 DEF GetKeysym, GetKey, Kana, LeftRight, OnNumpad, Standard, Letters
    <3>3. y \in {<<"4", 3>>, <<"ArrowLeft", 3>>}
      BY <3>1, <3>2
    <3>4. MacSym(y) = y
      BY <3>3 DEF MacSym
    <3> QED BY <2>2, <3>3, <3>4 DEF SymsOf, KeySyms
  <2>3. CASE p = "Kana"
    <3>1. key \in Kana
      BY <2>3 DEF Names
    <3>2. y = <<IF os = "windows" THEN "Zenkaku_Hankaku" ELSE key, 0>>
      <4>1. GetKey(e) = key /\ key # "Unidentified"
        BY <1>1, <3>1 DEF GetKey, Kana
      <4>2. key \notin LeftRight /\ key \notin OnNumpad /\ key \notin Standard \cup Letters
        BY <3>1 DEF Kana, LeftRight, OnNumpad, Standard, Letters
      <4> QED BY <3>1, <4>1, <4>2 DEF GetKeysym
    <3>3. y \in SymsOf(os, p) /\ y[1] \in {"Zenkaku_Hankaku", "Zenkaku", "Hankaku"}
      BY <2>3, <3>1, <3>2 DEF SymsOf, Kana
    <3>4. MacSym(y) = y
      BY <3>3 DEF MacSym
    <3> QED BY <3>3, <3>4, SymsOwned
  <2>4. CASE p \in {"ShiftLeft", "ShiftRight", "ControlLeft"}
    <3>1. key = (IF p = "ControlLeft" THEN "Control" ELSE "Shift")
          /\ e.location = (IF p = "ShiftRight" THEN 2 ELSE 1)
      BY <1>1, <2>4 DEF Names
    <3>2. y = <<key, e.location>>
      BY <1>1, <3>1 DEF GetKeysym, GetKey, Kana, LeftRight, OnNumpad, Standard, Letters
    <3>3. y \in SymsOf(os, p)
      BY <2>4, <3>1, <3>2 DEF SymsOf, LeftCtrl
    <3>4. y[1] \in {"Control", "Shift"}
      BY <3>1, <3>2
    <3>5. MacSym(y) = y
      BY <3>4 DEF MacSym
    <3> QED BY <3>3, <3>5, SymsOwned
  <2>5. CASE p \in {"AltLeft", "AltRight"}
    <3>1. (key = "AltGraph" /\ os = "windows" /\ p = "AltRight") \/ key = "Alt"
      BY <2>5 DEF Names
    <3>2. e.location = IF p = "AltRight" THEN 2 ELSE 1
      BY <1>1, <2>5
    <3>3. y = IF key = "AltGraph" THEN Level3 ELSE <<"Alt", e.location>>
      BY <1>1, <3>1, <3>2 DEF GetKeysym, GetKey, Kana, LeftRight, OnNumpad, Standard, Letters, Level3
    <3>4. os = "mac" => MacSym(y) = IF p = "AltRight" THEN Level3 ELSE <<"Mode_switch", 0>>
      BY <2>5, <3>1, <3>2, <3>3 DEF MacSym
    <3>5. meant \in SymsOf(os, p)
      <4> HIDE DEF y
      <4> QED BY <2>5, <3>1, <3>2, <3>3, <3>4 DEF SymsOf
    <3>6. y \in KeySyms
      <4> HIDE DEF y
      <4> QED BY <2>5, <3>2, <3>3 DEF KeySyms
    <3> QED BY <3>5, <3>6
  <2>6. CASE p \in {"MetaLeft", "MetaRight"}
    <3>1. key \in {"OS", "Meta"} /\ e.location = (IF p = "MetaRight" THEN 2 ELSE 1)
      BY <1>1, <2>6 DEF Names
    <3>2. GetKeycode(os, e) # "AltLeft"
      BY <1>3, <2>6
    <3>3. GetKey(e) = "Meta"
      BY <1>1, <3>1 DEF GetKey
    <3>4. y = <<"Meta", e.location>>
      BY <3>1, <3>2, <3>3 DEF GetKeysym, Kana, LeftRight, OnNumpad, Standard, Letters
    <3>5. os = "mac" => MacSym(y) = IF p = "MetaRight" THEN <<"Meta", 1>> ELSE <<"Alt", 1>>
      BY <2>6, <3>1, <3>4 DEF MacSym
    <3>6. meant \in SymsOf(os, p)
      <4> HIDE DEF y
      <4> QED BY <2>6, <3>1, <3>4, <3>5 DEF SymsOf
    <3>7. y \in KeySyms
      <4> HIDE DEF y
      <4> QED BY <2>6, <3>1, <3>4 DEF KeySyms
    <3> QED BY <3>6, <3>7
  <2>7. CASE p \in {"CapsLock", "NumLock"}
    <3>1. key = p
      BY <2>7 DEF Names
    <3>2. y = <<p, 0>>
      BY <1>1, <2>7, <3>1 DEF GetKeysym, GetKey, Kana, LeftRight, OnNumpad, Standard, Letters
    <3>3. y \in SymsOf(os, p)
      BY <2>7, <3>2 DEF SymsOf, CapsSym
    <3>4. y[1] \in {"CapsLock", "NumLock"}
      BY <2>7, <3>2
    <3>5. MacSym(y) = y
      BY <3>4 DEF MacSym
    <3> QED BY <3>3, <3>5, SymsOwned
  <2> QED BY <2>1, <2>2, <2>3, <2>4, <2>5, <2>6, <2>7 DEF Physical
<1>5. EventOf(os, browser, p, e)
  BY <1>3, <1>4 DEF EventOf
<1>6. e.meta \in BOOLEAN /\ (e.meta <=> metas)
  BY <1>2
<1> QED BY <1>2, <1>5, <1>6 DEF e, metas

-----------------------------------------------------------------------------
(* What holds between the events.                                          *)

Server == [srv |-> srv, twice |-> twice, remote |-> remote, known |-> known, leds |-> leds]

\* The list says of each key what it means, and the server mirrors it.
KeyInv ==
    /\ os \in OSes /\ browser \in Makes
    /\ kb \in Keyboards /\ kb.out = <<>>
    /\ Tabled(os, browser, kb.keys) /\ Unique(kb.keys)
    /\ Server \in ServerSide /\ Mirrors(Server, kb.keys)
    /\ pressed \in SUBSET Physical /\ local \in [Locks -> Lit]
    /\ kb.armed => os = "windows"

\* Without a blur in the 100 ms after a Ctrl on Windows, ...
Sure == BlurArmed => os # "windows"

Shifts == {"ShiftLeft", "ShiftRight"}

HeldKeys ==
    {CodeOf(browser, p) : p \in pressed \ muted}
        \cup (IF os = "windows" /\ pressed \cap Shifts # {} THEN Shifts ELSE {})

Mutable ==
    IF os = "mac" THEN pressed \cup {"CapsLock"}
    ELSE IF os = "windows" THEN pressed \cap {"Kana"} ELSE {}

\* ... the keys of the list are keys the user holds, or the other Shift.
HeldInv ==
    /\ muted \subseteq Mutable
    /\ Sure => /\ DOMAIN kb.keys \subseteq IF focused THEN HeldKeys ELSE {}
               /\ kb.armed => focused /\ "ControlLeft" \in pressed

Here(x) == x \in Contexts /\ x.os = os /\ x.browser = browser /\ x.base = Server

\* A handler made k of the keyboard.
Handled(k, extra, gone) ==
    /\ \A x : Here(x) => Leaves(x, kb, k, extra, gone)
    /\ k.armed => os = "windows"

\* The events of the keyboard leave all but the server's side alone.
LEMMA HereProper ==
  ASSUME KeyInv, NEW x, Here(x)
  PROVE  Proper(x, kb)
<1>1. Told(x, kb.out) = Server
  BY CalledNothing DEF Told, KeyInv, Here
<1> QED BY <1>1 DEF KeyInv, Here, Proper, Faithful

\* The handler's calls reach the server, and the two sides agree again.
LEMMA DeliverKeeps ==
  ASSUME KeyInv, NEW k, NEW reported, NEW now \in [Locks -> Lit],
         NEW extra, NEW gone, Handled(k, extra, gone), Deliver(k, reported, now),
         os' = os, browser' = browser,
         pressed' \in SUBSET Physical, local' \in [Locks -> Lit]
  PROVE  /\ KeyInv' /\ kb'.armed = k.armed
         /\ DOMAIN kb'.keys \subseteq (DOMAIN kb.keys \cup extra) \ gone
<1> DEFINE caps == IF reported THEN now["CapsLock"] ELSE Unknown
           num == IF reported /\ os # "mac" THEN now["NumLock"] ELSE Unknown
           x == [os |-> os, browser |-> browser, base |-> Server, caps |-> caps, num |-> num]
           s == Told(x, k.out)
<1>1. now["CapsLock"] \in Lit /\ now["NumLock"] \in Lit
  BY DEF Locks
<1>2. caps \in Reports /\ num \in Reports
  BY <1>1 DEF Lit, Reports
<1> HIDE DEF caps, num
<1>3. /\ x \in Contexts
      /\ x.os = os /\ x.browser = browser /\ x.base = Server /\ x.caps = caps /\ x.num = num
  BY <1>2 DEF Contexts, KeyInv
<1> HIDE DEF x
<1>4. Leaves(x, kb, k, extra, gone)
  BY <1>3 DEF Here, Handled
<1>5. s = HandleCalls(k.out, Server, caps, num)
  BY <1>3 DEF Told
<1>6. /\ kb' = [k EXCEPT !.out = <<>>]
      /\ srv' = s.srv /\ twice' = s.twice
      /\ remote' = s.remote /\ known' = s.known /\ leds' = s.leds
  BY <1>5 DEF Deliver, Server, caps, num
<1> HIDE DEF s
<1>7. k \in Keyboards /\ Unique(k.keys) /\ s \in ServerSide /\ Mirrors(s, k.keys)
      /\ Tabled(os, browser, k.keys) /\ DOMAIN k.keys \subseteq (DOMAIN kb.keys \cup extra) \ gone
  BY <1>3, <1>4 DEF Leaves, Proper, Faithful, s
<1>8. kb' \in Keyboards /\ kb'.out = <<>> /\ kb'.armed = k.armed /\ kb'.keys = k.keys
  <2>1. k.keys \in KeyLists /\ k.armed \in BOOLEAN /\ <<>> \in Seq(Calls)
    BY <1>7, KeyboardParts
  <2>2. kb' = [keys |-> k.keys, armed |-> k.armed, out |-> <<>>]
    BY <1>6, <1>7, KeyboardParts
  <2> QED BY <2>1, <2>2 DEF Keyboards
<1>9. Server' = s
  <2>1. s = [srv |-> s.srv, twice |-> s.twice, remote |-> s.remote, known |-> s.known, leds |-> s.leds]
    BY <1>7 DEF ServerSide
  <2>2. Server' = [srv |-> srv', twice |-> twice', remote |-> remote', known |-> known', leds |-> leds']
    BY DEF Server
  <2> QED BY <1>6, <2>1, <2>2
<1>10. Mirrors(Server', kb'.keys) /\ Server' \in ServerSide
  BY <1>7, <1>8, <1>9
<1> QED BY <1>7, <1>8, <1>10 DEF KeyInv, Handled

\* The soft keyboard and the environment leave the keys alone.
LEMMA SoftKeeps ==
  ASSUME KeyInv, HeldInv, UNCHANGED <<os, browser, keyVars, lockVars>>
  PROVE  KeyInv' /\ HeldInv'
<1>1. /\ os' = os /\ browser' = browser /\ pressed' = pressed /\ muted' = muted
      /\ focused' = focused /\ kb' = kb /\ srv' = srv /\ twice' = twice /\ local' = local
      /\ remote' = remote /\ known' = known /\ leds' = leds
  BY DEF keyVars, lockVars
<1>2. Server' = Server
  BY <1>1 DEF Server
<1> QED BY <1>1, <1>2 DEF KeyInv, HeldInv, Sure, HeldKeys, Mutable

\* So do reports of the locks.
LEMMA ReportsKeep ==
  ASSUME KeyInv, HeldInv,
         UNCHANGED <<os, browser, pressed, muted, focused, kb, srv, twice, local>>,
         remote' \in [Locks -> Lit], known' \in [Locks -> Reports], leds' \in Seq([Locks -> Lit])
  PROVE  KeyInv' /\ HeldInv'
<1>1. Server' = [srv |-> srv, twice |-> twice, remote |-> remote', known |-> known', leds |-> leds']
  BY DEF Server
<1>2. srv \in SUBSET KeySyms /\ twice \in BOOLEAN /\ Server.srv = srv /\ Server.twice = twice
  BY DEF KeyInv, Server, ServerSide
<1>3. Server' \in ServerSide /\ Server'.srv = Server.srv /\ Server'.twice = Server.twice
  BY <1>1, <1>2 DEF ServerSide
<1>4. Mirrors(Server', kb.keys)
  BY <1>3 DEF KeyInv, Mirrors
<1> QED BY <1>3, <1>4 DEF KeyInv, HeldInv, Sure, HeldKeys, Mutable

\* The types of the server's side.
LEMMA ServerParts ==
  ASSUME KeyInv
  PROVE  /\ remote \in [Locks -> Lit] /\ known \in [Locks -> Reports]
         /\ leds \in Seq([Locks -> Lit])
  BY DEF KeyInv, Server, ServerSide

\* Between events the handler has nothing to add and nothing to take away.
LEMMA CodesOfKeys ==
  ASSUME browser \in Makes
  PROVE  /\ CodeOf(browser, "ControlLeft") = "ControlLeft" /\ CodeOf(browser, "AltRight") = "AltRight"
         /\ \A p \in Shifts : CodeOf(browser, p) = p
         /\ \A p, q \in Physical : CodeOf(browser, p) = CodeOf(browser, q) => p = q
<1>1. \A p, q \in Physical : CodeOf(browser, p) = CodeOf(browser, q) => p = q
  BY CodesDiffer
<1> QED BY <1>1 DEF CodeOf, Shifts

\* There is a context to speak of.
LEMMA HereExists ==
  ASSUME KeyInv
  PROVE  \E x : Here(x)
<1> DEFINE x == [os |-> os, browser |-> browser, base |-> Server, caps |-> Unknown, num |-> Unknown]
<1>1. Here(x)
  BY DEF Here, Contexts, KeyInv, Reports
<1> QED BY <1>1

\* One event, as the keyboard handles it.
LEMMA DownHandled ==
  ASSUME KeyInv, NEW p \in Physical, NEW e, EventOf(os, browser, p, e), e.meta \in BOOLEAN
  PROVE  /\ Handled(HandleKeyDown(os, kb, e), DownExtra(kb, CodeOf(browser, p), e),
                    DownGone(os, browser, p, e))
         /\ HandleKeyDown(os, kb, e).armed => os = "windows" /\ p = "ControlLeft"
<1> DEFINE n == HandleKeyDown(os, kb, e)
           extra == DownExtra(kb, CodeOf(browser, p), e)
           gone == DownGone(os, browser, p, e)
<1>1. ASSUME NEW x, Here(x)
      PROVE  Leaves(x, kb, n, extra, gone) /\ (n.armed => os = "windows" /\ p = "ControlLeft")
  <2>1. Proper(x, kb) /\ x \in Contexts /\ x.os = os /\ x.browser = browser
    BY <1>1, HereProper DEF Here
  <2>2. EventOf(x.os, x.browser, p, e) /\ (kb.armed => x.os = "windows")
    BY <2>1 DEF KeyInv
  <2>3. /\ Leaves(x, kb, HandleKeyDown(x.os, kb, e), DownExtra(kb, CodeOf(x.browser, p), e),
                  DownGone(x.os, x.browser, p, e))
        /\ HandleKeyDown(x.os, kb, e).armed => x.os = "windows" /\ p = "ControlLeft"
    BY <2>1, <2>2, DownLeaves
  <2> QED BY <2>1, <2>3
<1>2. n.armed => os = "windows" /\ p = "ControlLeft"
  BY <1>1, HereExists
<1> QED BY <1>1, <1>2 DEF Handled

\* The same for an event that a key is up.
LEMMA UpHandled ==
  ASSUME KeyInv, NEW p \in Physical, NEW e, EventOf(os, browser, p, e)
  PROVE  /\ Handled(HandleKeyUp(os, kb, e), IF kb.armed THEN {"ControlLeft"} ELSE {},
                    UpGone(os, p, CodeOf(browser, p)))
         /\ HandleKeyUp(os, kb, e).armed = FALSE
<1> DEFINE n == HandleKeyUp(os, kb, e)
           extra == IF kb.armed THEN {"ControlLeft"} ELSE {}
           gone == UpGone(os, p, CodeOf(browser, p))
<1>1. ASSUME NEW x, Here(x)
      PROVE  Leaves(x, kb, n, extra, gone) /\ n.armed = FALSE
  <2>1. Proper(x, kb) /\ x \in Contexts /\ x.os = os /\ x.browser = browser
    BY <1>1, HereProper DEF Here
  <2>2. GetKeyCode(x.os, e) = CodeOf(x.browser, p)
    BY <2>1 DEF EventOf
  <2>3. /\ Leaves(x, kb, HandleKeyUp(x.os, kb, e), IF kb.armed THEN {"ControlLeft"} ELSE {},
                  UpGone(x.os, p, CodeOf(x.browser, p)))
        /\ HandleKeyUp(x.os, kb, e).armed = FALSE
    BY <2>1, <2>2, UpLeaves
  <2> QED BY <2>1, <2>3
<1>2. n.armed = FALSE
  BY <1>1, HereExists
<1> QED BY <1>1, <1>2 DEF Handled

\* A system's keys are among the physical ones.
LEMMA KeysPhysical ==
  ASSUME KeyboardAssumption, os \in Systems, NEW p \in Keys
  PROVE  p \in Physical
BY DEF KeyboardAssumption, Keys

\* An event the page does not see.
LEMMA IdleInv ==
  ASSUME KeyInv, Idle, os' = os, browser' = browser,
         pressed' \in SUBSET Physical, local' \in [Locks -> Lit]
  PROVE  KeyInv' /\ kb' = kb
<1>1. kb' = kb /\ Server' = Server
  BY DEF Idle, Server
<1> QED BY <1>1 DEF KeyInv

\* A Ctrl that waits is one the user holds.
LEMMA CtrlHeld ==
  ASSUME KeyInv, HeldInv, Sure, kb.armed
  PROVE  "ControlLeft" \in pressed \ muted /\ "ControlLeft" \in HeldKeys /\ focused
<1>1. os = "windows" /\ browser \in Makes /\ "ControlLeft" \in pressed /\ focused
  BY DEF KeyInv, HeldInv
<1>2. "ControlLeft" \in pressed \ muted
  BY <1>1 DEF HeldInv, Mutable
<1>3. CodeOf(browser, "ControlLeft") = "ControlLeft"
  BY DEF CodeOf
<1> QED BY <1>1, <1>2, <1>3 DEF HeldKeys

\* A key that repeats.
LEMMA RepeatKeeps ==
  ASSUME KeyInv, HeldInv, NEW p \in Physical, NEW key \in Names(p), RepeatKey(p, key)
  PROVE  KeyInv' /\ HeldInv'
<1> DEFINE e == KeyEvent(p, key, FALSE, pressed)
           c == CodeOf(browser, p)
           k == HandleKeyDown(os, kb, e)
           extra == DownExtra(kb, c, e)
           gone == DownGone(os, browser, p, e)
<1>1. /\ os \in OSes /\ browser \in Makes /\ pressed \in SUBSET Physical
      /\ local \in [Locks -> Lit]
  BY DEF KeyInv
<1>2. /\ p \in pressed /\ focused
      /\ os = "mac" => /\ p \notin {"MetaLeft", "MetaRight"}
                       /\ p \in muted => pressed \cap {"MetaLeft", "MetaRight"} # {}
      /\ os' = os /\ browser' = browser /\ pressed' = pressed /\ muted' = muted
      /\ focused' = focused /\ local' = local
  BY DEF RepeatKey
<1>9. Deliver(k, TRUE, local)
  BY DEF RepeatKey
<1>10. pressed' \in SUBSET Physical /\ local' \in [Locks -> Lit]
  BY <1>1, <1>2
<1>3. /\ EventOf(os, browser, p, e) /\ e.near = FALSE /\ e.meta \in BOOLEAN
      /\ e.meta <=> pressed \cap {"MetaLeft", "MetaRight"} # {}
  <2>1. FALSE \in BOOLEAN
    OBVIOUS
  <2> HIDE DEF e, c, k, extra, gone
  <2>2. /\ EventOf(os, browser, p, KeyEvent(p, key, FALSE, pressed))
        /\ KeyEvent(p, key, FALSE, pressed).near = FALSE
        /\ KeyEvent(p, key, FALSE, pressed).meta \in BOOLEAN
        /\ KeyEvent(p, key, FALSE, pressed).meta <=> pressed \cap {"MetaLeft", "MetaRight"} # {}
    BY <1>1, <2>1, KeyEventIs
  <2> QED BY <2>2 DEF e
<1> HIDE DEF e
<1>4. Handled(k, extra, gone) /\ (k.armed => os = "windows" /\ p = "ControlLeft")
  BY <1>1, <1>3, DownHandled
<1> HIDE DEF k, extra, gone
<1>6. /\ KeyInv' /\ kb'.armed = k.armed
      /\ DOMAIN kb'.keys \subseteq (DOMAIN kb.keys \cup extra) \ gone
  <2>1. /\ Handled(k, extra, gone) /\ Deliver(k, TRUE, local) /\ local \in [Locks -> Lit]
        /\ os' = os /\ browser' = browser
        /\ pressed' \in SUBSET Physical /\ local' \in [Locks -> Lit]
    BY <1>1, <1>2, <1>4, <1>9, <1>10
  <2> QED BY <2>1, DeliverKeeps
<1>7. muted' \subseteq Mutable'
  BY <1>2 DEF HeldInv, Mutable
<1>8. ASSUME Sure' PROVE /\ DOMAIN kb'.keys \subseteq HeldKeys'
                         /\ kb'.armed => focused' /\ "ControlLeft" \in pressed'
  <2>1. Sure /\ HeldKeys' = HeldKeys
    BY <1>2, <1>8 DEF Sure, HeldKeys
  <2>2. DOMAIN kb.keys \subseteq HeldKeys /\ (kb.armed => "ControlLeft" \in pressed)
    BY <1>2, <2>1 DEF HeldInv
  <2>3. kb.armed => "ControlLeft" \in HeldKeys
    BY <2>1, CtrlHeld
  <2>4. p \in muted => AtOnce(os, p, e)
    BY <1>2, <1>3 DEF HeldInv, Mutable, AtOnce
  <2>5. c \in HeldKeys \/ c \in gone
    BY <1>2, <2>4 DEF HeldKeys, gone, DownGone
  <2>6. extra \subseteq {c} \cup IF kb.armed THEN {"ControlLeft"} ELSE {}
    BY DEF extra, DownExtra
  <2> QED BY <1>2, <1>4, <1>6, <2>1, <2>2, <2>3, <2>5, <2>6
<1> QED BY <1>2, <1>6, <1>7, <1>8 DEF HeldInv

\* Windows' own Ctrl is an event of the Ctrl on the left.
LEMMA FakeCtrlIs ==
  ASSUME KeyInv
  PROVE  EventOf(os, browser, "ControlLeft", FakeCtrl) /\ FakeCtrl.meta = FALSE /\ FakeCtrl.near = FALSE
<1>1. "ControlLeft" \in Physical /\ "Control" \in Names("ControlLeft") /\ FALSE \in BOOLEAN
  BY DEF Physical, Names
<1>2. EventOf(os, browser, "ControlLeft", KeyEvent("ControlLeft", "Control", FALSE, {}))
  BY <1>1, KeyEventIs DEF KeyInv
<1> QED BY <1>2 DEF FakeCtrl, KeyEvent

\* The Ctrl that an AltGr presses first only arms the keyboard.
LEMMA FakeCtrlWaits ==
  ASSUME KeyInv, os = "windows", ~kb.armed, "ControlLeft" \notin DOMAIN kb.keys
  PROVE  HandleKeyDown(os, kb, FakeCtrl) = [kb EXCEPT !.armed = TRUE]
<1> DEFINE y == GetKeysym(os, FakeCtrl)
<1>1. GetKeyCode(os, FakeCtrl) = "ControlLeft" /\ y \in SymsOf(os, "ControlLeft")
  BY FakeCtrlIs DEF EventOf, CodeOf
<1>2. y # <<"Zenkaku_Hankaku", 0>>
  BY <1>1 DEF SymsOf, LeftCtrl
<1> QED BY <1>1, <1>2 DEF HandleKeyDown

\* An AltGr of Windows goes down, its Ctrl first.
LEMMA AltGrDownHandled ==
  ASSUME KeyInv, os = "windows", NEW e, EventOf(os, browser, "AltRight", e),
         e.meta \in BOOLEAN, e.near = TRUE
  PROVE  LET k == HandleKeyDown(os, HandleKeyDown(os, kb, FakeCtrl), e)
         IN  /\ Handled(k, {"AltRight", "ControlLeft"}, {})
             /\ ~kb.armed /\ "ControlLeft" \notin DOMAIN kb.keys => Handled(k, {"AltRight"}, {})
             /\ k.armed = FALSE
<1> DEFINE m == HandleKeyDown(os, kb, FakeCtrl)
           k == HandleKeyDown(os, m, e)
<1>1. /\ "ControlLeft" \in Physical /\ "AltRight" \in Physical
      /\ CodeOf(browser, "ControlLeft") = "ControlLeft" /\ CodeOf(browser, "AltRight") = "AltRight"
  BY DEF Physical, CodeOf
<1>2. EventOf(os, browser, "ControlLeft", FakeCtrl) /\ FakeCtrl.meta \in BOOLEAN
  BY FakeCtrlIs
<1>3. /\ Handled(m, DownExtra(kb, CodeOf(browser, "ControlLeft"), FakeCtrl),
                 DownGone(os, browser, "ControlLeft", FakeCtrl))
      /\ m.armed => os = "windows" /\ "ControlLeft" = "ControlLeft"
  BY <1>1, <1>2, DownHandled
<1>4. DownExtra(kb, CodeOf(browser, "ControlLeft"), FakeCtrl) = {"ControlLeft"}
  BY <1>1 DEF DownExtra
<1>5. ~kb.armed /\ "ControlLeft" \notin DOMAIN kb.keys => DOMAIN m.keys = DOMAIN kb.keys
  <2> SUFFICES ASSUME ~kb.armed, "ControlLeft" \notin DOMAIN kb.keys
               PROVE  DOMAIN m.keys = DOMAIN kb.keys
    OBVIOUS
  <2>1. m = [kb EXCEPT !.armed = TRUE]
    BY FakeCtrlWaits
  <2> HIDE DEF m
  <2> QED BY <2>1 DEF KeyInv, Keyboards
<1>6. DownExtra(m, CodeOf(browser, "AltRight"), e) = {"AltRight"}
  BY <1>1 DEF DownExtra
<1> HIDE DEF m
<1>7. ASSUME NEW x, Here(x)
      PROVE  /\ Proper(x, k) /\ k.armed = FALSE
             /\ DOMAIN m.keys \subseteq DOMAIN kb.keys \cup {"ControlLeft"}
             /\ DOMAIN k.keys \subseteq DOMAIN m.keys \cup {"AltRight"}
  <2>1. Leaves(x, kb, m, {"ControlLeft"}, DownGone(os, browser, "ControlLeft", FakeCtrl))
    BY <1>3, <1>4, <1>7 DEF Handled
  <2>2. Proper(x, m) /\ DOMAIN m.keys \subseteq DOMAIN kb.keys \cup {"ControlLeft"}
    BY <2>1 DEF Leaves
  <2>3. x \in Contexts /\ x.os = os /\ x.browser = browser
    BY <1>7 DEF Here
  <2>4. EventOf(x.os, x.browser, "AltRight", e) /\ (m.armed => x.os = "windows")
    BY <2>3
  <2>5. /\ Leaves(x, m, HandleKeyDown(x.os, m, e), DownExtra(m, CodeOf(x.browser, "AltRight"), e),
                  DownGone(x.os, x.browser, "AltRight", e))
        /\ HandleKeyDown(x.os, m, e).armed => x.os = "windows" /\ "AltRight" = "ControlLeft"
    BY <1>1, <2>2, <2>3, <2>4, DownLeaves
  <2>6. /\ Leaves(x, m, k, {"AltRight"}, DownGone(x.os, x.browser, "AltRight", e))
        /\ ~k.armed
    BY <1>6, <2>3, <2>5
  <2> HIDE DEF k
  <2>7. Proper(x, k) /\ DOMAIN k.keys \subseteq DOMAIN m.keys \cup {"AltRight"}
    BY <2>6 DEF Leaves
  <2>8. k.armed \in BOOLEAN
    BY <2>7, KeyboardParts DEF Proper, Faithful
  <2> QED BY <2>2, <2>6, <2>7, <2>8
<1> HIDE DEF k
<1>8. k.armed = FALSE
  BY <1>7, HereExists
<1>9. Handled(k, {"AltRight", "ControlLeft"}, {})
  BY <1>7, <1>8 DEF Handled, Leaves
<1>10. ~kb.armed /\ "ControlLeft" \notin DOMAIN kb.keys => Handled(k, {"AltRight"}, {})
  BY <1>5, <1>7, <1>8 DEF Handled, Leaves
<1> QED BY <1>8, <1>9, <1>10 DEF k, m

\* An AltGr of Windows goes up, its Ctrl first.
LEMMA AltGrUpHandled ==
  ASSUME KeyInv, NEW e, EventOf(os, browser, "AltRight", e)
  PROVE  LET k == HandleKeyUp(os, HandleKeyUp(os, kb, FakeCtrl), e)
         IN  Handled(k, {}, {"AltRight"}) /\ k.armed = FALSE
<1> DEFINE m == HandleKeyUp(os, kb, FakeCtrl)
           k == HandleKeyUp(os, m, e)
<1>1. /\ "ControlLeft" \in Physical /\ "AltRight" \in Physical
      /\ CodeOf(browser, "ControlLeft") = "ControlLeft" /\ CodeOf(browser, "AltRight") = "AltRight"
  BY DEF Physical, CodeOf
<1>2. EventOf(os, browser, "ControlLeft", FakeCtrl)
  BY FakeCtrlIs
<1>3. /\ Handled(m, IF kb.armed THEN {"ControlLeft"} ELSE {}, UpGone(os, "ControlLeft", CodeOf(browser, "ControlLeft")))
      /\ m.armed = FALSE
  BY <1>1, <1>2, UpHandled
<1>4. /\ UpGone(os, "ControlLeft", CodeOf(browser, "ControlLeft")) = {"ControlLeft"}
      /\ UpGone(os, "AltRight", CodeOf(browser, "AltRight")) = {"AltRight"}
  BY <1>1 DEF UpGone
<1> HIDE DEF m
<1>5. ASSUME NEW x, Here(x)
      PROVE  Leaves(x, kb, k, {}, {"AltRight"}) /\ k.armed = FALSE
  <2>1. Leaves(x, kb, m, IF kb.armed THEN {"ControlLeft"} ELSE {}, {"ControlLeft"})
    BY <1>3, <1>4, <1>5 DEF Handled
  <2>2. Proper(x, m) /\ DOMAIN m.keys \subseteq DOMAIN kb.keys
    BY <2>1 DEF Leaves
  <2>3. x \in Contexts /\ x.os = os /\ x.browser = browser
    BY <1>5 DEF Here
  <2>4. GetKeyCode(x.os, e) = CodeOf(x.browser, "AltRight")
    BY <2>3 DEF EventOf
  <2>5. /\ Leaves(x, m, HandleKeyUp(x.os, m, e), IF m.armed THEN {"ControlLeft"} ELSE {},
                  UpGone(x.os, "AltRight", CodeOf(x.browser, "AltRight")))
        /\ HandleKeyUp(x.os, m, e).armed = FALSE
    BY <1>1, <2>2, <2>3, <2>4, UpLeaves
  <2>6. Leaves(x, m, k, {}, {"AltRight"}) /\ k.armed = FALSE
    BY <1>3, <1>4, <2>3, <2>5
  <2> HIDE DEF k
  <2> QED BY <2>2, <2>6 DEF Leaves
<1> HIDE DEF k
<1>6. k.armed = FALSE
  BY <1>5, HereExists
<1> QED BY <1>5, <1>6 DEF Handled, k, m

-----------------------------------------------------------------------------
(* A key goes down.                                                        *)

PressEvent(p, key, near) == KeyEvent(p, key, near \/ FakesCtrl(p), pressed \cup {p})

\* What becomes of the user's keys.
LEMMA PressedKeys ==
  ASSUME KeyInv, HeldInv, NEW p \in Physical, NEW key \in Names(p), NEW near \in BOOLEAN,
         PressKey(p, key, near), NEW e, e = PressEvent(p, key, near)
  PROVE  /\ EventOf(os, browser, p, e) /\ e.meta \in BOOLEAN
         /\ FakesCtrl(p) => e.near = TRUE
         /\ os' = os /\ browser' = browser /\ focused' = focused
         /\ pressed' \in SUBSET Physical /\ local' \in [Locks -> Lit]
         /\ pressed \subseteq pressed' /\ muted' \subseteq Mutable'
         /\ HeldKeys \subseteq HeldKeys'
         /\ ~AtOnce(os, p, e) => CodeOf(browser, p) \in HeldKeys'
<1>1. os \in OSes /\ browser \in Makes /\ pressed \in SUBSET Physical /\ local \in [Locks -> Lit]
  BY DEF KeyInv
<1>2. (near \/ FakesCtrl(p)) \in BOOLEAN
  OBVIOUS
<1>3. /\ EventOf(os, browser, p, e) /\ e.near = (near \/ FakesCtrl(p)) /\ e.meta \in BOOLEAN
      /\ e.meta <=> (pressed \cup {p}) \cap {"MetaLeft", "MetaRight"} # {}
  <2> DEFINE late == near \/ FakesCtrl(p)
             held == pressed \cup {p}
  <2>1. e = KeyEvent(p, key, late, held)
    BY DEF PressEvent
  <2>2. late \in BOOLEAN
    BY <1>2
  <2> HIDE DEF late, held
  <2>3. /\ EventOf(os, browser, p, KeyEvent(p, key, late, held))
        /\ KeyEvent(p, key, late, held).near = late
        /\ KeyEvent(p, key, late, held).meta \in BOOLEAN
        /\ KeyEvent(p, key, late, held).meta <=> held \cap {"MetaLeft", "MetaRight"} # {}
    BY <1>1, <2>2, KeyEventIs
  <2> QED BY <2>1, <2>3 DEF late, held
<1>4. FakesCtrl(p) => e.near = TRUE
  BY <1>3
<1>5. /\ p \notin pressed
      /\ pressed' = IF p = "CapsLock" /\ os = "mac" THEN pressed ELSE pressed \cup {p}
      /\ muted' = IF (os = "mac" /\ e.meta /\ p \notin {"MetaLeft", "MetaRight"})
                     \/ (os = "windows" /\ p = "Kana")
                  THEN muted \cup {p} ELSE muted
      /\ local' = IF p \in Locks THEN [local EXCEPT ![p] = Toggled(@)] ELSE local
      /\ os' = os /\ browser' = browser /\ focused' = focused
  BY DEF PressKey, PressEvent
<1>6. local' \in [Locks -> Lit]
  <2>1. \A v : Toggled(v) \in Lit
    BY DEF Toggled, Lit
  <2> QED BY <1>1, <1>5, <2>1
<1>7. pressed' \in SUBSET Physical /\ pressed \subseteq pressed'
  BY <1>1, <1>5
<1>8. muted \subseteq Mutable
  BY DEF HeldInv
<1>9. muted' \subseteq Mutable'
  BY <1>5, <1>7, <1>8 DEF Mutable
<1>10. pressed \ muted \subseteq pressed' \ muted'
  BY <1>5
<1>11. HeldKeys \subseteq HeldKeys'
  BY <1>5, <1>7, <1>10 DEF HeldKeys
<1>12. ~AtOnce(os, p, e) => p \in pressed' \ muted'
  BY <1>5, <1>8 DEF AtOnce, Mutable
<1>13. ~AtOnce(os, p, e) => CodeOf(browser, p) \in HeldKeys'
  BY <1>5, <1>12 DEF HeldKeys
<1> QED BY <1>3, <1>4, <1>5, <1>6, <1>7, <1>9, <1>11, <1>13

\* What the page makes of it.
LEMMA PressCases ==
  ASSUME NEW p, NEW key, NEW near, PressKey(p, key, near), NEW e, e = PressEvent(p, key, near)
  PROVE  \/ ~focused /\ Idle
         \/ focused /\ os = "mac" /\ p = "CapsLock" /\ Deliver(HandleKeyUp(os, kb, e), FALSE, local')
         \/ focused /\ ~FakesCtrl(p) /\ Deliver(HandleKeyDown(os, kb, e), TRUE, local')
         \/ focused /\ FakesCtrl(p)
              /\ Deliver(HandleKeyDown(os, HandleKeyDown(os, kb, FakeCtrl), e), TRUE, local')
<1> DEFINE k == IF FakesCtrl(p) THEN HandleKeyDown(os, kb, FakeCtrl) ELSE kb
           caps == os = "mac" /\ p = "CapsLock" /\ local'[p] = "off"
<1>1. IF ~focused THEN Idle
      ELSE IF caps THEN Deliver(HandleKeyUp(os, kb, e), FALSE, local')
      ELSE Deliver(HandleKeyDown(os, k, e), TRUE, local')
  BY DEF PressKey, PressEvent
<1>2. CASE ~focused
  BY <1>1, <1>2
<1>3. CASE focused /\ caps
  BY <1>1, <1>3
<1>4. CASE focused /\ ~caps
  <2>1. Deliver(HandleKeyDown(os, k, e), TRUE, local')
    BY <1>1, <1>4
  <2>2. CASE FakesCtrl(p)
    BY <1>4, <2>1, <2>2
  <2>3. CASE ~FakesCtrl(p)
    BY <1>4, <2>1, <2>3
  <2> QED BY <2>2, <2>3
<1> QED BY <1>2, <1>3, <1>4

\* The keyboard takes a key, and the list stays within the keys held.
LEMMA TakenHeld ==
  ASSUME KeyInv, HeldInv, focused, NEW k, NEW reported, NEW extra, NEW gone,
         Handled(k, extra, gone), Deliver(k, reported, local'),
         os' = os, browser' = browser, focused' = focused,
         pressed' \in SUBSET Physical, local' \in [Locks -> Lit],
         muted' \subseteq Mutable', Sure => HeldKeys \cup extra \subseteq HeldKeys' \cup gone,
         Sure /\ k.armed => "ControlLeft" \in pressed'
  PROVE  KeyInv' /\ HeldInv'
<1>1. /\ KeyInv' /\ kb'.armed = k.armed
      /\ DOMAIN kb'.keys \subseteq (DOMAIN kb.keys \cup extra) \ gone
  <2>1. /\ Handled(k, extra, gone) /\ Deliver(k, reported, local') /\ local' \in [Locks -> Lit]
        /\ os' = os /\ browser' = browser
        /\ pressed' \in SUBSET Physical
    OBVIOUS
  <2> QED BY <2>1, DeliverKeeps
<1>2. ASSUME Sure' PROVE /\ DOMAIN kb'.keys \subseteq HeldKeys'
                         /\ kb'.armed => "ControlLeft" \in pressed'
  <2>1. Sure
    BY <1>2 DEF Sure
  <2>2. DOMAIN kb.keys \subseteq HeldKeys
    BY <2>1 DEF HeldInv
  <2> QED BY <1>1, <2>1, <2>2
<1> QED BY <1>1, <1>2 DEF HeldInv

\* A press keeps the invariant, in each of the four cases.
LEMMA PressKeeps ==
  ASSUME KeyInv, HeldInv, NEW p \in Physical, NEW key \in Names(p), NEW near \in BOOLEAN,
         PressKey(p, key, near)
  PROVE  KeyInv' /\ HeldInv'
<1> DEFINE e == PressEvent(p, key, near)
           c == CodeOf(browser, p)
<1>1. /\ EventOf(os, browser, p, e) /\ e.meta \in BOOLEAN
      /\ FakesCtrl(p) => e.near = TRUE
      /\ os' = os /\ browser' = browser /\ focused' = focused
      /\ pressed' \in SUBSET Physical /\ local' \in [Locks -> Lit]
      /\ pressed \subseteq pressed' /\ muted' \subseteq Mutable'
      /\ HeldKeys \subseteq HeldKeys'
      /\ ~AtOnce(os, p, e) => c \in HeldKeys'
  BY PressedKeys
<1>2. \/ ~focused /\ Idle
      \/ focused /\ os = "mac" /\ p = "CapsLock" /\ Deliver(HandleKeyUp(os, kb, e), FALSE, local')
      \/ focused /\ ~FakesCtrl(p) /\ Deliver(HandleKeyDown(os, kb, e), TRUE, local')
      \/ focused /\ FakesCtrl(p)
           /\ Deliver(HandleKeyDown(os, HandleKeyDown(os, kb, FakeCtrl), e), TRUE, local')
  BY PressCases
<1>3. p \in pressed' \/ (os = "mac" /\ p = "CapsLock")
  BY DEF PressKey
<1> HIDE DEF e
<1>4. ASSUME Sure, kb.armed PROVE "ControlLeft" \in pressed /\ "ControlLeft" \in HeldKeys
  BY <1>4, CtrlHeld
<1>5. CASE ~focused /\ Idle
  <2>1. KeyInv' /\ kb' = kb
    BY <1>1, <1>5, IdleInv
  <2>2. Sure' => Sure
    BY <1>1 DEF Sure
  <2> QED BY <1>1, <1>5, <2>1, <2>2 DEF HeldInv
<1>6. CASE focused /\ os = "mac" /\ p = "CapsLock" /\ Deliver(HandleKeyUp(os, kb, e), FALSE, local')
  <2> DEFINE k == HandleKeyUp(os, kb, e)
             extra == IF kb.armed THEN {"ControlLeft"} ELSE {}
             gone == UpGone(os, p, c)
  <2>1. Handled(k, extra, gone) /\ k.armed = FALSE
    BY <1>1, UpHandled
  <2>2. Sure => HeldKeys \cup extra \subseteq HeldKeys' \cup gone
    BY <1>1, <1>4
  <2> HIDE DEF extra, gone, k
  <2>3. focused /\ Deliver(k, FALSE, local') /\ (Sure /\ k.armed => "ControlLeft" \in pressed')
    BY <1>6, <2>1 DEF k
  <2> QED BY <1>1, <2>1, <2>2, <2>3, TakenHeld
<1>7. CASE focused /\ ~FakesCtrl(p) /\ Deliver(HandleKeyDown(os, kb, e), TRUE, local')
  <2> DEFINE k == HandleKeyDown(os, kb, e)
             extra == DownExtra(kb, c, e)
             gone == DownGone(os, browser, p, e)
  <2>1. Handled(k, extra, gone) /\ (k.armed => os = "windows" /\ p = "ControlLeft")
    BY <1>1, DownHandled
  <2>2. extra \subseteq {c} \cup (IF kb.armed THEN {"ControlLeft"} ELSE {})
    BY DEF DownExtra
  <2>3. c \in HeldKeys' \/ c \in gone
    BY <1>1 DEF DownGone
  <2> HIDE DEF extra, gone, k
  <2>4. Sure => HeldKeys \cup extra \subseteq HeldKeys' \cup gone
    BY <1>1, <1>4, <2>2, <2>3
  <2>5. focused /\ Deliver(k, TRUE, local') /\ (Sure /\ k.armed => "ControlLeft" \in pressed')
    BY <1>3, <1>7, <2>1 DEF k
  <2> QED BY <1>1, <2>1, <2>4, <2>5, TakenHeld
<1>8. CASE focused /\ FakesCtrl(p)
           /\ Deliver(HandleKeyDown(os, HandleKeyDown(os, kb, FakeCtrl), e), TRUE, local')
  <2> DEFINE k == HandleKeyDown(os, HandleKeyDown(os, kb, FakeCtrl), e)
             extra == IF Sure THEN {"AltRight"} ELSE {"AltRight", "ControlLeft"}
  <2>1. os = "windows" /\ p = "AltRight" /\ "ControlLeft" \notin pressed
    BY <1>8 DEF FakesCtrl
  <2>2. EventOf(os, browser, "AltRight", e) /\ e.near = TRUE
    BY <1>1, <1>8, <2>1
  <2>3. /\ Handled(k, {"AltRight", "ControlLeft"}, {})
        /\ ~kb.armed /\ "ControlLeft" \notin DOMAIN kb.keys => Handled(k, {"AltRight"}, {})
        /\ k.armed = FALSE
    BY <1>1, <2>1, <2>2, AltGrDownHandled
  <2>4. ASSUME Sure PROVE ~kb.armed /\ "ControlLeft" \notin DOMAIN kb.keys
    <3>1. ~kb.armed
      BY <1>4, <2>1, <2>4
    <3>2. DOMAIN kb.keys \subseteq HeldKeys
      BY <1>8, <2>4 DEF HeldInv
    <3>3. \A q \in pressed : CodeOf(browser, q) # "ControlLeft"
      <4>1. browser \in Makes /\ pressed \in SUBSET Physical /\ "ControlLeft" \in Physical
        BY DEF KeyInv, Physical
      <4>2. /\ CodeOf(browser, "ControlLeft") = "ControlLeft"
            /\ \A q, r \in Physical : CodeOf(browser, q) = CodeOf(browser, r) => q = r
        BY <4>1, CodesOfKeys
      <4> QED BY <2>1, <4>1, <4>2
    <3>4. "ControlLeft" \notin HeldKeys
      BY <3>3 DEF HeldKeys, Shifts
    <3> QED BY <3>1, <3>2, <3>4
  <2>5. Handled(k, extra, {})
    BY <2>3, <2>4
  <2>6. ~AtOnce(os, p, e) /\ c = "AltRight"
    BY <2>1 DEF AtOnce, CodeOf
  <2>7. Sure => HeldKeys \cup extra \subseteq HeldKeys' \cup {}
    BY <1>1, <2>6
  <2> HIDE DEF extra, k
  <2>8. focused /\ Deliver(k, TRUE, local') /\ (Sure /\ k.armed => "ControlLeft" \in pressed')
    BY <1>8, <2>3 DEF k
  <2> QED BY <1>1, <2>5, <2>7, <2>8, TakenHeld
<1> QED BY <1>2, <1>5, <1>6, <1>7, <1>8

-----------------------------------------------------------------------------
(* A key comes up.                                                         *)

OtherShift(p) ==
    CASE p = "ShiftLeft" -> "ShiftRight" [] p = "ShiftRight" -> "ShiftLeft" [] OTHER -> "none"

ReleaseEvent(p, key) == KeyEvent(p, key, FALSE, pressed)

\* What the page makes of a release.
LEMMA ReleaseCases ==
  ASSUME NEW p, NEW key, ReleaseKey(p, key), NEW e, e = ReleaseEvent(p, key)
  PROVE  \/ ~focused /\ Idle
         \/ p \in muted /\ Idle
         \/ os = "windows" /\ OtherShift(p) \in pressed /\ Idle
         \/ /\ focused /\ p \notin muted
            /\ ~FakesCtrl(p) /\ Deliver(HandleKeyUp(os, kb, e), FALSE, local)
         \/ /\ focused /\ p \notin muted
            /\ FakesCtrl(p)
            /\ Deliver(HandleKeyUp(os, HandleKeyUp(os, kb, FakeCtrl), e), FALSE, local)
<1> DEFINE k == IF FakesCtrl(p) THEN HandleKeyUp(os, kb, FakeCtrl) ELSE kb
<1>1. IF ~focused \/ p \in muted \/ (os = "windows" /\ OtherShift(p) \in pressed) THEN Idle
      ELSE Deliver(HandleKeyUp(os, k, e), FALSE, local)
  BY DEF ReleaseKey, ReleaseEvent, OtherShift
<1>2. CASE ~focused \/ p \in muted \/ (os = "windows" /\ OtherShift(p) \in pressed)
  BY <1>1, <1>2
<1>3. CASE ~(~focused \/ p \in muted \/ (os = "windows" /\ OtherShift(p) \in pressed))
  <2>1. Deliver(HandleKeyUp(os, k, e), FALSE, local) /\ focused /\ p \notin muted
    BY <1>1, <1>3
  <2>2. CASE FakesCtrl(p)
    BY <2>1, <2>2
  <2>3. CASE ~FakesCtrl(p)
    BY <2>1, <2>3
  <2> QED BY <2>2, <2>3
<1> QED BY <1>2, <1>3

\* What becomes of the user's keys.
LEMMA ReleasedKeys ==
  ASSUME KeyInv, HeldInv, NEW p \in Physical, NEW key \in Names(p), ReleaseKey(p, key),
         NEW e, e = ReleaseEvent(p, key)
  PROVE  /\ EventOf(os, browser, p, e)
         /\ os' = os /\ browser' = browser /\ focused' = focused
         /\ pressed' \in SUBSET Physical /\ local' \in [Locks -> Lit] /\ local' = local
         /\ muted' \subseteq Mutable' /\ pressed' = pressed \ {p}
         /\ HeldKeys \subseteq HeldKeys' \cup UpGone(os, p, CodeOf(browser, p))
         /\ p \in muted \/ (os = "windows" /\ OtherShift(p) \in pressed) =>
              HeldKeys \subseteq HeldKeys'
<1>1. os \in OSes /\ browser \in Makes /\ pressed \in SUBSET Physical /\ local \in [Locks -> Lit]
  BY DEF KeyInv
<1>2. EventOf(os, browser, p, e)
  <2>1. FALSE \in BOOLEAN
    OBVIOUS
  <2>2. EventOf(os, browser, p, KeyEvent(p, key, FALSE, pressed))
    BY <1>1, <2>1, KeyEventIs
  <2> QED BY <2>2 DEF ReleaseEvent
<1>3. /\ pressed' = pressed \ {p} /\ muted' = muted \ {p} /\ local' = local
      /\ os' = os /\ browser' = browser /\ focused' = focused
  BY DEF ReleaseKey
<1>4. muted' \subseteq Mutable'
  BY <1>3 DEF HeldInv, Mutable
<1>5. (pressed \ muted) \ {p} \subseteq pressed' \ muted'
  BY <1>3
<1>6. p \notin Shifts /\ pressed \cap Shifts # {} => pressed' \cap Shifts # {}
  BY <1>3
<1>7. os = "windows" /\ p \in Shifts => Shifts \subseteq UpGone(os, p, CodeOf(browser, p))
  BY DEF UpGone, Shifts
<1>8. HeldKeys \subseteq HeldKeys' \cup UpGone(os, p, CodeOf(browser, p))
  <2>1. CodeOf(browser, p) \in UpGone(os, p, CodeOf(browser, p))
    BY DEF UpGone
  <2> DEFINE A == {CodeOf(browser, q) : q \in pressed \ muted}
             B == IF os = "windows" /\ pressed \cap Shifts # {} THEN Shifts ELSE {}
  <2>2. HeldKeys = A \cup B
    BY DEF HeldKeys
  <2>3. HeldKeys' = {CodeOf(browser, q) : q \in pressed' \ muted'}
                      \cup (IF os = "windows" /\ pressed' \cap Shifts # {} THEN Shifts ELSE {})
    BY <1>3 DEF HeldKeys
  <2>4. A \subseteq HeldKeys' \cup UpGone(os, p, CodeOf(browser, p))
    BY <1>5, <2>1, <2>3
  <2>5. B \subseteq HeldKeys' \cup UpGone(os, p, CodeOf(browser, p))
    BY <1>6, <1>7, <2>3
  <2> QED BY <2>2, <2>4, <2>5
<1>9. CASE p \in muted
  <2>1. p \notin Shifts \/ os # "windows"
    BY <1>9 DEF HeldInv, Mutable, Shifts
  <2>2. pressed \ muted \subseteq pressed' \ muted'
    BY <1>3, <1>9
  <2>3. HeldKeys \subseteq HeldKeys'
    BY <1>3, <1>6, <2>1, <2>2 DEF HeldKeys
  <2> QED BY <1>1, <1>2, <1>3, <1>4, <1>8, <2>3
<1>10. CASE os = "windows" /\ OtherShift(p) \in pressed
  <2>1. p \in Shifts /\ OtherShift(p) \in Shifts /\ OtherShift(p) # p
    <3>1. "none" \notin pressed
      BY <1>1 DEF Physical
    <3> QED BY <1>10, <3>1 DEF OtherShift, Shifts
  <2>2. pressed' \cap Shifts # {}
    BY <1>3, <1>10, <2>1
  <2>3. Shifts \subseteq HeldKeys'
    BY <1>3, <1>10, <2>2 DEF HeldKeys
  <2>4. CodeOf(browser, p) \in Shifts
    BY <2>1 DEF CodeOf, Shifts
  <2>5. HeldKeys \subseteq HeldKeys'
    <3>1. UpGone(os, p, CodeOf(browser, p)) \subseteq Shifts
      BY <2>4 DEF UpGone, Shifts
    <3> QED BY <1>8, <2>3, <3>1
  <2> QED BY <1>1, <1>2, <1>3, <1>4, <1>8, <2>5
<1>11. CASE ~(p \in muted \/ (os = "windows" /\ OtherShift(p) \in pressed))
  BY <1>1, <1>2, <1>3, <1>4, <1>8, <1>11
<1> QED BY <1>9, <1>10, <1>11

\* The keyboard takes nothing, and no key of the list comes up.
LEMMA IdleHeld ==
  ASSUME KeyInv, HeldInv, Idle, os' = os, browser' = browser, focused' = focused,
         pressed' \in SUBSET Physical, local' \in [Locks -> Lit],
         muted' \subseteq Mutable', Sure /\ focused => HeldKeys \subseteq HeldKeys',
         Sure /\ kb.armed => "ControlLeft" \in pressed'
  PROVE  KeyInv' /\ HeldInv'
<1>1. KeyInv' /\ kb' = kb
  BY IdleInv
<1>2. Sure' => Sure
  BY DEF Sure
<1> QED BY <1>1, <1>2 DEF HeldInv

\* A release keeps the invariant, in each of the five cases.
LEMMA ReleaseKeeps ==
  ASSUME KeyInv, HeldInv, NEW p \in Physical, NEW key \in Names(p), ReleaseKey(p, key)
  PROVE  KeyInv' /\ HeldInv'
<1> DEFINE e == ReleaseEvent(p, key)
           c == CodeOf(browser, p)
           gone == UpGone(os, p, c)
<1>1. /\ EventOf(os, browser, p, e)
      /\ os' = os /\ browser' = browser /\ focused' = focused
      /\ pressed' \in SUBSET Physical /\ local' \in [Locks -> Lit] /\ local' = local
      /\ muted' \subseteq Mutable' /\ pressed' = pressed \ {p}
      /\ HeldKeys \subseteq HeldKeys' \cup gone
      /\ p \in muted \/ (os = "windows" /\ OtherShift(p) \in pressed) => HeldKeys \subseteq HeldKeys'
  BY ReleasedKeys
<1>2. \/ ~focused /\ Idle
      \/ p \in muted /\ Idle
      \/ os = "windows" /\ OtherShift(p) \in pressed /\ Idle
      \/ /\ focused /\ p \notin muted
         /\ ~FakesCtrl(p) /\ Deliver(HandleKeyUp(os, kb, e), FALSE, local)
      \/ /\ focused /\ p \notin muted
         /\ FakesCtrl(p)
         /\ Deliver(HandleKeyUp(os, HandleKeyUp(os, kb, FakeCtrl), e), FALSE, local)
  BY ReleaseCases
<1> HIDE DEF e
<1>3. ASSUME Sure, kb.armed
      PROVE  "ControlLeft" \in pressed \ muted /\ "ControlLeft" \in HeldKeys /\ focused
  BY <1>3, CtrlHeld
<1>4. CASE ~focused /\ Idle
  <2>1. Sure /\ kb.armed => "ControlLeft" \in pressed'
    BY <1>3, <1>4
  <2> QED BY <1>1, <1>4, <2>1, IdleHeld
<1>5. CASE p \in muted /\ Idle
  <2>1. Sure /\ kb.armed => "ControlLeft" \in pressed'
    BY <1>1, <1>3, <1>5
  <2> QED BY <1>1, <1>5, <2>1, IdleHeld
<1>6. CASE os = "windows" /\ OtherShift(p) \in pressed /\ Idle
  <2>1. p # "ControlLeft"
    <3>1. "none" \notin pressed
      BY DEF KeyInv, Physical
    <3> QED BY <1>6, <3>1 DEF OtherShift
  <2>2. Sure /\ kb.armed => "ControlLeft" \in pressed'
    BY <1>1, <1>3, <2>1
  <2> QED BY <1>1, <1>6, <2>2, IdleHeld
<1>7. CASE focused /\ ~FakesCtrl(p) /\ Deliver(HandleKeyUp(os, kb, e), FALSE, local)
  <2> DEFINE k == HandleKeyUp(os, kb, e)
             extra == IF kb.armed THEN {"ControlLeft"} ELSE {}
  <2>1. Handled(k, extra, gone) /\ k.armed = FALSE
    BY <1>1, UpHandled
  <2>2. Sure => HeldKeys \cup extra \subseteq HeldKeys' \cup gone
    BY <1>1, <1>3
  <2> HIDE DEF extra, gone, k
  <2>3. focused /\ Deliver(k, FALSE, local') /\ (Sure /\ k.armed => "ControlLeft" \in pressed')
    BY <1>1, <1>7, <2>1 DEF k
  <2> QED BY <1>1, <2>1, <2>2, <2>3, TakenHeld
<1>8. CASE focused /\ FakesCtrl(p)
             /\ Deliver(HandleKeyUp(os, HandleKeyUp(os, kb, FakeCtrl), e), FALSE, local)
  <2> DEFINE k == HandleKeyUp(os, HandleKeyUp(os, kb, FakeCtrl), e)
  <2>1. os = "windows" /\ p = "AltRight"
    BY <1>8 DEF FakesCtrl
  <2>2. EventOf(os, browser, "AltRight", e)
    BY <1>1, <2>1
  <2>3. Handled(k, {}, {"AltRight"}) /\ k.armed = FALSE
    BY <2>2, AltGrUpHandled
  <2>4. gone = {"AltRight"}
    BY <2>1 DEF UpGone, CodeOf
  <2>5. Sure => HeldKeys \cup {} \subseteq HeldKeys' \cup {"AltRight"}
    BY <1>1, <2>4
  <2> HIDE DEF gone, k
  <2>6. focused /\ Deliver(k, FALSE, local') /\ (Sure /\ k.armed => "ControlLeft" \in pressed')
    BY <1>1, <1>8, <2>3 DEF k
  <2> QED BY <1>1, <2>3, <2>5, <2>6, TakenHeld
<1> QED BY <1>2, <1>4, <1>5, <1>6, <1>7, <1>8

-----------------------------------------------------------------------------
(* What else the keyboard hears of.                                        *)

\* A key without a code, on its own.
LEMMA VirtualKeeps ==
  ASSUME KeyInv, HeldInv, NEW key \in {"a", "Unidentified"}, VirtualKey(key)
  PROVE  KeyInv' /\ HeldInv'
<1> DEFINE e == [KeyEvent("KeyA", key, FALSE, pressed) EXCEPT !.plat = ""]
           y == GetKeysym(os, e)
           k == HandleKeyDown(os, kb, e)
<1>1. /\ os = "other" /\ browser = "legacy" /\ focused /\ pressed = {}
      /\ os' = os /\ browser' = browser /\ focused' = focused
      /\ pressed' = pressed /\ muted' = muted /\ local' = local
      /\ Deliver(k, TRUE, local)
  BY DEF VirtualKey
<1>2. ~kb.armed /\ kb.armed \in BOOLEAN
  BY <1>1, KeyboardParts DEF KeyInv
<1>3. e.code = "" /\ e.vk = "" /\ e.plat = "" /\ e.key = key /\ e.location = 0
  BY <1>1 DEF KeyEvent
<1> HIDE DEF e
<1>4. GetKeyCode(os, e) = "Unidentified"
  BY <1>3 DEF GetKeyCode, GetKeycode
<1>5. y = (IF key = "a" THEN <<"a", 0>> ELSE NoSym) /\ y \in KeySyms
  <2>1. CASE key = "a"
    <3>1. y = <<"a", 0>>
      BY <1>3, <2>1 DEF GetKeysym, GetKey, Standard, Letters, LeftRight, Kana, OnNumpad
    <3> QED BY <2>1, <3>1 DEF KeySyms
  <2>2. CASE key = "Unidentified"
    <3>1. y = NoSym
      BY <1>3, <2>2 DEF GetKeysym, GetKey, LeftRight, Kana, OnNumpad, Standard, Letters
    <3> QED BY <2>2, <3>1 DEF KeySyms
  <2> QED BY <2>1, <2>2
<1>6. k = IF y = NoSym THEN kb ELSE PressRelease(kb, y, "Unidentified")
  BY <1>1, <1>2, <1>4 DEF HandleKeyDown
<1> HIDE DEF y, k
<1>7. DOMAIN kb.keys = {}
  <2>1. Sure /\ HeldKeys = {}
    BY <1>1 DEF Sure, HeldKeys
  <2> QED BY <1>1, <2>1 DEF HeldInv
<1>8. Handled(k, {}, {})
  <2>1. ASSUME NEW x, Here(x) PROVE Proper(x, k) /\ SameBut(kb, k, {})
    <3>1. Proper(x, kb) /\ x \in Contexts
      BY <2>1, HereProper DEF Here
    <3>2. CASE y = NoSym
      BY <1>6, <1>7, <3>1, <3>2 DEF SameBut
    <3>3. CASE y # NoSym
      <4>1. "Unidentified" \in Codes
        BY DEF Codes
      <4>2. /\ Proper(x, PressRelease(kb, y, "Unidentified"))
            /\ SameBut(kb, PressRelease(kb, y, "Unidentified"), {})
        BY <1>5, <1>7, <3>1, <4>1, BareLeaves
      <4> QED BY <1>6, <3>3, <4>2
    <3> QED BY <3>2, <3>3
  <2>2. k.armed = kb.armed
    BY <2>1, HereExists DEF SameBut
  <2> QED BY <1>2, <2>1, <2>2 DEF Handled, Leaves, SameBut
<1>9. ~k.armed
  BY <1>1, <1>8 DEF Handled
<1>10. /\ muted' \subseteq Mutable' /\ HeldKeys' = HeldKeys
       /\ pressed' \in SUBSET Physical /\ local' \in [Locks -> Lit]
  BY <1>1 DEF HeldInv, Mutable, HeldKeys, KeyInv
<1>11. /\ Sure => HeldKeys \cup {} \subseteq HeldKeys' \cup {}
       /\ Sure /\ k.armed => "ControlLeft" \in pressed'
  BY <1>9, <1>10
<1>12. Deliver(k, TRUE, local')
  BY <1>1
<1> QED BY <1>1, <1>8, <1>10, <1>11, <1>12, TakenHeld

\* The 100 ms have passed: the Ctrl is one.
LEMMA TimeoutKeeps ==
  ASSUME KeyInv, HeldInv, AltGrTimeout
  PROVE  KeyInv' /\ HeldInv'
<1> DEFINE k == CtrlAfterAll(kb)
<1>1. /\ kb.armed /\ Deliver(k, FALSE, local)
      /\ os' = os /\ browser' = browser /\ pressed' = pressed /\ muted' = muted
      /\ focused' = focused /\ local' = local
  BY DEF AltGrTimeout, HandleAltGrTimeout
<1>2. pressed' \in SUBSET Physical /\ local' \in [Locks -> Lit] /\ os = "windows"
  BY <1>1 DEF KeyInv
<1>3. ASSUME NEW x, Here(x) PROVE Leaves(x, kb, k, {"ControlLeft"}, {}) /\ k.armed = FALSE
  <2>1. Proper(x, kb) /\ x \in Contexts
    BY <1>3, HereProper DEF Here
  <2> QED BY <2>1, CtrlProper
<1> HIDE DEF k
<1>4. k.armed = FALSE
  BY <1>3, HereExists
<1>5. Handled(k, {"ControlLeft"}, {})
  BY <1>3, <1>4 DEF Handled
<1>6. muted' \subseteq Mutable' /\ HeldKeys' = HeldKeys
  BY <1>1 DEF HeldInv, Mutable, HeldKeys
<1>7. CASE Sure
  <2>1. focused /\ "ControlLeft" \in HeldKeys
    BY <1>1, <1>7, CtrlHeld
  <2>2. Sure => HeldKeys \cup {"ControlLeft"} \subseteq HeldKeys' \cup {}
    BY <1>6, <2>1
  <2>3. Deliver(k, FALSE, local') /\ (Sure /\ k.armed => "ControlLeft" \in pressed')
    BY <1>1, <1>4
  <2> QED BY <1>1, <1>2, <1>5, <1>6, <2>1, <2>2, <2>3, TakenHeld
<1>8. CASE ~Sure
  <2>1. KeyInv'
    BY <1>1, <1>2, <1>5, DeliverKeeps DEF KeyInv
  <2>2. ~Sure'
    BY <1>1, <1>8 DEF Sure
  <2> QED BY <1>6, <2>1, <2>2 DEF HeldInv
<1> QED BY <1>7, <1>8

\* The window loses the focus: every key comes up.
LEMMA BlurKeeps ==
  ASSUME KeyInv, HeldInv, Blur
  PROVE  KeyInv' /\ HeldInv'
<1> DEFINE k == AllKeysUp(kb)
           gone == DOMAIN kb.keys
<1>1. /\ kb.armed => BlurArmed
      /\ focused' = FALSE /\ Deliver(k, FALSE, local)
      /\ os' = os /\ browser' = browser /\ pressed' = pressed /\ muted' = muted
      /\ local' = local
  BY DEF Blur
<1>2. pressed' \in SUBSET Physical /\ local' \in [Locks -> Lit] /\ local \in [Locks -> Lit]
  BY <1>1 DEF KeyInv
<1>3. ASSUME NEW x, Here(x) PROVE Proper(x, k) /\ SameBut(kb, k, {})
  <2>1. Proper(x, kb) /\ x \in Contexts
    BY <1>3, HereProper DEF Here
  <2> QED BY <2>1, AllUp
<1> HIDE DEF k
<1>4. k.armed = kb.armed
  BY <1>3, HereExists DEF SameBut
<1>5. Handled(k, {}, gone)
  BY <1>3, <1>4 DEF Handled, Leaves, SameBut, KeyInv
<1> HIDE DEF gone
<1>6. KeyInv' /\ kb'.armed = k.armed /\ DOMAIN kb'.keys \subseteq (DOMAIN kb.keys \cup {}) \ gone
  BY <1>1, <1>2, <1>5, DeliverKeeps
<1>7. muted' \subseteq Mutable'
  BY <1>1 DEF HeldInv, Mutable
<1>8. Sure' => ~kb.armed
  BY <1>1 DEF Sure, KeyInv
<1> QED BY <1>1, <1>4, <1>6, <1>7, <1>8 DEF HeldInv, gone

\* The window has the focus again: no key is down.
LEMMA FocusKeeps ==
  ASSUME KeyInv, HeldInv, Focus
  PROVE  KeyInv' /\ HeldInv'
<1>1. /\ ~focused /\ Idle
      /\ os' = os /\ browser' = browser /\ pressed' = pressed /\ muted' = muted
      /\ local' = local
  BY DEF Focus
<1>2. pressed' \in SUBSET Physical /\ local' \in [Locks -> Lit]
  BY <1>1 DEF KeyInv
<1>3. KeyInv' /\ kb' = kb
  BY <1>1, <1>2, IdleInv
<1> QED BY <1>1, <1>3 DEF HeldInv, Mutable, Sure

\* A report of the locks arrives.
LEMMA LedKeeps ==
  ASSUME KeyInv, HeldInv, HandleLedEvent
  PROVE  KeyInv' /\ HeldInv'
<1>1. /\ leds # <<>> /\ known' = Head(leds) /\ leds' = Tail(leds)
      /\ UNCHANGED <<os, browser, pressed, muted, focused, kb, srv, twice, local, remote>>
  BY DEF HandleLedEvent, keyVars
<1>2. remote \in [Locks -> Lit] /\ leds \in Seq([Locks -> Lit])
  BY ServerParts
<1>3. Head(leds) \in [Locks -> Lit] /\ Tail(leds) \in Seq([Locks -> Lit])
  BY <1>1, <1>2
<1>4. [Locks -> Lit] \subseteq [Locks -> Reports]
  BY DEF Lit, Reports
<1>5. /\ remote' \in [Locks -> Lit] /\ known' \in [Locks -> Reports]
      /\ leds' \in Seq([Locks -> Lit])
  BY <1>1, <1>2, <1>3, <1>4
<1> QED BY <1>1, <1>5, ReportsKeep

\* A lock key is pressed on the remote side.
LEMMA RemoteKeeps ==
  ASSUME KeyInv, HeldInv, NEW l \in Locks, RemoteToggle(l)
  PROVE  KeyInv' /\ HeldInv'
<1>1. /\ remote' = [remote EXCEPT ![l] = Toggled(@)] /\ leds' = Append(leds, remote')
      /\ UNCHANGED <<os, browser, pressed, muted, focused, kb, srv, twice, local, known>>
  BY DEF RemoteToggle, keyVars
<1>2. remote \in [Locks -> Lit] /\ known \in [Locks -> Reports] /\ leds \in Seq([Locks -> Lit])
  BY ServerParts
<1>3. \A v : Toggled(v) \in Lit
  BY DEF Toggled, Lit
<1>4. remote' \in [Locks -> Lit]
  BY <1>1, <1>2, <1>3
<1>5. known' \in [Locks -> Reports] /\ leds' \in Seq([Locks -> Lit])
  BY <1>1, <1>2, <1>4
<1> QED BY <1>1, <1>4, <1>5, ReportsKeep

-----------------------------------------------------------------------------
(* All of the keyboard.                                                    *)

\* No key is down at first.
LEMMA KeyInit ==
  ASSUME KeyboardAssumption, KeyboardInit
  PROVE  os \in Systems /\ KeyInv /\ HeldInv
<1> DEFINE off == [l \in Locks |-> "off"]
           ask == [l \in Locks |-> Unknown]
<1>1. /\ os \in Systems /\ browser \in Browsers
      /\ pressed = {} /\ muted = {} /\ focused = TRUE /\ kb = NewKeyboard
      /\ srv = {} /\ twice = FALSE /\ local = off /\ remote = off
      /\ known = ask /\ leds = <<off>>
  BY DEF KeyboardInit
<1>2. os \in OSes /\ browser \in Makes
  BY <1>1 DEF KeyboardAssumption, OSes, Makes
<1>3. off \in [Locks -> Lit] /\ ask \in [Locks -> Reports]
  BY DEF Lit, Reports
<1> HIDE DEF off, ask
<1>4. /\ DOMAIN kb.keys = {} /\ kb.armed = FALSE /\ kb.out = <<>>
      /\ kb = [keys |-> kb.keys, armed |-> kb.armed, out |-> kb.out]
      /\ kb.keys = [c \in {} |-> NoSym]
  BY <1>1 DEF NewKeyboard
<1>5. kb \in Keyboards
  <2>1. kb.keys \in [{} -> KeySyms]
    BY <1>4
  <2>2. kb.keys \in KeyLists
    BY <2>1 DEF KeyLists
  <2>3. kb.out \in Seq(Calls)
    BY <1>4
  <2> QED BY <1>4, <2>2, <2>3 DEF Keyboards
<1>6. Tabled(os, browser, kb.keys) /\ Unique(kb.keys)
  BY <1>4 DEF Tabled, Unique
<1>7. Server.srv = {} /\ Server.twice = FALSE /\ Server \in ServerSide
  <2>1. Server = [srv |-> {}, twice |-> FALSE, remote |-> off, known |-> ask, leds |-> <<off>>]
    BY <1>1 DEF Server
  <2>2. <<off>> \in Seq([Locks -> Lit])
    BY <1>3
  <2> QED BY <1>3, <2>1, <2>2 DEF ServerSide
<1>8. Mirrors(Server, kb.keys)
  BY <1>4, <1>7 DEF Mirrors
<1>9. KeyInv
  BY <1>1, <1>2, <1>3, <1>4, <1>5, <1>6, <1>7, <1>8 DEF KeyInv
<1>10. HeldInv
  BY <1>1, <1>4 DEF HeldInv
<1> QED BY <1>1, <1>9, <1>10

\* The step of the induction, one fact for each action.
LEMMA KeyNext ==
  ASSUME KeyboardAssumption, os \in Systems, KeyInv, HeldInv, [KeyboardNext]_keyboardVars
  PROVE  os' \in Systems /\ KeyInv' /\ HeldInv'
<1>1. ASSUME NEW p \in Keys, NEW near \in BOOLEAN, NEW key \in Names(p), PressKey(p, key, near)
      PROVE  os' = os /\ KeyInv' /\ HeldInv'
  BY <1>1, KeysPhysical, PressKeeps DEF PressKey
<1>2. ASSUME NEW p \in Keys, NEW key \in Names(p), RepeatKey(p, key)
      PROVE  os' = os /\ KeyInv' /\ HeldInv'
  BY <1>2, KeysPhysical, RepeatKeeps DEF RepeatKey
<1>3. ASSUME NEW p \in Keys, NEW key \in Names(p), ReleaseKey(p, key)
      PROVE  os' = os /\ KeyInv' /\ HeldInv'
  BY <1>3, KeysPhysical, ReleaseKeeps DEF ReleaseKey
<1>4. ASSUME NEW key \in {"a", "Unidentified"}, VirtualKey(key)
      PROVE  os' = os /\ KeyInv' /\ HeldInv'
  BY <1>4, VirtualKeeps DEF VirtualKey
<1>5. CASE AltGrTimeout
  BY <1>5, TimeoutKeeps DEF AltGrTimeout
<1>6. CASE Blur
  BY <1>6, BlurKeeps DEF Blur
<1>7. CASE Focus
  BY <1>7, FocusKeeps DEF Focus
<1>8. CASE HandleLedEvent
  BY <1>8, LedKeeps DEF HandleLedEvent
<1>9. ASSUME NEW l \in Locks \cap Keys, RemoteToggle(l)
      PROVE  os' = os /\ KeyInv' /\ HeldInv'
  BY <1>9, RemoteKeeps DEF RemoteToggle
<1>10. ASSUME \/ \E w \in Words : InsertText(w) \/ Compose(w)
              \/ DeleteBack
              \/ \E follow \in BOOLEAN : OnCompositionEnd(follow)
              \/ SpecialKey
              \/ UNCHANGED keyboardVars
       PROVE  os' = os /\ KeyInv' /\ HeldInv'
  <2>1. UNCHANGED <<os, browser, keyVars, lockVars>>
    BY <1>10 DEF InsertText, Compose, DeleteBack, OnCompositionEnd, SpecialKey, keyboardVars
  <2> QED BY <2>1, SoftKeeps
<1>11. os' = os /\ KeyInv' /\ HeldInv'
  BY <1>1, <1>2, <1>3, <1>4, <1>5, <1>6, <1>7, <1>8, <1>9, <1>10,
     TimeoutKeeps, BlurKeeps, FocusKeeps, LedKeeps
     DEF KeyboardNext, AltGrTimeout, Blur, Focus, HandleLedEvent
<1> QED BY <1>11

\* The invariant holds in every state.
LEMMA KeyInvariant ==
  ASSUME KeyboardAssumption
  PROVE  KeyboardSpec => [](os \in Systems /\ KeyInv /\ HeldInv)
<1>1. KeyboardInit => os \in Systems /\ KeyInv /\ HeldInv
  BY KeyInit
<1>2. os \in Systems /\ KeyInv /\ HeldInv /\ [KeyboardNext]_keyboardVars
        => (os \in Systems /\ KeyInv /\ HeldInv)'
  BY KeyNext
<1> QED BY <1>1, <1>2, PTL DEF KeyboardSpec

\* The list mirrored, key by key, is the set of keysyms it has.
LEMMA MirrorsServer ==
  ASSUME KeyInv
  PROVE  ServerMirrors
<1>1. Server.srv = srv /\ Server.twice = twice /\ twice \in BOOLEAN
  BY DEF KeyInv, Server, ServerSide
<1>2. /\ NoSym \notin srv /\ ~twice
      /\ \A y \in srv : \E c \in DOMAIN kb.keys : kb.keys[c] = y
      /\ \A c \in DOMAIN kb.keys : kb.keys[c] \notin LockSyms \cup {NoSym} => kb.keys[c] \in srv
  BY <1>1 DEF KeyInv, Mirrors
<1>3. Range(kb.keys) = {kb.keys[c] : c \in DOMAIN kb.keys}
  BY DEF Range
<1> QED BY <1>2, <1>3 DEF ServerMirrors

\* A list within the keys held is empty when none is.
LEMMA HeldNotStuck ==
  ASSUME KeyInv, HeldInv, Sure
  PROVE  NoStuckKey
<1>1. SUFFICES ASSUME focused => pressed = {} PROVE srv = {}
  BY DEF NoStuckKey
<1>2. focused => HeldKeys = {}
  BY <1>1 DEF HeldKeys
<1>3. DOMAIN kb.keys = {}
  BY <1>2 DEF HeldInv
<1>4. Server.srv = srv /\ Mirrors(Server, kb.keys)
  BY DEF KeyInv, Server
<1> QED BY <1>3, <1>4 DEF Mirrors

\* Of every user and every browser: the server holds the keys on the client's
\* list and no other, and gets no press of a key it holds.
THEOREM KeyboardMirrors == KeyboardSpec => []ServerMirrors
<1>1. os \in Systems /\ KeyInv /\ HeldInv => ServerMirrors
  BY MirrorsServer
<1> QED BY KeyboardAssumption, KeyInvariant, <1>1, PTL

\* No key is left down at the server, unless a window of Windows lost the focus
\* within 100 ms of a Ctrl.
THEOREM KeyboardNoStuckKey ==
  KeyboardSpec => []((BlurArmed => os # "windows") => NoStuckKey)
<1>1. os \in Systems /\ KeyInv /\ HeldInv => ((BlurArmed => os # "windows") => NoStuckKey)
  BY HeldNotStuck DEF Sure
<1> QED BY KeyboardAssumption, KeyInvariant, <1>1, PTL
=============================================================================
