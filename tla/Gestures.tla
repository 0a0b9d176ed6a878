------------------------------ MODULE Gestures ------------------------------
(***************************************************************************)
(* Fingers on the shared desktop.  Touch events reach the page first       *)
(* (app.js, capture phase), which keeps those it pans and magnifies with;  *)
(* the others reach noVNC's recognizer (gesturehandler.js), whose gestures *)
(* rfb.js turns into mouse buttons and keys of the remote machine.         *)
(*                                                                         *)
(* The recognizer is a record and its handlers are functions of it.  How   *)
(* far and in which direction fingers move is a choice of each event; time *)
(* is counted in quarters of a second.                                     *)
(***************************************************************************)
EXTENDS Integers, Sequences, FiniteSets, SequencesExt

CONSTANTS
    Fingers,     \* touch identifiers
    TapTimeout,  \* quarters of a second in GH_TAP_TIMEOUT, GH_LONGPRESS_TIMEOUT
    MaxTouches   \* bound: touches that ever begin

ASSUME GesturesAssumption ==
    /\ Fingers \subseteq Nat \ {0}
    /\ TapTimeout \in Nat \ {0, 1}
    /\ MaxTouches \in Nat

Off == -1        \* a timer that is not running

VARIABLES
    down,      \* the fingers on the screen
    touches,   \* how many touches began
    zoomed,    \* TRUE when the page's zoomLevel is above 1
    mode,      \* the page's two-finger gesture: "none", "pending", "active"
    gh,        \* the recognizer, and what it had rfb.js send
    took       \* history: TRUE once the page kept an event to itself

vars == <<down, touches, zoomed, mode, gh, took>>

-----------------------------------------------------------------------------
(* From gestures to the server: rfb.js is called by each gesture event.    *)

Taps == {"onetap", "twotap", "threetap"}
Solid == {"drag", "longpress"}     \* the gestures that hold a button
Undecided == Taps \cup Solid \cup {"twodrag", "pinch"}
Held == {"left", "right", "middle", "wheel", "ctrl"}

Press(h, b) == h \cup {b}
Release(h, b) == h \ {b}
Click(h, b) == Release(Press(h, b), b)

\* Mutant: the button of a tap is left to the end of the gesture.
HandleTapPressed(h, b) == Press(h, b)

\* A tap clicks where the first tap of a double tap was.
HandleTapEvent(h, b) == Click(h, b)

\* The buttons and keys the server holds after a gesture event, h before.  How
\* often a scroll or zoom step is sent does not matter here.
HandleGesture(h, type, gesture) ==
    CASE type = "start" /\ gesture = "onetap" -> HandleTapEvent(h, "left")
      [] type = "start" /\ gesture = "twotap" -> HandleTapEvent(h, "right")
      [] type = "start" /\ gesture = "threetap" -> HandleTapEvent(h, "middle")
      [] type = "start" /\ gesture = "drag" -> Press(h, "left")
      [] type = "start" /\ gesture = "longpress" -> Press(h, "right")
      [] type = "move" /\ gesture = "twodrag" -> Click(h, "wheel")
      [] type = "move" /\ gesture = "pinch" -> Release(Click(Press(h, "ctrl"), "wheel"), "ctrl")
      [] type = "end" /\ gesture = "drag" -> Release(h, "left")
      [] type = "end" /\ gesture = "longpress" -> Release(h, "right")
      [] OTHER -> h

-----------------------------------------------------------------------------
(* The recognizer.                                                         *)

\* state: the gestures still possible; tracked: the touches of the gesture;
\* ignored: how many ends of each identifier are waited for; waiting, released:
\* a finger was lifted, and how long ago; press, two: the timers, the second
\* one "off", "due" or "fired" (its id is only cleared when it is stopped);
\* err: a handler threw; held: buttons and keys the server was sent down and
\* not up; open: gestures announced as started and not as ended.
NewRecognizer ==
    [state |-> Undecided, tracked |-> <<>>, ignored |-> [f \in Fingers |-> 0],
     waiting |-> FALSE, released |-> 0, press |-> Off, two |-> "off",
     err |-> FALSE, held |-> {}, open |-> {}]

Has(g, id) == \E i \in DOMAIN g.tracked : g.tracked[i].id = id
Place(g, id) == CHOOSE i \in DOMAIN g.tracked : g.tracked[i].id = id
SomeActive(g) == \E i \in DOMAIN g.tracked : g.tracked[i].active
NoneIgnored(g) == \A f \in Fingers : g.ignored[f] = 0

Detected(g) == \E s \in Undecided : g.state = {s} /\ (s \in Taps => ~SomeActive(g))

\* The event needs a position, which needs a tracked touch.
Push(g, type) ==
    LET gesture == CHOOSE s \in g.state : TRUE
    IN  IF g.tracked = <<>> THEN [g EXCEPT !.err = TRUE]
        ELSE [g EXCEPT !.held = HandleGesture(@, type, gesture),
                       !.open = CASE type = "start" -> @ \cup {gesture}
                                  [] type = "end" -> @ \ {gesture}
                                  [] OTHER -> @]

Ignore(g, id) == [g EXCEPT !.ignored[id] = @ + 1]

TouchStart(g, id) ==
    IF Detected(g) \/ g.state = {} THEN Ignore(g, id)
    ELSE IF (g.tracked # <<>> /\ g.tracked[1].age > 0) \/ g.waiting
    THEN [Ignore(g, id) EXCEPT !.state = {}]
    ELSE LET n == Len(g.tracked) + 1 IN
         [g EXCEPT !.tracked = Append(@, [id |-> id, age |-> 0, active |-> TRUE,
                                          far |-> FALSE]),
                   !.press = CASE n = 1 -> TapTimeout [] n = 2 -> Off [] OTHER -> @,
                   !.state = CASE n = 1 -> @
                               [] n = 2 -> @ \ {"onetap", "drag", "longpress"}
                               [] n = 3 -> @ \ {"twotap", "twodrag", "pinch"}
                               [] OTHER -> {}]

\* What a touch beyond the threshold rules out for n touches, and with it what
\* the directions of two such touches do.
RuledOut(n, byDirection) ==
    Taps \cup {"longpress"}
    \cup (IF n # 1 THEN {"drag"} ELSE {})
    \cup (IF n # 2 THEN {"twodrag", "pinch"} ELSE {})
    \cup byDirection

\* far: the touch is now beyond the threshold; both: so is the other one of two;
\* apart: the two moved in different directions.
TouchMove(g, id, far, apart) ==
    IF ~Has(g, id) THEN g
    ELSE LET i == Place(g, id)
             m == [g EXCEPT !.tracked[i].far = far]
             n == Len(m.tracked)
             both == n = 2 /\ m.tracked[3 - i].far
             byDirection == IF ~both THEN {} ELSE IF apart THEN {"twodrag"} ELSE {"pinch"}
             e == [m EXCEPT !.state = @ \ RuledOut(n, byDirection), !.press = Off,
                            !.two = CASE both -> "off"
                                      [] n = 2 /\ ~both /\ g.two = "off" -> "due"
                                      [] OTHER -> @]
         IN  CASE Detected(m) -> Push(m, "move")
               [] ~Detected(m) /\ ~far -> m
               [] OTHER -> IF Detected(e) THEN Push(Push(e, "start"), "move") ELSE e

\* Mutant: the wait for released fingers outlives the gesture.
ResetKeepsWaiting(g) == [g EXCEPT !.state = Undecided]

Reset(g) == [g EXCEPT !.state = Undecided, !.waiting = FALSE]

\* The end of a touch the recognizer only waits for.
IgnoredEnd(g, id) ==
    LET r == [g EXCEPT !.ignored[id] = @ - 1]
    IN  IF NoneIgnored(r) /\ r.tracked = <<>> THEN Reset(r) ELSE r

\* The gesture is over: what is still down is ignored until it is lifted (no
\* identifier is tracked twice).
Finish(g, id) ==
    LET left == [f \in Fingers |-> g.ignored[f]
                   + IF \E i \in DOMAIN g.tracked : g.tracked[i].active /\ g.tracked[i].id = f
                     THEN 1 ELSE 0]
        r == [g EXCEPT !.ignored = [left EXCEPT ![id] = IF @ > 0 THEN @ - 1 ELSE 0],
                       !.tracked = <<>>, !.state = {}]
    IN  IF NoneIgnored(r) THEN Reset(r) ELSE r

\* Before anything else: a timer that was started and not stopped means no
\* gesture; a lifted finger rules out what needs movement or time, and the
\* first one fixes how many fingers a tap has.
Lift(g) ==
    LET a == IF g.two # "off" THEN [g EXCEPT !.state = {}, !.two = "off"] ELSE g
        n == Len(a.tracked)
        fewer == CASE a.waiting -> {}
                   [] ~a.waiting /\ n = 1 -> {"twotap", "threetap"}
                   [] ~a.waiting /\ n = 2 -> {"onetap", "threetap"}
                   [] OTHER -> {}
    IN  IF Detected(g) THEN g
        ELSE [a EXCEPT !.state = (@ \cap Taps) \ fewer, !.press = Off,
                       !.waiting = TRUE, !.released = IF a.waiting THEN @ ELSE 0]

\* One of the fingers of a gesture that was lifted waits for the others.
Released(g, id) ==
    LET late == g.released > 0 \/ \E i \in DOMAIN g.tracked : g.tracked[i].age = TapTimeout
        c == IF late THEN [g EXCEPT !.state = {}] ELSE g
        d == [c EXCEPT !.tracked[Place(c, id)].active = FALSE]
    IN  CASE ~Has(c, id) -> [c EXCEPT !.err = TRUE]
          [] Has(c, id) /\ Detected(d) -> Finish(Push(Push(d, "start"), "end"), id)
          [] Has(c, id) /\ ~Detected(d) /\ d.state = {} -> Finish(d, id)
          [] OTHER -> d

TouchEnd(g, id) ==
    LET b == Lift(g)
    IN  CASE g.ignored[id] > 0 -> IgnoredEnd(g, id)
          [] g.ignored[id] = 0 /\ b.waiting -> Released(b, id)
          [] OTHER -> Finish(IF Detected(b) THEN Push(b, "end") ELSE b, id)

LongpressTimeout(g) ==
    IF Detected(g) THEN [g EXCEPT !.err = TRUE, !.press = Off]
    ELSE Push([g EXCEPT !.press = Off, !.state = {"longpress"}], "start")

TwoTouchTimeout(g, kind) ==
    LET f == [g EXCEPT !.two = "fired"]
    IN  IF g.tracked = <<>> THEN [f EXCEPT !.err = TRUE]
        ELSE Push(Push([f EXCEPT !.state = {kind}], "start"), "move")

\* One touch event: the handler is called for each changed touch in turn, and
\* an exception ends the loop.
Handler(g, type, id, far, apart) ==
    CASE type = "touchstart" -> TouchStart(g, id)
      [] type = "touchmove" -> TouchMove(g, id, far, apart)
      [] type = "touchend" -> TouchEnd(g, id)

EventHandler(type, changed, far, apart) ==
    LET first == Handler([gh EXCEPT !.err = FALSE], type, changed[1], far, apart)
    IN  IF Len(changed) = 1 \/ first.err THEN first
        ELSE Handler(first, type, changed[2], far, apart)

-----------------------------------------------------------------------------
(* Touch events, through the page.                                         *)

\* The touches of one event: one finger, or two in the order of the list.
Changed == {<<f>> : f \in Fingers} \cup {p \in Fingers \X Fingers : p[1] < p[2]}

Keep == took' = TRUE /\ gh' = gh
Pass(g) == took' = took /\ gh' = g

OnTouchStartCapture(changed) ==
    LET now == down \cup ToSet(changed)
    IN  /\ ToSet(changed) \cap down = {}
        /\ touches + Len(changed) <= MaxTouches
        /\ down' = now
        /\ touches' = touches + Len(changed)
        /\ mode' = IF Cardinality(now) # 2 THEN "none"
                   ELSE IF zoomed THEN "active" ELSE "pending"
        /\ IF mode' = "active" THEN Keep ELSE Pass(EventHandler("touchstart", changed, FALSE, FALSE))
        /\ UNCHANGED zoomed

\* ratio: the distance of the two fingers has changed by more than 8%.
OnTouchMoveCapture(changed, far, apart, ratio) ==
    /\ ToSet(changed) \subseteq down
    /\ IF mode = "none" \/ Cardinality(down) # 2 \/ (mode = "pending" /\ ~ratio)
       THEN /\ Pass(EventHandler("touchmove", changed, far, apart))
            /\ UNCHANGED <<mode, zoomed>>
       ELSE /\ Keep
            /\ mode' = "active"
            /\ IF mode = "pending" THEN zoomed' = zoomed ELSE zoomed' \in BOOLEAN
    /\ UNCHANGED <<down, touches>>

\* The end and the cancellation of touches are never kept.
OnTouchEndCapture(changed) ==
    /\ ToSet(changed) \subseteq down
    /\ down' = down \ ToSet(changed)
    /\ mode' = IF Cardinality(down') < 2 THEN "none" ELSE mode
    /\ Pass(EventHandler("touchend", changed, FALSE, FALSE))
    /\ UNCHANGED <<touches, zoomed>>

LongpressFires ==
    /\ gh.press = 0
    /\ Pass(LongpressTimeout(gh))
    /\ UNCHANGED <<down, touches, zoomed, mode>>

\* 50 ms: always before the next quarter of a second.
TwoTouchFires ==
    /\ gh.two = "due"
    /\ \E kind \in {"pinch", "twodrag"} : Pass(TwoTouchTimeout(gh, kind))
    /\ UNCHANGED <<down, touches, zoomed, mode>>

\* A quarter of a second passes; timers that are due have fired by then.
Older(t) == [t EXCEPT !.age = IF @ < TapTimeout THEN @ + 1 ELSE @]

Later(g) ==
    [g EXCEPT !.err = FALSE,
              !.tracked = [i \in DOMAIN g.tracked |-> Older(g.tracked[i])],
              !.released = IF g.waiting THEN 1 ELSE 0,
              !.press = IF g.press = Off THEN Off ELSE g.press - 1]

Tick ==
    /\ gh.two # "due"
    /\ gh.press # 0
    /\ Pass(Later(gh))
    /\ UNCHANGED <<down, touches, zoomed, mode>>

\* The zoom buttons of the tool tray, between touches.
ZoomStep ==
    /\ down = {}
    /\ zoomed' = ~zoomed
    /\ UNCHANGED <<down, touches, mode, gh, took>>

Init ==
    /\ down = {}
    /\ touches = 0
    /\ zoomed = FALSE
    /\ mode = "none"
    /\ gh = NewRecognizer
    /\ took = FALSE

Next ==
    \/ \E changed \in Changed : OnTouchStartCapture(changed)
    \/ \E changed \in Changed, far, apart \in BOOLEAN, ratio \in {mode = "pending", FALSE} :
          OnTouchMoveCapture(changed, far, apart, ratio)
    \/ \E changed \in Changed : OnTouchEndCapture(changed)
    \/ LongpressFires
    \/ TwoTouchFires
    \/ Tick
    \/ ZoomStep

Spec == Init /\ [][Next]_vars

-----------------------------------------------------------------------------
(* Properties.                                                             *)

\* Whatever the page keeps to itself and whenever the timers fire, the server
\* holds exactly the button of the drag or long press that is open, there is
\* one of them at most, and nothing is held once no finger is on the screen.
\* (gesturehandler.js _touchEnd and its timeouts, rfb.js _handleGesture.  A
\* two-finger drag, which holds nothing, may start and never end.)
ButtonFollowsGesture ==
    /\ gh.held \in {{}, {"left"}, {"right"}}
    /\ gh.held = {IF g = "drag" THEN "left" ELSE "right" : g \in gh.open \cap Solid}
    /\ down = {} => gh.held = {}

\* A recognizer that saw every event is ready for the next gesture when no
\* finger is left: no touch is tracked or ignored for ever, no timer is left to
\* fire, and it never threw ("A longpress gesture failed, conflict with a
\* different gesture").
ReadyAgain ==
    ~took => /\ ~gh.err
             /\ down = {} => /\ gh.state = Undecided
                             /\ gh.tracked = <<>> /\ NoneIgnored(gh)
                             /\ gh.press = Off /\ gh.two # "due" /\ ~gh.waiting

\* And it takes the next touch for a new one.  Does not hold: a timer that has
\* fired keeps its id (_twoTouchTimeout, _isTwoTouchTimeoutRunning), and the
\* next finger that is lifted is refused as if the timer were running.
AsNew == ~took /\ down = {} => gh.two = "off"
=============================================================================
