----------------------------- MODULE WebConsole -----------------------------
(***************************************************************************)
(* The web page (app.js) with the RFB objects it makes one after another   *)
(* (rfb.js, websock.js): connecting, losing the connection, reconnecting   *)
(* and disconnecting, and what becomes of the mouse, of noVNC's capture of *)
(* it (util/events.js) and of the drag lock while that goes on.            *)
(*                                                                         *)
(* Browser, network and server are external: they open and close sockets,  *)
(* fire timers and deliver the user's events in any order.  The handlers   *)
(* call each other, so they are operators on the state of the page, w.     *)
(***************************************************************************)
EXTENDS Integers, Sequences, FiniteSets

CONSTANTS
    Buttons,      \* the buttons of the user's mouse: 0 left, 2 right
    Places,       \* where on the canvas the mouse can be; 0 is its centre
    MaxSessions,  \* bound: RFB objects made
    MaxInput      \* bound: mouse events, taps and turns of the wheel

ASSUME ConsoleAssumption ==
    /\ Buttons \subseteq {0, 2} /\ 0 \notin Places
    /\ MaxSessions \in Nat \ {0} /\ MaxInput \in Nat

VARIABLES
    w,        \* the page
    pressed,  \* history: the buttons the user has pressed on the canvas and holds
    loose,    \* history: of those, the ones held when the release of another
              \* ended their capture
    stuck,    \* history: loose ones released beside the canvas, <<session, button>>
    input     \* counts the user's events

hands == <<pressed, loose, stuck>>
vars == <<w, hands, input>>

\* state: _rfbConnectionState; sock: readyState; onclose: the handler is kept;
\* dtimer: _disconnTimer; mask, pos, mtimer: _mouseButtonMask, _mousePos and
\* _mouseMoveTimer; wheel: _accumulatedWheelDeltaY in half steps; sent: the
\* last pointer event, <<pos, mask>>; at (history): where the last event was.
NewRFB ==
    [state |-> "connecting", sock |-> "connecting", onclose |-> TRUE, dtimer |-> FALSE,
     mask |-> {}, pos |-> 0, mtimer |-> FALSE, wheel |-> 0, sent |-> <<>>, at |-> 0]

\* rfbs: every RFB object made, the page's is the last; user: userDisconnected;
\* timer: reconnectTimer; visible: visibilityState; capture: the object whose
\* canvas is the captureElement, 0 for none; locked: dragLocked.
Init ==
    /\ w = [rfbs |-> <<NewRFB>>, user |-> FALSE, timer |-> FALSE, visible |-> TRUE,
            capture |-> 0, locked |-> FALSE]
    /\ pressed = {} /\ loose = {} /\ stuck = {}
    /\ input = 0

Cur == Len(w.rfbs)
Alive(r) == r.state \in {"connecting", "connected"}

-----------------------------------------------------------------------------
(* Losing a connection.                                                    *)

\* Mutant: nothing is scheduled while the page is hidden.
ScheduleWhenSeen(p) == IF p.user \/ ~p.visible THEN p ELSE [p EXCEPT !.timer = TRUE]

ScheduleReconnect(p) == IF p.user THEN p ELSE [p EXCEPT !.timer = TRUE]

\* _disconnect: the canvas loses its handlers and leaves the page.
Teardown(p, i) ==
    [p EXCEPT !.rfbs[i].sock = IF @ \in {"connecting", "open"} THEN "closing" ELSE @,
              !.rfbs[i].mtimer = FALSE]

\* _updateConnectionState, for the transitions it allows; the page listens to
\* the last one.
UpdateConnectionState(p, i, state) ==
    LET r == p.rfbs[i]
        Set(q) == [q EXCEPT !.rfbs[i].state = state]
    IN  CASE state = "connected" /\ r.state = "connecting" -> Set(p)
          [] state = "disconnecting" /\ Alive(r) -> [Teardown(Set(p), i) EXCEPT !.rfbs[i].dtimer = TRUE]
          [] state = "disconnected" /\ r.state = "disconnecting" ->
               ScheduleReconnect([Set(p) EXCEPT !.rfbs[i].dtimer = FALSE,
                                                !.rfbs[i].onclose = @ /\ ~r.dtimer])
          [] OTHER -> p

Fail(p, i) ==
    UpdateConnectionState(UpdateConnectionState(p, i, "disconnecting"), i, "disconnected")

SocketClose(p, i) ==
    LET closed == [p EXCEPT !.rfbs[i].sock = "closed"]
        next == CASE p.rfbs[i].state \in {"connecting", "connected"} -> Fail(closed, i)
                  [] p.rfbs[i].state = "disconnecting" -> UpdateConnectionState(closed, i, "disconnected")
                  [] OTHER -> closed
    IN  IF p.rfbs[i].onclose THEN [next EXCEPT !.rfbs[i].onclose = FALSE] ELSE closed

\* The page tears down what it has and begins anew.
StartVNC(p) ==
    LET q == UpdateConnectionState(p, Len(p.rfbs), "disconnecting")
    IN  [q EXCEPT !.rfbs = Append(@, NewRFB)]

-----------------------------------------------------------------------------
(* Actions on connections.                                                 *)

Page(p) == w' = p /\ UNCHANGED <<hands, input>>

SocketOpen(i) ==
    /\ w.rfbs[i].sock = "connecting"
    /\ Page([w EXCEPT !.rfbs[i].sock = "open"])

\* The handshake is done.
Connected(i) ==
    /\ w.rfbs[i].sock = "open" /\ w.rfbs[i].state = "connecting"
    /\ Page(UpdateConnectionState(w, i, "connected"))

\* A message that cannot be handled.
Failed(i) ==
    /\ w.rfbs[i].sock = "open" /\ Alive(w.rfbs[i])
    /\ Page(Fail(w, i))

\* The browser tells that the socket has closed, for whatever reason.
SocketClosed(i) ==
    /\ w.rfbs[i].sock # "closed"
    /\ Page(SocketClose(w, i))

DisconnectTimeout(i) ==
    /\ w.rfbs[i].dtimer
    /\ Page(UpdateConnectionState(w, i, "disconnected"))

Reconnect ==
    /\ w.timer /\ Cur < MaxSessions
    /\ Page(StartVNC([w EXCEPT !.timer = FALSE]))

\* Mutant: the timer is left running.
Retry(p) == StartVNC(p)

\* A page that becomes visible does not wait any longer.
RetryNow(p) == StartVNC([p EXCEPT !.timer = FALSE])

VisibilityChange ==
    LET p == [w EXCEPT !.visible = ~@]
    IN  /\ Cur < MaxSessions
        /\ Page(IF p.visible /\ ~p.user /\ p.timer THEN RetryNow(p) ELSE p)

\* Mutant: a reconnection that was scheduled still happens.
UserLeaves(p) == UpdateConnectionState([p EXCEPT !.user = TRUE], Len(p.rfbs), "disconnecting")

ClickDisconnect(p) ==
    UpdateConnectionState([p EXCEPT !.user = TRUE, !.timer = FALSE], Len(p.rfbs), "disconnecting")

UserDisconnect ==
    /\ ~w.user
    /\ Page(ClickDisconnect(w))

-----------------------------------------------------------------------------
(* The mouse on the canvas of object i.                                    *)

SendMouse(p, i, pos, mask) ==
    IF p.rfbs[i].state # "connected" THEN p ELSE [p EXCEPT !.rfbs[i].sent = <<pos, mask>>]

\* A move that waits is sent first.
HandleMouseButton(p, i, pos, down, button) ==
    LET r == p.rfbs[i]
        flushed == IF r.mtimer THEN SendMouse([p EXCEPT !.rfbs[i].mtimer = FALSE], i, pos, r.mask) ELSE p
        mask == IF down THEN r.mask \cup {button} ELSE r.mask \ {button}
    IN  SendMouse([flushed EXCEPT !.rfbs[i].mask = mask, !.rfbs[i].at = pos], i, pos, mask)

\* soon: the last move was sent less than MOUSE_MOVE_DELAY ago.
HandleMouseMove(p, i, pos, soon) ==
    LET q == [p EXCEPT !.rfbs[i].pos = pos, !.rfbs[i].at = pos]
    IN  IF p.rfbs[i].mtimer THEN q
        ELSE IF soon THEN [q EXCEPT !.rfbs[i].mtimer = TRUE]
        ELSE SendMouse(q, i, pos, p.rfbs[i].mask)

\* Mutant: the delayed event is sent without the buttons.
DelayedBare(p, i) == SendMouse([p EXCEPT !.rfbs[i].mtimer = FALSE], i, p.rfbs[i].pos, {})

HandleDelayedMouseMove(p, i) ==
    SendMouse([p EXCEPT !.rfbs[i].mtimer = FALSE], i, p.rfbs[i].pos, p.rfbs[i].mask)

\* Mutant: the mouse is not captured.
NoCapture(p, i) == p

SetCapture(p, i) == [p EXCEPT !.capture = i]

\* An event dispatched to the canvas of object i; one that has been torn down
\* has no handlers.  What the handlers get does not reach the window.
CanvasDown(p, i, pos, button) ==
    IF Alive(p.rfbs[i]) THEN HandleMouseButton(SetCapture(p, i), i, pos, TRUE, button) ELSE p
CanvasUp(p, i, pos, button) ==
    IF Alive(p.rfbs[i]) THEN HandleMouseButton(p, i, pos, FALSE, button) ELSE p
CanvasMove(p, i, pos, soon) ==
    IF Alive(p.rfbs[i]) THEN HandleMouseMove(p, i, pos, soon) ELSE p

\* What covers the page while the mouse is captured hands a release on to the
\* canvas and ends the capture.  It knows nothing of presses.
CaptureUp(p, pos, button) ==
    [CanvasUp(p, p.capture, pos, button) EXCEPT !.capture = 0]

\* Half steps of the wheel: two make a click of button 3 (up) or 4 (down).
HandleWheel(p, i, pos, delta) ==
    LET acc == p.rfbs[i].wheel + delta
        button == IF acc < 0 THEN 3 ELSE 4
        q == [p EXCEPT !.rfbs[i].wheel = IF acc \in {-2, 2} THEN 0 ELSE acc]
    IN  IF p.rfbs[i].state # "connected" THEN p
        ELSE IF acc \in {-2, 2}
        THEN HandleMouseButton(HandleMouseButton(q, i, pos, TRUE, button), i, pos, FALSE, button)
        ELSE q

-----------------------------------------------------------------------------
(* Actions of the user with a mouse or a finger.                           *)

Canvas == Alive(w.rfbs[Cur])
Uncovered == w.capture = 0
Input(p, held) == input < MaxInput /\ input' = input + 1 /\ w' = p /\ pressed' = held

MouseDown(button, pos) ==
    /\ Canvas /\ button \notin pressed
    /\ Input(IF Uncovered THEN CanvasDown(w, Cur, pos, button) ELSE w, pressed \cup {button})
    /\ loose' = IF Uncovered THEN {} ELSE loose
    /\ stuck' = stuck \ {<<Cur, button>>}

\* inside: over the canvas.
MouseUp(button, pos, inside) ==
    /\ button \in pressed
    /\ Input(IF ~Uncovered THEN CaptureUp(w, pos, button)
             ELSE IF inside THEN CanvasUp(w, Cur, pos, button) ELSE w, pressed \ {button})
    /\ loose' = (IF Uncovered THEN loose ELSE pressed) \ {button}
    /\ stuck' = IF Uncovered /\ ~inside /\ button \in loose
                THEN stuck \cup {<<Cur, button>>} ELSE stuck

\* With the mouse, or with a finger while the drag is locked.
MouseMove(pos, soon) ==
    /\ Canvas
    /\ Input(CanvasMove(w, IF Uncovered THEN Cur ELSE w.capture, pos, soon), pressed)
    /\ UNCHANGED <<loose, stuck>>

Wheel(pos, delta) ==
    /\ Canvas /\ Uncovered
    /\ Input(HandleWheel(w, Cur, pos, delta), pressed)
    /\ UNCHANGED <<loose, stuck>>

MouseMoveTimer(i) ==
    /\ w.rfbs[i].mtimer
    /\ Page(HandleDelayedMouseMove(w, i))

\* The right-click button: a press and a release in the middle of the canvas.
TapRight ==
    /\ Canvas /\ Uncovered
    /\ Input(CanvasUp(CanvasDown(w, Cur, 0, 2), Cur, 0, 2), pressed)
    /\ loose' = loose /\ stuck' = stuck \ {<<Cur, 2>>}

\* The drag-lock button.
TapDrag ==
    /\ Canvas /\ Uncovered
    /\ Input([(IF w.locked THEN CanvasUp(w, Cur, 0, 0) ELSE CanvasDown(w, Cur, 0, 0))
                EXCEPT !.locked = ~@], pressed)
    /\ loose' = loose /\ stuck' = stuck \ {<<Cur, 0>>}

\* A finger that taps, wherever: what covers the page gets its mouse events,
\* a move, a press and a release.
TapCovered(pos, soon) ==
    /\ ~Uncovered /\ pressed = {}
    /\ Input(CaptureUp(CanvasMove(w, w.capture, pos, soon), pos, 0), pressed)
    /\ loose' = loose /\ stuck' = stuck \ {<<Cur, 0>>}

Next ==
    \/ \E i \in 1 .. Cur :
          \/ SocketOpen(i) \/ Connected(i) \/ Failed(i) \/ SocketClosed(i)
          \/ DisconnectTimeout(i) \/ MouseMoveTimer(i)
    \/ Reconnect \/ VisibilityChange \/ UserDisconnect
    \/ \E pos \in Places :
          \/ \E b \in Buttons : MouseDown(b, pos) \/ \E in \in BOOLEAN : MouseUp(b, pos, in)
          \/ \E soon \in BOOLEAN : MouseMove(pos, soon) \/ TapCovered(pos, soon)
          \/ \E delta \in {-1, 1} : Wheel(pos, delta)
    \/ TapRight \/ TapDrag

Spec == Init /\ [][Next]_vars

-----------------------------------------------------------------------------
(* Properties.                                                             *)

Spots == Places \cup {0}
Masks == SUBSET (0 .. 4)
RFBs ==
    [state : {"connecting", "connected", "disconnecting", "disconnected"},
     sock : {"connecting", "open", "closing", "closed"}, onclose : BOOLEAN, dtimer : BOOLEAN,
     mask : Masks, pos : Spots, mtimer : BOOLEAN, wheel : Int,
     sent : {<<>>} \cup (Spots \X Masks), at : Spots]

Pages ==
    [rfbs : Seq(RFBs), user : BOOLEAN, timer : BOOLEAN, visible : BOOLEAN,
     capture : Nat, locked : BOOLEAN]

\* The page always has an RFB object, and what is captured is one's canvas.
TypeOK ==
    /\ w \in Pages /\ Cur >= 1 /\ w.capture <= Cur
    /\ pressed \subseteq Buttons /\ loose \subseteq Buttons
    /\ stuck \subseteq Nat \X Buttons
    /\ input \in Nat

\* However disconnect events, their time limit, the reconnect timer and the
\* page's visibility interleave, the page never has two sessions at a time,
\* and none while it waits to begin another (which would cut it off).
OneSession ==
    /\ Cardinality({i \in 1 .. Cur : Alive(w.rfbs[i])}) <= 1
    /\ w.timer => \A i \in 1 .. Cur : w.rfbs[i].state = "disconnected"

\* After Disconnect no session begins, whatever was scheduled before.
StaysDisconnected == [][w.user => Cur' = Cur]_vars

\* A session that is lost is followed by another, unless the user ended it,
\* as long as timers fire and sockets that are closed report it.
Comebacks ==
    /\ []<>(~w.timer \/ Cur = MaxSessions)
    /\ \A i \in 1 .. MaxSessions :
          []<>(i > Cur \/ (w.rfbs[i].sock # "closing" /\ ~w.rfbs[i].dtimer))
    => \A n \in 1 .. MaxSessions - 1 :
          (Cur = n /\ ~Alive(w.rfbs[n])) ~> (Cur > n \/ w.user)

\* A button the server holds down is one the user holds, or the drag lock's, or
\* in this session went up beside the canvas after the release of another had
\* ended its capture (events.js _captureProxy): reconnections, wheel clicks,
\* moves that are sent late and any other capture never leave one behind.
NothingHeld ==
    LET r == w.rfbs[Cur]
    IN  (r.state = "connected" /\ r.sent # <<>>) =>
            r.sent[2] \subseteq pressed \cup (IF w.locked THEN {0} ELSE {})
                                       \cup {b \in Buttons : <<Cur, b>> \in stuck}

\* The same without that exception (events.js, "keep tracking if it happens to
\* leave the viewport").  Does not hold.
CaptureHolds ==
    LET r == w.rfbs[Cur]
    IN  (r.state = "connected" /\ r.sent # <<>>) =>
            r.sent[2] \subseteq pressed \cup (IF w.locked THEN {0} ELSE {})

\* Once no move waits to be sent, the server has been told where the
\* mouse was last and which buttons noVNC holds.
PointerFollows ==
    \A i \in 1 .. Cur :
        LET r == w.rfbs[i]
        IN  (r.state = "connected" /\ ~r.mtimer /\ r.sent # <<>>) => r.sent = <<r.at, r.mask>>

\* docs/android-client.md: the drag lock holds the left button down, until
\* it is tapped again.
DragLockHolds ==
    LET r == w.rfbs[Cur]
    IN  (w.locked /\ r.state = "connected" /\ r.sent # <<>>) => 0 \in r.sent[2]
=============================================================================
