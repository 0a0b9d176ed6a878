------------------------------ MODULE Painting ------------------------------
(***************************************************************************)
(* Framebuffer updates (rfb.js) painted by the display, while the user     *)
(* moves and resizes the viewport.  An update is the sequence of drawing   *)
(* actions its rectangles decode to; images arrive when the browser has    *)
(* decoded them, in any order.                                             *)
(***************************************************************************)
EXTENDS Display, FiniteSets

CONSTANTS
    Width,         \* of the framebuffer, at first
    Updates,       \* the updates a server may send: sequences of actions
    Continuous,    \* TRUE when the server sends updates without being asked
    MaxUpdates,    \* bound: updates sent
    MaxMoves       \* bound: things the user does with the viewport

\* What a rectangle decodes to; an image gets its number when it arrives.
Rectangles ==
    [type : {"fill"}, x : Nat, w : Nat, color : Int]
        \cup [type : {"copy"}, old : Nat, x : Nat, w : Nat]
        \cup [type : {"img"}, x : Nat, w : Nat, color : Int, id : Nat]
        \cup [type : {"blit"}, x : Nat, w : Nat, color : Int, view : BOOLEAN]
        \cup [type : {"resize"}, w : Nat]

ASSUME PaintingAssumption ==
    /\ Width \in Nat \ {0}
    /\ Updates \subseteq Seq(Rectangles)
    /\ Continuous \in BOOLEAN
    /\ MaxUpdates \in Nat /\ MaxMoves \in Nat

VARIABLES
    screen,     \* the display
    loaded,     \* the images the browser has decoded
    rects,      \* what is left of the update being received
    within,     \* TRUE between the header and the end of an update
    flushing,   \* rfb.js: _flushing
    asked,      \* TRUE when the server owes an update
    sent,       \* updates sent
    moves,      \* things the user did
    ideal       \* history: the framebuffer as the server has it

paintVars == <<screen, loaded, rects, within, flushing, asked, sent, moves, ideal>>

\* ServerInit: the display is resized and the first update requested.
PaintInit ==
    /\ screen = Resize(NewDisplay, Width)
    /\ loaded = {}
    /\ rects = <<>>
    /\ within = FALSE
    /\ flushing = FALSE
    /\ asked = TRUE
    /\ sent = 0
    /\ moves = 0
    /\ ideal = Blank(Width)

\* Images are numbered by the update and the rectangle they come in.
Numbered(ops) ==
    [i \in DOMAIN ops |-> IF ops[i].type = "img" THEN [ops[i] EXCEPT !.id = <<sent, i>>]
                                                 ELSE ops[i]]

\* The end of an update: it is shown, and the next one is asked for.
FinishUpdate(e) ==
    /\ screen' = Flip(e)
    /\ within' = FALSE
    /\ asked' = TRUE

\* Mutant: the next update is not held back by images still to be drawn.
HoldNothing == FALSE

\* The header waits until everything drawn before has been rendered.
HoldBack == Pending(screen)

\* The header of an update.  An update without rectangles that had to wait for
\* the queue is forgotten when the wait is over.
FramebufferUpdate(ops) ==
    /\ ~within
    /\ asked \/ Continuous
    /\ sent < MaxUpdates
    /\ sent' = sent + 1
    /\ rects' = Numbered(ops)
    /\ IF HoldBack
       THEN /\ flushing' = TRUE
            /\ within' = (ops # <<>>)
            /\ asked' = FALSE
            /\ UNCHANGED screen
       ELSE /\ flushing' = FALSE
            /\ IF ops = <<>> THEN FinishUpdate(screen)
               ELSE within' = TRUE /\ asked' = FALSE /\ UNCHANGED screen
    /\ UNCHANGED <<loaded, moves, ideal>>

\* What the next rectangle makes of the display.
Decoded(a) == IF a.type = "resize" THEN Resize(screen, a.w) ELSE Draw(screen, a, loaded)

HandleRect ==
    /\ rects # <<>>
    /\ ~flushing
    /\ rects' = Tail(rects)
    /\ LET a == Head(rects)
       IN  /\ IF rects' = <<>> THEN FinishUpdate(Decoded(a))
              ELSE screen' = Decoded(a) /\ UNCHANGED <<within, asked>>
           /\ ideal' = IF a.type = "resize" THEN ResizeBack(ideal, a.w) ELSE Drawn(ideal, a)
    /\ UNCHANGED <<loaded, flushing, sent, moves>>

\* The images that have been created and not been decoded.
Decoding == {screen.q[i].id : i \in {j \in DOMAIN screen.q : screen.q[j].type = "img"}} \ loaded

\* Mutant: the end of the queue is never reported.
StillFlushing(e) == flushing

\* A queue that becomes empty ends the wait.
StaysFlushing(e) == flushing /\ Pending(e)

\* An image is there; the one at the head of the queue has a listener.
ImageLoads(id) ==
    /\ id \in Decoding
    /\ loaded' = loaded \cup {id}
    /\ LET head == screen.q[1].type = "img" /\ screen.q[1].id = id
           e == IF head THEN ScanRenderQ(screen, loaded') ELSE screen
       IN  /\ screen' = e
           /\ flushing' = StaysFlushing(e)
    /\ UNCHANGED <<rects, within, asked, sent, moves, ideal>>

\* What the user and the page do with the viewport.
MoveViewport(e) ==
    /\ moves < MaxMoves
    /\ moves' = moves + 1
    /\ screen' = e
    /\ UNCHANGED <<loaded, rects, within, flushing, asked, sent, ideal>>

Pan(delta) == screen.clip /\ MoveViewport(ViewportChangePos(screen, delta))
SetClip(width) == MoveViewport(ViewportChangeSize(ClipViewport(screen, TRUE), width))
ClearClip == screen.clip /\ MoveViewport(ClipViewport(screen, FALSE))

\* app.js forceRepaint: damages the viewport and shows it without waiting.
ForceRepaint == MoveViewport(FlipNow(Damage(screen, screen.x, screen.w)))

PaintNext ==
    \/ \E ops \in Updates : FramebufferUpdate(ops)
    \/ HandleRect
    \/ \E id \in Decoding : ImageLoads(id)
    \/ \E delta \in {-1, 1} : Pan(delta)
    \/ \E width \in 1 .. screen.fb : SetClip(width)
    \/ ClearClip
    \/ ForceRepaint

PaintSpec == PaintInit /\ [][PaintNext]_paintVars

-----------------------------------------------------------------------------
(* Properties.                                                             *)

\* The backbuffer after the drawing actions of a queue.
Painted(back, q) ==
    LET painted[k \in 0 .. Len(q)] ==
            IF k = 0 THEN back
            ELSE IF q[k].type = "flip" THEN painted[k - 1] ELSE Drawn(painted[k - 1], q[k])
    IN  painted[Len(q)]

\* The sizes a framebuffer can have.
Sizes ==
    {Width} \cup UNION {{ops[i].w : i \in {j \in DOMAIN ops : ops[j].type = "resize"}} : ops \in Updates}

\* Draws the same whatever the size: no copy, and inside every framebuffer.
Plain(a) == a.type = "flip" \/ (a.type # "copy" /\ \A v \in Sizes : a.x + a.w <= v)

\* What InOrder supposes of a server (display.js resize and blitImage, which do
\* not queue as they draw): what an update draws before it resizes is plain,
PlainBeforeResize ==
    \A ops \in Updates : \A i, j \in DOMAIN ops :
        i < j /\ ops[j].type = "resize" => ops[i].type = "resize" \/ Plain(ops[i])

\* and no pixels are taken from a view of the receive queue.
NoViews == \A ops \in Updates : \A i \in DOMAIN ops : ops[i].type = "blit" => ~ops[i].view

\* What has been drawn and what waits for images, in the order of the queue,
\* make up the framebuffer the server has: no action overtakes another
\* (display.js, "queue drawing actions for in-order rendering").
InOrder == Painted(screen.back, screen.q) = ideal

\* Between updates, with every image drawn, the screen shows the framebuffer:
\* no change is left unshown, however the viewport was moved and resized
\* meanwhile (display.js flip, _damage).
NothingUnshown ==
    ~within /\ ~Pending(screen) =>
        \A i \in 0 .. screen.w - 1 : screen.seen[i] = screen.back[screen.x + i]

\* At most one update's actions wait in the queue, however many the server
\* sends (rfb.js, "to avoid building up an excessive queue").
QueueBounded ==
    \A i, j \in DOMAIN screen.q : screen.q[i].type = "img" /\ screen.q[j].type = "img"
                               => screen.q[i].id[1] = screen.q[j].id[1]

\* Rectangles that were announced arrive, and the browser decodes the images.
RectsArrive == []<>(rects = <<>> \/ flushing)
ImagesLoad == []<>(Decoding = {})

\* An update that waited for images always goes on when they are there: the
\* client never stops asking for the next one (display.js flush, rfb.js
\* _flushing).
UpdatesEnd == RectsArrive /\ ImagesLoad => []<>(asked /\ ~Pending(screen))
=============================================================================
