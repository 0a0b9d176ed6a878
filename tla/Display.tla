------------------------------ MODULE Display -------------------------------
(***************************************************************************)
(* noVNC's display (display.js) as functions of a record, in one           *)
(* dimension: a framebuffer kept in a hidden canvas (back), the window of  *)
(* it the visible canvas shows (viewport x, w and its pixels, seen), the   *)
(* range that has changed since it was last shown (left, right), and the   *)
(* drawing actions that wait for an image (q).                             *)
(*                                                                         *)
(* A pixel is a number, 0 when nothing was drawn.                          *)
(***************************************************************************)
EXTENDS Integers, Sequences

Far == 65535                   \* beyond every pixel: no damage
Blank(n) == [i \in 0 .. n - 1 |-> 0]

NewDisplay ==
    [fb |-> 0, back |-> Blank(0), x |-> 0, w |-> 0, seen |-> Blank(0), clip |-> FALSE,
     left |-> Far, right |-> 0, q |-> <<>>]

-----------------------------------------------------------------------------
(* Showing.                                                                *)

Damage(d, x, w) ==
    [d EXCEPT !.left = IF x < @ THEN x ELSE @,
              !.right = IF x + w > @ THEN x + w ELSE @]

\* The damaged part of the viewport is copied to the visible canvas.
FlipNow(d) ==
    [d EXCEPT !.seen = [i \in 0 .. d.w - 1 |->
                          LET p == d.x + i
                          IN  IF d.left <= p /\ p < d.right /\ p < d.fb THEN d.back[p] ELSE @[i]],
              !.left = Far, !.right = 0]

\* Mutant: what is shown does not wait for what is drawn.
FlipAtOnce(d) == FlipNow(d)

Flip(d) == IF d.q # <<>> THEN [d EXCEPT !.q = Append(@, [type |-> "flip"])] ELSE FlipNow(d)

\* delta is already rounded down.
ViewportChangePos(d, delta) ==
    LET dx1 == IF d.clip THEN delta ELSE -d.w
        dx2 == IF dx1 < 0 /\ d.x + dx1 < 0 THEN -d.x ELSE dx1
        over == d.x + d.w - 1 + dx2 - d.fb + 1
        dx == IF over > 0 THEN dx2 - over ELSE dx2
    IN  IF dx = 0 THEN d
        ELSE Flip(Damage([d EXCEPT !.x = @ + dx], d.x + dx, d.w))

\* A canvas that changes its size is cleared.
ViewportChangeSize(d, width) ==
    LET want == IF d.clip /\ width <= d.fb THEN width ELSE d.fb
        grown == ViewportChangePos([d EXCEPT !.w = want, !.seen = Blank(want)], 0)
    IN  IF d.w = want THEN d ELSE Flip(Damage(grown, grown.x, grown.w))

ClipViewport(d, clip) ==
    ViewportChangePos(ViewportChangeSize([d EXCEPT !.clip = clip], d.w), 0)

\* The backbuffer keeps what still fits.
ResizeBack(back, width) ==
    [i \in 0 .. width - 1 |-> IF i \in DOMAIN back THEN back[i] ELSE 0]

Resize(d, width) ==
    LET r == [d EXCEPT !.fb = width, !.back = ResizeBack(@, width)]
    IN  ViewportChangePos(ViewportChangeSize(r, r.w), 0)

-----------------------------------------------------------------------------
(* Drawing: an action a has a type and its numbers.                        *)

Fill(x, w, color) == [type |-> "fill", x |-> x, w |-> w, color |-> color]
Copy(old, x, w) == [type |-> "copy", old |-> old, x |-> x, w |-> w]
Img(x, w, color, id) == [type |-> "img", x |-> x, w |-> w, color |-> color, id |-> id]
\* view: the pixels are a window into the receive queue's buffer.
Blit(x, w, color, view) ==
    [type |-> "blit", x |-> x, w |-> w, color |-> color, view |-> view]

Wrong == -1                    \* pixels of some other place in that buffer

\* What drawing a does to the backbuffer.
Drawn(back, a) ==
    [i \in DOMAIN back |->
       IF i < a.x \/ i >= a.x + a.w THEN back[i]
       ELSE IF a.type # "copy" THEN a.color
       ELSE LET from == a.old + i - a.x
            IN  IF from \in DOMAIN back THEN back[from] ELSE back[i]]

DrawNow(d, a) ==
    IF a.type = "flip" THEN FlipNow(d)
    ELSE Damage([d EXCEPT !.back = Drawn(@, a)], a.x, a.w)

\* Draws the head of the queue, unless it is an image that is not there yet.
DrawHead(d, loaded) ==
    LET a == Head(d.q)
    IN  IF d.q = <<>> THEN d
        ELSE IF a.type = "img" /\ a.id \notin loaded THEN d
        ELSE [DrawNow(d, a) EXCEPT !.q = Tail(@)]

\* Draws from the head of the queue until an image is not there yet.
ScanRenderQ(d, loaded) ==
    LET scan[k \in 0 .. Len(d.q)] == IF k = 0 THEN d ELSE DrawHead(scan[k - 1], loaded)
    IN  scan[Len(d.q)]

RenderQPush(d, a, loaded) ==
    LET pushed == [d EXCEPT !.q = Append(@, a)]
    IN  IF Len(pushed.q) = 1 THEN ScanRenderQ(pushed, loaded) ELSE pushed

\* A queued blit is copied from the start of the buffer, not of the view.
Queued(a) == IF a.type = "blit" /\ a.view THEN [a EXCEPT !.color = Wrong] ELSE a

\* Mutant: what needs no image does not wait for the ones that do.
DrawUnqueued(d, a, loaded) ==
    IF a.type = "img" THEN RenderQPush(d, a, loaded) ELSE DrawNow(d, a)

\* fillRect, copyImage, blitImage and imageRect; an empty image is dropped.
Draw(d, a, loaded) ==
    CASE a.type = "img" /\ a.w = 0 -> d
      [] a.type = "img" /\ a.w # 0 -> RenderQPush(d, a, loaded)
      [] OTHER -> IF d.q # <<>> THEN RenderQPush(d, Queued(a), loaded) ELSE DrawNow(d, a)

Pending(d) == d.q # <<>>
=============================================================================
