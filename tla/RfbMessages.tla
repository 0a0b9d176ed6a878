---------------------------- MODULE RfbMessages -----------------------------
(***************************************************************************)
(* What noVNC (rfb.js) does with the messages of a connected server, as    *)
(* far as they have arrived.  A client is the record of Websock and        *)
(* Decoders with, beside their fields,                                     *)
(*   state   _rfbConnectionState                                           *)
(*   fbu     the update being received: rectangles left and the one begun  *)
(*   cont    _enabledContinuousUpdates; supCont: the server has them       *)
(*   caps    the extended clipboard's actions the server can do            *)
(*   log     history: what was dispatched to the page and what was sent    *)
(* viewOnly and resizeSession are off, as the page sets them, and the user *)
(* has pasted nothing, so the client has no text to provide.               *)
(***************************************************************************)
EXTENDS Decoders

EncRaw == 0
EncCopyRect == 1
EncRRE == 2
EncHextile == 5
EncTight == 7
EncZRLE == 16
EncJPEG == 21
EncTightPNG == -260
PseudoDesktopSize == -223
PseudoLastRect == -224
PseudoCursor == -239
PseudoExtKeyEvent == -258
PseudoLed == -261
PseudoName == -307
PseudoExtDesktopSize == -308
PseudoVMwareCursor == 1464686180

NoRect == [rects |-> 0, x |-> 0, y |-> 0, w |-> 0, h |-> 0, enc |-> None]

Effect(c, what, v) == [c EXCEPT !.log = Append(@, <<what, v>>)]

\* "Print errors and disconnect".
Fail(c) ==
    [(IF c.state = "disconnected" THEN c ELSE Effect(c, "disconnect", <<>>))
       EXCEPT !.state = "disconnected", !.ret = FALSE]

FbOf(w, h) == (0 .. w - 1) \X (0 .. h - 1)
Width(c) == IF c.fb = <<>> THEN 0 ELSE Max({p[1] : p \in DOMAIN c.fb}) + 1

-----------------------------------------------------------------------------
(* Pseudo rectangles.                                                      *)

\* The framebuffer keeps what fits; the server is told when it sends updates
\* by itself.
ResizeFb(c, w, h) ==
    LET r == Effect([c EXCEPT !.fb = [p \in FbOf(w, h) |-> IF p \in DOMAIN @ THEN @[p] ELSE Black]],
                    "resize", <<w, h>>)
    IN  IF c.cont THEN Effect(r, "EnableContinuousUpdates", <<w, h>>) ELSE r

\* rgba: four numbers a pixel.  A cursor nobody would see is shown as a dot.
UpdateCursor(c, rgba) ==
    Effect(c, "cursor", IF \A k \in DOMAIN rgba : rgba[k][4] = 0 THEN <<"dot">> ELSE rgba)

VMwarePixel(and, xor) ==
    IF and = <<0, 0, 0, 0>> THEN <<xor[3], xor[2], xor[1], 255>>
    ELSE IF SubSeq(and, 1, 3) = <<255, 255, 255>> /\ xor = <<0, 0, 0, 0>> THEN <<0, 0, 0, 0>>
    ELSE <<0, 0, 0, 255>>

\* One byte is waited for and two are read; the next wait makes up for it.
HandleVMwareCursor(c, r) ==
    LET n == r.w * r.h
        s == Skip(c, 2)
        P(at) == Bytes(s, at, 4)
    IN  IF Wait(c, 1) THEN No(c)
        ELSE CASE U8(c, 0) = 0 ->
                    IF Wait(s, n * 8) THEN Back(s, 2)
                    ELSE Yes(UpdateCursor(Skip(s, n * 8),
                                          [k \in 1 .. n |-> VMwarePixel(P(4 * (k - 1)), P(4 * (n + k - 1)))]))
               [] U8(c, 0) = 1 ->
                    IF Wait(s, n * 4) THEN Back(s, 2)
                    ELSE Yes(UpdateCursor(Skip(s, n * 4), [k \in 1 .. n |-> P(4 * (k - 1))]))
               [] OTHER -> No(s)

HandleCursor(c, r) ==
    LET n == r.w * r.h
        maskRow == (r.w + 7) \div 8
        bytes == n * 4 + maskRow * r.h
        Alpha(k) == LET x == (k - 1) % r.w
                        byte == U8(c, n * 4 + ((k - 1) \div r.w) * maskRow + (x \div 8))
                    IN  IF Bit(byte, 2 ^ (7 - (x % 8))) THEN 255 ELSE 0
        Px(k) == <<U8(c, 4 * k - 2), U8(c, 4 * k - 3), U8(c, 4 * k - 4), Alpha(k)>>
    IN  IF Wait(c, bytes) THEN No(c)
        ELSE Yes(Skip(UpdateCursor(c, [k \in 1 .. n |-> Px(k)]), bytes))

HandleDesktopName(c) ==
    LET length == S32(c, 0)
    IN  IF Wait(c, 4) THEN No(c)
        ELSE IF Wait(c, 4 + length) THEN Back(Skip(c, 4), 4)
        ELSE Yes(Skip(Effect(c, "name", Bytes(c, 4, length)), 4 + length))

HandleLedEvent(c) ==
    IF Wait(c, 1) THEN No(c)
    ELSE Yes(Skip(Effect(c, "leds", <<U8(c, 0) \div 2>>), 1))

\* What the server says of a resize this client asked for is only logged.
HandleExtendedDesktopSize(c, r) ==
    LET bytes == 4 + U8(c, 0) * 16
        s == Skip(c, bytes)
    IN  IF Wait(c, 4) \/ Wait(c, bytes) THEN No(c)
        ELSE Yes(IF r.x = 1 /\ r.y # 0 THEN s ELSE ResizeFb(s, r.w, r.h))

-----------------------------------------------------------------------------
(* Updates.                                                                *)

HandleDataRect(c, r) ==
    LET Caught(d) == IF d.failed THEN Fail(d) ELSE d
    IN  Caught(CASE r.enc = EncRaw -> DecodeRaw(c, r)
                 [] r.enc = EncCopyRect -> DecodeCopyRect(c, r)
                 [] r.enc = EncRRE -> DecodeRRE(c, r)
                 [] r.enc = EncHextile -> DecodeHextile(c, r)
                 [] r.enc \in {EncTight, EncTightPNG} ->
                      DecodeTight(c, IF r.enc = EncTight THEN "tight" ELSE "png", r)
                 [] r.enc = EncZRLE -> DecodeZRLE(c, r)
                 [] r.enc = EncJPEG -> DecodeJPEG(c, r)
                 [] OTHER -> Throw(c))

HandleRect(c) ==
    LET r == c.fbu
    IN  CASE r.enc = PseudoLastRect -> Yes([c EXCEPT !.fbu.rects = 1])
          [] r.enc = PseudoVMwareCursor -> HandleVMwareCursor(c, r)
          [] r.enc = PseudoCursor -> HandleCursor(c, r)
          [] r.enc = PseudoExtKeyEvent -> Yes(Effect(c, "qemuKeys", <<>>))
          [] r.enc = PseudoName -> HandleDesktopName(c)
          [] r.enc = PseudoDesktopSize -> Yes(ResizeFb(c, r.w, r.h))
          [] r.enc = PseudoExtDesktopSize -> HandleExtendedDesktopSize(c, r)
          [] r.enc = PseudoLed -> HandleLedEvent(c)
          [] OTHER -> HandleDataRect(c, r)

RectHeader(c) ==
    IF c.fbu.enc # None THEN c
    ELSE [Skip(c, 12) EXCEPT !.fbu = [rects |-> @.rects, x |-> U16(c, 0), y |-> U16(c, 2),
                                      w |-> U16(c, 4), h |-> U16(c, 6), enc |-> S32(c, 8)]]

\* The next rectangle, or what is left of it.
NextRect(c) ==
    LET Finish(h) ==
            IF ~h.ret THEN h
            ELSE [h EXCEPT !.fbu = IF @.rects = 1 THEN NoRect
                                   ELSE [@ EXCEPT !.rects = @ - 1, !.enc = None]]
    IN  IF c.fbu.enc = None /\ Wait(c, 12) THEN No(c) ELSE Finish(HandleRect(RectHeader(c)))

\* The rectangles left, as far as they have arrived.
Rects(c) ==
    LET Shown(s) == IF s.ret THEN Effect(s, "shown", s.fb) ELSE s
    IN  Shown(While(LAMBDA s : s.ret /\ s.fbu.rects > 0, NextRect, c.fbu.rects, Yes(c)))

\* The wait for images that are still to be drawn is in Painting.
FramebufferUpdate(c) ==
    IF c.fbu.rects = 0 /\ Wait(c, 3) THEN Back(c, 1)
    ELSE Rects(IF c.fbu.rects > 0 THEN c ELSE [Skip(c, 3) EXCEPT !.fbu.rects = U16(c, 1)])

-----------------------------------------------------------------------------
(* Other messages.                                                         *)

ActCaps == 1
ActRequest == 2
ActPeek == 4
ActNotify == 8
ActProvide == 16
FormatText == 1

\* Each format of the flags is its size, then its data.  Text is the first,
\* and the only one that is used.
Unpack(in) == SubSeq(in, 5, 4 + in[4])

WithoutNul(text) == IF text # <<>> /\ Last(text) = 0 THEN Front(text) ELSE text

\* The message's flags are at offset 0, its length is that of all its data.
ExtendedClipboard(c, length) ==
    LET actions == U8(c, 0)
        formats == U8(c, 3)
        numFormats == Cardinality({k \in 0 .. 7 : Bit(formats, 2 ^ k)})
        all == Yes(Skip(c, 4))
        inflator == SetInput(Inflator, Bytes(c, 4, length - 4))
    IN  CASE Bit(actions, ActCaps) ->
               Effect([Skip(all, 4 * numFormats) EXCEPT !.caps = actions], "clipboardCaps", <<>>)
          [] actions = ActRequest -> all
          [] actions = ActPeek ->
               IF Bit(c.caps, ActNotify) THEN Effect(all, "clipboardNotify", <<>>) ELSE all
          [] actions = ActNotify ->
               IF Bit(c.caps, ActRequest) /\ Bit(formats, FormatText)
               THEN Effect(all, "clipboardRequest", <<>>) ELSE all
          [] actions = ActProvide ->
               IF ~Bit(formats, FormatText) THEN all
               ELSE Effect(Skip(all, length - 4), "clipboard",
                           WithoutNul(Unpack(inflator.in)))
          [] OTHER -> Fail(all)

HandleServerCutText(c) ==
    LET length == S32(c, 3)
        size == IF length < 0 THEN -length ELSE length
        s == Skip(c, 7)
    IN  IF Wait(c, 7) THEN Back(c, 1)
        ELSE IF Wait(s, size) THEN Back(s, 8)
        ELSE IF length < 0 THEN ExtendedClipboard(s, size)
        ELSE Yes(Skip(Effect(s, "clipboard", Bytes(s, 0, size)), size))

\* The reply keeps the flags the client honours: BlockBefore and BlockAfter.
HandleServerFence(c) ==
    LET length == U8(c, 7)
        s == Skip(c, 8)
        kept == Min({length, 64})
    IN  IF Wait(c, 8) THEN Back(c, 1)
        ELSE IF Wait(s, length) THEN Back(s, 9)
        ELSE IF U8(c, 3) < 128 THEN Fail(Skip(s, kept))
        ELSE Yes(Skip(Effect(s, "fence", <<U8(c, 6) % 4>> \o Bytes(s, 0, kept)), kept))

\* An illegal message fails, and what follows it is read all the same.
HandleXvp(c) ==
    LET s == Skip(c, 3)
    IN  IF Wait(c, 3) THEN Back(c, 1)
        ELSE CASE U8(c, 2) = 0 -> Yes(s)
               [] U8(c, 2) = 1 -> Yes(Effect(s, "power", <<U8(c, 1)>>))
               [] OTHER -> Yes(Fail(s))

EndOfContinuousUpdates(c) ==
    IF c.supCont THEN Yes([c EXCEPT !.cont = FALSE])
    ELSE Yes(Effect([c EXCEPT !.supCont = TRUE, !.cont = TRUE], "EnableContinuousUpdates",
                    <<Width(c), Cardinality(DOMAIN c.fb) \div Width(c)>>))

RequestUpdate(c) == IF c.ret /\ ~c.cont THEN Effect(c, "FramebufferUpdateRequest", <<>>) ELSE c

NormalMsg(c) ==
    LET type == IF c.fbu.rects > 0 THEN 0 ELSE U8(c, 0)
        s == IF c.fbu.rects > 0 THEN c ELSE Skip(c, 1)
    IN  CASE type = 0 -> RequestUpdate(FramebufferUpdate(s))
          [] type = 1 -> Fail(s)
          [] type = 2 -> Yes(Effect(s, "bell", <<>>))
          [] type = 3 -> HandleServerCutText(s)
          [] type = 150 -> EndOfContinuousUpdates(s)
          [] type = 248 -> HandleServerFence(s)
          [] type = 250 -> HandleXvp(s)
          [] OTHER -> Yes(Fail(s))

\* Messages as long as there are bytes; after the first, which may be the end
\* of an update, each of them has a byte or more.
AllMessages(c) ==
    While(LAMBDA m : m.ret /\ ~Wait(m, 1), NormalMsg, Unread(c), NormalMsg(c))
=============================================================================
