----------------------------- MODULE RfbServer ------------------------------
(***************************************************************************)
(* The server's side of the protocol, as the client's code relies on it.   *)
(* Nothing here is in the repository: a server is external.                *)
(*                                                                         *)
(* What a server says is a sequence of parts (messages, the header of an   *)
(* update, its rectangles); a part is [bytes, does]: how it is encoded and *)
(* what it means, a sequence of <<what, value>>.  A view is what a client  *)
(* that understands every part has made of them: its framebuffer fb, what  *)
(* it has told the page and the server (log), and whether the server sends *)
(* updates by itself (cont) or has said that it can (sup).                 *)
(***************************************************************************)
EXTENDS RfbMessages

Part(bytes, does) == [bytes |-> bytes, does |-> does]

NewView(fb) == [fb |-> fb, log |-> <<>>, cont |-> FALSE, sup |-> FALSE]

Tell(v, what, value) == [v EXCEPT !.log = Append(@, <<what, value>>)]

\* What one meaning makes of a view.
Does(v, what, value) ==
    CASE what = "draw" ->
           [v EXCEPT !.fb = [p \in DOMAIN @ |-> IF p \in DOMAIN value THEN value[p] ELSE @[p]]]
      [] what = "move" ->
           [v EXCEPT !.fb = [p \in DOMAIN @ |-> IF p \in DOMAIN value THEN @[value[p]] ELSE @[p]]]
      [] what = "size" ->
           LET w == [v EXCEPT !.fb = [p \in FbOf(value[1], value[2]) |->
                                         IF p \in DOMAIN @ THEN @[p] ELSE Black]]
           IN  IF v.cont THEN Tell(Tell(w, "resize", value), "EnableContinuousUpdates", value)
                         ELSE Tell(w, "resize", value)
      [] what = "end" ->
           IF v.cont THEN Tell(v, "shown", v.fb)
                     ELSE Tell(Tell(v, "shown", v.fb), "FramebufferUpdateRequest", <<>>)
      [] what = "continuous" ->
           IF v.sup THEN [v EXCEPT !.cont = FALSE]
           ELSE Tell([v EXCEPT !.sup = TRUE, !.cont = TRUE], "EnableContinuousUpdates", value)
      [] OTHER -> Tell(v, what, value)

Understood(v, part) == FoldLeft(LAMBDA u, d : Does(u, d[1], d[2]), v, part.does)

-----------------------------------------------------------------------------
(* Rectangles.                                                             *)

Rect(x, y, w, h) == [x |-> x, y |-> y, w |-> w, h |-> h]

Header(r, enc) == B16(r.x) \o B16(r.y) \o B16(r.w) \o B16(r.h) \o B32(enc)

\* The pixels of a rectangle, row by row, and what drawing them means.
Drawn(r, data) ==
    <<"draw", [p \in (r.x .. r.x + r.w - 1) \X (r.y .. r.y + r.h - 1) |->
                 data[(p[2] - r.y) * r.w + p[1] - r.x + 1]]>>

RectPart(r, enc, body, data) == Part(Header(r, enc) \o body, <<Drawn(r, data)>>)

\* A pixel of four bytes, the last of which means nothing.
Wide(colors) == FlattenSeq([k \in DOMAIN colors |-> colors[k] \o <<9>>])
Flat(colors) == FlattenSeq(colors)
Fill(r, color) == [k \in 1 .. r.w * r.h |-> color]

RawRect(r, data) == RectPart(r, EncRaw, Wide(data), data)

\* With 8 bits a colour has two bits for each of its parts.
RawRect8(r, bytes) ==
    RectPart(r, EncRaw, bytes, [k \in DOMAIN bytes |->
        <<(bytes[k] % 4) * 85, ((bytes[k] \div 4) % 4) * 85, ((bytes[k] \div 16) % 4) * 85>>])

CopyPart(r, x, y) ==
    Part(Header(r, EncCopyRect) \o B16(x) \o B16(y),
         <<<<"move", [p \in (r.x .. r.x + r.w - 1) \X (r.y .. r.y + r.h - 1) |->
                        <<p[1] - r.x + x, p[2] - r.y + y>>]>>>>)

\* A background with one pixel after another drawn over it.
RRERect(r, bg, dots) ==
    Part(Header(r, EncRRE) \o B32(Len(dots)) \o bg \o <<9>>
           \o FlattenSeq([k \in DOMAIN dots |-> dots[k][3] \o <<9>> \o B16(dots[k][1])
                                                  \o B16(dots[k][2]) \o B16(1) \o B16(1)]),
         <<Drawn(r, Fill(r, bg))>>
           \o [k \in DOMAIN dots |-> Drawn(Rect(r.x + dots[k][1], r.y + dots[k][2], 1, 1), <<dots[k][3]>>)])

\* A rectangle whose bytes and pixels are given tile by tile; the tiles are
\* next to each other.
TileBytes(tiles) == FlattenSeq([n \in DOMAIN tiles |-> tiles[n].bytes])
TilesPart(r, enc, size, tiles, body) ==
    LET At(n) == Rect(r.x + size * (n - 1), r.y, Min({size, r.w - size * (n - 1)}), r.h)
    IN  Part(Header(r, enc) \o body, [n \in DOMAIN tiles |-> Drawn(At(n), tiles[n].data)])

HextileRect(r, tiles) == TilesPart(r, EncHextile, 16, tiles, TileBytes(tiles))

\* ZRLE: the n-th block of the stream.
ZRLERect(r, n, tiles) ==
    TilesPart(r, EncZRLE, 64, tiles, B32(Len(TileBytes(tiles)) + 1) \o Deflate(n, TileBytes(tiles)))

\* Tight: data of 12 bytes or more is a block of the stream, with its length.
Compact(bytes) ==
    (IF Len(bytes) < 128 THEN <<Len(bytes)>> ELSE <<128 + (Len(bytes) % 128), Len(bytes) \div 128>>) \o bytes
Basic(n, bytes) == IF Len(bytes) < 12 THEN bytes ELSE Compact(Deflate(n, bytes))

\* The byte a tight rectangle begins with: the streams it resets, the one it
\* uses, and whether a filter follows.
Ctl(resets, stream, filter) ==
    MapThenSumSet(LAMBDA s : 2 ^ s, resets) + 16 * stream
      + (IF filter = None THEN 0 ELSE 64)
TightRect(r, resets, stream, filter, n, params, bytes, data) ==
    RectPart(r, EncTight,
             <<Ctl(resets, stream, filter)>> \o (IF filter = None THEN <<>> ELSE <<filter>>)
               \o params \o Basic(n, bytes), data)

TightFill(enc, r, color) == RectPart(r, enc, <<128>> \o color, Fill(r, color))
TightImage(enc, ctl, r, color) == RectPart(r, enc, <<16 * ctl>> \o Compact(color), Fill(r, color))

\* A JPEG file: tables when it has any, a frame, a scan.
Marker(type, body) == <<255, type>> \o B16(Len(body) + 2) \o body
JPEGRect(r, tables, quant, huffman, scan) ==
    RectPart(r, EncJPEG,
             <<255, 216>> \o (IF tables THEN Marker(DQT, <<quant>>) \o Marker(DHT, <<huffman>>) ELSE <<>>)
               \o Marker(192, <<1>>) \o Marker(SOS, <<0>>) \o scan \o <<255, EOI>>,
             Fill(r, <<quant, huffman, Last(scan)>>))

-----------------------------------------------------------------------------
(* Pseudo rectangles, updates and messages.                                *)

PseudoPart(r, enc, body, what, value) == Part(Header(r, enc) \o body, <<<<what, value>>>>)
SizePart(enc, w, h, body) == PseudoPart(Rect(0, 0, w, h), enc, body, "size", <<w, h>>)
SilentPart(r, enc, body) == Part(Header(r, enc) \o body, <<>>)

\* An update: its header, its rectangles; the last one ends it.
Update(count, parts) ==
    <<Part(<<0, 0>> \o B16(count), <<>>)>>
      \o Front(parts) \o <<Part(Last(parts).bytes, Append(Last(parts).does, <<"end", <<>>>>))>>

Message(bytes, what, value) == Part(bytes, <<<<what, value>>>>)
=============================================================================
