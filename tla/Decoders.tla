------------------------------ MODULE Decoders ------------------------------
(***************************************************************************)
(* noVNC's decoders (core/decoders): what one rectangle of an update makes *)
(* of the framebuffer, for whatever part of it has arrived.  A client is a *)
(* record c with, beside the receive queue (Websock),                      *)
(*   fb    the framebuffer, a function of <<x, y>>                         *)
(*   dec   what the decoders remember between calls                        *)
(*   depth 24, or 8 for a server that knows no better                      *)
(* A decoder returns c with ret = FALSE when it waits for bytes, and with  *)
(* failed = TRUE when it throws.  A colour is <<red, green, blue>>.        *)
(*                                                                         *)
(* zlib and the browser's image decoder are external; their models keep    *)
(* what the decoders rely on: a block can be inflated only by a stream     *)
(* that has inflated the blocks before it, and an image needs its tables.  *)
(***************************************************************************)
EXTENDS Websock

None == -1
Black == <<0, 0, 0>>

\* Images the decoders draw are drawn at once here; Painting has the waiting.
Blit(c, r, data) ==
    [c EXCEPT !.fb = [p \in DOMAIN @ |->
        IF p[1] >= r.x /\ p[1] < r.x + r.w /\ p[2] >= r.y /\ p[2] < r.y + r.h
        THEN data[(p[2] - r.y) * r.w + p[1] - r.x + 1] ELSE @[p]]]
FillRect(c, r, color) == Blit(c, r, [k \in 1 .. r.w * r.h |-> color])
CopyImage(c, r, oldX, oldY) ==
    Blit(c, r, [k \in 1 .. r.w * r.h |->
                  LET from == <<oldX + ((k - 1) % r.w), oldY + ((k - 1) \div r.w)>>
                  IN  IF from \in DOMAIN c.fb THEN c.fb[from] ELSE Black])

\* n pixels of k bytes each, from bytes.
Pixels(bytes, n, k) ==
    [p \in 1 .. n |-> <<bytes[(p - 1) * k + 1], bytes[(p - 1) * k + 2], bytes[(p - 1) * k + 3]>>]

Throw(c) == [c EXCEPT !.ret = FALSE, !.failed = TRUE]

\* A stream that has inflated n blocks inflates the block numbered n.
Inflator == [n |-> 0, in |-> <<>>]
Deflate(n, bytes) == <<n>> \o bytes
SetInput(z, data) ==
    IF data # <<>> /\ data[1] = z.n THEN [n |-> z.n + 1, in |-> Tail(data)]
                                    ELSE [z EXCEPT !.in = <<>>]
CanInflate(z, expected) == Len(z.in) >= expected
Inflated(z, expected) == SubSeq(z.in, 1, expected)
Rest(z, expected) == [z EXCEPT !.in = SubSeq(@, expected + 1, Len(@))]

NewTight ==
    [ctl |-> None, filter |-> None, numColors |-> 0, palette |-> <<>>, len |-> 0,
     zlibs |-> [s \in 0 .. 3 |-> Inflator]]
NewDecoders ==
    [lines |-> 0,                                                 \* raw
     subrects |-> 0,                                              \* rre
     tiles |-> 0, lastsub |-> 0, bg |-> Black, fg |-> Black,      \* hextile
     tight |-> NewTight, png |-> NewTight,                        \* tight, tight png
     zlen |-> 0, z |-> Inflator,                                  \* zrle
     segments |-> <<>>, quant |-> <<>>, huffman |-> <<>>]         \* jpeg

-----------------------------------------------------------------------------
(* raw.js, copyrect.js and rre.js                                          *)

Depth8(byte) ==
    [k \in 1 .. 3 |-> (((byte \div (IF k = 1 THEN 1 ELSE IF k = 2 THEN 4 ELSE 16)) % 4) * 255) \div 3]

\* As many of the lines left as are all there.
RawLines(c, r) ==
    LET perLine == r.w * (IF c.depth = 8 THEN 1 ELSE 4)
        n == Min({c.dec.lines, Unread(c) \div perLine})
        lines == [r EXCEPT !.y = @ + r.h - c.dec.lines, !.h = n]
        data == IF c.depth = 8 THEN [k \in 1 .. n * r.w |-> Depth8(U8(c, k - 1))]
                               ELSE Pixels(Bytes(c, 0, n * perLine), n * r.w, 4)
    IN  [Skip(Blit(c, lines, data), n * perLine) EXCEPT !.dec.lines = @ - n, !.ret = n = c.dec.lines]

\* Mutant: a rectangle that waited is started again.
RawAgain(c, r) == RawLines([c EXCEPT !.dec.lines = r.h], r)

DecodeRaw(c, r) ==
    IF r.w = 0 \/ r.h = 0 THEN Yes(c)
    ELSE RawLines([c EXCEPT !.dec.lines = IF @ = 0 THEN r.h ELSE @], r)

DecodeCopyRect(c, r) ==
    IF Wait(c, 4) THEN No(c)
    ELSE IF r.w = 0 \/ r.h = 0 THEN Yes(Skip(c, 4))
    ELSE Yes(Skip(CopyImage(c, r, U16(c, 0), U16(c, 2)), 4))

Color4(c, at) == <<U8(c, at), U8(c, at + 1), U8(c, at + 2)>>

\* As many of the subrectangles left as are all there, one over the other.
RRESubrects(c, r) ==
    LET n == Min({c.dec.subrects, Unread(c) \div 12})
        Covers(at, x, y) == /\ x \in U16(c, at + 4) .. U16(c, at + 4) + U16(c, at + 8) - 1
                            /\ y \in U16(c, at + 6) .. U16(c, at + 6) + U16(c, at + 10) - 1
        Pixel(p) == LET over == {k \in 1 .. n : Covers(12 * (k - 1), p[1] - r.x, p[2] - r.y)}
                    IN  IF over = {} THEN c.fb[p] ELSE Color4(c, 12 * (Max(over) - 1))
    IN  [Skip(c, 12 * n) EXCEPT !.fb = [p \in DOMAIN @ |-> Pixel(p)],
                                !.dec.subrects = @ - n, !.ret = n = c.dec.subrects]

DecodeRRE(c, r) ==
    IF c.dec.subrects > 0 THEN RRESubrects(c, r)
    ELSE IF Wait(c, 8) THEN No(c)
    ELSE RRESubrects([Skip(FillRect(c, r, Color4(c, 4)), 8) EXCEPT !.dec.subrects = S32(c, 0)], r)

-----------------------------------------------------------------------------
(* hextile.js                                                              *)

Bit(byte, mask) == (byte \div mask) % 2 = 1

Tile(r, size, n) ==
    LET across == (r.w + size - 1) \div size
        x == r.x + (n % across) * size
        y == r.y + (n \div across) * size
    IN  [x |-> x, y |-> y, w |-> Min({size, r.x + r.w - x}), h |-> Min({size, r.y + r.h - y})]
Tiles(r, size) == ((r.w + size - 1) \div size) * ((r.h + size - 1) \div size)

\* The pixels of a tile after its subrectangles: each is <<colour, xy, wh>>.
SubTiles(tile, bg, subs) ==
    LET Covers(s, k) ==
            LET x == (k - 1) % tile.w
                y == (k - 1) \div tile.w
                sx == s[2] \div 16
                sy == s[2] % 16
            IN  /\ x >= sx /\ x <= sx + (s[3] \div 16)
                /\ y >= sy /\ y <= sy + (s[3] % 16)
    IN  [k \in 1 .. tile.w * tile.h |->
            LET over == {s \in DOMAIN subs : Covers(subs[s], k)}
            IN  IF over = {} THEN bg ELSE subs[Max(over)][1]]

\* One tile, whose bytes are all there.
HextileTile(c, tile, sub, nsubs, at) ==
    LET bg == IF Bit(sub, 2) THEN Color4(c, 1) ELSE c.dec.bg
        fg == IF Bit(sub, 4) THEN Color4(c, IF Bit(sub, 2) THEN 5 ELSE 1) ELSE c.dec.fg
        step == IF Bit(sub, 16) THEN 6 ELSE 2
        subs == [s \in 1 .. nsubs |->
                    LET p == at + (s - 1) * step
                    IN  <<IF step = 6 THEN Color4(c, p) ELSE fg,
                          U8(c, p + step - 2), U8(c, p + step - 1)>>]
    IN  IF sub = 0 THEN IF Bit(c.dec.lastsub, 1) THEN c ELSE FillRect(c, tile, c.dec.bg)
        ELSE IF Bit(sub, 1) THEN Blit(c, tile, Pixels(Bytes(c, 1, tile.w * tile.h * 4), tile.w * tile.h, 4))
        ELSE [Blit(c, tile, SubTiles(tile, bg, subs)) EXCEPT !.dec.bg = bg, !.dec.fg = fg]

\* The next tile, when it is all there.
HextileNext(c, r) ==
    LET sub == U8(c, 0)
        tile == Tile(r, 16, Tiles(r, 16) - c.dec.tiles)
        colors == 1 + (IF Bit(sub, 2) THEN 4 ELSE 0) + (IF Bit(sub, 4) THEN 4 ELSE 0)
        counted == Bit(sub, 8) /\ ~Bit(sub, 1)
        nsubs == IF counted THEN U8(c, colors) ELSE 0
        bytes == IF Bit(sub, 1) THEN 1 + tile.w * tile.h * 4
                 ELSE IF counted THEN colors + 1 + nsubs * (IF Bit(sub, 16) THEN 6 ELSE 2)
                 ELSE colors
    IN  IF Wait(c, 1) THEN No(c)
        ELSE IF sub > 30 THEN Throw(c)
        ELSE IF (counted /\ Wait(c, colors + 1)) \/ Wait(c, bytes) THEN No(c)
        ELSE Yes([Skip(HextileTile(c, tile, sub, nsubs, colors + 1), bytes)
                    EXCEPT !.dec.lastsub = sub, !.dec.tiles = @ - 1])

DecodeHextile(c, r) ==
    LET left == IF c.dec.tiles = 0 THEN Tiles(r, 16) ELSE c.dec.tiles
    IN  While(LAMBDA s : s.ret /\ s.dec.tiles > 0, LAMBDA s : HextileNext(s, r), left,
              Yes([c EXCEPT !.dec.tiles = left]))

-----------------------------------------------------------------------------
(* tight.js and tightpng.js: k names which of the two decoders it is.      *)

\* The compact length of the data that follows, once it is known.
ReadLen(c, k) ==
    LET b == Bytes(c, 0, 3)
        n == IF b[1] < 128 THEN 1 ELSE IF b[2] < 128 THEN 2 ELSE 3
        len == (b[1] % 128) + (IF n > 1 THEN (b[2] % 128) * 128 ELSE 0)
                 + (IF n > 2 THEN b[3] * 16384 ELSE 0)
    IN  IF c.dec[k].len # 0 THEN Yes(c)
        ELSE IF Wait(c, 3) THEN No(c)
        ELSE Yes(Skip([c EXCEPT !.dec[k].len = len], n))

\* The data, in field data of what is returned.
ReadData(c, k) ==
    LET Read(l, len) ==
            IF ~l.ret \/ Wait(l, len) THEN [c |-> No(l), data |-> <<>>]
            ELSE [c |-> Yes(Skip([l EXCEPT !.dec[k].len = 0], len)), data |-> Bytes(l, 0, len)]
        ReadFrom(l) == Read(l, l.dec[k].len)
    IN  ReadFrom(ReadLen(c, k))

\* Few bytes are sent as they are, more are compressed.
BasicData(c, k, stream, size) ==
    LET Uncompress(s, z) ==
            [c |-> IF CanInflate(z, size) THEN [s EXCEPT !.dec[k].zlibs[stream] = Rest(z, Len(z.in))]
                                          ELSE Throw(s),
             data |-> Inflated(z, size)]
        Decompress(r) ==
            IF r.c.ret THEN Uncompress(r.c, SetInput(r.c.dec[k].zlibs[stream], r.data)) ELSE r
    IN  IF size >= 12 THEN Decompress(ReadData(c, k))
        ELSE IF Wait(c, size) THEN [c |-> No(c), data |-> <<>>]
        ELSE [c |-> Yes(Skip(c, size)), data |-> Bytes(c, 0, size)]

CopyFilter(c, k, stream, r) ==
    LET Paint(b) == IF b.c.ret THEN Blit(b.c, r, Pixels(b.data, r.w * r.h, 3)) ELSE b.c
    IN  IF r.w * r.h = 0 THEN Yes(c) ELSE Paint(BasicData(c, k, stream, r.w * r.h * 3))

\* The palette is kept until its rectangle is complete; an empty rectangle
\* leaves it behind.
Palette(c, k) ==
    LET num == U8(c, 0) + 1
    IN  IF c.dec[k].numColors # 0 THEN Yes(c)
        ELSE IF Wait(c, 1) \/ Wait(c, 1 + num * 3) THEN No(c)
        ELSE Yes(Skip([c EXCEPT !.dec[k].numColors = num,
                                !.dec[k].palette = Pixels(Bytes(c, 1, num * 3), num, 3)],
                      1 + num * 3))

PaletteFilter(c, k, stream, r) ==
    LET p == Palette(c, k)
        t == p.dec[k]
        rowSize == IF t.numColors <= 2 THEN (r.w + 7) \div 8 ELSE r.w
        Index(data, n) ==
            IF t.numColors # 2 THEN data[n]
            ELSE LET x == (n - 1) % r.w
                     byte == data[((n - 1) \div r.w) * rowSize + (x \div 8) + 1]
                 IN  (byte \div 2 ^ (7 - (x % 8))) % 2
        Paint(b) ==
            IF ~b.c.ret THEN b.c
            ELSE [Blit(b.c, r, [n \in 1 .. r.w * r.h |-> t.palette[Index(b.data, n) + 1]])
                    EXCEPT !.dec[k].numColors = 0]
    IN  IF ~p.ret THEN p
        ELSE IF rowSize * r.h = 0 THEN Yes(p)
        ELSE Paint(BasicData(p, k, stream, rowSize * r.h))

\* Every byte is what has to be added to a guess from the pixels around it.
Gradient(data, w, n) ==
    LET G[p \in 1 .. n] ==
            [ch \in 1 .. 3 |->
                LET left == IF (p - 1) % w = 0 THEN 0 ELSE G[p - 1][ch]
                    upper == IF p <= w THEN 0 ELSE G[p - w][ch]
                    corner == IF p <= w \/ (p - 1) % w = 0 THEN 0 ELSE G[p - w - 1][ch]
                    guess == left + upper - corner
                IN  (data[(p - 1) * 3 + ch] + Max({0, Min({255, guess})})) % 256]
    IN  G

GradientFilter(c, k, stream, r) ==
    LET Paint(b) == IF b.c.ret THEN Blit(b.c, r, Gradient(b.data, r.w, r.w * r.h)) ELSE b.c
    IN  IF r.w * r.h = 0 THEN Yes(c) ELSE Paint(BasicData(c, k, stream, r.w * r.h * 3))

BasicRect(c, k, r) ==
    LET ctl == c.dec[k].ctl
        f == IF c.dec[k].filter # None THEN Yes(c)
             ELSE IF ~Bit(ctl, 4) THEN Yes([c EXCEPT !.dec[k].filter = 0])
             ELSE IF Wait(c, 1) THEN No(c)
             ELSE Yes(Skip([c EXCEPT !.dec[k].filter = U8(c, 0)], 1))
        Finish(d) == [d EXCEPT !.dec[k].filter = IF d.ret THEN None ELSE @]
    IN  IF k = "png" THEN Throw(c)
        ELSE IF ~f.ret THEN f
        ELSE Finish(CASE f.dec[k].filter = 0 -> CopyFilter(f, k, ctl % 4, r)
                      [] f.dec[k].filter = 1 -> PaletteFilter(f, k, ctl % 4, r)
                      [] f.dec[k].filter = 2 -> GradientFilter(f, k, ctl % 4, r)
                      [] OTHER -> Throw(f))

\* An image without its own tables, all of one colour.
ImageRect(c, k, r) ==
    LET Paint(d) == IF d.c.ret THEN FillRect(d.c, r, <<d.data[1], d.data[2], d.data[3]>>) ELSE d.c
    IN  Paint(ReadData(c, k))

DecodeTight(c, k, r) ==
    LET ctl == U8(c, 0)
        t == IF c.dec[k].ctl # None THEN Yes(c)
             ELSE IF Wait(c, 1) THEN No(c)
             ELSE Yes(Skip([c EXCEPT
                        !.dec[k].ctl = ctl \div 16,
                        !.dec[k].zlibs = [s \in 0 .. 3 |-> IF Bit(ctl, 2 ^ s) THEN Inflator ELSE @[s]]], 1))
        Finish(d) == [d EXCEPT !.dec[k].ctl = IF d.ret THEN None ELSE @]
    IN  IF ~t.ret THEN t
        ELSE Finish(CASE t.dec[k].ctl = 8 -> IF Wait(t, 3) THEN No(t)
                                             ELSE Yes(Skip(FillRect(t, r, Color4(t, 0)), 3))
                      [] t.dec[k].ctl = 9 \/ (t.dec[k].ctl = 10 /\ k = "png") -> ImageRect(t, k, r)
                      [] t.dec[k].ctl < 8 -> BasicRect(t, k, r)
                      [] OTHER -> Throw(t))

-----------------------------------------------------------------------------
(* zrle.js: the whole rectangle is one compressed block.                   *)

\* What inflating num bytes gives; a block that is too short throws.
Inflate(c, num) == [c EXCEPT !.dec.z = Rest(@, num)]
Z(c, num) == Inflated(c.dec.z, num)

ZPixels(c, num) == Pixels(Z(c, num * 3), num, 3)

\* A length is a sum of bytes, the first that is not 255 being the last.
RLELength(in) ==
    LET used == Min({k \in DOMAIN in : in[k] # 255})
    IN  [len |-> 255 * (used - 1) + in[used] + 1, used |-> used]

\* The pixels before a run and its own, and the bytes after it; palette is
\* empty for plain runs, of which nothing is checked. The index one beyond the
\* palette passes the code's check and finds what an earlier tile left in the
\* pixel buffer, for which black stands.
NextRun(runs, palette, n) ==
    LET in == runs.rest
        plain == palette = <<>>
        at == IF plain THEN 3 ELSE 1
        index == in[1] % 128
        single == ~plain /\ in[1] < 128
        run == IF single THEN [len |-> 1, used |-> 0] ELSE RLELength(SubSeq(in, at + 1, Len(in)))
        color == IF plain THEN SubSeq(in, 1, 3)
                 ELSE IF index < Len(palette) THEN palette[index + 1] ELSE <<0, 0, 0>>
    IN  IF ~plain /\ (index > Len(palette) \/ Len(runs.data) + run.len > n)
        THEN [runs EXCEPT !.bad = TRUE]
        ELSE [runs EXCEPT !.data = @ \o [p \in 1 .. run.len |-> color],
                          !.rest = SubSeq(in, at + run.used + 1, Len(in))]

\* Runs until there are n pixels or one is refused.
Runs(in, palette, n) ==
    While(LAMBDA runs : ~runs.bad /\ Len(runs.data) < n, LAMBDA runs : NextRun(runs, palette, n), n,
          [data |-> <<>>, rest |-> in, bad |-> FALSE])

ZRuns(c, tile, palette) ==
    LET runs == Runs(c.dec.z.in, palette, tile.w * tile.h)
    IN  IF runs.bad THEN Throw(c) ELSE Blit([c EXCEPT !.dec.z.in = runs.rest], tile, runs.data)

ZPacked(c, tile, palette) ==
    LET bits == IF Len(palette) <= 2 THEN 1 ELSE IF Len(palette) <= 4 THEN 2 ELSE 4
        per == 8 \div bits
        row == (tile.w + per - 1) \div per
        in == Z(c, row * tile.h)
        Index(k) == LET x == (k - 1) % tile.w
                        byte == in[((k - 1) \div tile.w) * row + (x \div per) + 1]
                    IN  (byte \div 2 ^ ((per - 1 - (x % per)) * bits)) % 2 ^ bits
    IN  Blit(Inflate(c, row * tile.h), tile, [k \in 1 .. tile.w * tile.h |-> palette[Index(k) + 1]])

ZTile(c, tile) ==
    LET sub == Z(c, 1)[1]
        n == tile.w * tile.h
        s == Inflate(c, 1)
        num == IF sub > 128 THEN sub - 128 ELSE sub
        p == Inflate(s, num * 3)
        palette == ZPixels(s, num)
    IN  CASE sub = 0 -> Blit(Inflate(s, n * 3), tile, ZPixels(s, n))
          [] sub = 1 -> FillRect(p, tile, palette[1])
          [] sub \in 2 .. 16 -> ZPacked(p, tile, palette)
          [] sub = 128 -> ZRuns(s, tile, <<>>)
          [] sub >= 130 -> ZRuns(p, tile, palette)
          [] OTHER -> Throw(s)

ZTiles(c, r) ==
    LET Following(t) == [c |-> ZTile(t.c, Tile(r, 64, t.n)), n |-> t.n + 1]
    IN  While(LAMBDA t : t.n < Tiles(r, 64) /\ ~t.c.failed, Following, Tiles(r, 64), [c |-> c, n |-> 0]).c

DecodeZRLE(c, r) ==
    LET l == IF c.dec.zlen # 0 THEN Yes(c)
             ELSE IF Wait(c, 4) THEN No(c)
             ELSE Yes(Skip([c EXCEPT !.dec.zlen = S32(c, 0)], 4))
        in == SetInput(l.dec.z, Bytes(l, 0, l.dec.zlen))
    IN  IF ~l.ret \/ Wait(l, l.dec.zlen) THEN No(l)
        ELSE IF in.in = <<>> THEN Throw(l)
        ELSE ZTiles([Skip(l, l.dec.zlen) EXCEPT !.dec.z = in, !.dec.zlen = 0], r)

-----------------------------------------------------------------------------
(* jpeg.js: a rectangle is a JPEG file, read segment by segment.           *)

Segment(type, body) == [type |-> type, body |-> body]
EOI == 217
NoLength == (208 .. 217) \cup {1}
DQT == 219
DHT == 196
SOF == {192, 194}
SOS == 218

\* Where a scan that begins at offset 4 ends: before the next marker.
ScanEnds(c, length) ==
    {n \in length .. Unread(c) - 4 :
        U8(c, n + 2) = 255 /\ U8(c, n + 3) \notin {0} \cup 208 .. 215}

ReadSegment(c) ==
    LET type == U8(c, 1)
        length == U16(c, 2)
        ends == ScanEnds(c, length)
        body == IF type = SOS THEN Min(ends) - 2 ELSE length - 2
    IN  IF Wait(c, 2) THEN No(c)
        ELSE IF U8(c, 0) # 255 THEN Throw(c)
        ELSE IF type \in NoLength
        THEN Yes(Skip([c EXCEPT !.dec.segments = Append(@, Segment(type, <<>>))], 2))
        ELSE IF Wait(c, 4) THEN Back(Skip(c, 2), 2)
        ELSE IF length < 2 THEN Throw(c)
        ELSE IF Wait(c, 2 + length) \/ (type = SOS /\ ends = {}) THEN Back(Skip(c, 4), 4)
        ELSE Yes(Skip([c EXCEPT !.dec.segments = Append(@, Segment(type, Bytes(c, 4, body)))], 4 + body))

OfType(segments, type) == SelectSeq(segments, LAMBDA s : s.type = type)

\* A file without tables gets those of the last file that had some.
WithTables(segments, quant, huffman) ==
    LET sof == CHOOSE n \in DOMAIN segments :
                  segments[n].type \in SOF /\ \A k \in 1 .. n - 1 : segments[k].type \notin SOF
    IN  SubSeq(segments, 1, sof)
          \o (IF OfType(segments, DHT) = <<>> THEN huffman ELSE <<>>)
          \o (IF OfType(segments, DQT) = <<>> THEN quant ELSE <<>>)
          \o SubSeq(segments, sof + 1, Len(segments))

NewTables(old, segments, type) ==
    IF OfType(segments, type) = <<>> THEN old ELSE OfType(segments, type)

\* The browser's decoder: the image has one colour, which depends on the
\* tables and on the scan; without its tables a file shows nothing.
JpegColor(segments) ==
    LET First(type) == LET s == OfType(segments, type) IN IF s = <<>> THEN 0 ELSE s[1].body[1]
    IN  <<First(DQT), First(DHT), Last(OfType(segments, SOS)[1].body)>>

\* Segments up to the end of the file; each of them has a byte or more.
Segments(c) ==
    While(LAMBDA s : s.ret /\ Last(s.dec.segments).type # EOI, ReadSegment, Unread(c), ReadSegment(c))

DecodeJPEG(c, r) ==
    LET s == Segments(c)
        all == s.dec.segments
    IN  IF ~s.ret THEN s
        ELSE IF \A n \in DOMAIN all : all[n].type \notin SOF THEN Throw(s)
        ELSE [FillRect(s, r, JpegColor(WithTables(all, s.dec.quant, s.dec.huffman)))
                EXCEPT !.dec.quant = NewTables(@, all, DQT),
                       !.dec.huffman = NewTables(@, all, DHT),
                       !.dec.segments = <<>>]
=============================================================================
