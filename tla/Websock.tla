------------------------------ MODULE Websock -------------------------------
(***************************************************************************)
(* The receive queue of noVNC's websock.js and the ways its readers use    *)
(* it.  A client is a record c; of its fields this module knows            *)
(*   rq    the bytes of the buffer that have been filled                   *)
(*   i     how many of them have been consumed (_rQi)                      *)
(*   size  the size of the buffer                                          *)
(*   ret   what the handler that is running returns                        *)
(* A reader looks at bytes from the first unread one (offset 0) and then   *)
(* skips what it has used.                                                 *)
(***************************************************************************)
EXTENDS Integers, Sequences, SequencesExt, FiniteSetsExt

Unread(c) == Len(c.rq) - c.i

Wait(c, num) == Unread(c) < num

Yes(c) == [c EXCEPT !.ret = TRUE]
No(c) == [c EXCEPT !.ret = FALSE]

\* Mutant: what was consumed stays consumed.
BackNothing(c, goback) == No(c)

\* A reader that has to wait gives back what it consumed of its message.
Back(c, goback) == [c EXCEPT !.i = @ - goback, !.ret = FALSE]

Skip(c, num) == [c EXCEPT !.i = @ + num]

\* Beyond what was filled the buffer holds old bytes, read as 0 here: no
\* decision is taken from them.
U8(c, at) == IF c.i + at < Len(c.rq) THEN c.rq[c.i + at + 1] ELSE 0
U16(c, at) == 256 * U8(c, at) + U8(c, at + 1)
\* Signed, so that it fits the model checker's integers.
S32(c, at) ==
    ((IF U8(c, at) < 128 THEN U8(c, at) ELSE U8(c, at) - 256) * 256 + U8(c, at + 1)) * 65536
        + U16(c, at + 2)
Bytes(c, at, num) == [k \in 1 .. num |-> U8(c, at + k - 1)]

-----------------------------------------------------------------------------

\* Moves the unread bytes to the front of the buffer, a larger one when they
\* would fill more than an eighth of it.
ExpandCompact(c, minFit) ==
    LET required == (Unread(c) + minFit) * 8
    IN  [c EXCEPT !.size = IF @ < required THEN Max({2 * @, required}) ELSE @,
                  !.rq = SubSeq(@, c.i + 1, Len(@)),
                  !.i = 0]

\* The start of a message from the network; its handler is run next.
RecvMessage(c, bytes) ==
    LET reset == IF Unread(c) = 0 THEN [c EXCEPT !.rq = <<>>, !.i = 0] ELSE c
        fit == IF Len(bytes) > reset.size - Len(reset.rq)
               THEN ExpandCompact(reset, Len(bytes)) ELSE reset
    IN  [fit EXCEPT !.rq = @ \o bytes]

-----------------------------------------------------------------------------
\* What becomes of s in steps that are taken as long as it goes on; bound is
\* a number of steps it does not go beyond.
While(GoesOn(_), Step(_), bound, s) ==
    LET Further(t) == IF GoesOn(t) THEN Step(t) ELSE t
        After[n \in 0 .. bound] == IF n = 0 THEN s ELSE Further(After[n - 1])
    IN  After[CHOOSE n \in 0 .. bound : n = bound \/ ~GoesOn(After[n])]

-----------------------------------------------------------------------------
(* Numbers as the bytes of a message.                                      *)

B16(n) == <<(n \div 256) % 256, n % 256>>
B32(n) == B16(n \div 65536) \o B16(n % 65536)
=============================================================================
