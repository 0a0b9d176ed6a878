---------------------------- MODULE MCRfbSession ----------------------------
EXTENDS RfbSession

\* Colours.
A == <<1, 2, 3>>
B == <<40, 50, 60>>
C == <<200, 100, 0>>

One(r, data) == <<Update(1, <<RawRect(r, data)>>)>>
Basics ==
    NewScript(3, 2, <<1>>,
        <<Update(3, <<RawRect(Rect(0, 0, 3, 2), <<A, B, C, C, B, A>>), CopyPart(Rect(1, 0, 2, 2), 0, 0),
                      RRERect(Rect(0, 0, 2, 2), C, <<<<1, 0, A>>, <<0, 1, B>>>>)>>),
          Update(1, <<RawRect(Rect(2, 1, 1, 1), <<B>>)>>)>>)

FewColors ==
    NewScript(2, 2, IntelAMT, <<Update(2, <<RawRect8(Rect(0, 0, 2, 2), <<1, 6, 27, 63>>),
                                          CopyPart(Rect(0, 0, 1, 1), 1, 1)>>)>>)

\* Tiles of 16 and 2 pixels across: raw; background and coloured dots; the
\* background again; background and foreground with dots.
Hextile ==
    LET w == Fill(Rect(0, 0, 16, 1), A)
        Dotted(bg, n, color) == [k \in 1 .. n |-> IF k = 2 THEN color ELSE bg]
    IN  NewScript(18, 1, <<1>>,
          <<Update(3,
             <<HextileRect(Rect(0, 0, 18, 1),
                 <<[bytes |-> <<2 + 8 + 16>> \o A \o <<9, 1>> \o B \o <<9, 16, 0>>, data |-> Dotted(A, 16, B)],
                   [bytes |-> <<0>>, data |-> <<A, A>>]>>),
               HextileRect(Rect(1, 0, 17, 1),
                 <<[bytes |-> <<2 + 4 + 8>> \o C \o <<9>> \o B \o <<9, 1, 16, 0>>, data |-> Dotted(C, 16, B)],
                   [bytes |-> <<1>> \o A \o <<9>>, data |-> <<A>>]>>),
               HextileRect(Rect(0, 0, 2, 1), <<[bytes |-> <<8, 1, 16, 0>>, data |-> <<C, B>>]>>)>>)>>)

Tight ==
    LET q == Rect(0, 0, 2, 2)
        abca == <<A, B, C, A>>
    IN  NewScript(4, 3, <<1>>,
          <<Update(4,
             <<TightFill(EncTight, Rect(0, 0, 4, 3), B),
               TightRect(q, {}, 0, None, 0, <<>>, Flat(abca), abca),
               TightRect(Rect(2, 0, 1, 2), {}, 0, None, 0, <<>>, Flat(<<C, A>>), <<C, A>>),
               TightRect(Rect(0, 0, 3, 2), {}, 1, 1, 0, <<1>> \o A \o B, <<64, 160>>, <<A, B, A, B, A, B>>)>>),
            Update(4,
             <<TightRect(Rect(0, 0, 4, 3), {}, 1, 1, 0, <<2>> \o A \o B \o C,
                         <<0, 1, 2, 0, 1, 2, 0, 1, 2, 2, 1, 0>>, <<A, B, C, A, B, C, A, B, C, C, B, A>>),
               TightRect(Rect(1, 1, 2, 2), {}, 0, 2, 1, <<>>, A \o <<1, 1, 1, 2, 2, 2, 250, 0, 0>>,
                         <<A, <<2, 3, 4>>, <<3, 4, 5>>, <<254, 5, 6>>>>),
               TightImage(EncTight, 9, Rect(3, 2, 1, 1), C),
               TightRect(q, {0}, 0, None, 0, <<>>, Flat(abca), abca)>>),
            Update(2, <<TightFill(EncTightPNG, Rect(0, 0, 1, 1), C),
                        TightImage(EncTightPNG, 10, Rect(1, 0, 2, 1), A)>>)>>)

\* Tiles of 64 and 2 pixels: runs and one colour; packed; raw; palette runs.
ZRLE ==
    NewScript(66, 1, <<1>>,
      <<Update(2,
         <<ZRLERect(Rect(0, 0, 66, 1), 0,
             <<[bytes |-> <<128>> \o A \o <<9>> \o B \o <<53>>,
                data |-> [k \in 1 .. 64 |-> IF k <= 10 THEN A ELSE B]],
               [bytes |-> <<1>> \o C, data |-> <<C, C>>]>>),
           ZRLERect(Rect(0, 0, 66, 1), 1,
             <<[bytes |-> <<130>> \o A \o B \o <<129, 61, 0, 1>>,
                data |-> [k \in 1 .. 64 |-> IF k \in {63} THEN A ELSE B]],
               [bytes |-> <<0>> \o A \o C, data |-> <<A, C>>]>>)>>),
        Update(1, <<ZRLERect(Rect(0, 0, 5, 1), 2,
             <<[bytes |-> <<3>> \o A \o B \o C \o <<26, 128>>, data |-> <<A, B, C, C, C>>]>>)>>)>>)

JPEG ==
    NewScript(2, 2, <<1>>,
      <<Update(2, <<JPEGRect(Rect(0, 0, 2, 2), TRUE, 7, 8, <<5, 255, 0, 255, 208, 6>>),
                    JPEGRect(Rect(0, 0, 1, 2), FALSE, 7, 8, <<9>>)>>),
        Update(2, <<JPEGRect(Rect(1, 1, 1, 1), TRUE, 3, 4, <<6>>),
                    JPEGRect(Rect(0, 0, 1, 1), FALSE, 3, 4, <<5>>)>>)>>)

Pseudo ==
    LET cursor == <<3, 2, 1, 9, 30, 20, 10, 9>>
        xor == A \o <<0>> \o <<0, 0, 0, 0>>
        and == <<0, 0, 0, 0, 255, 255, 255, 255>>
    IN  NewScript(2, 1, <<1, 2>>,
          <<Update(65535,
             <<PseudoPart(Rect(0, 0, 2, 1), PseudoCursor, cursor \o <<128>>, "cursor",
                          <<<<1, 2, 3, 255>>, <<10, 20, 30, 0>>>>),
               PseudoPart(Rect(0, 0, 1, 1), PseudoCursor, <<3, 2, 1, 9, 0>>, "cursor", <<"dot">>),
               PseudoPart(Rect(0, 0, 2, 1), PseudoVMwareCursor, <<0, 0>> \o and \o xor, "cursor",
                          <<<<3, 2, 1, 255>>, <<0, 0, 0, 0>>>>),
               PseudoPart(Rect(0, 0, 1, 1), PseudoVMwareCursor, <<1, 0, 5, 6, 7, 8>>, "cursor", <<<<5, 6, 7, 8>>>>),
               SilentPart(Rect(0, 0, 0, 0), PseudoLastRect, <<>>)>>),
            Update(4,
             <<PseudoPart(Rect(0, 0, 0, 0), PseudoName, B32(3) \o <<4, 5, 6>>, "name", <<4, 5, 6>>),
               PseudoPart(Rect(0, 0, 0, 0), PseudoLed, <<6>>, "leds", <<3>>),
               PseudoPart(Rect(0, 0, 0, 0), PseudoExtKeyEvent, <<>>, "qemuKeys", <<>>),
               SizePart(PseudoDesktopSize, 3, 1, <<>>)>>),
            Update(3,
             <<RawRect(Rect(2, 0, 1, 1), <<A>>),
               SizePart(PseudoExtDesktopSize, 2, 2, <<1, 0, 0, 0>> \o [k \in 1 .. 16 |-> 5]),
               SilentPart(Rect(1, 2, 9, 9), PseudoExtDesktopSize, <<0, 0, 0, 0>>)>>)>>)

Messages ==
    LET dot == Update(1, <<RawRect(Rect(0, 0, 1, 1), <<B>>)>>)
        Cut(flags, body) == <<3, 0, 0, 0, 255, 255, 255, 256 - 4 - Len(body)>> \o flags \o body
    IN  NewScript(1, 1, <<1>>,
          <<<<Message(<<2>>, "bell", <<>>), Message(<<3, 0, 0, 0>> \o B32(2) \o <<65, 66>>, "clipboard", <<65, 66>>)>>
              \o dot,
            <<Message(Cut(<<31, 0, 0, 1>>, B32(0)), "clipboardCaps", <<>>),
              Message(Cut(<<8, 0, 0, 1>>, <<>>), "clipboardRequest", <<>>),
              Message(Cut(<<4, 0, 0, 0>>, <<>>), "clipboardNotify", <<>>),
              Part(Cut(<<2, 0, 0, 1>>, <<>>), <<>>),
              Message(Cut(<<16, 0, 0, 1>>, Deflate(0, B32(3) \o <<67, 68, 0>>)), "clipboard", <<67, 68>>),
              Message(<<250, 0, 2, 1>>, "power", <<2>>), Part(<<250, 0, 2, 0>>, <<>>)>> \o dot,
            <<Message(<<248, 0, 0, 0, 128, 0, 0, 7, 2, 5, 6>>, "fence", <<3, 5, 6>>),
              Message(<<150>>, "continuous", <<1, 1>>)>> \o dot,
            dot \o Update(1, <<SizePart(PseudoDesktopSize, 2, 1, <<>>)>>),
            <<Message(<<150>>, "continuous", <<2, 1>>)>> \o dot>>)

MCScripts == <<Basics, FewColors, Hextile, Tight, ZRLE, JPEG, Pseudo, Messages>>

Dot == 1
Tunnelled(tunnels, subauths, ok) ==
    [NewPlan(3008, <<TypeTight>>, ok, Dot) EXCEPT !.tunnels = tunnels, !.subauths = subauths]
MCPlans ==
    {NewPlan(3008, <<TypeNone>>, TRUE, s) : s \in 1 .. Len(MCScripts)}
    \cup {NewPlan(v, t, TRUE, 2) : v \in {0, 3003, 3006, 3007, 5000}, t \in {<<TypeNone>>, <<TypeVNCAuth>>}}
    \cup {NewPlan(v, <<TypeVNCAuth>>, FALSE, 2) : v \in {3003, 3007, 3008}}
    \cup {NewPlan(v, <<>>, TRUE, 2) : v \in {3003, 3008}}
    \cup {NewPlan(v, <<99, TypeVNCAuth, TypeNone>>, TRUE, 2) : v \in {2000, 3889, 4001}}
    \cup {NewPlan(3008, <<t>>, TRUE, 2) : t \in {99, TypeXVP, TypeARD, TypeMSLogonII, TypeRA2ne}}
    \cup {[NewPlan(4000, <<TypeVeNCrypt>>, ok, 2) EXCEPT !.subtypes = s] :
            s \in {<<TypeVeNCrypt, TypeVNCAuth>>, <<TypePlain>>, <<77, TypeNone>>}, ok \in BOOLEAN}
    \cup {Tunnelled(<<>>, <<>>, TRUE), Tunnelled(<<<<0, NoTunnel>>>>, <<NoAuth>>, TRUE),
          Tunnelled(<<<<1, Siemens>>>>, <<5, VncAuth>>, FALSE), Tunnelled(<<>>, <<UnixLogin>>, TRUE)}
=============================================================================
