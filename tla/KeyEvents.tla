----------------------------- MODULE KeyEvents ------------------------------
(***************************************************************************)
(* noVNC's keyboard class (keyboard.js) and what it reads out of the       *)
(* browsers' key events (input/util.js), as functions of a record: the     *)
(* list of keys it believes are down, and the detection of Windows' AltGr. *)
(*                                                                         *)
(* A keysym is a pair: the key's name and, for a name that stands for      *)
(* several keysyms, the location that tells them apart.                    *)
(***************************************************************************)
EXTENDS Naturals, Sequences, FiniteSets, SequencesExt, Functions

NoSym == <<"none", 0>>
LeftCtrl == <<"Control", 1>>
Level3 == <<"AltGraph", 0>>
CapsSym == <<"CapsLock", 0>>

LeftRight == {"Shift", "Control", "Alt", "Meta"}
OnNumpad == {"ArrowLeft", "4"}
Standard == {"AltGraph", "CapsLock", "NumLock"}
Kana == {"Zenkaku", "Hankaku"}
DOMKeys == LeftRight \cup OnNumpad \cup Standard \cup Kana
Letters == {"a", "A"}

-----------------------------------------------------------------------------
(* A key event e: code ("" where the browser gives none), vk (the virtual  *)
(* key of keyCode, "" when it is not in the table), plat ("Platform" and   *)
(* the keyCode), key, location, whether Meta is down, whether it follows   *)
(* the previous one by less than 50 ms.                                    *)

GetKeycode(os, e) ==
    LET mac == os = "mac" /\ e.vk = "ContextMenu"
    IN  CASE e.code = "OSLeft" -> "MetaLeft"
          [] e.code = "OSRight" -> "MetaRight"
          [] e.code \notin {"", "OSLeft", "OSRight"} -> e.code
          [] e.code = "" /\ e.vk = "" -> "Unidentified"
          [] e.code = "" /\ mac -> "MetaRight"
          [] OTHER ->
               CASE e.location = 2 /\ e.vk = "ShiftLeft" -> "ShiftRight"
                 [] e.location = 2 /\ e.vk = "ControlLeft" -> "ControlRight"
                 [] e.location = 2 /\ e.vk = "AltLeft" -> "AltRight"
                 [] e.location = 3 /\ e.vk = "ArrowLeft" -> "Numpad4"
                 [] OTHER -> e.vk

\* Keyboard._getKeyCode: what is left when the table does not have the key.
GetKeyCode(os, e) ==
    LET code == GetKeycode(os, e)
    IN  IF code # "Unidentified" \/ e.plat = "" THEN code ELSE e.plat

GetKey(e) == IF e.key = "OS" THEN "Meta" ELSE e.key

GetKeysym(os, e) ==
    LET key == GetKey(e)
        location == IF key = "Meta" /\ e.location = 0 THEN 2 ELSE e.location
    IN  CASE key = "Unidentified" -> NoSym
          [] key \in LeftRight -> IF key = "Meta" /\ GetKeycode(os, e) = "AltLeft" THEN <<"Meta_L", 0>>
                                  ELSE <<key, IF location = 2 THEN 2 ELSE 1>>
          [] key \in Kana -> <<IF os = "windows" THEN "Zenkaku_Hankaku" ELSE key, 0>>
          [] key \in OnNumpad -> <<key, IF location = 3 THEN 3 ELSE 0>>
          [] key \in Standard \cup Letters -> <<key, 0>>
          [] OTHER -> NoSym

-----------------------------------------------------------------------------
(* The keyboard: keys (_keyDownList, a function from codes to keysyms),    *)
(* armed (_altGrArmed), out (the calls of onkeyevent of the handler that   *)
(* runs).                                                                  *)

NewKeyboard == [keys |-> [c \in {} |-> NoSym], armed |-> FALSE, out |-> <<>>]

Call(sym, code, isDown) == [sym |-> sym, code |-> code, down |-> isDown]

\* The list of keys with one more, or with another keysym for it.
KeyAdded(keys, code, sym) ==
    [c \in DOMAIN keys \cup {code} |-> IF c = code THEN sym ELSE keys[c]]

\* Mutant: a repeated press is passed on as it is.
SendPlain(k, sym, code, isDown) ==
    IF ~isDown /\ code \notin DOMAIN k.keys THEN k
    ELSE [k EXCEPT !.keys = IF isDown THEN KeyAdded(@, code, sym)
                            ELSE Restrict(@, DOMAIN @ \ {code}),
                   !.out = Append(@, Call(sym, code, isDown))]

SendKeyEvent(k, sym, code, isDown) ==
    LET again == IF isDown /\ code \in DOMAIN k.keys
                 THEN <<Call(k.keys[code], code, FALSE)>> ELSE <<>>
    IN  IF ~isDown /\ code \notin DOMAIN k.keys THEN k
        ELSE [k EXCEPT !.keys = IF isDown THEN KeyAdded(@, code, sym)
                                ELSE Restrict(@, DOMAIN @ \ {code}),
                       !.out = @ \o again \o <<Call(sym, code, isDown)>>]

PressRelease(k, sym, code) ==
    SendKeyEvent(SendKeyEvent(k, sym, code, TRUE), sym, code, FALSE)

ReleaseIfDown(k, code) ==
    IF code \in DOMAIN k.keys THEN SendKeyEvent(k, k.keys[code], code, FALSE) ELSE k

\* The Ctrl that was held back turns out to be one.
CtrlAfterAll(k) == SendKeyEvent([k EXCEPT !.armed = FALSE], LeftCtrl, "ControlLeft", TRUE)

MacSym(sym) ==
    CASE sym = <<"Meta", 1>> -> <<"Alt", 1>>
      [] sym = <<"Meta", 2>> -> <<"Meta", 1>>
      [] sym = <<"Alt", 1>> -> <<"Mode_switch", 0>>
      [] sym = <<"Alt", 2>> -> Level3
      [] OTHER -> sym

HandleKeyDown(os, k, e) ==
    LET code == GetKeyCode(os, e)
        altGr == k.armed /\ code = "AltRight" /\ e.near
        a == IF ~k.armed THEN k
             ELSE IF altGr THEN [k EXCEPT !.armed = FALSE] ELSE CtrlAfterAll(k)
        sym1 == IF altGr THEN Level3 ELSE GetKeysym(os, e)
        sym2 == IF os = "mac" THEN MacSym(sym1) ELSE sym1
        sym == IF code \in DOMAIN a.keys THEN a.keys[code] ELSE sym2
    IN  CASE code = "Unidentified" -> IF sym1 = NoSym THEN a ELSE PressRelease(a, sym1, code)
          [] code # "Unidentified" /\ os = "mac" /\ e.meta
                /\ code \notin {"MetaLeft", "MetaRight"} -> PressRelease(a, sym, code)
          [] code = "CapsLock" /\ os = "mac" /\ ~e.meta -> PressRelease(a, CapsSym, code)
          [] sym = <<"Zenkaku_Hankaku", 0>> /\ os = "windows" -> PressRelease(a, sym, code)
          [] code = "ControlLeft" /\ os = "windows" /\ code \notin DOMAIN a.keys ->
                [a EXCEPT !.armed = TRUE]
          [] OTHER -> SendKeyEvent(a, sym, code, TRUE)

\* Mutant: the other Shift is left to its own release.
HandleKeyUpOne(os, k, e) ==
    LET code == GetKeyCode(os, e)
        a == IF k.armed THEN CtrlAfterAll(k) ELSE k
    IN  IF os = "mac" /\ code = "CapsLock" THEN PressRelease(a, CapsSym, code)
        ELSE ReleaseIfDown(a, code)

HandleKeyUp(os, k, e) ==
    LET code == GetKeyCode(os, e)
        a == IF k.armed THEN CtrlAfterAll(k) ELSE k
        up == ReleaseIfDown(a, code)
    IN  CASE os = "mac" /\ code = "CapsLock" -> PressRelease(a, CapsSym, code)
          [] os = "windows" /\ code \in {"ShiftLeft", "ShiftRight"} ->
                ReleaseIfDown(ReleaseIfDown(up, "ShiftRight"), "ShiftLeft")
          [] OTHER -> up

HandleAltGrTimeout(k) == CtrlAfterAll(k)

\* The keys of a list are released one after another.
ReleaseAll(k, codes) ==
    LET up[i \in 0 .. Len(codes)] == IF i = 0 THEN k ELSE ReleaseIfDown(up[i - 1], codes[i])
    IN  up[Len(codes)]

AllKeysUp(k) == ReleaseAll(k, SetToSeq(DOMAIN k.keys))
=============================================================================
