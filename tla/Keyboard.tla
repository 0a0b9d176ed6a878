------------------------------ MODULE Keyboard ------------------------------
(***************************************************************************)
(* Typing on the shared desktop.  With a real keyboard the browser's key   *)
(* events go through KeyEvents to rfb.js, which keeps the remote lock keys *)
(* in step and sends the rest.  With a soft keyboard the text ends up in a *)
(* field of the page, and app.js sends how the field changed.              *)
(*                                                                         *)
(* The environment is the user, the window manager and the quirks of each  *)
(* operating system that the code's comments name.                         *)
(***************************************************************************)
EXTENDS KeyEvents

CONSTANTS
    Systems,       \* of "windows", "mac", "other" (a keyboard), "android"
    Browsers,      \* of "modern", "mozilla", "legacy" (events without a code)
    KeysOf,        \* per system, the keys the user has
    BlurArmed,     \* TRUE if the window may lose focus within 100 ms of a Ctrl
    MaxLeds,       \* bound: LED reports in flight before a key is pressed
    MaxToggles,    \* bound: lock keys pressed by the user or on the remote side
    MaxText,       \* bound: characters the user enters with the soft keyboard
    Words          \* what a soft keyboard enters or composes at a time, a
                   \* character being its code point

\* The keys of a real keyboard, by the names of the standard.
Physical ==
    {"KeyA", "Numpad4", "Kana", "ShiftLeft", "ShiftRight", "ControlLeft", "AltLeft", "AltRight",
     "MetaLeft", "MetaRight", "CapsLock", "NumLock"}

Locks == {"CapsLock", "NumLock"}
Unknown == "unknown"
Toggled(v) == IF v = "on" THEN "off" ELSE "on"

ASSUME KeyboardAssumption ==
    /\ Systems \subseteq {"windows", "mac", "other", "android"}
    /\ Browsers \subseteq {"modern", "mozilla", "legacy"}
    /\ \A s \in Systems \ {"android"} : KeysOf[s] \subseteq Physical
    /\ BlurArmed \in BOOLEAN
    /\ MaxLeds \in Nat /\ MaxToggles \in Nat /\ MaxText \in Nat
    /\ Words \subseteq Seq(Nat) \ {<<>>}

VARIABLES
    os, browser,
    pressed,   \* keys the user holds
    muted,     \* of those, the ones whose release macOS will not report
    focused,   \* TRUE when the window has the keyboard
    kb,        \* the keyboard object
    srv,       \* keysyms the server holds down
    twice,     \* history: the server was sent the press of a key it holds
    local,     \* the user's lock keys
    remote,    \* the server's lock keys
    known,     \* rfb.js: _remoteCapsLock and _remoteNumLock
    leds,      \* LED states on their way to the client
    toggles,   \* lock keys pressed so far
    field,     \* the soft keyboard's text field
    prev,      \* app.js: kbdPrevValue
    composing, \* the text being composed, <<>> when none is
    typed,     \* what the user entered, as the remote side should have it
    text,      \* what the remote side has received
    foreign    \* history: the user has entered a character whose code point
               \* is not its keysym

keyVars == <<pressed, muted, focused, kb, srv, twice>>
lockVars == <<local, remote, known, leds, toggles>>
softVars == <<field, prev, composing, typed, text, foreign>>
keyboardVars == <<os, browser, keyVars, lockVars, softVars>>

\* The code points that are keysyms of their own characters (X11 protocol,
\* appendix A), the keysym of BackSpace, and the field's "x".
Latin1 == 32 .. 126 \cup 160 .. 255
BackSpace == 65288
Seed == <<120>>

KeyboardInit ==
    /\ os \in Systems
    /\ browser \in Browsers
    /\ pressed = {} /\ muted = {} /\ focused = TRUE
    /\ kb = NewKeyboard
    /\ srv = {} /\ twice = FALSE
    /\ local = [l \in Locks |-> "off"]
    /\ remote = local
    /\ known = [l \in Locks |-> Unknown]
    /\ leds = <<remote>>
    /\ toggles = 0
    /\ field = Seed /\ prev = Seed /\ composing = <<>>
    /\ typed = <<>> /\ text = <<>> /\ foreign = FALSE

-----------------------------------------------------------------------------
(* rfb.js: what the server gets, s being the record of srv, twice, remote, *)
(* known and leds.                                                         *)

\* A key event at the server; a lock key toggles when it is pressed, and the
\* server reports that.
SendKey(s, sym, isDown) ==
    LET lock == sym[1] \in Locks /\ isDown
        r == IF lock THEN [s.remote EXCEPT ![sym[1]] = Toggled(@)] ELSE s.remote
    IN  IF sym = NoSym THEN s
        ELSE [s EXCEPT !.srv = IF isDown THEN @ \cup {sym} ELSE @ \ {sym},
                       !.twice = @ \/ (isDown /\ ~lock /\ sym \in s.srv),
                       !.remote = r,
                       !.leds = IF lock THEN Append(@, r) ELSE @]

\* Mutant: the lock is corrected again and again until the next report.
SyncLockAgain(s, l, here, code, isDown) ==
    IF isDown /\ here # Unknown /\ code # l /\ s.known[l] \notin {Unknown, here}
    THEN SendKey(SendKey(s, <<l, 0>>, TRUE), <<l, 0>>, FALSE)
    ELSE s

\* Brings lock l into step before anything is pressed; here is the state the
\* event reported, if it did.
SyncLock(s, l, here, code, isDown) ==
    LET a == IF code = l /\ isDown THEN [s EXCEPT !.known[l] = Unknown] ELSE s
        sym == <<l, 0>>
    IN  IF isDown /\ here # Unknown /\ a.known[l] \notin {Unknown, here}
        THEN [SendKey(SendKey(a, sym, TRUE), sym, FALSE) EXCEPT !.known[l] = Unknown]
        ELSE a

HandleKeyEvent(s, call, caps, num) ==
    SendKey(SyncLock(SyncLock(s, "CapsLock", caps, call.code, call.down),
                     "NumLock", num, call.code, call.down),
            call.sym, call.down)

\* The calls of onkeyevent a handler of the keyboard made, one after another.
HandleCalls(out, s, caps, num) ==
    LET told[i \in 0 .. Len(out)] ==
            IF i = 0 THEN s ELSE HandleKeyEvent(told[i - 1], out[i], caps, num)
    IN  told[Len(out)]

\* The keyboard became k, on an event that reported the locks, or none did.
Deliver(k, reported, now) ==
    LET caps == IF reported THEN now["CapsLock"] ELSE Unknown
        num == IF reported /\ os # "mac" THEN now["NumLock"] ELSE Unknown
        s == HandleCalls(k.out, [srv |-> srv, twice |-> twice, remote |-> remote,
                                 known |-> known, leds |-> leds], caps, num)
    IN  /\ kb' = [k EXCEPT !.out = <<>>]
        /\ srv' = s.srv /\ twice' = s.twice
        /\ remote' = s.remote /\ known' = s.known /\ leds' = s.leds

Idle == UNCHANGED <<kb, srv, twice, remote, known, leds>>

HandleLedEvent ==
    /\ leds # <<>>
    /\ known' = Head(leds)
    /\ leds' = Tail(leds)
    /\ UNCHANGED <<os, browser, keyVars, local, remote, toggles, softVars>>

RemoteToggle(l) ==
    /\ toggles < MaxToggles
    /\ toggles' = toggles + 1
    /\ remote' = [remote EXCEPT ![l] = Toggled(@)]
    /\ leds' = Append(leds, remote')
    /\ UNCHANGED <<os, browser, keyVars, local, known, softVars>>

-----------------------------------------------------------------------------
(* The browser's key events.                                               *)

Names(p) ==
    CASE p = "KeyA" -> {"a", "A", "Dead"}
      [] p = "Numpad4" -> {"4", "ArrowLeft"}
      [] p = "Kana" -> Kana
      [] p = "AltRight" -> IF os = "windows" THEN {"AltGraph", "Alt"} ELSE {"Alt"}
      [] p \in {"ShiftLeft", "ShiftRight"} -> {"Shift"}
      [] p \in {"MetaLeft", "MetaRight"} -> {IF browser = "mozilla" THEN "OS" ELSE "Meta"}
      [] p = "ControlLeft" -> {"Control"}
      [] p = "AltLeft" -> {"Alt"}
      [] OTHER -> {p}

KeyEvent(p, key, near, held) ==
    [code |-> CASE browser = "legacy" -> ""
                [] browser = "mozilla" /\ p = "MetaLeft" -> "OSLeft"
                [] browser = "mozilla" /\ p = "MetaRight" -> "OSRight"
                [] OTHER -> p,
     vk |-> CASE p = "ShiftRight" -> "ShiftLeft"
              [] p = "AltRight" -> "AltLeft"
              [] p = "MetaRight" /\ os = "mac" -> "ContextMenu"
              [] p = "Numpad4" /\ key = "ArrowLeft" -> "ArrowLeft"
              [] p \in {"KeyA", "Kana"} -> ""
              [] OTHER -> p,
     plat |-> IF p = "KeyA" THEN "Platform65" ELSE IF p = "Kana" THEN "Platform242" ELSE "",
     key |-> key,
     location |-> CASE p \in {"ShiftLeft", "AltLeft", "ControlLeft", "MetaLeft"} -> 1
                    [] p \in {"ShiftRight", "AltRight", "MetaRight"} -> 2
                    [] p = "Numpad4" -> 3
                    [] OTHER -> 0,
     near |-> near,
     meta |-> held \cap {"MetaLeft", "MetaRight"} # {}]

\* An AltGr of Windows presses and releases a Ctrl of its own first.
FakesCtrl(p) == os = "windows" /\ p = "AltRight" /\ "ControlLeft" \notin pressed

FakeCtrl == KeyEvent("ControlLeft", "Control", FALSE, {})

PressKey(p, key, near) ==
    LET e == KeyEvent(p, key, near \/ FakesCtrl(p), pressed \cup {p})
        k == IF FakesCtrl(p) THEN HandleKeyDown(os, kb, FakeCtrl) ELSE kb
        now == IF p \in Locks THEN [local EXCEPT ![p] = Toggled(@)] ELSE local
        caps == os = "mac" /\ p = "CapsLock" /\ now[p] = "off"
    IN  /\ p \notin pressed
        /\ Len(leds) <= MaxLeds
        /\ p \in Locks => toggles < MaxToggles
        /\ toggles' = IF p \in Locks THEN toggles + 1 ELSE toggles
        /\ local' = now
        /\ pressed' = IF p = "CapsLock" /\ os = "mac" THEN pressed ELSE pressed \cup {p}
        /\ muted' = IF (os = "mac" /\ e.meta /\ p \notin {"MetaLeft", "MetaRight"})
                      \/ (os = "windows" /\ p = "Kana")
                    THEN muted \cup {p} ELSE muted
        /\ IF ~focused THEN Idle
           ELSE IF caps THEN Deliver(HandleKeyUp(os, kb, e), FALSE, now)
           ELSE Deliver(HandleKeyDown(os, k, e), TRUE, now)
        /\ UNCHANGED <<os, browser, focused, softVars>>

\* The keyboard repeats a key that is held down.
RepeatKey(p, key) ==
    /\ p \in pressed \ Locks
    /\ focused
    /\ Len(leds) <= MaxLeds
    /\ ~FakesCtrl(p)
    /\ os = "mac" => /\ p \notin {"MetaLeft", "MetaRight"}
                     /\ p \in muted => pressed \cap {"MetaLeft", "MetaRight"} # {}
    /\ Deliver(HandleKeyDown(os, kb, KeyEvent(p, key, FALSE, pressed)), TRUE, local)
    /\ UNCHANGED <<os, browser, pressed, muted, focused, local, toggles, softVars>>

ReleaseKey(p, key) ==
    LET e == KeyEvent(p, key, FALSE, pressed)
        other == CASE p = "ShiftLeft" -> "ShiftRight" [] p = "ShiftRight" -> "ShiftLeft"
                   [] OTHER -> "none"
        k == IF FakesCtrl(p) THEN HandleKeyUp(os, kb, FakeCtrl) ELSE kb
    IN  /\ p \in pressed
        /\ pressed' = pressed \ {p}
        /\ muted' = muted \ {p}
        /\ IF ~focused \/ p \in muted \/ (os = "windows" /\ other \in pressed)
           THEN Idle
           ELSE Deliver(HandleKeyUp(os, k, e), FALSE, local)
        /\ UNCHANGED <<os, browser, focused, local, toggles, softVars>>

\* An on-screen keyboard that gives the key but not its code, used alone.
VirtualKey(key) ==
    /\ os = "other" /\ browser = "legacy" /\ focused /\ pressed = {}
    /\ Len(leds) <= MaxLeds
    /\ Deliver(HandleKeyDown(os, kb, [KeyEvent("KeyA", key, FALSE, pressed)
                                        EXCEPT !.plat = ""]), TRUE, local)
    /\ UNCHANGED <<os, browser, pressed, muted, focused, local, toggles, softVars>>

AltGrTimeout ==
    /\ kb.armed
    /\ Deliver(HandleAltGrTimeout(kb), FALSE, local)
    /\ UNCHANGED <<os, browser, pressed, muted, focused, local, toggles, softVars>>

Blur ==
    /\ os # "android"
    /\ focused
    /\ kb.armed => BlurArmed
    /\ focused' = FALSE
    /\ Deliver(AllKeysUp(kb), FALSE, local)
    /\ UNCHANGED <<os, browser, pressed, muted, local, toggles, softVars>>

Focus ==
    /\ ~focused
    /\ focused' = TRUE
    /\ Idle
    /\ UNCHANGED <<os, browser, pressed, muted, local, toggles, softVars>>

-----------------------------------------------------------------------------
(* The soft keyboard.                                                      *)

\* The remote side's text after a key.  A keysym that is no character of
\* Latin-1 types nothing, or what else it is the keysym of.
Typed(t, sym) ==
    CASE sym = BackSpace -> IF t = <<>> THEN t ELSE Front(t)
      [] sym \in Latin1 -> Append(t, sym)
      [] OTHER -> t

\* The bare code point, of whatever script: U+FF08 gives BackSpace.
CharKeysym(ch) == ch

Foreign(w) == \E i \in DOMAIN w : w[i] \notin Latin1

\* The remote side's text after several keys.
TypedAll(t, syms) ==
    LET after[i \in 0 .. Len(syms)] == IF i = 0 THEN t ELSE Typed(after[i - 1], syms[i])
    IN  after[Len(syms)]

\* The keys that turn the field's old value into the new one.
EditKeys(old, new) ==
    LET prefix == Len(LongestCommonPrefix({old, new}))
        o == SubSeq(old, prefix + 1, Len(old))
        n == SubSeq(new, prefix + 1, Len(new))
        suffix == Len(LongestCommonPrefix({Reverse(o), Reverse(n)}))
    IN  [i \in 1 .. Len(o) - suffix |-> BackSpace]
        \o [i \in 1 .. Len(n) - suffix |-> CharKeysym(n[i])]

\* Mutant: the field is left as the user made it.
KbdSeedNothing(value) == field' = value /\ prev' = prev

KbdSeedField(value) == field' = Seed /\ prev' = Seed

OnInput(value) ==
    /\ text' = TypedAll(text, EditKeys(prev, value))
    /\ KbdSeedField(value)

\* Characters typed, dictated or pasted in one edit, outside a composition.
InsertText(w) ==
    /\ os = "android" /\ composing = <<>>
    /\ Len(typed) + Len(w) <= MaxText
    /\ typed' = typed \o w
    /\ foreign' = (foreign \/ Foreign(w))
    /\ OnInput(field \o w)
    /\ UNCHANGED <<os, browser, keyVars, lockVars, composing>>

DeleteBack ==
    /\ os = "android" /\ composing = <<>> /\ field # <<>>
    /\ typed' = Typed(typed, BackSpace)
    /\ OnInput(Front(field))
    /\ UNCHANGED <<os, browser, keyVars, lockVars, composing, foreign>>

\* The composition grows or changes; input events with isComposing are skipped.
Compose(w) ==
    /\ os = "android"
    /\ Len(typed) + Len(w) <= MaxText
    /\ composing' = w
    /\ field' = SubSeq(field, 1, Len(field) - Len(composing)) \o w
    /\ UNCHANGED <<os, browser, keyVars, lockVars, prev, typed, text, foreign>>

\* The end of a composition, which some keyboards follow up with an input
\* event of their own.
OnCompositionEnd(follow) ==
    /\ os = "android" /\ composing # <<>>
    /\ typed' = typed \o composing
    /\ foreign' = (foreign \/ Foreign(composing))
    /\ composing' = <<>>
    /\ LET sent == TypedAll(text, [i \in DOMAIN composing |-> CharKeysym(composing[i])])
       IN  text' = IF follow THEN TypedAll(sent, EditKeys(Seed, Seed)) ELSE sent
    /\ KbdSeedField(field)
    /\ UNCHANGED <<os, browser, keyVars, lockVars>>

\* A key the page knows by name (keydown): the field does not see it.
SpecialKey ==
    /\ os = "android" /\ composing = <<>>
    /\ typed' = Typed(typed, BackSpace)
    /\ text' = Typed(text, BackSpace)
    /\ UNCHANGED <<os, browser, keyVars, lockVars, field, prev, composing, foreign>>

-----------------------------------------------------------------------------
Keys == IF os = "android" THEN {} ELSE KeysOf[os]

KeyboardNext ==
    \/ \E p \in Keys, near \in BOOLEAN : \E key \in Names(p) : PressKey(p, key, near)
    \/ \E p \in Keys : \E key \in Names(p) : RepeatKey(p, key) \/ ReleaseKey(p, key)
    \/ \E key \in {"a", "Unidentified"} : VirtualKey(key)
    \/ AltGrTimeout
    \/ Blur
    \/ Focus
    \/ HandleLedEvent
    \/ \E l \in Locks \cap Keys : RemoteToggle(l)
    \/ \E w \in Words : InsertText(w) \/ Compose(w)
    \/ DeleteBack
    \/ \E follow \in BOOLEAN : OnCompositionEnd(follow)
    \/ SpecialKey

KeyboardSpec == KeyboardInit /\ [][KeyboardNext]_keyboardVars

-----------------------------------------------------------------------------
(* Properties.                                                             *)

LockSyms == {<<l, 0>> : l \in Locks}

\* The server holds exactly the keys the client believes are down, whatever
\* the browser calls them when they are released, and no press reaches it for a
\* key it already holds: a repeat is a release and a press (keyboard.js
\* _sendKeyEvent, and tests/keyboard-repeat.mjs).  Lock keys are excepted: a
\* late LED report makes rfb.js press and release one that is held.
ServerMirrors ==
    /\ srv \ LockSyms = Range(kb.keys) \ (LockSyms \cup {NoSym})
    /\ ~twice

\* No key stays down at the server when the user holds none, and none does
\* while the window is without focus, although the browsers do not report every
\* release (keyboard.js _handleKeyDown, _handleKeyUp, "Release (key up) if
\* window loses focus").
NoStuckKey == (focused => pressed = {}) => srv = {}

\* The user keeps typing a letter, and LED reports keep arriving.
TypingGoesOn ==
    /\ []<>(leds = <<>>)
    /\ []<>(<<"a", 0>> \in srv)
    /\ []<>(<<"a", 0>> \notin srv)

\* Lock keys pressed a finite number of times, here while the window had no
\* focus or on the remote side, end up agreeing with the user's once he types,
\* although reports of their state arrive late (rfb.js _handleKeyEvent,
\* _handleLedEvent).
LocksAgree ==
    TypingGoesOn => <>[](\A l \in Locks \cap Keys : remote[l] = local[l])

\* As long as the user has entered no character beyond Latin-1, the remote side
\* has every one of them once and in order, typed in single edits or in
\* compositions, their end followed by an input event or not (app.js input and
\* compositionend).
TypedOnce == ~foreign => text = typed

\* The same of any printable text (app.js, "Returns the X11 keysym for a single
\* printable character").  Does not hold.
TypedAny == text = typed
=============================================================================
