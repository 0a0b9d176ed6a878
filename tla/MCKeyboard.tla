----------------------------- MODULE MCKeyboard -----------------------------
EXTENDS Keyboard

MCKeysOf ==
    [windows |-> {"ControlLeft", "AltRight", "ShiftLeft", "ShiftRight", "Kana"},
     mac |-> {"MetaLeft", "MetaRight", "KeyA", "CapsLock"},
     other |-> {"KeyA", "Numpad4", "CapsLock", "NumLock"}]

\* "a", "x", "ax", and the fullwidth parenthesis U+FF08.
MCWords == {<<97>>, <<120>>, <<97, 120>>, <<65288>>}
=============================================================================
