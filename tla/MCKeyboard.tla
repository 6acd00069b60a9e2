----------------------------- MODULE MCKeyboard -----------------------------
EXTENDS Keyboard

Key(code, ext, qwerty_cells, jcuken_cells) ==
  [code |-> code, ext |-> ext, cells |-> [m \in BOOLEAN |-> IF m THEN jcuken_cells ELSE qwerty_cells]]

Letter     == Key(\h1C, FALSE, {<<4, 1>>}, {<<4, 6>>})  \* A, or the F of the Russian layout
Up         == Key(\h75, TRUE, {<<0, 5>>}, {<<0, 5>>})
RightAlt   == Key(\h11, TRUE, {}, {})                  \* switches to jcuken
ScrollLock == Key(\h7E, FALSE, {<<8, 5>>}, {<<8, 5>>})
F11        == Key(\h78, FALSE, {<<8, 3>>}, {<<8, 3>>})

FiveKeys == {Letter, Up, RightAlt, ScrollLock, F11}
ThreeStruck == {RightAlt, ScrollLock, F11}
TwoKeys == {Letter, ScrollLock}
=============================================================================
