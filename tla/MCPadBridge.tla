----------------------------- MODULE MCPadBridge -----------------------------
(* PadBridge for TLC: two gamepads, or a gamepad and a keyboard, that takes  *)
(* a seat too.                                                               *)
EXTENDS PadBridge

CONSTANTS p1, p2, k

TwoPads == {p1, p2}
PadAndKeyboard == {p1, k}
=============================================================================
