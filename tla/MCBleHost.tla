----------------------------- MODULE MCBleHost -----------------------------
(* BleHost for TLC: three gamepads or two, and three handles, among them    *)
(* the 0 that a new record holds before it has a link.                     *)
EXTENDS BleHost

CONSTANTS a1, a2, a3

TwoPads   == {a1, a2}
ThreePads == {a1, a2, a3}
FromZero  == 0 .. 2
=============================================================================
