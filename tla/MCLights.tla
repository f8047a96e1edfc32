------------------------------- MODULE MCLights -------------------------------
(* Three pixels on two strips, two home colours. *)
EXTENDS Lights

CONSTANTS red, cyan

TwoStrips == <<1, 2>>
Palette   == <<red, cyan>>
=============================================================================
