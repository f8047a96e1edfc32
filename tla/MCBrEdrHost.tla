----------------------------- MODULE MCBrEdrHost -----------------------------
(* BrEdrHost for TLC: two gamepads that connect by themselves, one of which  *)
(* also answers an inquiry.                                                  *)
EXTENDS BrEdrHost

CONSTANTS a1, a2

TwoPads == {a1, a2}
OnePad  == {a1}
=============================================================================
