------------------------------ MODULE MCRadio ------------------------------
(* Radio for TLC: CPU0 may owe MaxLag commands whenever a hold completes. *)
EXTENDS Radio
=============================================================================
