---------------------------- MODULE MCLoopButtons ----------------------------
(* LoopButtons for TLC: a clock of Wrap ticks in place of 2^32 milliseconds. *)
EXTENDS LoopButtons
=============================================================================
