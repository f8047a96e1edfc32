---------------------------- MODULE MCAudioPlayer ----------------------------
(* AudioPlayer for TLC: a clock of Wrap ticks in place of 2^32 ms. *)
EXTENDS AudioPlayer
=============================================================================
