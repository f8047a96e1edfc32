----------------------------- MODULE MCEyeLights -----------------------------
(* EyeLights for TLC: each time is a few ticks, and as in eye_motion.cpp the *)
(* shortest gap between blinks (4.5 s) is below the resume time (5 s).       *)
EXTENDS EyeLights
=============================================================================
