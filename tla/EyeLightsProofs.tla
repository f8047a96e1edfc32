--------------------------- MODULE EyeLightsProofs ---------------------------
(***************************************************************************)
(* Theorems about EyeLights, for every brightness, step and time.  With    *)
(* the type, both properties are inductive: no step that switches the idle *)
(* behaviour off or moves the lights relies on where loop() is.            *)
(***************************************************************************)
EXTENDS EyeLights, TLAPS

IInv == TypeOK /\ ParkedLit /\ ComesBack

-----------------------------------------------------------------------------
(* The ramps stay within the range of the brightness (sketch.cpp:299-306). *)
LEMMA RampRange ==
    ASSUME NEW b \in 0 .. Full, NEW dir \in {"a", "b", "none"}
    PROVE  Ramp(b, dir) \in 0 .. Full
BY EyeAssumption DEF Ramp

(* Time passing keeps the types of what it counts.                         *)
LEMMA PassRange ==
    ASSUME TypeOK, NEW ticks \in Nat, Pass(ticks)
    PROVE  /\ blinkAge' \in 0 .. Closed + Open
           /\ nextBlink' \in 0 .. GapMax
           /\ idleResume' \in 0 .. IdleResume
           /\ sincePlay' \in 0 .. DipWindow
           /\ busy' \in BOOLEAN /\ cued' \in BOOLEAN
<1>1. blinkAge' \in 0 .. Closed + Open
  BY EyeAssumption DEF TypeOK, Pass, Up
<1>2. nextBlink' \in 0 .. GapMax
  BY EyeAssumption DEF TypeOK, Pass, Down
<1>3. idleResume' \in 0 .. IdleResume
  BY EyeAssumption DEF TypeOK, Pass, Down
<1>4. sincePlay' \in 0 .. DipWindow
  BY EyeAssumption DEF TypeOK, Pass, Up
<1>5. busy' \in BOOLEAN /\ cued' \in BOOLEAN
  BY DEF TypeOK, Pass
<1> QED
  BY <1>1, <1>2, <1>3, <1>4, <1>5

(* A play command, or none, keeps the types of the audio state.            *)
LEMMA CommandRange ==
    ASSUME TypeOK, Play \/ Quiet
    PROVE  /\ sincePlay' \in 0 .. DipWindow
           /\ busy' \in BOOLEAN /\ cued' \in BOOLEAN
<1>1. 0 \in 0 .. DipWindow
  BY EyeAssumption
<1>2. sincePlay' \in 0 .. DipWindow
  BY <1>1 DEF Play, Quiet, audio, TypeOK
<1>3. busy' \in BOOLEAN /\ cued' \in BOOLEAN
  BY Zenon DEF Play, Quiet, audio, TypeOK
<1> QED
  BY <1>2, <1>3

(* Both directions of setIdleEnabled() leave the eyes lit                  *)
(* (eye_motion.cpp:254-272).                                               *)
LEMMA SetIdleKeeps ==
    ASSUME TypeOK, ParkedLit, NEW enabled \in BOOLEAN, setIdleEnabled(enabled)
    PROVE  /\ ParkedLit'
           /\ sIdleEnabled' \in BOOLEAN /\ sBlinking' \in BOOLEAN
           /\ sBlinkLevel' \in Level
           /\ blinkAge' = blinkAge /\ idleResume' = idleResume
           /\ nextBlink' \in 0 .. GapMax
<1>1. CASE enabled = sIdleEnabled
  BY <1>1 DEF setIdleEnabled, idleMode, timers, TypeOK, ParkedLit
<1>2. CASE enabled # sIdleEnabled /\ enabled
  BY <1>2, EyeAssumption DEF setIdleEnabled, TypeOK, ParkedLit, Gap
<1>3. CASE enabled # sIdleEnabled /\ ~enabled
  BY <1>3 DEF setIdleEnabled, TypeOK, ParkedLit, Level
<1> QED
  BY <1>1, <1>2, <1>3

(* updateEyeLevel() shows one of the levels (eye_motion.cpp:180-212).      *)
LEMMA EyeLevelRange ==
    ASSUME TypeOK, UpdateEyeLevel
    PROVE  /\ sBlinkLevel' \in Level /\ sBlinking' \in BOOLEAN
           /\ blinkAge' \in 0 .. Closed + Open
           /\ nextBlink' \in 0 .. GapMax
<1>1. Gap \subseteq 0 .. GapMax /\ 0 \in 0 .. Closed + Open
  BY EyeAssumption DEF Gap
<1>2. CASE Speaks
  BY <1>1, <1>2 DEF UpdateEyeLevel, TypeOK, Level
<1>3. CASE ~Speaks
  BY <1>1, <1>3 DEF UpdateEyeLevel, TypeOK, Level
<1> QED
  BY <1>2, <1>3

-----------------------------------------------------------------------------
LEMMA InitIInv == Init => IInv
<1> SUFFICES ASSUME Init PROVE IInv
  OBVIOUS
<1>1. /\ sGlobalBrightness \in 0 .. Full /\ sBrightnessBeforeOff \in 0 .. Full
      /\ ComesBack
      /\ blinkAge \in 0 .. Closed + Open /\ nextBlink \in 0 .. GapMax
      /\ idleResume \in 0 .. IdleResume /\ sincePlay \in 0 .. DipWindow
  BY EyeAssumption DEF Init, Gap, ComesBack
<1>2. /\ pc \in {"web", "pad", "admin", "eyes", "show"}
      /\ gamepad \in {"away", "parked", "driven"}
      /\ sXWasPressed \in BOOLEAN /\ sBlinkLevel \in Level
      /\ sIdleEnabled \in BOOLEAN /\ sBlinking \in BOOLEAN
      /\ busy \in BOOLEAN /\ cued \in BOOLEAN
      /\ ParkedLit
  BY Zenon DEF Init, Level, ParkedLit
<1> QED
  BY <1>1, <1>2 DEF IInv, TypeOK

(* X, with or without a ramp in the same iteration.                        *)
LEMMA PadKeeps ==
    ASSUME IInv, NEW stick \in {"parked", "driven"}, NEW x \in BOOLEAN,
           NEW dir \in {"a", "b", "none"}, PadConnected(stick, x, dir)
    PROVE  IInv'
<1> USE DEF IInv
<1>1. /\ pc' = "admin" /\ gamepad' = stick /\ sXWasPressed' = x
      /\ sincePlay' \in 0 .. DipWindow /\ busy' \in BOOLEAN /\ cued' \in BOOLEAN
  BY CommandRange DEF PadConnected, Goto
<1>2. CASE x /\ ~sXWasPressed
  <2>1. /\ sBrightnessBeforeOff' = BeforeOff
        /\ sGlobalBrightness' = Ramp(IF sGlobalBrightness = 0 THEN sBrightnessBeforeOff
                                                              ELSE 0, dir)
        /\ setIdleEnabled(sGlobalBrightness = 0)
    BY <1>2 DEF PadConnected
  <2>2. ParkedLit' /\ sIdleEnabled' \in BOOLEAN /\ sBlinking' \in BOOLEAN
        /\ sBlinkLevel' \in Level
        /\ blinkAge' = blinkAge /\ idleResume' = idleResume /\ nextBlink' \in 0 .. GapMax
    BY <2>1, SetIdleKeeps
  <2>3. sBrightnessBeforeOff' \in 0 .. Full /\ ComesBack'
    BY <2>1 DEF BeforeOff, TypeOK, ComesBack
  <2>4. sGlobalBrightness' \in 0 .. Full
    BY <2>1, RampRange, EyeAssumption DEF TypeOK
  <2> QED
    BY <1>1, <2>2, <2>3, <2>4 DEF TypeOK
<1>3. CASE ~(x /\ ~sXWasPressed)
  <2>1. /\ sGlobalBrightness' = Ramp(sGlobalBrightness, dir)
        /\ UNCHANGED <<sBrightnessBeforeOff, idleMode, timers>>
    BY <1>3 DEF PadConnected
  <2>2. sGlobalBrightness' \in 0 .. Full
    BY <2>1, RampRange DEF TypeOK
  <2> QED
    BY <1>1, <2>1, <2>2 DEF TypeOK, idleMode, timers, ParkedLit, ComesBack
<1> QED
  BY <1>2, <1>3

LEMMA NextIInv == IInv /\ [Next]_vars => IInv'
<1> SUFFICES ASSUME IInv, [Next]_vars PROVE IInv'
  OBVIOUS
<1> USE DEF IInv
<1>1. CASE Web
  <2>1. sGlobalBrightness' \in 0 .. Full /\ (Play \/ Quiet)
    BY <1>1 DEF Web, TypeOK
  <2> QED
    BY <1>1, <2>1, CommandRange DEF Web, Goto, timers, idleMode, TypeOK, ParkedLit, ComesBack
<1>2. ASSUME NEW stick \in {"parked", "driven"}, NEW x \in BOOLEAN,
             NEW dir \in {"a", "b", "none"}, PadConnected(stick, x, dir)
      PROVE  IInv'
  BY <1>2, PadKeeps
<1>3. CASE PadAway
  BY <1>3 DEF PadAway, Goto, timers, idleMode, audio, TypeOK, ParkedLit, ComesBack
<1>4. CASE AdminAck
  <2>1. Pass(AckTicks) /\ AckTicks \in Nat
    BY <1>4, EyeAssumption DEF AdminAck
  <2> QED
    BY <1>4, <2>1, PassRange
    DEF AdminAck, Goto, brightness, Level, TypeOK, ParkedLit, ComesBack
<1>5. CASE NoAdmin
  BY <1>5 DEF NoAdmin, Goto, brightness, timers, idleMode, audio, TypeOK, ParkedLit,
              ComesBack
<1>6. CASE Driven
  <2>1. nextBlink' \in 0 .. GapMax /\ idleResume' \in 0 .. IdleResume
    BY <1>6, EyeAssumption DEF Driven, Gap
  <2>2. sBlinkLevel' \in Level
    BY <1>6 DEF Driven, TypeOK, Level
  <2>3. ParkedLit'
    BY <1>6 DEF Driven, ParkedLit
  <2> QED
    BY <1>6, <2>1, <2>2, <2>3 DEF Driven, Goto, brightness, audio, TypeOK, ComesBack
<1>7. CASE IdleEyes
  BY <1>7, EyeLevelRange
  DEF IdleEyes, Goto, brightness, audio, TypeOK, ParkedLit, ComesBack
<1>8. CASE HeldEyes
  BY <1>8 DEF HeldEyes, Goto, brightness, timers, idleMode, audio, TypeOK, ParkedLit,
              ComesBack
<1>9. CASE Show
  <2>1. Pass(1)
    BY <1>9 DEF Show
  <2> QED
    BY <1>9, <2>1, PassRange
    DEF Show, Goto, brightness, idleMode, TypeOK, ParkedLit, ComesBack
<1>10. CASE UNCHANGED vars
  BY <1>10 DEF vars, TypeOK, ParkedLit, ComesBack
<1> QED
  BY <1>1, <1>2, <1>3, <1>4, <1>5, <1>6, <1>7, <1>8, <1>9, <1>10 DEF Next

-----------------------------------------------------------------------------
(* Brightness, levels and timers keep their ranges (eye_motion.cpp,        *)
(* sketch.cpp:299-306).                                                    *)
THEOREM TypeCorrect == Spec => []TypeOK
<1>1. IInv => TypeOK
  BY DEF IInv
<1> QED
  BY <1>1, InitIInv, NextIInv, PTL DEF Spec

(* Parking the idle behaviour never leaves the lights dark for the time    *)
(* they are switched on again (eye_motion.cpp:266-270).                    *)
THEOREM ParkedLitAlways == Spec => []ParkedLit
<1>1. IInv => ParkedLit
  BY DEF IInv
<1> QED
  BY <1>1, InitIInv, NextIInv, PTL DEF Spec

(* X finds a brightness to come back to (sketch.cpp:220-227).              *)
THEOREM ComesBackAlways == Spec => []ComesBack
<1>1. IInv => ComesBack
  BY DEF IInv
<1> QED
  BY <1>1, InitIInv, NextIInv, PTL DEF Spec
=============================================================================
