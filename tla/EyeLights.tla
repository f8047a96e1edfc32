------------------------------ MODULE EyeLights ------------------------------
(***************************************************************************)
(* Who decides how bright the eyes are.  loop() (main/sketch.cpp) lets the *)
(* web UI, the gamepad, the admin acknowledgement and EyeMotion write the  *)
(* global brightness and the blink level in turn, and shows the result;    *)
(* then it waits for one tick.                                             *)
(*                                                                         *)
(* pc is the place in loop().  Time is counted in ticks of loop(): a       *)
(* deadline is the number of ticks left until it has passed, an age the    *)
(* ticks gone by, up to the greatest one the code tells apart.  (The       *)
(* roll-over of millis() is the subject of module Millis.)                 *)
(***************************************************************************)
EXTENDS Naturals

CONSTANTS Full,             \* greatest brightness (255)
          Boot,             \* brightness at power-on (200)
          Step,             \* kBrightnessStepPerTick
          Closed, Open,     \* kBlinkClosedMs, kBlinkOpenMs in ticks
          GapMin, GapMax,   \* kBlinkGapMinMs, kBlinkGapMaxMs
          DipWindow,        \* kSpeechDipWindowMs
          IdleResume,       \* kIdleResumeMs
          AckTicks          \* how long flashAdminAck() blocks

ASSUME EyeAssumption ==
  /\ Full \in Nat /\ Boot \in 1 .. Full /\ Step \in Nat \ {0}
  /\ {Closed, Open, GapMin, DipWindow, IdleResume, AckTicks} \subseteq Nat \ {0}
  /\ GapMax \in Nat /\ GapMin <= GapMax

VARIABLES pc,
          gamepad,              \* "away", "parked" or "driven": the right stick
          sGlobalBrightness, sBrightnessBeforeOff, sXWasPressed,
          sBlinkLevel,          \* the last LedController::setBlinkLevel()
          sIdleEnabled, sBlinking,
          blinkAge,             \* millis() - sBlinkStartMs
          nextBlink,            \* ticks until sNextBlinkMs
          idleResume,           \* ticks until sIdleResumeAtMs
          sincePlay,            \* AudioPlayer::sinceLastPlayCommand()
          busy, cued            \* the DFPlayer: sounding; told to play

vars == <<pc, gamepad, sGlobalBrightness, sBrightnessBeforeOff, sXWasPressed, sBlinkLevel,
          sIdleEnabled, sBlinking, blinkAge, nextBlink, idleResume, sincePlay, busy, cued>>

brightness == <<sGlobalBrightness, sBrightnessBeforeOff, sXWasPressed>>
audio == <<sincePlay, busy, cued>>
timers == <<blinkAge, nextBlink, idleResume>>
idleMode == <<sIdleEnabled, sBlinking, sBlinkLevel>>

(* "closed" is 0, "ramp" the way back, "rest" kEyeRestLevel, "dip"         *)
(* kSpeechDipLevel and "bright" 255.                                       *)
Level == {"closed", "ramp", "rest", "dip", "bright"}
Gap   == GapMin .. GapMax

TypeOK == /\ pc \in {"web", "pad", "admin", "eyes", "show"}
          /\ gamepad \in {"away", "parked", "driven"}
          /\ sGlobalBrightness \in 0 .. Full
          /\ sBrightnessBeforeOff \in 0 .. Full
          /\ sXWasPressed \in BOOLEAN
          /\ sBlinkLevel \in Level
          /\ sIdleEnabled \in BOOLEAN
          /\ sBlinking \in BOOLEAN
          /\ blinkAge \in 0 .. Closed + Open
          /\ nextBlink \in 0 .. GapMax
          /\ idleResume \in 0 .. IdleResume
          /\ sincePlay \in 0 .. DipWindow
          /\ busy \in BOOLEAN /\ cued \in BOOLEAN

Init == /\ pc = "web"
        /\ gamepad = "away"
        /\ sGlobalBrightness = Boot /\ sBrightnessBeforeOff = Boot
        /\ sXWasPressed = FALSE
        /\ sBlinkLevel = "bright"
        /\ sIdleEnabled = TRUE /\ sBlinking = FALSE
        /\ blinkAge = 0 /\ nextBlink \in Gap /\ idleResume = 0
        /\ sincePlay = DipWindow
        /\ busy = FALSE /\ cued = FALSE

-----------------------------------------------------------------------------
Goto(from, to) == pc = from /\ pc' = to

(* AudioPlayer::play(), or no command at all *)
Play == sincePlay' = 0 /\ cued' = TRUE /\ UNCHANGED busy
Quiet == UNCHANGED audio

(* WebUI::handleClient() and OtaService::handle(): at most one request.    *)
(* An upload that fails has set the brightness to 0 (onStart) and returns. *)
Web ==
  /\ Goto("web", "pad")
  /\ \/ Play /\ UNCHANGED sGlobalBrightness
     \/ \E v \in 0 .. Full : sGlobalBrightness' = v /\ Quiet
     \/ UNCHANGED sGlobalBrightness /\ Quiet
  /\ UNCHANGED <<gamepad, sBrightnessBeforeOff, sXWasPressed>>
  /\ UNCHANGED <<timers, idleMode>>

(* A or B: ramp down or up, clamped. *)
Ramp(b, dir) == CASE dir = "a" -> IF b < Step THEN 0 ELSE b - Step
                  [] dir = "b" -> IF b + Step > Full THEN Full ELSE b + Step
                  [] OTHER     -> b

(* Mutant: a blink in flight is left alone. *)
Mutant_setIdleEnabled(enabled) ==
  IF enabled = sIdleEnabled THEN UNCHANGED <<idleMode, timers>>
  ELSE /\ sIdleEnabled' = enabled
       /\ nextBlink' \in IF enabled THEN Gap ELSE {nextBlink}
       /\ UNCHANGED <<sBlinking, sBlinkLevel, blinkAge, idleResume>>

(* EyeMotion::setIdleEnabled(): both directions leave the eyes lit. *)
setIdleEnabled(enabled) ==
  IF enabled = sIdleEnabled THEN UNCHANGED <<idleMode, timers>>
  ELSE /\ sIdleEnabled' = enabled
       /\ IF enabled THEN nextBlink' \in Gap /\ UNCHANGED <<sBlinking, sBlinkLevel>>
                     ELSE sBlinking' = FALSE /\ sBlinkLevel' = "rest" /\ UNCHANGED nextBlink
       /\ UNCHANGED <<blinkAge, idleResume>>

(* Mutant: X remembers whatever the brightness is. *)
Mutant_BeforeOff == sGlobalBrightness

(* What is remembered when X switches the lights off. *)
BeforeOff == IF sGlobalBrightness = 0 THEN sBrightnessBeforeOff ELSE sGlobalBrightness

(* loop() with a gamepad: X toggles on its edge, then A or B may ramp.     *)
PadConnected(stick, x, dir) ==
  /\ Goto("pad", "admin")
  /\ gamepad' = stick
  /\ IF x /\ ~sXWasPressed
     THEN LET turningOn == sGlobalBrightness = 0
          IN  /\ sBrightnessBeforeOff' = BeforeOff
              /\ sGlobalBrightness' = Ramp(IF turningOn THEN sBrightnessBeforeOff ELSE 0, dir)
              /\ setIdleEnabled(turningOn)
     ELSE /\ sGlobalBrightness' = Ramp(sGlobalBrightness, dir)
          /\ UNCHANGED <<sBrightnessBeforeOff, idleMode, timers>>
  /\ sXWasPressed' = x
  /\ Play \/ Quiet

(* loop() without one *)
PadAway == /\ Goto("pad", "admin")
           /\ gamepad' = "away"
           /\ sXWasPressed' = FALSE
           /\ UNCHANGED <<sGlobalBrightness, sBrightnessBeforeOff>>
           /\ UNCHANGED <<timers, idleMode, audio>>

-----------------------------------------------------------------------------
(* Time passes: countdowns stop at 0, ages at the greatest one of interest. *)
Down(n, ticks) == IF n < ticks THEN 0 ELSE n - ticks
Up(n, ticks, top) == IF n + ticks > top THEN top ELSE n + ticks

Pass(ticks) ==
  /\ blinkAge'   = IF sBlinking THEN Up(blinkAge, ticks, Closed + Open) ELSE blinkAge
  /\ nextBlink'  = Down(nextBlink, ticks)
  /\ idleResume' = Down(idleResume, ticks)
  /\ sincePlay'  = Up(sincePlay, ticks, DipWindow)
  /\ \/ cued /\ busy' = TRUE /\ cued' = FALSE
     \/ busy /\ busy' = FALSE /\ UNCHANGED cued
     \/ UNCHANGED <<busy, cued>>

(* flashAdminAck() after a toggle: it blocks, opens the blink level and    *)
(* puts only the brightness back.                                          *)
AdminAck == /\ Goto("admin", "eyes")
            /\ sBlinkLevel' = "bright"
            /\ Pass(AckTicks)
            /\ UNCHANGED <<gamepad, brightness, sIdleEnabled, sBlinking>>

NoAdmin == /\ Goto("admin", "eyes")
           /\ UNCHANGED <<gamepad, brightness, timers, idleMode, audio>>

(* Mutant: the wait for the module is not bounded. *)
Mutant_Speaks == busy \/ cued

(* speechLevel(): sounding, or just told to. *)
Speaks == busy \/ sincePlay < DipWindow

(* Mutant: a blink that is over is not ended. *)
Mutant_UpdateEyeLevel ==
  IF Speaks
  THEN /\ sBlinkLevel' = IF busy THEN "bright" ELSE "dip"
       /\ sBlinking' = FALSE
       /\ nextBlink' \in Gap
       /\ UNCHANGED blinkAge
  ELSE IF sBlinking
  THEN /\ sBlinkLevel' = IF blinkAge < Closed THEN "closed" ELSE "ramp"
       /\ UNCHANGED <<sBlinking, nextBlink, blinkAge>>
  ELSE /\ sBlinkLevel' = "rest"
       /\ sBlinking' = (nextBlink = 0)
       /\ blinkAge' = 0
       /\ UNCHANGED nextBlink

(* updateEyeLevel() *)
UpdateEyeLevel ==
  IF Speaks
  THEN /\ sBlinkLevel' = IF busy THEN "bright" ELSE "dip"
       /\ sBlinking' = FALSE
       /\ nextBlink' \in Gap
       /\ UNCHANGED blinkAge
  ELSE \/ /\ sBlinking
          /\ blinkAge < Closed + Open
          /\ sBlinkLevel' = IF blinkAge < Closed THEN "closed" ELSE "ramp"
          /\ UNCHANGED <<sBlinking, nextBlink, blinkAge>>
       \/ /\ sBlinking
          /\ blinkAge = Closed + Open
          /\ sBlinkLevel' = "rest"
          /\ sBlinking' = FALSE
          /\ nextBlink' \in Gap
          /\ UNCHANGED blinkAge
       \/ /\ ~sBlinking
          /\ nextBlink = 0
          /\ sBlinking' = TRUE
          /\ blinkAge' = 0
          /\ UNCHANGED <<sBlinkLevel, nextBlink>>
       \/ /\ ~sBlinking
          /\ nextBlink # 0
          /\ sBlinkLevel' = "rest"
          /\ UNCHANGED <<sBlinking, nextBlink, blinkAge>>

(* EyeMotion::update() with the stick in use: suspendIdle(). *)
Driven == /\ Goto("eyes", "show")
          /\ gamepad = "driven"
          /\ idleResume' = IdleResume
          /\ sBlinking' = FALSE
          /\ sBlinkLevel' = IF sBlinking THEN "rest" ELSE sBlinkLevel
          /\ nextBlink' \in Gap
          /\ UNCHANGED <<gamepad, brightness, sIdleEnabled, blinkAge, audio>>

(* EyeMotion::update() otherwise *)
Idle == gamepad = "away" \/ (gamepad = "parked" /\ idleResume = 0)

IdleEyes == /\ Goto("eyes", "show")
            /\ Idle
            /\ sIdleEnabled
            /\ UpdateEyeLevel
            /\ UNCHANGED <<gamepad, brightness, sIdleEnabled, idleResume, audio>>

HeldEyes == /\ Goto("eyes", "show")
            /\ gamepad # "driven"
            /\ ~(Idle /\ sIdleEnabled)
            /\ UNCHANGED <<gamepad, brightness, timers, idleMode, audio>>

(* LedController::showAll(), then delay(30). *)
Show == /\ Goto("show", "web")
        /\ Pass(1)
        /\ UNCHANGED <<gamepad, brightness, idleMode>>

Next == \/ Web
        \/ \E stick \in {"parked", "driven"}, x \in BOOLEAN, dir \in {"a", "b", "none"} :
             PadConnected(stick, x, dir)
        \/ PadAway
        \/ AdminAck \/ NoAdmin
        \/ Driven \/ IdleEyes \/ HeldEyes
        \/ Show

(* loop() is called for ever. *)
Spec == Init /\ [][Next]_vars /\ WF_vars(Next)

-----------------------------------------------------------------------------
(* With idle behaviour switched off nothing resets the blink level, so it  *)
(* is never left there on the way through a blink or a dip: the lights do  *)
(* not come back on dark (eye_motion.cpp:266-270).                         *)
ParkedLit == ~sIdleEnabled => ~sBlinking /\ sBlinkLevel \in {"rest", "bright"}

(* X always has a brightness to come back to, whichever of the web UI, the *)
(* ramps and X itself put the lights out (sketch.cpp:220-227).             *)
ComesBack == sBrightnessBeforeOff # 0

(* A blink, suspended, interrupted or held as it may be, comes to an end   *)
(* (eye_motion.cpp:194-205, 216-220).                                      *)
BlinkEnds == (sBlinkLevel \in {"closed", "ramp"}) ~> (sBlinkLevel \notin {"closed", "ramp"})

(* A play command that never produces sound does not leave the eyes at the *)
(* dip, unless the stick keeps them (eye_motion.cpp:81-84, 166-172).       *)
Dark == sBlinkLevel = "dip" /\ sincePlay = DipWindow
DipEndsUndriven == ~ <>[](Dark /\ gamepad # "driven")

(* eye_motion.cpp:82-84 "past this the eyes return to rest, so a command   *)
(* that never produces sound cannot leave them dark".                      *)
DipEnds == ~ <>[]Dark

(* eye_motion.cpp:214-215 "handing control back and forth doesn't strand   *)
(* the LEDs mid-blink": what is shown while the stick has control.         *)
NotStranded == pc = "show" /\ ~Idle => sBlinkLevel \notin {"closed", "ramp"}

(* sketch.cpp:217-219: with the lights off the idle behaviour is parked.   *)
DarkIsParked == pc = "show" /\ sGlobalBrightness = 0 => ~sIdleEnabled
=============================================================================
