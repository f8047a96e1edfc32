----------------------------- MODULE LoopButtons -----------------------------
(***************************************************************************)
(* The timed buttons of loop() (main/sketch.cpp): holding the admin button,*)
(* clicking Y twice, and holding the D-pad up or down for the volume.      *)
(* Each keeps its last time in a static where 0 means "none", on a clock   *)
(* that rolls over.                                                        *)
(*                                                                         *)
(* A step is one iteration of loop(), one tick of the clock long.  The     *)
(* variables under "observed" are not in the code: they record, without a  *)
(* clock, what the user did.                                               *)
(***************************************************************************)
EXTENDS Millis

CONSTANTS AdminHold,     \* kAdminHoldMs
          AckTicks,      \* how much longer an iteration with flashAdminAck() takes
          DoubleClick,   \* kDoubleClickWindowMs
          VolumeRepeat,  \* kVolumeRepeatMs
          TopVolume,     \* 30, with kVolumeStep 1
          FirstVolume    \* setup()'s setVolume(20)

ASSUME ButtonAssumption ==
  /\ {AdminHold, DoubleClick, VolumeRepeat} \subseteq 1 .. Wrap - 1
  /\ AckTicks \in Nat /\ TopVolume \in Nat /\ FirstVolume \in 0 .. TopVolume

VARIABLES now,
          sAdminPressedAtMs, sAdminHoldFired,
          sYWasPressed, sLastYPressMs,
          volume,        \* AudioPlayer::volume()
          sLastVolumeChangeMs, sVolumeAdjusted,
          (* observed *)
          did,           \* what this iteration has done
          dpad,          \* the D-pad as it was in this iteration
          held,          \* iterations the admin button has been down, up to a bound
          toggles,       \* toggles since it went down
          clicks         \* Y clicks in a row that count: 0, or 1 after a single one

admin == <<sAdminPressedAtMs, sAdminHoldFired, held, toggles>>
pad == <<sYWasPressed, sLastYPressMs, volume, sLastVolumeChangeMs, sVolumeAdjusted,
         dpad, clicks>>
vars == <<now, admin, pad, did>>

Dpad == {"up", "down", "none"}
HeldBound == AdminHold + 2

TypeOK == /\ now \in Clock
          /\ {sAdminPressedAtMs, sLastYPressMs, sLastVolumeChangeMs} \subseteq Clock
          /\ {sAdminHoldFired, sYWasPressed, sVolumeAdjusted} \subseteq BOOLEAN
          /\ volume \in 0 .. TopVolume
          /\ did \subseteq {"toggle", "cycle", "pin", "volume", "replay"}
          /\ dpad \in Dpad
          /\ held \in 0 .. HeldBound
          /\ toggles \in 0 .. HeldBound
          /\ clicks \in 0 .. 1

Init == /\ now = 0
        /\ sAdminPressedAtMs = 0 /\ sAdminHoldFired = FALSE
        /\ sYWasPressed = FALSE /\ sLastYPressMs = 0
        /\ volume = FirstVolume /\ sLastVolumeChangeMs = 0 /\ sVolumeAdjusted = FALSE
        /\ did = {} /\ dpad = "none"
        /\ held = 0 /\ toggles = 0 /\ clicks = 0

-----------------------------------------------------------------------------
(* Y has just gone down: a second click within the window pins the color,  *)
(* any other one steps the palette.                                        *)
IsDouble == sLastYPressMs # 0 /\ Since(now, sLastYPressMs) <= DoubleClick

(* Mutant: the click that made a double one counts again. *)
Mutant_ClickY == /\ sLastYPressMs' = now
                 /\ clicks' = IF IsDouble THEN 0 ELSE 1

ClickY == IF IsDouble THEN sLastYPressMs' = 0 /\ clicks' = 0
                      ELSE sLastYPressMs' = now /\ clicks' = 1

YEffect(y) == IF y /\ ~sYWasPressed THEN IF IsDouble THEN {"pin"} ELSE {"cycle"} ELSE {}

Y(y) == /\ sYWasPressed' = y
        /\ IF y /\ ~sYWasPressed THEN ClickY ELSE UNCHANGED <<sLastYPressMs, clicks>>

(* D-pad up or down, rate limited; the replay comes with the release.      *)
Due == Since(now, sLastVolumeChangeMs) >= VolumeRepeat

NextVolume(d) == IF d = "up" THEN Upto(volume + 1, TopVolume)
                             ELSE IF volume = 0 THEN 0 ELSE volume - 1

VolumeEffect(d) == IF d # "none" THEN IF Due THEN {"volume"} ELSE {}
                                 ELSE IF sVolumeAdjusted THEN {"replay"} ELSE {}

Volume(d) ==
  /\ dpad' = d
  /\ IF d # "none"
     THEN IF Due
          THEN /\ volume' = NextVolume(d)
               /\ sLastVolumeChangeMs' = now
               /\ sVolumeAdjusted' = TRUE
          ELSE UNCHANGED <<volume, sLastVolumeChangeMs, sVolumeAdjusted>>
     ELSE sVolumeAdjusted' = FALSE /\ UNCHANGED <<volume, sLastVolumeChangeMs>>

(* The branch without a gamepad: the edges and the click are forgotten.    *)
Away == /\ sYWasPressed' = FALSE
        /\ sLastYPressMs' = 0
        /\ clicks' = 0
        /\ dpad' = "none"
        /\ UNCHANGED <<volume, sLastVolumeChangeMs, sVolumeAdjusted>>

-----------------------------------------------------------------------------
(* Mutants: the hold is one tick short; one hold toggles again and again. *)
Mutant_Fires_Early == /\ sAdminPressedAtMs # 0
                      /\ ~sAdminHoldFired
                      /\ Since(now, sAdminPressedAtMs) + 1 >= AdminHold
Mutant_Fires_NoLatch == /\ sAdminPressedAtMs # 0
                        /\ Since(now, sAdminPressedAtMs) >= AdminHold

(* The admin button is down, long enough and not yet acted upon.           *)
Fires == /\ sAdminPressedAtMs # 0
         /\ ~sAdminHoldFired
         /\ Since(now, sAdminPressedAtMs) >= AdminHold

AdminDown == /\ sAdminPressedAtMs' = IF sAdminPressedAtMs = 0 THEN now ELSE sAdminPressedAtMs
             /\ sAdminHoldFired' = (sAdminHoldFired \/ Fires)
             /\ held' = Upto(held + 1, HeldBound)
             /\ toggles' = IF Fires THEN Upto(toggles + 1, HeldBound) ELSE toggles

AdminUp == /\ sAdminPressedAtMs' = 0
           /\ sAdminHoldFired' = FALSE
           /\ held' = 0 /\ toggles' = 0

AdminEffect(down) == IF down /\ Fires THEN {"toggle"} ELSE {}

Passes(effects) ==
  LET ticks == IF "toggle" \in effects THEN 1 + AckTicks ELSE 1
  IN  /\ now' = Later(now, ticks)
      /\ did' = effects

Admin(down) == IF down THEN AdminDown ELSE AdminUp

LoopConnected(y, d, down) == /\ Y(y) /\ Volume(d) /\ Admin(down)
                             /\ Passes(YEffect(y) \cup VolumeEffect(d) \cup AdminEffect(down))

LoopAway(down) == Away /\ Admin(down) /\ Passes(AdminEffect(down))

Next == \E down \in BOOLEAN :
          \/ LoopAway(down)
          \/ \E y \in BOOLEAN, d \in Dpad : LoopConnected(y, d, down)

Spec == Init /\ [][Next]_vars

-----------------------------------------------------------------------------
(* A toggle takes a hold of kAdminHoldMs without a release, and one that   *)
(* is kept up for one tick more than that (a press may fall on the reading *)
(* 0 that stands for "not pressed") does toggle, once                      *)
(* (sketch.cpp:328-375).                                                   *)
ToggleIsHeld == "toggle" \in did => held > AdminHold
HoldToggles  == toggles <= 1 /\ (held = HeldBound => toggles = 1)

(* A color is pinned by the second of two clicks and a third one starts    *)
(* afresh: the last click that counted was a single one, made since the    *)
(* gamepad connected (sketch.cpp:238-248, 316).                            *)
PinIsSecond == [][("pin" \in did') => clicks = 1]_vars

(* sketch.cpp:269 "Replay once the direction is released": the direction   *)
(* was held in the iteration before.                                       *)
ReplayOnRelease == [][("replay" \in did') => dpad # "none"]_vars
=============================================================================
