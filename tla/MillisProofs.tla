----------------------------- MODULE MillisProofs -----------------------------
(***************************************************************************)
(* The parts of main/ that measure time with millis(), proved for every    *)
(* clock, window and delay: the timed buttons of loop() (LoopButtons) and  *)
(* the DFPlayer driver (AudioPlayer).                                      *)
(***************************************************************************)
EXTENDS LoopButtons, AudioPlayer, TLAPS

-----------------------------------------------------------------------------
(* What the two readings of the clock come to.  The provers know a         *)
(* remainder only by its quotient, so the first lemma says which quotient  *)
(* it is.                                                                  *)

(* A number within one turn below or above the clock is brought back onto  *)
(* it by one turn.                                                         *)
LEMMA OneTurn ==
  ASSUME NEW x \in Int, -Wrap <= x, x < 2 * Wrap
  PROVE  x % Wrap = IF x < 0 THEN x + Wrap ELSE IF x < Wrap THEN x ELSE x - Wrap
<1> USE WrapAssumption
<1> DEFINE q == x \div Wrap
           r == x % Wrap
<1>1. q \in Int /\ r \in 0 .. Wrap - 1 /\ x = Wrap * q + r
  OBVIOUS
<1> HIDE DEF q, r
<1>2. q \in {-1, 0, 1}
  <2>1. CASE q >= 2
    <3>1. Wrap * q >= Wrap * 2
      BY <2>1, <1>1
    <3> QED BY <3>1, <1>1
  <2>2. CASE q <= -2
    <3>1. Wrap * q <= Wrap * (-2)
      BY <2>2, <1>1
    <3> QED BY <3>1, <1>1
  <2> QED BY <2>1, <2>2, <1>1
<1>3. CASE q = -1
  BY <1>3, <1>1 DEF r
<1>4. CASE q = 0
  BY <1>4, <1>1 DEF r
<1>5. CASE q = 1
  BY <1>5, <1>1 DEF r
<1> QED BY <1>2, <1>3, <1>4, <1>5

(* The clock moves on, by less than a turn. *)
LEMMA LaterIs ==
  ASSUME NEW t \in Clock, NEW ticks \in Nat, ticks <= Wrap
  PROVE  Later(t, ticks) = IF t + ticks < Wrap THEN t + ticks ELSE t + ticks - Wrap
BY OneTurn, WrapAssumption DEF Later, Clock

(* The unsigned difference of two readings. *)
LEMMA SinceIs ==
  ASSUME NEW m \in Clock, NEW t \in Clock
  PROVE  Since(m, t) = IF t <= m THEN m - t ELSE m - t + Wrap
BY OneTurn, WrapAssumption DEF Since, Clock

(* As long as the turn is not complete, the difference counts the ticks.   *)
LEMMA SinceLater ==
  ASSUME NEW m \in Clock, NEW t \in Clock, NEW ticks \in Nat,
         Since(m, t) + ticks < Wrap
  PROVE  /\ Later(m, ticks) \in Clock
         /\ Since(Later(m, ticks), t) = Since(m, t) + ticks
<1> USE WrapAssumption DEF Clock
<1>1. Since(m, t) = IF t <= m THEN m - t ELSE m - t + Wrap
  BY SinceIs
<1>2. ticks <= Wrap /\ Since(m, t) \in Nat
  BY <1>1
<1>3. Later(m, ticks) = IF m + ticks < Wrap THEN m + ticks ELSE m + ticks - Wrap
  BY <1>2, LaterIs
<1>4. Later(m, ticks) \in Clock
  BY <1>2, <1>3
<1>5. Since(Later(m, ticks), t) = IF t <= Later(m, ticks) THEN Later(m, ticks) - t
                                    ELSE Later(m, ticks) - t + Wrap
  BY <1>4, SinceIs
<1> QED BY <1>1, <1>3, <1>4, <1>5

-----------------------------------------------------------------------------
(* The timed buttons: a clock that rolls over, and 0 standing for "no      *)
(* press", neither lose a hold nor make one up.                            *)

(* A press is either noted and as old as it was long, but for the one tick *)
(* that the reading 0 may cost, or it fell on that reading just now.       *)
Press ==
  /\ sAdminHoldFired => sAdminPressedAtMs # 0 /\ toggles = 1
  /\ ~sAdminHoldFired => toggles = 0
  /\ sAdminPressedAtMs = 0 => held = 0 \/ (held = 1 /\ now = 1)
  /\ sAdminPressedAtMs # 0 /\ ~sAdminHoldFired =>
       /\ Since(now, sAdminPressedAtMs) \in 1 .. AdminHold
       /\ held = Since(now, sAdminPressedAtMs) \/ held = Since(now, sAdminPressedAtMs) + 1

(* A click is remembered only while it can still be the first of two. *)
Click == sLastYPressMs # 0 => clicks = 1

IInv == TypeOK /\ Press /\ Click /\ ToggleIsHeld

Effects == {"toggle", "cycle", "pin", "volume", "replay"}

USE WrapAssumption, ButtonAssumption

-----------------------------------------------------------------------------
(* The iteration takes one tick, and a toggle takes longer. *)
LEMMA PassesIs ==
  ASSUME IInv, NEW effects, Passes(effects)
  PROVE  /\ now' \in Clock
         /\ "toggle" \notin effects => now' = Later(now, 1)
<1>1. \A x \in Int : x % Wrap \in Clock
  BY DEF Clock
<1> QED BY <1>1 DEF Passes, Later, IInv, TypeOK, Clock

(* The admin button goes down, stays down or is let go, whatever else the  *)
(* iteration does.                                                         *)
LEMMA AdminKeeps ==
  ASSUME IInv, NEW down \in BOOLEAN, Admin(down),
         NEW effects, Passes(effects), "toggle" \in effects <=> down /\ Fires
  PROVE  /\ Press' /\ ToggleIsHeld'
         /\ sAdminPressedAtMs' \in Clock /\ sAdminHoldFired' \in BOOLEAN
         /\ held' \in 0 .. HeldBound /\ toggles' \in 0 .. HeldBound
<1>1. /\ now \in Clock /\ sAdminPressedAtMs \in Clock /\ held \in 0 .. HeldBound
      /\ sAdminHoldFired \in BOOLEAN
      /\ AdminHold \in Nat \ {0} /\ AdminHold < Wrap
  BY DEF IInv, TypeOK
<1>2. now' \in Clock
  BY PassesIs
<1>3. did' = effects
  BY DEF Passes
<1>4. CASE ~down
  <2>1. /\ sAdminPressedAtMs' = 0 /\ sAdminHoldFired' = FALSE
        /\ held' = 0 /\ toggles' = 0
    BY <1>4 DEF Admin, AdminUp
  <2>2. "toggle" \notin did'
    BY <1>3, <1>4
  <2>3. Press'
    <3>1. ~sAdminHoldFired'
      BY <2>1
    <3>2. sAdminPressedAtMs' = 0 /\ held' = 0 /\ toggles' = 0
      BY <2>1
    <3> QED BY <3>1, <3>2 DEF Press
  <2>4. ToggleIsHeld'
    BY <2>2 DEF ToggleIsHeld
  <2>5. 0 \in Clock /\ 0 \in 0 .. HeldBound
    BY <1>1 DEF Clock, HeldBound
  <2> QED BY <2>1, <2>3, <2>4, <2>5
<1>5. CASE down /\ Fires
  <2>1. /\ sAdminPressedAtMs # 0 /\ ~sAdminHoldFired
        /\ Since(now, sAdminPressedAtMs) >= AdminHold
    BY <1>5 DEF Fires
  <2>2. held \in AdminHold .. AdminHold + 1
    BY <2>1, <1>1 DEF IInv, Press
  <2>3. /\ sAdminPressedAtMs' = sAdminPressedAtMs /\ sAdminHoldFired' = TRUE
        /\ held' = Upto(held + 1, HeldBound) /\ toggles' = Upto(toggles + 1, HeldBound)
    BY <1>5, <2>1 DEF Admin, AdminDown
  <2>4. toggles = 0
    BY <2>1 DEF IInv, Press
  <2>5. held' > AdminHold /\ held' \in 0 .. HeldBound /\ toggles' = 1
    BY <2>2, <2>3, <2>4, <1>1 DEF Upto, HeldBound
  <2> QED BY <2>1, <2>3, <2>5, <1>1 DEF Press, ToggleIsHeld, HeldBound
<1>6. CASE down /\ ~Fires
  <2>1. /\ sAdminPressedAtMs' = IF sAdminPressedAtMs = 0 THEN now ELSE sAdminPressedAtMs
        /\ held' = Upto(held + 1, HeldBound) /\ toggles' = toggles
    BY <1>6 DEF Admin, AdminDown
  <2>2. sAdminHoldFired' = sAdminHoldFired
    BY <1>1, <1>6 DEF Admin, AdminDown
  <2>3. "toggle" \notin did'
    BY <1>3, <1>6
  <2>4. now' = Later(now, 1)
    BY <1>6, PassesIs
  <2>5. held' \in 0 .. HeldBound /\ toggles' \in 0 .. HeldBound
    BY <2>1, <1>1 DEF Upto, HeldBound, IInv, Press
  <2>6. sAdminPressedAtMs' \in Clock
    BY <2>1, <1>1
  <2>7. CASE sAdminPressedAtMs = 0
    <3>1. ~sAdminHoldFired /\ toggles = 0 /\ (held = 0 \/ (held = 1 /\ now = 1))
      BY <2>7 DEF IInv, Press
    <3>2. held' = held + 1
      BY <3>1, <2>1, <1>1 DEF Upto, HeldBound
    <3>3. CASE now = 0
      <4>1. now' = 1
        BY <3>3, <2>4, LaterIs DEF Clock
      <4> QED BY <4>1, <3>1, <3>2, <3>3, <2>1, <2>2, <2>3, <2>5, <2>6, <2>7, <1>1
              DEF Press, ToggleIsHeld
    <3>4. CASE now # 0
      <4>1. Since(now, now) = 0
        BY <1>1, SinceIs DEF Clock
      <4>2. Since(Later(now, 1), now) = Since(now, now) + 1
        <5>1. Since(now, now) + 1 < Wrap
          BY <4>1, <1>1
        <5> QED BY <5>1, <1>1, SinceLater
      <4>3. Since(now', now) = 1
        BY <4>1, <4>2, <2>4
      <4> QED BY <4>3, <3>1, <3>2, <3>4, <2>1, <2>2, <2>3, <2>5, <2>6, <2>7, <1>1
              DEF Press, ToggleIsHeld
    <3> QED BY <3>3, <3>4
  <2>8. CASE sAdminPressedAtMs # 0 /\ sAdminHoldFired
    BY <2>8, <2>1, <2>2, <2>3, <2>5, <2>6 DEF IInv, Press, ToggleIsHeld
  <2>9. CASE sAdminPressedAtMs # 0 /\ ~sAdminHoldFired
    <3>1. /\ Since(now, sAdminPressedAtMs) \in 1 .. AdminHold
          /\ held = Since(now, sAdminPressedAtMs) \/ held = Since(now, sAdminPressedAtMs) + 1
          /\ toggles = 0
      BY <2>9 DEF IInv, Press
    <3>2. Since(now, sAdminPressedAtMs) < AdminHold
      BY <3>1, <2>9, <1>6 DEF Fires
    <3>3. Since(now', sAdminPressedAtMs) = Since(now, sAdminPressedAtMs) + 1
      <4>1. Since(now, sAdminPressedAtMs) + 1 < Wrap
        BY <3>1, <3>2, <1>1
      <4>2. Since(Later(now, 1), sAdminPressedAtMs) = Since(now, sAdminPressedAtMs) + 1
        BY <4>1, <1>1, SinceLater
      <4> QED BY <4>2, <2>4
    <3>4. held' = held + 1
      BY <3>1, <3>2, <2>1, <1>1 DEF Upto, HeldBound
    <3> QED BY <3>1, <3>2, <3>3, <3>4, <2>1, <2>2, <2>3, <2>5, <2>6, <2>9, <1>1
            DEF Press, ToggleIsHeld
  <2> QED BY <2>7, <2>8, <2>9, <1>1
<1> QED BY <1>4, <1>5, <1>6

(* Y, and what it leaves behind. *)
LEMMA YKeeps ==
  ASSUME IInv, NEW y \in BOOLEAN, Y(y)
  PROVE  /\ Click' /\ sYWasPressed' \in BOOLEAN
         /\ sLastYPressMs' \in Clock /\ clicks' \in 0 .. 1
<1>1. 0 \in Clock
  BY DEF Clock
<1> QED BY <1>1 DEF Y, ClickY, Click, IInv, TypeOK

(* The D-pad. *)
LEMMA VolumeKeeps ==
  ASSUME IInv, NEW d \in Dpad, Volume(d)
  PROVE  /\ volume' \in 0 .. TopVolume /\ sLastVolumeChangeMs' \in Clock
         /\ sVolumeAdjusted' \in BOOLEAN /\ dpad' \in Dpad
<1>1. NextVolume(d) \in 0 .. TopVolume
  BY DEF NextVolume, Upto, IInv, TypeOK
<1> QED BY <1>1 DEF Volume, IInv, TypeOK

-----------------------------------------------------------------------------
LEMMA InitHolds == Init => IInv
<1> SUFFICES ASSUME Init PROVE IInv
  OBVIOUS
<1>1. {sAdminHoldFired, sYWasPressed, sVolumeAdjusted} \subseteq BOOLEAN
  BY DEF Init
<1>2. 0 \in Clock
  BY DEF Clock
<1>3. TypeOK
  BY <1>1, <1>2 DEF Init, TypeOK, Dpad, HeldBound
<1>4. Press
  <2>1. ~sAdminHoldFired
    BY DEF Init
  <2>2. sAdminPressedAtMs = 0 /\ held = 0 /\ toggles = 0
    BY DEF Init
  <2> QED BY <2>1, <2>2 DEF Press
<1>5. Click /\ ToggleIsHeld
  BY DEF Init, Click, ToggleIsHeld
<1> QED BY <1>3, <1>4, <1>5 DEF IInv

LEMMA ConnectedKeeps ==
  ASSUME IInv, NEW y \in BOOLEAN, NEW d \in Dpad, NEW down \in BOOLEAN,
         LoopConnected(y, d, down)
  PROVE  IInv'
<1> DEFINE effects == YEffect(y) \cup VolumeEffect(d) \cup AdminEffect(down)
<1>1. effects \subseteq Effects /\ ("toggle" \in effects <=> down /\ Fires)
  BY DEF Effects, YEffect, VolumeEffect, AdminEffect
<1>2. Y(y) /\ Volume(d) /\ Admin(down) /\ Passes(effects)
  BY DEF LoopConnected
<1> HIDE DEF effects
<1>3. now' \in Clock /\ did' = effects
  BY <1>2, PassesIs DEF Passes
<1>4. /\ Press' /\ ToggleIsHeld'
      /\ sAdminPressedAtMs' \in Clock /\ sAdminHoldFired' \in BOOLEAN
      /\ held' \in 0 .. HeldBound /\ toggles' \in 0 .. HeldBound
  BY <1>1, <1>2, AdminKeeps
<1>5. /\ Click' /\ sYWasPressed' \in BOOLEAN
      /\ sLastYPressMs' \in Clock /\ clicks' \in 0 .. 1
  BY <1>2, YKeeps
<1>6. /\ volume' \in 0 .. TopVolume /\ sLastVolumeChangeMs' \in Clock
      /\ sVolumeAdjusted' \in BOOLEAN /\ dpad' \in Dpad
  BY <1>2, VolumeKeeps
<1>7. TypeOK'
  BY <1>1, <1>3, <1>4, <1>5, <1>6 DEF TypeOK, Effects
<1> QED BY <1>4, <1>5, <1>7 DEF IInv

LEMMA AwayKeeps ==
  ASSUME IInv, NEW down \in BOOLEAN, LoopAway(down)
  PROVE  IInv'
<1>1. AdminEffect(down) \subseteq Effects /\ ("toggle" \in AdminEffect(down) <=> down /\ Fires)
  BY DEF Effects, AdminEffect
<1>2. Away /\ Admin(down) /\ Passes(AdminEffect(down))
  BY DEF LoopAway
<1>3. now' \in Clock /\ did' = AdminEffect(down)
  BY <1>2, PassesIs DEF Passes
<1>4. /\ Press' /\ ToggleIsHeld'
      /\ sAdminPressedAtMs' \in Clock /\ sAdminHoldFired' \in BOOLEAN
      /\ held' \in 0 .. HeldBound /\ toggles' \in 0 .. HeldBound
  BY <1>1, <1>2, AdminKeeps
<1>5. /\ Click' /\ sYWasPressed' \in BOOLEAN /\ sLastYPressMs' \in Clock
      /\ clicks' \in 0 .. 1 /\ dpad' \in Dpad
  <2>1. /\ sYWasPressed' = FALSE /\ sLastYPressMs' = 0 /\ clicks' = 0 /\ dpad' = "none"
    BY <1>2 DEF Away
  <2>2. 0 \in Clock /\ "none" \in Dpad
    BY DEF Clock, Dpad
  <2>3. Click'
    BY <2>1 DEF Click
  <2>4. sYWasPressed' \in BOOLEAN
    BY <2>1
  <2>5. clicks' \in 0 .. 1
    <3>1. clicks' = 0
      BY <2>1
    <3> QED BY <3>1
  <2>6. sLastYPressMs' \in Clock /\ dpad' \in Dpad
    BY <2>1, <2>2
  <2> QED BY <2>3, <2>4, <2>5, <2>6
<1>6. TypeOK'
  BY <1>1, <1>2, <1>3, <1>4, <1>5 DEF TypeOK, IInv, Effects, Away
<1> QED BY <1>4, <1>5, <1>6 DEF IInv

LEMMA Inductive == IInv /\ [Next]_vars => IInv'
<1> SUFFICES ASSUME IInv, [Next]_vars PROVE IInv'
  OBVIOUS
<1>1. ASSUME NEW down \in BOOLEAN, LoopAway(down) PROVE IInv'
  BY <1>1, AwayKeeps
<1>2. ASSUME NEW down \in BOOLEAN, NEW y \in BOOLEAN, NEW d \in Dpad, LoopConnected(y, d, down)
      PROVE  IInv'
  BY <1>2, ConnectedKeeps
<1>3. CASE UNCHANGED vars
  BY <1>3 DEF vars, admin, pad, IInv, TypeOK, Press, Click, ToggleIsHeld
<1> QED BY <1>1, <1>2, <1>3 DEF Next

LEMMA Invariance == Spec => []IInv
<1>1. Init => IInv
  BY InitHolds
<1>2. IInv /\ [Next]_vars => IInv'
  BY Inductive
<1> QED BY <1>1, <1>2, PTL DEF Spec

-----------------------------------------------------------------------------
(* The statics of loop() and what is observed of it keep their types. *)
THEOREM TypeCorrect == Spec => []TypeOK
<1>1. IInv => TypeOK
  BY DEF IInv
<1> QED BY <1>1, Invariance, PTL

(* No toggle without a hold of kAdminHoldMs (sketch.cpp:328-375). *)
THEOREM ToggleIsHeldAlways == Spec => []ToggleIsHeld
<1>1. IInv => ToggleIsHeld
  BY DEF IInv
<1> QED BY <1>1, Invariance, PTL

(* A hold that lasts toggles, and toggles once (sketch.cpp:328-375). *)
THEOREM HoldTogglesAlways == Spec => []HoldToggles
<1>1. IInv => HoldToggles
  <2> SUFFICES ASSUME IInv PROVE HoldToggles
    OBVIOUS
  <2>1. /\ Press /\ held \in 0 .. HeldBound /\ AdminHold \in Nat \ {0}
        /\ sAdminHoldFired \in BOOLEAN
    BY DEF IInv, TypeOK
  <2>2. CASE sAdminHoldFired
    BY <2>1, <2>2 DEF Press, HoldToggles
  <2>3. CASE ~sAdminHoldFired
    <3>1. held # HeldBound
      BY <2>1, <2>3 DEF Press, HeldBound
    <3> QED BY <3>1, <2>1, <2>3 DEF Press, HoldToggles
  <2> QED BY <2>2, <2>3
<1> QED BY <1>1, Invariance, PTL

(* A color is pinned by the second click of two (sketch.cpp:238-248). *)
THEOREM PinIsSecondAlways == Spec => PinIsSecond
<1>1. IInv /\ [Next]_vars => ["pin" \in did' => clicks = 1]_vars
  <2> SUFFICES ASSUME IInv, Next, "pin" \in did' PROVE clicks = 1
    OBVIOUS
  <2>1. ASSUME NEW down \in BOOLEAN, LoopAway(down) PROVE FALSE
    BY <2>1 DEF LoopAway, Passes, AdminEffect
  <2>2. ASSUME NEW down \in BOOLEAN, NEW y \in BOOLEAN, NEW d \in Dpad, LoopConnected(y, d, down)
        PROVE  sLastYPressMs # 0
    BY <2>2 DEF LoopConnected, Passes, AdminEffect, VolumeEffect, YEffect, IsDouble
  <2> QED BY <2>1, <2>2 DEF Next, IInv, Click
<1> QED BY <1>1, Invariance, PTL DEF Spec, PinIsSecond

-----------------------------------------------------------------------------
(* AudioPlayer.                                                            *)

(* The module is deaf for StartupDelay at most, the deadline is that far   *)
(* from a boot at 0, and until the clock has turned once it shows the time *)
(* since the boot.                                                         *)
Boot == /\ sReadyAtMs = StartupDelay
        /\ age < Wrap => millis = age
        /\ starting > 0 => age + starting <= StartupDelay

(* The settings were sent to a module that listened. *)
SetUp == sInitSent => starting = 0 /\ moduleVolume = sVolume

(* Until the clock has turned once since the last command, it tells how    *)
(* long ago that was.                                                      *)
Recent == /\ sHasPlayed /\ sincePlay < Wrap => Since(millis, sLastPlayCommandMs) = sincePlay
          /\ ~sHasPlayed => sincePlay = Wrap

AudioIInv == AudioTypeOK /\ Boot /\ SetUp /\ Recent

USE WrapAssumption, AudioAssumption

-----------------------------------------------------------------------------
(* Time goes by. *)
LEMMA ElapseKeeps ==
  ASSUME AudioIInv, NEW ticks \in Nat, ticks < Wrap, Elapse(ticks)
  PROVE  /\ millis' \in Clock /\ age' \in 0 .. Wrap /\ starting' \in 0 .. StartupDelay
         /\ age' < Wrap => millis' = age'
         /\ starting' > 0 => age' + starting' <= StartupDelay
         /\ starting = 0 => starting' = 0
<1>1. /\ millis \in Clock /\ age \in 0 .. Wrap /\ starting \in 0 .. StartupDelay
      /\ age < Wrap => millis = age
      /\ starting > 0 => age + starting <= StartupDelay
  BY DEF AudioIInv, AudioTypeOK, Boot
<1>2. millis' = IF millis + ticks < Wrap THEN millis + ticks ELSE millis + ticks - Wrap
  BY <1>1, LaterIs DEF Elapse
<1> QED BY <1>1, <1>2 DEF Elapse, Upto, Clock

(* The age of the last command goes with it. *)
LEMMA RecentKeeps ==
  ASSUME AudioIInv, NEW ticks \in Nat, ticks < Wrap, Elapse(ticks),
         sincePlay' = Upto(sincePlay + ticks, Wrap),
         UNCHANGED <<sHasPlayed, sLastPlayCommandMs>>
  PROVE  Recent' /\ sincePlay' \in 0 .. Wrap
<1>1. /\ millis \in Clock /\ sLastPlayCommandMs \in Clock /\ sincePlay \in 0 .. Wrap
      /\ sHasPlayed /\ sincePlay < Wrap => Since(millis, sLastPlayCommandMs) = sincePlay
      /\ ~sHasPlayed => sincePlay = Wrap
  BY DEF AudioIInv, AudioTypeOK, Recent
<1>2. sincePlay' \in 0 .. Wrap /\ (~sHasPlayed => sincePlay' = Wrap)
  BY <1>1 DEF Upto
<1>3. ASSUME sHasPlayed, sincePlay' < Wrap
      PROVE  Since(millis', sLastPlayCommandMs) = sincePlay'
  <2>1. sincePlay' = sincePlay + ticks /\ sincePlay + ticks < Wrap
    BY <1>1, <1>3 DEF Upto
  <2>2. Since(millis, sLastPlayCommandMs) = sincePlay
    BY <1>1, <1>3, <2>1
  <2> QED BY <1>1, <2>1, <2>2, SinceLater DEF Elapse
<1> QED BY <1>2, <1>3 DEF Recent

(* The settings are only sent when the module listens. *)
LEMMA ListensInTime ==
  ASSUME AudioIInv, Initializes
  PROVE  starting = 0
<1> SUFFICES ASSUME starting # 0 PROVE FALSE
  OBVIOUS
<1>1. /\ millis \in Clock /\ sReadyAtMs \in Clock /\ starting \in 0 .. StartupDelay
      /\ age \in 0 .. Wrap /\ age + starting <= StartupDelay
      /\ millis = age /\ sReadyAtMs = StartupDelay
  BY DEF AudioIInv, AudioTypeOK, Boot
<1>2. Since(millis, sReadyAtMs) = millis - sReadyAtMs + Wrap
  BY <1>1, SinceIs
<1> QED BY <1>1, <1>2 DEF Initializes, deadlinePassed

LEMMA SpentIs == Spent \in Nat /\ Spent < Wrap
BY DEF Spent

-----------------------------------------------------------------------------
LEMMA AudioInitHolds == AudioInit => AudioIInv
<1> SUFFICES ASSUME AudioInit PROVE AudioIInv
  OBVIOUS
<1>1. sReadyAtMs = StartupDelay
  BY LaterIs DEF AudioInit, Clock
<1>2. {sInitSent, sHasPlayed} \subseteq BOOLEAN
  BY DEF AudioInit
<1>3. {millis, sReadyAtMs, sLastPlayCommandMs} \subseteq Clock
  BY <1>1 DEF AudioInit, Clock
<1>4. AudioTypeOK
  BY <1>2, <1>3 DEF AudioInit, AudioTypeOK
<1>5. Boot /\ SetUp /\ Recent
  BY <1>1 DEF AudioInit, Boot, SetUp, Recent
<1> QED BY <1>4, <1>5 DEF AudioIInv

LEMMA TickKeeps == AudioIInv /\ Tick => AudioIInv'
<1> SUFFICES ASSUME AudioIInv, Tick PROVE AudioIInv'
  OBVIOUS
<1>1. Recent' /\ sincePlay' \in 0 .. Wrap
  BY RecentKeeps DEF Tick
<1>2. /\ millis' \in Clock /\ age' \in 0 .. Wrap /\ starting' \in 0 .. StartupDelay
      /\ age' < Wrap => millis' = age'
      /\ starting' > 0 => age' + starting' <= StartupDelay
      /\ starting = 0 => starting' = 0
  BY ElapseKeeps DEF Tick
<1>3. AudioTypeOK'
  BY <1>1, <1>2 DEF AudioIInv, AudioTypeOK, Tick
<1>4. Boot' /\ SetUp'
  BY <1>2 DEF AudioIInv, Boot, SetUp, Tick
<1> QED BY <1>1, <1>3, <1>4 DEF AudioIInv

LEMMA SetVolumeKeeps == ASSUME NEW v \in 0 .. MaxVolume, AudioIInv, setVolume(v) PROVE AudioIInv'
<1>1. Recent' /\ sincePlay' \in 0 .. Wrap
  BY RecentKeeps, SpentIs DEF setVolume, ensureInitialized
<1>2. /\ millis' \in Clock /\ age' \in 0 .. Wrap /\ starting' \in 0 .. StartupDelay
      /\ age' < Wrap => millis' = age'
      /\ starting' > 0 => age' + starting' <= StartupDelay
      /\ starting = 0 => starting' = 0
  BY ElapseKeeps, SpentIs DEF setVolume, ensureInitialized
<1>3. sInitSent' \in BOOLEAN /\ (sInitSent' => starting = 0)
  BY ListensInTime DEF setVolume, ensureInitialized, AudioIInv, AudioTypeOK, SetUp
<1>4. sVolume' \in 0 .. MaxVolume /\ moduleVolume' \in 0 .. MaxVolume
  BY DEF setVolume, Upto, AudioIInv, AudioTypeOK
<1>5. AudioTypeOK'
  BY <1>1, <1>2, <1>3, <1>4 DEF AudioIInv, AudioTypeOK, setVolume
<1>6. Boot'
  BY <1>2 DEF AudioIInv, Boot, setVolume
<1>7. SetUp'
  BY <1>2, <1>3 DEF SetUp, setVolume, Listens
<1> QED BY <1>1, <1>5, <1>6, <1>7 DEF AudioIInv

LEMMA PlayKeeps == ASSUME NEW track \in 1 .. Tracks, AudioIInv, play(track) PROVE AudioIInv'
<1>1. /\ millis' \in Clock /\ age' \in 0 .. Wrap /\ starting' \in 0 .. StartupDelay
      /\ age' < Wrap => millis' = age'
      /\ starting' > 0 => age' + starting' <= StartupDelay
      /\ starting = 0 => starting' = 0
  BY ElapseKeeps, SpentIs DEF play, ensureInitialized
<1>2. sInitSent' \in BOOLEAN /\ (sInitSent' => starting = 0)
  BY ListensInTime DEF play, ensureInitialized, AudioIInv, AudioTypeOK, SetUp
<1>3. moduleVolume' \in 0 .. MaxVolume /\ sounding' \in 0 .. Tracks
  BY DEF play, AudioIInv, AudioTypeOK
<1>4. AudioTypeOK'
  BY <1>1, <1>2, <1>3 DEF AudioIInv, AudioTypeOK, play
<1>5. Boot'
  BY <1>1 DEF AudioIInv, Boot, play
<1>6. SetUp'
  BY <1>1, <1>2 DEF AudioIInv, SetUp, play, ensureInitialized, Listens
<1>7. Recent'
  <2>1. Since(millis', millis') = 0
    BY <1>1, SinceIs DEF Clock
  <2> QED BY <2>1 DEF Recent, play
<1> QED BY <1>4, <1>5, <1>6, <1>7 DEF AudioIInv

(* The three ways to step through the tracks end on one there is. *)
LEMMA TrackIs ==
  ASSUME AudioIInv
  PROVE  NextTrack \in 1 .. Tracks /\ PreviousTrack \in 1 .. Tracks /\ SameTrack \in 1 .. Tracks
BY DEF AudioIInv, AudioTypeOK, NextTrack, PreviousTrack, SameTrack

LEMMA AudioInductive == AudioIInv /\ [AudioNext]_audioVars => AudioIInv'
<1> SUFFICES ASSUME AudioIInv, [AudioNext]_audioVars PROVE AudioIInv'
  OBVIOUS
<1>1. CASE Tick
  BY <1>1, TickKeeps
<1>2. ASSUME NEW v \in 0 .. MaxVolume, setVolume(v) PROVE AudioIInv'
  BY <1>2, SetVolumeKeeps
<1>3. ASSUME NEW track \in 1 .. Tracks, play(track) PROVE AudioIInv'
  BY <1>3, PlayKeeps
<1>4. CASE playNext \/ playPrevious \/ replay
  BY <1>4, PlayKeeps, TrackIs DEF playNext, playPrevious, replay
<1>5. CASE UNCHANGED audioVars
  BY <1>5 DEF audioVars, clock, AudioIInv, AudioTypeOK, Boot, SetUp, Recent
<1> QED BY <1>1, <1>2, <1>3, <1>4, <1>5 DEF AudioNext

LEMMA AudioInvariance == AudioSpec => []AudioIInv
<1>1. AudioInit => AudioIInv
  BY AudioInitHolds
<1>2. AudioIInv /\ [AudioNext]_audioVars => AudioIInv'
  BY AudioInductive
<1> QED BY <1>1, <1>2, PTL DEF AudioSpec

-----------------------------------------------------------------------------
(* The driver's state keeps its type (main/audio_player.cpp). *)
THEOREM AudioTypeCorrect == AudioSpec => []AudioTypeOK
<1>1. AudioIInv => AudioTypeOK
  BY DEF AudioIInv
<1> QED BY <1>1, AudioInvariance, PTL

(* However often the volume was changed before the module could listen, it *)
(* has the volume the driver believes it has (ensureInitialized()).        *)
THEOREM VolumeAgreesAlways == AudioSpec => []VolumeAgrees
<1>1. AudioIInv => VolumeAgrees
  BY DEF AudioIInv, SetUp, VolumeAgrees
<1> QED BY <1>1, AudioInvariance, PTL

(* The eyes dip for a command just sent, and for no older one until the    *)
(* clock has turned once since it (sinceLastPlayCommand()).                *)
THEOREM DipIsRecentAlways == AudioSpec => []DipIsRecent
<1>1. AudioIInv => DipIsRecent
  <2> SUFFICES ASSUME AudioIInv PROVE DipIsRecent
    OBVIOUS
  <2>1. CASE sHasPlayed
    BY <2>1 DEF AudioIInv, Recent, DipIsRecent, sinceLastPlayCommand
  <2>2. CASE ~sHasPlayed
    BY <2>2 DEF AudioIInv, Recent, DipIsRecent, sinceLastPlayCommand
  <2> QED BY <2>1, <2>2
<1> QED BY <1>1, AudioInvariance, PTL

(* A command after the startup time and within half a turn of the clock    *)
(* finds or leaves the module set up (ensureInitialized(), play()).        *)
THEOREM SetUpInTimeAlways == AudioSpec => SetUpInTime
<1> DEFINE Late == PlaysBy(StartupDelay + (Wrap \div 2) - 1)
<1>1. AudioIInv /\ AudioIInv' /\ [AudioNext]_audioVars => [Late => sInitSent']_audioVars
  <2> SUFFICES ASSUME AudioIInv, [AudioNext]_audioVars, Late PROVE sInitSent' \/ UNCHANGED audioVars
    OBVIOUS
  <2>1. /\ age \in 0 .. Wrap /\ sincePlay \in 0 .. Wrap /\ millis \in Clock /\ sReadyAtMs \in Clock
        /\ sReadyAtMs = StartupDelay /\ (age < Wrap => millis = age)
    BY DEF AudioIInv, AudioTypeOK, Boot
  <2>2. age \in StartupDelay .. StartupDelay + (Wrap \div 2) - 1 /\ sincePlay' = 0
    BY DEF PlaysBy
  <2>3. millis = age
    BY <2>1, <2>2
  <2>4. deadlinePassed(millis, sReadyAtMs)
    BY <2>1, <2>2, <2>3, SinceIs DEF deadlinePassed
  <2>5. ensureInitialized => sInitSent'
    BY <2>4 DEF ensureInitialized, Initializes
  <2>6. CASE Tick
    <3>1. sincePlay' = Upto(sincePlay + 1, Wrap)
      BY <2>6 DEF Tick
    <3> QED BY <3>1, <2>1, <2>2 DEF Upto
  <2>7. ASSUME NEW v \in 0 .. MaxVolume, setVolume(v) PROVE sInitSent'
    BY <2>5, <2>7 DEF setVolume
  <2>8. ASSUME NEW track \in 1 .. Tracks, play(track) PROVE sInitSent'
    BY <2>5, <2>8 DEF play
  <2>9. CASE playNext \/ playPrevious \/ replay
    BY <2>5, <2>9 DEF playNext, playPrevious, replay, play
  <2> QED BY <2>6, <2>7, <2>8, <2>9 DEF AudioNext
<1> QED BY <1>1, AudioInvariance, PTL DEF AudioSpec, SetUpInTime
=============================================================================
