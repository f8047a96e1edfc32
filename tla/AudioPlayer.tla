----------------------------- MODULE AudioPlayer -----------------------------
(***************************************************************************)
(* The DFPlayer driver (main/audio_player.cpp).  The module ignores what   *)
(* it is sent while it powers up and never answers, so the driver waits    *)
(* out a fixed time and sends the module its settings with the first       *)
(* command after that.                                                     *)
(*                                                                         *)
(* millis() is the clock of module Millis and starts at 0 with the boot.   *)
(***************************************************************************)
EXTENDS Millis

CONSTANTS StartupDelay,   \* kStartupDelayMs
          InitTicks,      \* the delay() in ensureInitialized()
          DipWindow,      \* kSpeechDipWindowMs
          Tracks,         \* AUDIO_TRACK_COUNT
          MaxVolume,      \* 30
          BootVolume      \* setup()'s setVolume(20)

ASSUME AudioAssumption ==
  /\ {StartupDelay, InitTicks, DipWindow, Tracks} \subseteq Nat \ {0}
  /\ StartupDelay + InitTicks + DipWindow < Wrap \div 2
  /\ MaxVolume \in Nat /\ BootVolume \in 0 .. MaxVolume

VARIABLES millis, sReadyAtMs, sInitSent, sVolume, sCurrentTrack, sHasPlayed,
          sLastPlayCommandMs,
          (* the DFPlayer *)
          starting,        \* ticks until it listens
          moduleVolume,    \* the volume it has, MaxVolume when it starts
          sounding,        \* the track it plays, or 0
          (* observed, without a clock that rolls over *)
          age,             \* ticks since the boot, up to Wrap
          sincePlay        \* ticks since the last play command, up to Wrap

clock == <<millis, age, sincePlay>>
audioVars == <<clock, sReadyAtMs, sInitSent, sVolume, sCurrentTrack, sHasPlayed,
               sLastPlayCommandMs, starting, moduleVolume, sounding>>

AudioTypeOK == /\ {millis, sReadyAtMs, sLastPlayCommandMs} \subseteq Clock
               /\ {sInitSent, sHasPlayed} \subseteq BOOLEAN
               /\ {sVolume, moduleVolume} \subseteq 0 .. MaxVolume
               /\ {sCurrentTrack, sounding} \subseteq 0 .. Tracks
               /\ starting \in 0 .. StartupDelay
               /\ {age, sincePlay} \subseteq 0 .. Wrap

(* begin() and setup()'s setVolume(), which is too early to send anything *)
AudioInit == /\ millis = 0
             /\ sReadyAtMs = Later(0, StartupDelay)
             /\ sInitSent = FALSE
             /\ sVolume = BootVolume
             /\ sCurrentTrack = 0
             /\ sHasPlayed = FALSE /\ sLastPlayCommandMs = 0
             /\ starting \in 1 .. StartupDelay
             /\ moduleVolume = MaxVolume /\ sounding = 0
             /\ age = 0 /\ sincePlay = Wrap

-----------------------------------------------------------------------------
(* Time goes by; a clip may end. *)
Elapse(ticks) == /\ millis' = Later(millis, ticks)
                 /\ age' = Upto(age + ticks, Wrap)
                 /\ starting' = IF starting < ticks THEN 0 ELSE starting - ticks

Tick == /\ Elapse(1)
        /\ sincePlay' = Upto(sincePlay + 1, Wrap)
        /\ sounding' \in {sounding, 0}
        /\ UNCHANGED <<sReadyAtMs, sInitSent, sVolume, sCurrentTrack, sHasPlayed,
                       sLastPlayCommandMs, moduleVolume>>

(* Mutant: the settings go with the first command, ready or not. *)
Mutant_Initializes == ~sInitSent

(* ensureInitialized() sends the settings now. *)
Initializes == ~sInitSent /\ deadlinePassed(millis, sReadyAtMs)

Spent == IF Initializes THEN InitTicks ELSE 0

(* Mutant: the settings are never sent. *)
Mutant_ensureInitialized == UNCHANGED sInitSent /\ Elapse(Spent)

ensureInitialized == sInitSent' = (sInitSent \/ Initializes) /\ Elapse(Spent)

Listens == starting = 0

setVolume(v) == /\ ensureInitialized
                /\ sVolume' = Upto(v, MaxVolume)
                /\ moduleVolume' = IF sInitSent' /\ Listens THEN sVolume' ELSE moduleVolume
                /\ sincePlay' = Upto(sincePlay + Spent, Wrap)
                /\ UNCHANGED <<sReadyAtMs, sCurrentTrack, sHasPlayed, sLastPlayCommandMs,
                               sounding>>

play(track) == /\ ensureInitialized
               /\ sCurrentTrack' = track
               /\ sHasPlayed' = TRUE /\ sLastPlayCommandMs' = millis' /\ sincePlay' = 0
               /\ moduleVolume' = IF Initializes /\ Listens THEN sVolume ELSE moduleVolume
               /\ sounding' = IF Listens THEN track ELSE sounding
               /\ UNCHANGED <<sReadyAtMs, sVolume>>

NextTrack == (sCurrentTrack % Tracks) + 1
PreviousTrack == IF sCurrentTrack <= 1 THEN Tracks ELSE sCurrentTrack - 1
SameTrack == IF sCurrentTrack = 0 THEN 1 ELSE sCurrentTrack

playNext == play(NextTrack)
playPrevious == play(PreviousTrack)
replay == play(SameTrack)

AudioNext == \/ Tick
             \/ \E v \in 0 .. MaxVolume : setVolume(v)
             \/ \E track \in 1 .. Tracks : play(track)
             \/ playNext \/ playPrevious \/ replay

AudioSpec == AudioInit /\ [][AudioNext]_audioVars

-----------------------------------------------------------------------------
(* Mutant: the boot counts as a play command. *)
Mutant_sinceLastPlayCommand == Since(millis, sLastPlayCommandMs)

sinceLastPlayCommand == IF sHasPlayed THEN Since(millis, sLastPlayCommandMs) ELSE Wrap - 1

(* The module has the volume the driver believes it has, however often it  *)
(* was changed before the module could listen (audio_player.cpp:60-68).    *)
VolumeAgrees == sInitSent => moduleVolume = sVolume

(* For a whole turn of the clock the driver tells a command just sent from *)
(* an old one and from none (audio_player.cpp:162-167).                    *)
DipIsRecent == sincePlay < Wrap \/ ~sHasPlayed
               => (sinceLastPlayCommand < DipWindow <=> sincePlay < DipWindow)

(* A command after the startup time finds or leaves the module set up:     *)
(* within half a turn of the clock, and, as audio_player.cpp:22-24 has it  *)
(* ("the init commands are deferred until the first play() that happens    *)
(* after this window has elapsed"), at any time.                           *)
PlaysBy(until) == age \in StartupDelay .. until /\ sincePlay' = 0
SetUpInTime == [][PlaysBy(StartupDelay + (Wrap \div 2) - 1) => sInitSent']_audioVars
SetUpAlways == [][PlaysBy(Wrap) => sInitSent']_audioVars

(* audio_player.h:69-70: replay() "always does something audible".         *)
ReplayAudible == [][replay => sounding' # 0]_audioVars
=============================================================================
