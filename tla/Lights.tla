-------------------------------- MODULE Lights --------------------------------
(***************************************************************************)
(* What is on the LED strips: main/light_effects.cpp and                   *)
(* main/led_controller.cpp, called by loop() (main/sketch.cpp), by the web *)
(* page and by the upload service.  One turn of loop() is a request, an    *)
(* upload, the gamepad, the admin button, the eyes' blink level, the       *)
(* pattern and the wait at its end.                                        *)
(*                                                                         *)
(* A pixel is black, a colour, or a hue of the rainbow; how strong it is   *)
(* is left out.  A strip scales what is written by its brightness, and     *)
(* rescales its memory when the brightness changes, which loses precision  *)
(* and, from or to 0, everything (Adafruit_NeoPixel, external).            *)
(***************************************************************************)
EXTENDS Integers, Sequences, FiniteSets, FiniteSetsExt, Functions

CONSTANTS Counts,       \* LED_STRIP_LED_COUNTS, a sequence
          kMaxPixels,
          Full,         \* greatest brightness, dim and blink level (255)
          Boot,         \* brightness at power-on (200)
          kRainbowPalette, kDefaultPaletteIndex,
          Hues,         \* colours the left stick can steer to
          Picks,        \* colours the web page can pick, none too dark to see
          kSpark,       \* frames a spark takes to fade
          Wrap,         \* 2^32, the turn of millis()
          MaxTurn,      \* the longest turn of loop(), in ticks
          kChase, kTheater, kWipe, kStrobe   \* ticks per step of a pattern

StripCount == Len(Counts)
Strip == 1 .. StripCount

(* The pixels on the first s strips; on all of them, totalPixelCount(). *)
Offset[s \in 0 .. StripCount] == IF s = 0 THEN 0 ELSE Offset[s - 1] + Counts[s]
Total == Offset[StripCount]

Colour == Range(kRainbowPalette) \cup Hues \cup Picks
Level  == 0 .. Full
Pixel  == {"black", "rough", "rainbow"} \cup Colour    \* "rough": a colour rescaled

ASSUME LightsAssumption ==
  /\ Counts \in Seq(Nat \ {0}) /\ Counts # <<>>
  /\ Total <= kMaxPixels
  /\ {"black", "rough"} \cap Colour = {}
  /\ kRainbowPalette \in Seq(Range(kRainbowPalette))
  /\ kDefaultPaletteIndex \in 0 .. Len(kRainbowPalette) - 1
  /\ Boot \in 1 .. Full
  /\ {kMaxPixels, Full, kSpark, Wrap, MaxTurn, kChase, kTheater, kWipe, kStrobe}
       \subseteq Nat \ {0}

kEffectNames == <<"Solid", "Solid Rainbow", "Rainbow Cycle", "Chasing Rainbow",
                  "Theater Chase", "Chase", "Confetti", "Twinkle", "Breathe",
                  "Color Wipe", "Bounce", "Fire", "Strobe">>
kCount == Len(kEffectNames)
kPaletteSize == Len(kRainbowPalette)

VARIABLES pc,                 \* the place in loop()
          stick,              \* left stick: "away" without a gamepad, "centre", a hue
          sEffect, elapsed,   \* the pattern, and elapsedMs()
          sScratch,           \* strength of each pixel's spark
          sAccent, sDefaultAccent, sPaletteIndex,
          sGlobalBrightness, sStripDim, sBlinkLevel,
          strips              \* each strip's brightness and pixels

vars == <<pc, stick, sEffect, elapsed, sScratch, sAccent, sDefaultAccent, sPaletteIndex,
          sGlobalBrightness, sStripDim, sBlinkLevel, strips>>
pattern == <<sEffect, elapsed, sScratch>>
accent  == <<sAccent, sDefaultAccent, sPaletteIndex>>
levels  == <<sGlobalBrightness, sStripDim, sBlinkLevel, strips>>

TypeOK == /\ pc \in {"web", "upload", "pad", "admin", "eyes", "paint", "wait"}
          /\ stick \in {"away", "centre"} \cup Hues
          /\ sEffect \in 0 .. kCount - 1
          /\ elapsed \in 0 .. Wrap - 1
          /\ sScratch \in [0 .. kMaxPixels - 1 -> 0 .. kSpark]
          /\ sAccent \in Colour /\ sDefaultAccent \in Colour
          /\ sPaletteIndex \in 0 .. kPaletteSize - 1
          /\ sGlobalBrightness \in Level /\ sBlinkLevel \in Level
          /\ sStripDim \in [Strip -> Level]
          /\ strips \in [Strip -> [level : Level, pixels : Seq(Pixel)]]

-----------------------------------------------------------------------------
Dark(s)  == [k \in 1 .. Counts[s] |-> "black"]
NoSparks == [i \in 0 .. kMaxPixels - 1 |-> 0]

(* applyStripBrightness(): the three multipliers in one. *)
Effective(brightness, dim, blink) == (brightness * dim * blink) \div (Full * Full)

(* Adafruit_NeoPixel::setBrightness() *)
Rescaled(strip, level) ==
  IF level = strip.level THEN strip
  ELSE [level |-> level, pixels |-> [k \in DOMAIN strip.pixels |->
          IF strip.pixels[k] = "black" \/ 0 \in {strip.level, level}
          THEN "black" ELSE "rough"]]

(* Every strip with the multipliers given. *)
Apply(brightness, dim, blink) ==
  [s \in Strip |-> Rescaled(strips[s], Effective(brightness, dim[s], blink))]

Init == /\ pc = "web" /\ stick = "away"
        /\ sEffect = 0 /\ elapsed = 0 /\ sScratch = NoSparks
        /\ sPaletteIndex = kDefaultPaletteIndex
        /\ sAccent = kRainbowPalette[sPaletteIndex + 1] /\ sDefaultAccent = sAccent
        /\ sGlobalBrightness = Boot /\ sBlinkLevel = Full
        /\ sStripDim = [s \in Strip |-> Full]
        /\ strips = [s \in Strip |-> [level |-> Effective(Boot, Full, Full), pixels |-> Dark(s)]]

Goto(from, to) == pc = from /\ pc' = to

(* A pattern begins: resetEffectState(). *)
SetEffect(e) == sEffect' = e /\ elapsed' = 0 /\ sScratch' = NoSparks

setBrightness(v) == /\ sGlobalBrightness' = v
                    /\ strips' = Apply(v, sStripDim, sBlinkLevel)
                    /\ UNCHANGED <<sStripDim, sBlinkLevel>>

(* WebUI::handleClient(): at most one request *)
SelectEffect(e) == /\ Goto("web", "upload")
                   /\ SetEffect(e)
                   /\ UNCHANGED <<stick, accent, levels>>

SetColor(c) == /\ Goto("web", "upload")
               /\ sAccent' = c
               /\ UNCHANGED <<stick, pattern, sDefaultAccent, sPaletteIndex, levels>>

WebBrightness(v) == /\ Goto("web", "upload")
                    /\ setBrightness(v)
                    /\ UNCHANGED <<stick, pattern, accent>>

(* ArduinoOTA.onStart, of an upload that fails later *)
UploadFails == /\ Goto("upload", "pad")
               /\ sGlobalBrightness' = 0
               /\ strips' = [s \in Strip |-> [level |-> 0, pixels |-> Dark(s)]]
               /\ UNCHANGED <<stick, pattern, accent, sStripDim, sBlinkLevel>>

NoRequest == Goto("web", "upload") /\ UNCHANGED <<stick, pattern, accent, levels>>
NoUpload  == Goto("upload", "pad") /\ UNCHANGED <<stick, pattern, accent, levels>>

-----------------------------------------------------------------------------
(* A gamepad: the triggers dim their strip, L1 and R1 step through the     *)
(* patterns, Y changes the home colour.  Which edges and double clicks     *)
(* there are is the subject of LoopButtons, the brightness X, A and B      *)
(* leave that of EyeLights: any will do here.  One rescaling stands for    *)
(* the several of a turn.                                                  *)
Y == \/ UNCHANGED accent
     \/ /\ sPaletteIndex' = (sPaletteIndex + 1) % kPaletteSize
        /\ sDefaultAccent' = kRainbowPalette[sPaletteIndex' + 1] /\ sAccent' = sDefaultAccent'
     \/ sDefaultAccent' = sAccent /\ UNCHANGED <<sAccent, sPaletteIndex>>

Bumpers == \/ UNCHANGED pattern
           \/ SetEffect(sEffect)                \* both at once
           \/ SetEffect((sEffect + 1) % kCount)
           \/ SetEffect((sEffect + kCount - 1) % kCount)

Triggers(dim) == sStripDim' = [s \in Strip |-> IF s <= 2 THEN dim[s] ELSE sStripDim[s]]

PadConnected == \E axisX \in {"centre"} \cup Hues, dim \in [{1, 2} -> Level], v \in Level :
  /\ Goto("pad", "admin")
  /\ stick' = axisX
  /\ Bumpers /\ Y /\ Triggers(dim)
  /\ sGlobalBrightness' = v
  /\ strips' = Apply(v, sStripDim', sBlinkLevel)
  /\ UNCHANGED sBlinkLevel

PadAway == /\ Goto("pad", "admin")
           /\ stick' = "away"
           /\ Triggers([s \in {1, 2} |-> Full])
           /\ strips' = Apply(sGlobalBrightness, sStripDim', sBlinkLevel)
           /\ UNCHANGED <<pattern, accent, sGlobalBrightness, sBlinkLevel>>

(* flashAdminAck(): its last frame is dark, the brightness is restored. *)
AdminAck == /\ Goto("admin", "eyes")
            /\ sBlinkLevel' = Full
            /\ strips' = [s \in Strip |->
                 [level |-> Effective(sGlobalBrightness, sStripDim[s], Full), pixels |-> Dark(s)]]
            /\ UNCHANGED <<stick, pattern, accent, sGlobalBrightness, sStripDim>>

NoAdmin == Goto("admin", "eyes") /\ UNCHANGED <<stick, pattern, accent, levels>>

setBlinkLevel(v) ==
  IF v = sBlinkLevel THEN UNCHANGED levels
  ELSE /\ sBlinkLevel' = v
       /\ strips' = Apply(sGlobalBrightness, sStripDim, v)
       /\ UNCHANGED <<sGlobalBrightness, sStripDim>>

(* EyeMotion::update(): the level it sets, if any, is the subject of EyeLights. *)
Eyes(v) == /\ Goto("eyes", "paint")
           /\ setBlinkLevel(v)
           /\ UNCHANGED <<stick, pattern, accent>>

-----------------------------------------------------------------------------
n == IF Total < kMaxPixels THEN Total ELSE kMaxPixels     \* pixelCount()
Index == 0 .. n - 1

(* Mutant: the way back begins one pixel too late. *)
Mutant_BouncePos(t) ==
  LET span == 2 * n
      pos == (t \div kChase) % span
  IN  IF pos < n THEN pos ELSE span - pos - 1

(* runBounce() *)
BouncePos(t) ==
  LET span == 2 * (n - 1)
      pos == (t \div kChase) % span
  IN  IF n = 1 THEN 0 ELSE IF pos < n THEN pos ELSE span - pos

(* runColorWipe() *)
Wiped(t) ==
  LET within == t % (kWipe * n * 2)
      wipingIn == within < kWipe * n
      progress == IF wipingIn THEN within \div kWipe ELSE (within - kWipe * n) \div kWipe
  IN  {i \in Index : IF wipingIn THEN i <= progress ELSE i > progress}

(* The pixels a pattern lights at a time. *)
Lit(e, t) ==
  CASE kEffectNames[e + 1] \in {"Chase", "Chasing Rainbow"} -> {(t \div kChase) % n}
    [] kEffectNames[e + 1] = "Theater Chase" -> {i \in Index : i % 3 = (t \div kTheater) % 3}
    [] kEffectNames[e + 1] = "Bounce"        -> {BouncePos(t)}
    [] kEffectNames[e + 1] = "Color Wipe"    -> Wiped(t)
    [] kEffectNames[e + 1] = "Strobe"        -> IF (t \div kStrobe) % 2 = 0 THEN Index ELSE {}
    [] OTHER -> Index

Sparkles == kEffectNames[sEffect + 1] \in {"Confetti", "Twinkle"}
Rainbow  == kEffectNames[sEffect + 1] \in {"Solid Rainbow", "Rainbow Cycle", "Chasing Rainbow"}

(* updateAccentFromGamepad() *)
StickAccent == CASE stick = "away"   -> sAccent
                 [] stick = "centre" -> sDefaultAccent
                 [] OTHER            -> stick

(* Mutant: the rest is not reduced on the way to the next strip. *)
Mutant_resolveGlobalIndex(i) ==
  LET Fits(s) == i < Counts[s]
      first   == CHOOSE s \in Strip : Fits(s) /\ \A t \in 1 .. s - 1 : ~Fits(t)
  IN  IF \E s \in Strip : Fits(s) THEN <<first, i>> ELSE <<>>

(* resolveGlobalIndex(): the first strip with more pixels than remain, and *)
(* the pixel in it, or nothing                                             *)
resolveGlobalIndex(i) ==
  LET Fits(s) == i - Offset[s - 1] < Counts[s]
      first   == CHOOSE s \in Strip : Fits(s) /\ \A t \in 1 .. s - 1 : ~Fits(t)
  IN  IF \E s \in Strip : Fits(s) THEN <<first, i - Offset[first - 1]>> ELSE <<>>

(* setPixelGlobal() for each pixel of a frame; a strip at 0 takes black. *)
Write(frame) == [s \in Strip |-> [strips[s] EXCEPT !.pixels = [k \in 1 .. Counts[s] |->
  IF \E i \in Index : resolveGlobalIndex(i) = <<s, k - 1>>
  THEN IF strips[s].level = 0 THEN "black"
       ELSE frame[CHOOSE i \in Index : resolveGlobalIndex(i) = <<s, k - 1>>]
  ELSE @[k]]]]

(* runConfetti(), runTwinkle(): every spark fades a little, then one may be lit. *)
Faded == [i \in DOMAIN sScratch |-> IF i \in Index /\ sScratch[i] > 0
                                    THEN sScratch[i] - 1 ELSE sScratch[i]]
Spark == IF Sparkles THEN sScratch' \in {Faded} \cup {[Faded EXCEPT ![i] = kSpark] : i \in Index}
         ELSE UNCHANGED sScratch

(* The pixels that are not black.  Breathe is dark at the bottom of its wave. *)
Visible(trough) ==
  CASE Sparkles -> {i \in Index : Faded[i] > 0}
    [] kEffectNames[sEffect + 1] = "Breathe" /\ trough -> {}
    [] OTHER -> Lit(sEffect, elapsed)

(* LightEffects::update() and LedController::showAll() *)
Paint == \E trough \in BOOLEAN :
  /\ Goto("paint", "wait")
  /\ trough => kEffectNames[sEffect + 1] = "Breathe"
  /\ sAccent' = StickAccent
  /\ strips' = Write([i \in Index |-> IF i \notin Visible(trough) THEN "black"
                                      ELSE IF Rainbow THEN "rainbow" ELSE sAccent'])
  /\ Spark
  /\ UNCHANGED <<stick, sEffect, elapsed, sDefaultAccent, sPaletteIndex,
                 sGlobalBrightness, sStripDim, sBlinkLevel>>

(* delay(30), and whatever else took time in this turn *)
Wait(d) == /\ Goto("wait", "web")
           /\ elapsed' = (elapsed + d) % Wrap
           /\ UNCHANGED <<stick, sEffect, sScratch, accent, levels>>

Next == \/ \E e \in 0 .. kCount - 1 : SelectEffect(e)
        \/ \E c \in Picks : SetColor(c)
        \/ \E v \in Level : WebBrightness(v) \/ Eyes(v)
        \/ NoRequest \/ UploadFails \/ NoUpload
        \/ PadConnected \/ PadAway
        \/ AdminAck \/ NoAdmin
        \/ Paint
        \/ \E d \in 1 .. MaxTurn : Wait(d)

Spec == Init /\ [][Next]_vars

-----------------------------------------------------------------------------
(* What the eye sees: the pixels lit, the strips one after the other. *)
Glow == {i \in Index : \E s \in Strip : \E k \in 1 .. Counts[s] :
           i = Offset[s - 1] + k - 1 /\ strips[s].pixels[k] # "black"}

(* The picture a pattern is named for. *)
Picture ==
  LET name == kEffectNames[sEffect + 1]
  IN  /\ name \in {"Solid", "Solid Rainbow", "Rainbow Cycle", "Fire"} => Glow = Index
      /\ name \in {"Breathe", "Strobe"} => Glow \in {Index, {}}
      /\ name \in {"Chase", "Chasing Rainbow", "Bounce"} => Cardinality(Glow) = 1
      /\ name = "Theater Chase" => \E r \in 0 .. 2 : Glow = {i \in Index : i % 3 = r}
      /\ name = "Color Wipe" => \E i \in 0 .. n : Glow \in {0 .. i - 1, i .. n - 1}

(* After every turn of loop() each strip has the brightness its three      *)
(* multipliers give, whoever wrote them last and in whatever order; a      *)
(* strip at 0 is dark; no pixel is left over from the admin flash, a       *)
(* rescaling or an earlier pattern; and when every strip is on, the pixels *)
(* are the picture of the pattern, in the accent colour (applyStripBright- *)
(* ness(), flashAdminAck()'s "Pixels need no restoring", setPixelGlobal()). *)
ShownRight ==
  pc = "wait" =>
    /\ \A s \in Strip :
         /\ strips[s].level = Effective(sGlobalBrightness, sStripDim[s], sBlinkLevel)
         /\ strips[s].level = 0 => strips[s].pixels = Dark(s)
         /\ Range(strips[s].pixels) \subseteq {"black", IF Rainbow THEN "rainbow" ELSE sAccent}
    /\ ~Sparkles => sScratch = NoSparks
    /\ (\A s \in Strip : strips[s].level > 0) => Picture

(* A pattern starts at the first pixel, and what it lights moves by one    *)
(* pixel each period, over the joint of two strips and at both ends too:   *)
(* Chase comes round, Bounce turns without standing still, Color Wipe      *)
(* changes one pixel (runChase(), runBounce(), runColorWipe()).            *)
MovesByOne ==
  LET name == kEffectNames[sEffect + 1]
      period == IF name = "Color Wipe" THEN kWipe ELSE kChase
      now  == Lit(sEffect, elapsed)
      next == Lit(sEffect, elapsed + period)
  IN  elapsed + period < Wrap =>
        /\ name \in {"Chase", "Bounce", "Color Wipe"} /\ elapsed < period => now = {0}
        /\ name = "Chase" => next = {(i + 1) % n : i \in now}
        /\ name = "Bounce" /\ n > 1 =>
             \A i \in now, j \in next : j = i + 1 \/ i = j + 1
        /\ name = "Color Wipe" => Cardinality(SymDiff(now, next)) = 1

(* A colour picked on the web page is the colour of the next frame, unless *)
(* the left stick steers to another (light_effects.h: "Takes effect        *)
(* immediately").  A gamepad whose stick rests takes it back at once, so   *)
(* no run checks this.                                                     *)
PickHolds == [][pc = "paint" /\ sAccent \in Picks /\ stick \notin Hues
                  => sAccent' = sAccent]_vars
=============================================================================
