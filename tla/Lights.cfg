CONSTANTS
  Counts <- TwoStrips
  kMaxPixels = 3
  Full = 1
  Boot = 1
  kRainbowPalette <- Palette
  kDefaultPaletteIndex = 1
  Hues = {blue}
  Picks = {white}
  kSpark = 2
  Wrap = 13
  MaxTurn = 2
  kChase = 1
  kTheater = 1
  kWipe = 2
  kStrobe = 1
  red = red
  cyan = cyan
  blue = blue
  white = white
SPECIFICATION Spec
INVARIANTS
  ShownRight
  MovesByOne
