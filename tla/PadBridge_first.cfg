CONSTANTS
  p1 = p1
  p2 = p2
  k = k
  NoPad = NoPad
  None = None
  Pad <- TwoPads
  Gamepad <- TwoPads
  Tag = {0}
  MAX_DEVICES = 2
  MaxArrivals = 2
SPECIFICATION Spec
INVARIANT FirstConnected
