CONSTANTS
  p1 = p1
  p2 = p2
  k = k
  NoPad = NoPad
  None = None
  Pad <- PadAndKeyboard
  Gamepad = {p1}
  Tag = {0}
  MAX_DEVICES = 2
  MaxArrivals = 3
SPECIFICATION Spec
INVARIANTS
  SeatsMatch
  AlwaysASeat
  FreshSeat
  AdoptedConnected
  WholeReports
PROPERTIES
  DepartureSeen
  ReportTaken
