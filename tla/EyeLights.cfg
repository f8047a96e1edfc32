CONSTANTS
  Full = 2
  Boot = 1
  Step = 1
  Closed = 1
  Open = 1
  GapMin = 2
  GapMax = 3
  DipWindow = 2
  IdleResume = 5
  AckTicks = 2
SPECIFICATION Spec
INVARIANTS
  ParkedLit
  ComesBack
PROPERTIES
  BlinkEnds
  DipEndsUndriven
