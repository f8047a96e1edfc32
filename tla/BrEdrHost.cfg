CONSTANTS
  a1 = a1
  a2 = a2
  NoAddr = NoAddr
  Zero = Zero
  Addr <- TwoPads
  Found <- OnePad
  Callers <- TwoPads
  MAX_DEVICES = 1
  MaxChannels = 2
  Names = {"known", "Wireless Controller"}
SPECIFICATION Spec
INVARIANTS
  OwnLink
  OwnChannels
  ReadyIsSeated
  ConnectingHasTimer
PROPERTIES
  AttemptEnds
  
