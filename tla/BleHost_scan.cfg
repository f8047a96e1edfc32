CONSTANTS
  a1 = a1
  a2 = a2
  a3 = a3
  NoAddr = NoAddr
  Invalid = Invalid
  Addr <- TwoPads
  MAX_DEVICES = 2
  Handles <- FromZero
SPECIFICATION Spec
INVARIANT ScansWhenAlone
