CONSTANT MaxLag = 4
SPECIFICATION Spec
INVARIANTS
  WifiPausesScan
  RadioOwned
  OtaOnInterface
PROPERTIES
  ScanStops
  ScanReturns
