CONSTANTS
  Wrap = 12
  AdminHold = 3
  AckTicks = 1
  DoubleClick = 2
  VolumeRepeat = 2
  TopVolume = 2
  FirstVolume = 1
SPECIFICATION Spec
INVARIANTS
  ToggleIsHeld
  HoldToggles
PROPERTIES
  PinIsSecond
