SPECIFICATION AudioSpec
CONSTANTS
  Wrap = 16
  StartupDelay = 3
  InitTicks = 1
  DipWindow = 2
  Tracks = 3
  MaxVolume = 2
  BootVolume = 1
INVARIANTS VolumeAgrees DipIsRecent
PROPERTY SetUpInTime
