CONSTANTS
  loop = loop
  console = console
  START = START
  STOP = STOP
  NoCmd = NoCmd
  Posters <- TwoTasks
  Cmd <- ScanCmds
  CMD_CALLBACK_MAX = 3
  MaxOutstanding = 4
SPECIFICATION RingSpec
INVARIANTS
  OwnSlot
PROPERTIES
  QueueSpec
