SPECIFICATION Spec
CONSTANTS
  CounterModulus = 1
  Commands <- Queries
  MaxCommands = 1
  Esp8266 = FALSE
  SyncBeforeSleep = TRUE
  SYNC_MAX_RESENDS = 1
  CMD_QUEUE_SIZE = 1
  MaxCommandValue = 2
  DefaultInterval = 3
  Faults = {}
  MaxBoots = 1
CHECK_DEADLOCK FALSE
INVARIANTS
  NoCommandLost
