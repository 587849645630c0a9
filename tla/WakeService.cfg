SPECIFICATION FairSpec
CONSTANTS
  CounterModulus = 1
  Commands <- ServiceCommands
  MaxCommands = 3
  Esp8266 = FALSE
  SyncBeforeSleep = FALSE
  SYNC_MAX_RESENDS = 1
  CMD_QUEUE_SIZE = 2
  MaxCommandValue = 2
  DefaultInterval = 3
  Faults = {"link"}
  MaxBoots = 1
CHECK_DEADLOCK FALSE
INVARIANTS
  NoCommandLost
PROPERTIES
  CommandsServed
