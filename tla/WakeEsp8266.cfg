SPECIFICATION Spec
CONSTANTS
  CounterModulus = 16
  Commands <- AllCommands
  MaxCommands = 2
  Esp8266 = TRUE
  SyncBeforeSleep = FALSE
  SYNC_MAX_RESENDS = 1
  CMD_QUEUE_SIZE = 1
  MaxCommandValue = 2
  DefaultInterval = 3
  Faults = {"link", "crash", "power"}
  MaxBoots = 2
CHECK_DEADLOCK FALSE
INVARIANTS
  CounterAttribution
PROPERTIES
  WakeKeepsCounters
  WakeKeepsInterval
  ServedInOrder
