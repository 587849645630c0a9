SPECIFICATION NodeFairSpec
CONSTANTS
  CounterModulus = 32
  Commands <- Queries
  MaxCommands = 1
  Esp8266 = FALSE
  SyncBeforeSleep = TRUE
  SYNC_MAX_RESENDS = 2
  CMD_QUEUE_SIZE = 1
  MaxCommandValue = 2
  DefaultInterval = 3
  Faults = {"link"}
  MaxBoots = 2
CHECK_DEADLOCK FALSE
INVARIANTS
  ConfirmedIsDelivered
  TxOkWithinTxSent
PROPERTIES
  SleepsDeliveredOrSpent
  EveryWakeEnds
