SPECIFICATION FairSpec
CONSTANTS
  CounterModulus = 2
  Commands <- SomeCommands
  MaxCommands = 2
  CMD_QUEUE_SIZE = 1
  MaxCommandValue = 2
  MaxInFlight = 1
INVARIANTS
  ConfirmedIsDelivered
  CycleAttribution
  ConnectedIsSubscribed
PROPERTIES
  OnlyResetLosesCommands
  ServedInOrder
  EveryCycleEnds
  EveryCommandTaken
