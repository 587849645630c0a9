SPECIFICATION Spec
CONSTANTS
  Commands <- AllCommands
  MaxCommands = 2
  MaxReboots = 3
  CMD_QUEUE_SIZE = 1
  CMD_PAYLOAD_MAX = 128
  Requests <- SomeRequests
INVARIANTS
  NoVersionFlashedTwice
  SuccessIsSameVersion
