SPECIFICATION FairSpec
CONSTANTS
  Builds <- Shipped
  MAX_METRICS = 12
  MAX_COMMANDS = 8
  Snapshots <- SomeSnapshots
  CounterDigits = 6
  FwLen = 9
INVARIANTS
  ValidIsMeasured
  AnnouncedIsPublished
  PayloadWhole
  HealthIsWorst
PROPERTIES
  SensorHeals
