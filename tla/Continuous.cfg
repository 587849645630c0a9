SPECIFICATION FairSpec
CONSTANTS
  Readings = {reading}
  Zero = nothing
  Offsets = {0, 1}
  Builds <- AllBuilds
  ClockModulus = 7
  RELAY_COUNT = 2
  MAX_CONTACT_DELAY = 3
  MaxGap = 2
  MaxPass = 1
  Debounce = 2
  MaxInterval = 2
  DefaultInterval = 2
INVARIANTS
  TimerMeansOn
PROPERTIES
  ReadWhenDue
  PageTurnsApart
  PressShowsPublished
  PulseEndsWhenDue
  ButtonIsSeen
