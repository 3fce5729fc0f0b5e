SPECIFICATION SafetySpec
CONSTANTS
  Word = 12
  Chunk = 4
  Timespan = 1
  FirstAlarm = 1
  IntervSync = 3
  IntervStore = 2
  IntervSend = 3
  AccSend0 = 1
  Retry = 2
  SnapshotSize = 3
  MaxTries = 2
  WdtPeriod = 1
  MaxPosts = 2
  ClockSteps <- NoClockStep
  DateRequests = TRUE
INVARIANTS
  TransmissionBounded
  SnapshotAtMostOne BearerHeld NoSnapshotLost RetrySoon
PROPERTIES
  ResetOnlyWhenHanged
