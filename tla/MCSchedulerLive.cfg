SPECIFICATION Spec
CONSTANTS
  Word = 6
  Chunk = 2
  Timespan = 2
  FirstAlarm = 2
  IntervSync = 2
  IntervStore = 2
  IntervSend = 1
  AccSend0 = 0
  Retry = 1
  SnapshotSize = 3
  MaxTries = 2
  WdtPeriod = 3
  MaxPosts = 1
  ClockSteps <- SmallClockSteps
  DateRequests = TRUE
INVARIANTS
  WatchdogFed
PROPERTIES
  ServesEveryTask SnapshotsReachLog
