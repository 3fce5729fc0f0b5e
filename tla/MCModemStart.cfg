SPECIFICATION Spec
CONSTANTS
  AtTries = 2
  Checks = 2
  MaxAttempts = 2
  Codes = 2
  Locks = {"READY", "SIM PIN", "PH_SIM PIN"}
  MaxFaults = 3
INVARIANTS
  StartedMeansReady BearerTrue
PROPERTIES
  BootEnds
