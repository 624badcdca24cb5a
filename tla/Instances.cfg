SPECIFICATION HealthLiveSpec
CONSTANTS
  Instances = {i1, i2}
  NoInstance = NoInstance
  MaxChanges = 2
CHECK_DEADLOCK TRUE
INVARIANTS
  DeadNotReadyForLong
PROPERTIES
  ServingBecomesReady
  GoneBecomesUnready
