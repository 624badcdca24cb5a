SPECIFICATION LiveSpec
CONSTANTS
  Resources = {r1}
  StatusEventIds = {e1, e2}
  Instances = {i1}
  Handlers = {h1, h2}
  None = None
  MaxVersion = 1
  MaxSeq = 2
  MaxInc = 1
  Faults = {"fail", "abort", "crash", "unready"}
  MaxFaults = 1
CHECK_DEADLOCK FALSE
INVARIANTS
  TypeOK
  
PROPERTIES
  StatusMonotone
  LatestStatusBroadcast
  DeletionsPurged
