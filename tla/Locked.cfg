SPECIFICATION LiveSpec
CONSTANTS
  Resources = {r1}
  EventIds = {e1, e2}
  Instances = {i1}
  Clients = {c1}
  None = None
  MaxVersion = 2
  MaxInc = 1
  Redelivery = FALSE
  Configured = {"undelivered", "staleDelete", "republish"}
  MaxFaults = 1
CHECK_DEADLOCK FALSE
INVARIANTS
  TypeOK
  EveryChangeAnnounced
  
  
PROPERTIES
  
  EventuallyReconciled
  QueuesDrain
