SPECIFICATION Spec
CONSTANTS
  Resources = {r1}
  EventIds = {e1, e2}
  Instances = {i1, i2}
  Clients = {c1}
  None = None
  MaxVersion = 1
  MaxInc = 1
  Redelivery = FALSE
  Configured = {}
  MaxFaults = 1
CHECK_DEADLOCK FALSE
SYMMETRY Symmetry
INVARIANTS
  SyncedAgentInformed
