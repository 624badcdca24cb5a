SPECIFICATION LiveSpec
CONSTANTS
  Calls = {c1, c2}
  Keys = {k1, k2}
  None = None
  Kinds = {"rest", "grpc", "background"}
  Pool = 6
  MaxStatements = 2
  Faults = {"begin", "txid", "lock", "cancel"}
  MaxFaults = 1
INVARIANTS
  OpenCallsUnderLock
  LocksHaveOwners

  
