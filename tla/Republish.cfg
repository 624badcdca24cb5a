SPECIFICATION DeletionLiveSpec
CONSTANTS
  EventIds = {e1, e2, e3}
  Interval = 2
  Threshold = 3
  MaxAge = 6
  MaxForgets = 1
  MaxFailures = 1
INVARIANTS
  PendingSpaced
PROPERTIES
  DeletionHeals
