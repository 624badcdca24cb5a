SPECIFICATION LiveSpec
CONSTANTS
  MaxVersion = 3
  MaxStops = 2
  MaxWatches = 2
  MaxBreaks = 1
CHECK_DEADLOCK FALSE
PROPERTY
  UpdatesReachWatcher
