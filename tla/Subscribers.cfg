SPECIFICATION LiveSpec
CONSTANTS
  Subscribers = {s1, s2}
  ChannelSize = 1
  BeatSize = 1
  MaxVersion = 1
  MaxResyncs = 1
  MaxStalls = 1
CHECK_DEADLOCK FALSE
INVARIANTS
  NoGap
PROPERTIES
  UnregisterCompletes
  BroadcastReachesAll
