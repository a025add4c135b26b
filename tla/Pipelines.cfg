CONSTANTS
  ChannelCapacity = 1
  QueueDepth = 1
  MaxEvents <- EventLimit
SPECIFICATION PFairSpec
INVARIANTS PTypeOK StatisticsAreFinal
PROPERTIES StopEndsAll
