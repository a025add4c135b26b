CONSTANTS
  Workers = {async, threaded}
  Latencies = {0, 1, 3}
  JitterThreshold = 2
  RecoveryThreshold = 1
  DegradedWindow = 2
  RecoveryWindow = 2
  MaxSpikes = 3
SPECIFICATION CFairSpec
INVARIANTS TypeOK FullCountIsCleared ActivationsHappened EntriesAreSpikes
PROPERTIES Recovers RefinesMachine
