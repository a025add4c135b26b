CONSTANTS
  Workers = {async, threaded}
  Latencies = {0, 1, 3}
  JitterThreshold = 2
  RecoveryThreshold = 1
  DegradedWindow = 2
  RecoveryWindow = 2
  MaxSpikes = 1
  InjectEvery = 1
  NaturalLatencies = {0, 3}
  InjectedLatency = 3
SPECIFICATION HFairSpec
INVARIANTS HTypeOK BotsAreShed
PROPERTIES HRecovers
