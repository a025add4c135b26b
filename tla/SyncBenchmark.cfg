CONSTANTS
  en = en
  de = de
  w1 = w1
  w2 = w2
  Writers = {w1, w2}
  Readers = {main}
  KnownDomain <- KnownTwo
  OtherDomain = {other}
  NoOne = NoOne
  Strangers = Strangers
  MaxCalls = 2
  TopSize = 2
  Latency = {1, 2, 3}
  JoinOrder <- Spawned
SPECIFICATION BSpec
INVARIANTS BTypeOK NoEditLost OpsFollowEdits BenchCountsEveryOp PercentileHasRank
PROPERTIES KeepsPromise
