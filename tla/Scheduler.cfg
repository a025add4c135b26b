CONSTANTS
  HumanPacket = {h1, h2}
  BotPacket = {b1, b2, b3}
  NoPacket = NoPacket
  QueueDepth = 2
  MaxOverflows = 1
  LogCap = 1
  DriftWindow = 0
SPECIFICATION FairSpec
INVARIANTS TypeOK RetryHasRoom BoundedBypass
PROPERTIES Refines HumanServed Shutdown
