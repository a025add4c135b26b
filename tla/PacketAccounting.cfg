CONSTANTS
  HumanPacket = {h1, h2, h3, h4}
  BotPacket = {b1}
  NoPacket = NoPacket
  QueueDepth = 2
  MaxOverflows = 3
  LogCap = 1
  DriftWindow = 0
SPECIFICATION ASpec
INVARIANTS Conservation FifoPerClass DropsOldest LossIsCounted
SYMMETRY Interchangeable
