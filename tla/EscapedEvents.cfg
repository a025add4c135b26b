CONSTANTS
  NL = NL
  Data = Data
  Text = Text
  NoEvent = NoEvent
  Event <- SampleEvents
  MaxBlocks = 3
SPECIFICATION FSpec
INVARIANTS EscapesAreParsed
