CONSTANTS
  Writers = {"a", "b"}
  Never = Never
  Timeout = 4
  PollPeriod = 2
  MaxDelay = 1
  MaxResets = 2
SPECIFICATION Spec
INVARIANTS ResetInTime NoFalseAlarm
PROPERTIES ResetsSpaced
