CONSTANTS
  Writers = {"sse", "async", "threaded"}
  Never = Never
  Timeout = 2
  PollPeriod = 1
  MaxDelay = 0
  MaxResets = 2
  RawCapacity = 1
  RequestTimeout = 4
  RetryWait = 1
  PauseWait = 1
SPECIFICATION SSpec
INVARIANTS STypeOK BreaksAreCaused
