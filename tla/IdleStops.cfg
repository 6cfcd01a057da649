CONSTANTS
  Callbacks = {c1}
  IdleTime = 2
  MaxMessages = 2
SPECIFICATION IdleSpec
INVARIANT StoppedAtEnd
CHECK_DEADLOCK FALSE
