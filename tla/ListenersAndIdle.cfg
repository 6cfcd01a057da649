CONSTANTS
  Owners = {o1, o2}
  Urls = {x, y}
  Closers = {u1, u2}
  Stoppers = {s1}
  CloseTwice = FALSE
  Callbacks = {c1, c2, c3}
  IdleTime = 3
  MaxMessages = 3
SPECIFICATION MCSpec
INVARIANTS ShutdownClosesRegistered RegistrationKept Watched StaysStopped
PROPERTIES SyncReturns IdleIsNoticed
CHECK_DEADLOCK FALSE
