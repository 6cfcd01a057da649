CONSTANTS
  Accepted = {a1}
  Dialed = {}
  Closers = {u1, u2}
  Stoppers = {s1}
  ContextDerived = TRUE
SPECIFICATION FairSpec
CHECK_DEADLOCK FALSE
PROPERTIES ShutdownEndsAll AcceptLoopResumes ClosedChannelEnds
