CONSTANTS
  Writers = {w1, w2}
  Closers = {c1}
  Drainers = {d1, d2}
  QueueSize = 2
  MaxWait = 1
  Options <- OnlyRaw
  MaxWrites = 1
SPECIFICATION Spec
INVARIANT CloseWaitsForSends
