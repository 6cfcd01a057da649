CONSTANTS
  Writers = {w1, w2}
  Closers = {c1}
  Drainers = {d1, d2}
  QueueSize = 2
  MaxWait = 1
  Options <- OnlyPatient
  MaxWrites = 2
SPECIFICATION Spec
SYMMETRY Symmetry
INVARIANTS TypeOK DrainExclusive NoStrandedPacket StreamOrder IdleIsFlushed InactiveOnce
PROPERTY ImplementsStream
