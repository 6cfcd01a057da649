CONSTANTS
  Accepted = {a1}
  Dialed = {b1}
  Closers = {u1}
  Stoppers = {s1, s2}
  ContextDerived = TRUE
SPECIFICATION Spec
SYMMETRY Symmetry
CHECK_DEADLOCK FALSE
INVARIANTS HolderIsExact ShutdownReachesReaders ShutdownIsReported
