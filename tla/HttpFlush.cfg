CONSTANTS
  Conns = {c1, c2}
  Pipelining = {c2}
  Writers = {w1, w2}
  NoWriter = NoWriter
  NoConn = NoConn
  Orderly = TRUE
  MaxRequests = 2
  MaxPieces = 1
SPECIFICATION Spec
SYMMETRY Symmetry
INVARIANT OwnResponses
