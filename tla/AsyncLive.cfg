CONSTANTS
  Writers = {w1, w2}
  Closers = {c1}
  Drainers = {d1, d2}
  QueueSize = 1
  MaxWait = 1
  Options <- PatientOrHasty
  MaxWrites = 1
SPECIFICATION PeerSpec
PROPERTIES AcceptedIsSent CloseReturns WriteReturns
