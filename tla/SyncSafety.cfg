CONSTANTS
  Writers = {w1, w2}
  Closers = {c1}
  NoOwner = NoOwner
  Links <- MCLinks
  MaxCalls = 1
  MaxChunks = 2
SPECIFICATION FairSpec
INVARIANTS TypeOK FreeIsClean StreamOrder OutcomeIsTrue
PROPERTY CallsReturn
