CONSTANTS
  Base = 4
  Codecs <- MCCodecs
  Bodies <- MCBodies
  MaxWrites = 2
  MaxCap = 256
  Limit = 300
  PowersOfTwo <- Powers
  Sizes = {0, 1, 4, 5, 8, 9, 129, 256, 257}
  ForeignCaps = {0, 2, 4, 16, 64}
  Clients = {p1, p2}
  Objects = {b1, b2, b3}
SPECIFICATION MCSpec
INVARIANTS TypeOK FramesArrive FramesAreBounded PoolTypeOK GetSuffices
PROPERTY AllArrive
CHECK_DEADLOCK FALSE
