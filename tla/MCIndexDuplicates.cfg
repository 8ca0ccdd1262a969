SPECIFICATION Spec
CONSTANTS
  ByteBits = 3
  AddrLen = 1
  TagLen = 1
  MaxBranch = 3
  NodeLimits = {40}
  SkipSize = 16
  MaxCount = 3
  MaxAscending = 3
  Arrays <- MCArrays
INVARIANTS
  LowestIndexWins
CHECK_DEADLOCK FALSE
