SPECIFICATION SystemSpec
CONSTANTS
  ByteBits = 3
  AddrLen = 1
  TagLen = 1
  MaxBranch = 3
  NodeLimits = {40}
  SkipSize = 16
  MaxAscending = 4
  MaxCount = 1
  Arrays <- BuiltArrays
  Batches <- WholeBatch
INVARIANTS
  LongestPrefixMatch
CHECK_DEADLOCK FALSE
