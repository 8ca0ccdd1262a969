SPECIFICATION SystemSpec
CONSTANTS
  ByteBits = 3
  AddrLen = 2
  TagLen = 1
  MaxCount = 4
  Arrays <- MCArrays
  Batches <- MCBatches
  Orders = {"ASC", "DESC", "unknown"}
INVARIANTS
  SwapInsideBucket
  IInv
  Sorted
  FamilyRestored
  LongestMatchWhenSorted
  NoPartialAnswer
PROPERTIES
  Returns
  StaysInSegment
CHECK_DEADLOCK FALSE
