SPECIFICATION ProgramSpec
CONSTANTS
  ByteBits = 2
  AddrLen = 2
  CastSize = 8
  Parents <- Prefix
  Requests <- NearRange
INVARIANTS
  ContainmentIsInterval
  OverlapIsNesting
  SiblingsFillParent
  IncIsAddition
  InOrder
  Complete
PROPERTIES
  LoopEnds
