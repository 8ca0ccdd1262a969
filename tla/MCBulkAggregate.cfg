SPECIFICATION FairSpec
CONSTANTS
  ByteBits = 3
  AddrLen = 1
  TagLen = 1
  MaxCount = 2
  MaxAscending = 4
  Arrays <- MCArrays
INVARIANTS
  CoverPreserved
  ResultIsCanonical
  MergeInputDisjoint
PROPERTIES
  Returns
  ImplementsAggregateSpec
CHECK_DEADLOCK FALSE
