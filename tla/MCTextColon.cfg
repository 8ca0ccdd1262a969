SPECIFICATION Spec
CONSTANTS
  Seeds <- MCSeeds
  ShortTexts <- MCShortTexts
  Tokens <- MCTokens
  Mates <- MCMates
  Around <- MCAround
  BatchSize = 3
  Fills <- MCFills
  HostLengths = {0, 12, 33, 128}
  MaxCalls = 3
  Lengths <- MCLengths
  LONG_MAX = 1000
INVARIANTS
  AcceptsOnlyAddressTexts
CHECK_DEADLOCK FALSE
