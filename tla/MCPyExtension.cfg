SPECIFICATION ExtensionSpec
CONSTANTS
  MaxItems = 3
  Callers = {c1, c2, c3}
SYMMETRY CallerSymmetry
INVARIANTS
  NoLeak
  RaisedIffNull
  UsesLive
  OwnedOnce
PROPERTIES
  MatchesAreLive
CHECK_DEADLOCK FALSE
