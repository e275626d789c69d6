SPECIFICATION Spec
CONSTANTS
  old = old
  new = new
  auto = auto
  none = none
  Cases = {1, 2}
  StaticOnly = {2}
  Options <- MCOptions
  Analyzers = {old, new}
  Expected = new
  AnyAnalyzer = auto
  NoReport = none
  MaxBoots = 2
  Budget = 2
INVARIANTS
  ExactPairing
CHECK_DEADLOCK FALSE
