SPECIFICATION Spec
CONSTANTS
  old = old
  new = new
  auto = auto
  none = none
  Cases = {1}
  StaticOnly = {}
  Options <- MCOptions
  Analyzers = {old, new}
  Expected = new
  AnyAnalyzer = auto
  NoReport = none
  MaxBoots = 5
  Budget = 2
INVARIANTS
  BudgetAccounting
  PairedUnlessOutlived
PROPERTIES
  SettledIsFinal

\* An operator need not start the process again.
CHECK_DEADLOCK FALSE
