SPECIFICATION FairSpec
CONSTANTS
  old = old
  new = new
  auto = auto
  none = none
  Cases = {1, 2}
  StaticOnly = {2}
  Options <- MCOptions
  Analyzers = {old, new}
  Expected = new
  AnyAnalyzer = auto
  NoReport = none
  MaxBoots = 2
  Budget = 2
INVARIANTS
  BudgetAccounting
  OneAttemptInFlight
  PairedUnlessOutlived
  FinishedIsExhausted
PROPERTIES
  SettledIsFinal
  ImplementsLedger
  Termination

\* An operator need not start the process again.
CHECK_DEADLOCK FALSE
