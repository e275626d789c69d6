SPECIFICATION FairSpec
CONSTANTS
  t1 = t1  t2 = t2
  p1 = p1  p2 = p2  p3 = p3  f1 = f1
  Threads = {t1, t2}
  Payloads = {p1, p2, p3}
  Sidecars = {f1}
  MinBytes = 1
  Wrap = 64
  Setups <- MCSetups
INVARIANTS
  EstimateExact
  BudgetHonoured
  UnderflowHeals
PROPERTIES
  EveryWriteReturns
\* When every write of the bound is spent, nothing need happen.
CHECK_DEADLOCK FALSE
