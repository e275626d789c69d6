SPECIFICATION ExecutionSpec
CONSTANTS
  Lines <- MCLines
  MaxLines = 4
  LogLimit = 3
INVARIANTS
  VerdictEarned
  LastWordsRead
  TimedOutTreeDead
PROPERTY ExecutionReturns
CHECK_DEADLOCK FALSE
