SPECIFICATION Spec
CONSTANTS
  Observations <- MCObservations
  KeepKinds <- MCKeepKinds
  GraphKinds <- MCGraphKinds
  Collectors <- MCCollectors
  Scope <- MCScope
  Engines <- MCEngines
  MaxFacts = 1
  MaxEmit = 2
INVARIANTS
  CompactionPreservesConclusions
\* A diagnosis ends with its report.
CHECK_DEADLOCK FALSE
