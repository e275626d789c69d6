SPECIFICATION Spec
CONSTANTS
  Observations <- MCObservations
  KeepKinds <- MCKeepKinds
  GraphKinds <- MCGraphKinds
  Collectors <- MCCollectors
  Scope <- MCScope
  Engines <- MCEngines
  MaxFacts = 2
  MaxEmit = 2
INVARIANTS
  EvidenceResolves
  HardErrorEarned
  NoContradictedConclusion
  SeverityTrail
  EvidenceConserved
  ClusterKeepsVerdict
\* A diagnosis ends with its report.
CHECK_DEADLOCK FALSE
