SPECIFICATION Spec
CONSTANTS
  Attrs <- MCAttrs
  MaxNesting = 2
  Databases <- MCDatabases
  Queries <- MCQueries
  Rules <- MCRules
  IntColumns <- MCIntColumns
INVARIANTS ResultsPreserved StrategyIrrelevant BackendsAgree
