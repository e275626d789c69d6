SPECIFICATION Spec
CONSTANTS
  Attrs <- MCAttrs
  MaxNesting = 2
  Databases <- MCDatabases
  Queries <- NarrowQueries
  Rules <- NoRules
  IntColumns <- MCIntColumns
INVARIANT StrategyIrrelevant
