SPECIFICATION Spec
CONSTANTS
  Attrs <- MCAttrs
  MaxNesting = 2
  Databases <- MCDatabases
  Queries <- NoQueries
  Rules <- ParityRules
  IntColumns <- MCIntColumns
INVARIANT BackendsAgree
