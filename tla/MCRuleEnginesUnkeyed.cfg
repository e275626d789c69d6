SPECIFICATION Spec
CONSTANTS
  Attrs <- MCAttrs
  MaxNesting = 2
  Databases <- MCDatabases
  Queries <- UnkeyedQueries
  Rules <- NoRules
  IntColumns <- MCIntColumns
INVARIANT ResultsPreserved
