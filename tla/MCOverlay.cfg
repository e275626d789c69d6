SPECIFICATION Spec
CONSTANTS
  p1 = p1  p2 = p2
  absent = absent
  Broken = broken
  Shapeless = shapeless
  Null = null
  Unreadable = unreadable
  Processes = {p1, p2}
  Paths <- MCPaths
  Rank <- MCRank
  Domain <- MCDomain
  Locale <- MCLocale
  Jars = {1, 2, 3}
  Packs <- MCPacks
  Replacements <- MCReplacements
  EntryCap = 2
  TotalCap = 6
  EntryLimit = 3
  PathCap = 5
  MaxReplaced <- MCMaxReplaced
  MaxRuns <- MCMaxRuns
INVARIANTS
  PublishedIsWhole
  SafeIsOrderFree
SYMMETRY ProcessSymmetry

\* When every run of the bound is over, nothing need happen.
CHECK_DEADLOCK FALSE
