SPECIFICATION Spec
CONSTANTS
  Ids = {"a", "b", "c", "lib", "archive", "loader", "minecraft"}
  Versions = {"1", "2", "odd"}
  Ranges = {"any", "low", "high", "opaque", "later"}
  AnyRange = "any"
  InRange <- MCInRange
  Probe = "0"
  Inherit = "inherit"
  Platform = {"minecraft"}
  Runtime <- MCRuntime
  Packs <- Suppressing
INVARIANTS
  BrokenPackIsAnError
\* An analysis ends with its conclusions.
CHECK_DEADLOCK FALSE
