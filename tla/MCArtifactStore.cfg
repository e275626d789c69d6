SPECIFICATION Spec
CONSTANTS
  Writers = {p1, p2}
  NoVersion = NoVersion
  Files = {"f", "g"}
  Contents = {"a", "b"}
  Absent = "absent"
  Locks <- MCLocks
  MaxRewrites = 1
  MaxAttempts = 3
  MaxLosses = 1
SYMMETRY Symmetry
INVARIANTS
  WholeFile
  AckedIsDurable
  BlobHonest
  RecordHonest
  VerifiedIsPinned
PROPERTY NoClobber
CHECK_DEADLOCK FALSE
