SPECIFICATION Spec
CONSTANTS
  t1 = t1  t2 = t2  t3 = t3
  g1 = g1  g2 = g2  g3 = g3
  none = none
  a = a  b = b
  h1 = h1  h2 = h2
  v1 = v1  v2 = v2
  s = s
  absent = absent
  junk = junk
  Threads = {t1, t2, t3}
  Gates = {g1, g2, g3}
  NoGate = none
  Jars = {a}
  Hashes = {h1}
  JarStates <- OrGone
  Stamps = {s}
  Versions = {v1}
  Segment <- Apart
  Absent = absent
  Junk = junk
  Leftover = {}
  HasRemote = TRUE
  Failing = FALSE
  Rewriting = FALSE
  MemoryCap = 2
  MaxLookups = 4
  MaxBoots = 1
INVARIANTS
  ScannedOnce
SYMMETRY ThreadSymmetry

\* When every lookup of the bound is spent, nothing need happen.
CHECK_DEADLOCK FALSE
