CONSTANTS
  a = a
  b = b
  x = x
  y = y
  p1 = p1
  p2 = p2
  Procs = {p1, p2}
  Worker = w
  Digests = {a, b}
  Foreign = {x, y}
  Absent = absent
  Baseline = a
  Compatible <- MCCompatible
  KeepRaw = 1
  MaxRuns = 1
  MaxGenerations = 3
  Edits = {x, y}
  MaxTroubles = 1
SPECIFICATION Spec
VIEW MCView
SYMMETRY MCSymmetry
INVARIANTS RawKept LiveAccounted ActiveRunSupported
PROPERTIES EditsKept OutcomeFinal
