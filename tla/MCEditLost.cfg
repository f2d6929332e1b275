CONSTANTS
  a = a
  b = b
  x = x
  y = y
  p1 = p1
  p2 = p2
  Procs = {p1}
  Worker = w
  Digests = {a, b}
  Foreign = {x, y}
  Absent = absent
  Baseline = a
  Compatible <- MCCompatible
  KeepRaw = 1
  MaxRuns = 0
  MaxGenerations = 2
  Edits = {x, y}
  MaxTroubles = 0
SPECIFICATION Spec
VIEW MCView
SYMMETRY MCSymmetry
PROPERTY ConcurrentEditRestored
