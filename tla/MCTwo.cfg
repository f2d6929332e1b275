SPECIFICATION Spec
CONSTANTS
  Runs = {1, 2}
  Bindings <- MCBindings
  BindingOf <- DistinctRepositories
  LegacyRuns = {}
  Owners = {}
  MaxCapacity = 1
  LeaseTTL = 1
  MaxTime = 1
  MaxVersion = 3
  NoRun = 0
  Workers = {w1, w2}
  MaxEpoch = 2
  Operator = 9
  Faults = {"crash"}
SYMMETRY Symmetry
PROPERTIES
  ImplementsContract
  GrantsWithinCapacity
CHECK_DEADLOCK FALSE
