SPECIFICATION Spec
CONSTANTS
  Runs = {1}
  Bindings <- MCBindings
  BindingOf <- OneRepository
  LegacyRuns = {}
  Owners = {}
  MaxCapacity = 1
  LeaseTTL = 1
  MaxTime = 1
  MaxVersion = 4
  NoRun = 0
  Workers = {w1, w2}
  MaxEpoch = 2
  Operator = 9
  Faults = {"unproven", "abandon"}
PROPERTIES
  ReleasedAfterStop
CHECK_DEADLOCK FALSE
