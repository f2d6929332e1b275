SPECIFICATION StoreSpec
CONSTANTS
  Runs = {1, 2}
  Bindings <- MCBindings
  BindingOf <- SharedRepository
  LegacyRuns = {1}
  Owners = {1, 2}
  MaxCapacity = 2
  LeaseTTL = 1
  MaxTime = 1
  MaxVersion = 2
  NoRun = 0
INVARIANTS
  SlotAuthority
  PermitUnderSlot
  ActiveOwnsSlot
PROPERTIES
  StartedKeepsPermit
