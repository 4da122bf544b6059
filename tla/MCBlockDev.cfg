SPECIFICATION FairSpec
CONSTANTS
  Addresses = {1, 2}
  MaxLoads = 2
  MaxOpens = 2
  MaxUses = 1
  MaxFaults = 1
CHECK_DEADLOCK FALSE
INVARIANTS TypeOK RingsMatch
PROPERTIES BusyDiskStays OpenedDiskRuns
