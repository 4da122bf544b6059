SPECIFICATION Spec
CONSTANTS
  Sizes <- MCSizes
  Rings = 2
  SizeOf <- MCSizeOf
  Items = 4
  Period = 2
  Budget = 2
  Rounds = {0}
  UInt = 65536
  MaxFaults = 2
CHECK_DEADLOCK FALSE
INVARIANTS TypeOK BuffersConserved Intact
PROPERTY EveryMessageArrives
