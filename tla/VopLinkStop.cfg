SPECIFICATION Spec
CONSTANTS
  Sizes <- MCSizes
  Rings = 2
  SizeOf <- MCSizeOf
  Items = 4
  Period = 2
  Budget = 2
  Rounds = {2}
  UInt = 65536
  MaxFaults = 3
CHECK_DEADLOCK FALSE
PROPERTY CallbackIdRight
