SPECIFICATION FairSpec
CONSTANTS
  w1 = w1
  r1 = r1
  w2 = w2
  r2 = r2
  Bios = {w1, r1, w2, r2}
  Writes = {w1, w2}
  Parts <- MCParts
  Sectors = {1, 2}
  Blank = Blank
  NoValue = NoValue
  ReadOnly = FALSE
  Contexts = 2
  AckNum = 2
  RequestNum = 4
  MaxParts = 2
  CongestionOn = 2
  CongestionOff = 1
  Faults = {"context", "room", "map", "remap", "buffer", "submit"}
  MaxFaults = 1
CHECK_DEADLOCK FALSE
INVARIANTS TypeOK PoolConserved AckRoom
PROPERTIES ImplementsDevice EveryBioEnds
