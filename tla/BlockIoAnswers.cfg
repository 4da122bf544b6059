SPECIFICATION Spec
CONSTANTS
  w1 = w1
  r1 = r1
  w2 = w2
  r2 = r2
  Bios = {w1, r1, w2, r2}
  Writes = {w1, w2}
  Parts <- MCParts
  Sectors = {1, 2}
  Blank = Blank
  NoValue = NoValue
  ReadOnly = FALSE
  Contexts = 3
  AckNum = 4
  RequestNum = 4
  MaxParts = 2
  CongestionOn = 4
  CongestionOff = 3
  Faults = {"remap"}
  MaxFaults = 1
CHECK_DEADLOCK FALSE
INVARIANT AnswersExpected
