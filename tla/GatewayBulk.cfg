SPECIFICATION Spec
CONSTANTS
  Nodes = {0}
  Clients = {101}
  Channels = {0, 1}
  Capacity = 1
  MaxSent = 2
  MaxEpoch = 0
CHECK_DEADLOCK FALSE
INVARIANT OneMessageEach
