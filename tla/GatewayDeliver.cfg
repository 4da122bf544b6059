SPECIFICATION Spec
CONSTANTS
  Nodes = {0, 1}
  Clients = {}
  Channels = {0, 1}
  Capacity = 1
  MaxSent = 1
  MaxEpoch = 0
CHECK_DEADLOCK FALSE
INVARIANT FoundIsDelivered
