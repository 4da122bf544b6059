SPECIFICATION Spec
CONSTANTS
  ActiveSockets <- MCActiveSockets
  MaxChannels = 2
  Capacity = 3
  BurstBytes = 2
  Lengths = {1}
  TaskIds = {10}
  IntMax = 2147483647
  Window = 1
  MaxTasks = 1
INVARIANT IndicesInRange
