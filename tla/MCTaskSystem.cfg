SPECIFICATION Spec
CONSTANTS
  ActiveSockets <- MCActiveSockets
  MaxChannels = 2
  Capacity = 2
  BurstBytes = 2
  Lengths = {1, 3}
  TaskIds = {10}
  Window = 2
  IntMax = 2147483647
  MaxTasks = 3
INVARIANT TasksIntact
PROPERTY EveryTaskAnswered
