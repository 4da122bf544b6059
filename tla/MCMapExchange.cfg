SPECIFICATION Spec
CONSTANTS
  Nodes = {0, 1, 2}
  NumSockets = 3
INVARIANT QueuesPaired
PROPERTY ConnectedOrLeftDown
CHECK_DEADLOCK FALSE
