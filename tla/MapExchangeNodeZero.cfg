SPECIFICATION Spec
CONSTANTS
  Nodes = {0, 1}
  NumSockets = 2
INVARIANT HostStaysUp
CHECK_DEADLOCK FALSE
