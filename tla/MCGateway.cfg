SPECIFICATION Spec
CONSTANTS
  Nodes = {0, 1}
  Clients = {101}
  Channels = {0, 1}
  Capacity = 1
  MaxSent = 2
  MaxEpoch = 1
CHECK_DEADLOCK FALSE
INVARIANTS RoutedInOrder QueueReady
PROPERTY EverythingTaken
