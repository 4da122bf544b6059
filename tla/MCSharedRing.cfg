SPECIFICATION FairSpec
CONSTANTS
  Channels = {0, 1}
  MaxChannels = 2
  MaxItems = 4
  UIntSpan = 16
  Bursts = {2, 3}
  MaxWords = 7
INVARIANTS TypeOK NoOverwrite CopiesInOrder
PROPERTIES ImplementsFifo DrainsAgain
