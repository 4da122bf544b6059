SPECIFICATION Spec
CONSTANTS
  SegmentsNum = 5
  SegmentSize = 2
  CounterSpan = 5
  Requests <- MCRequests
  Handles = {h1, h2, h3}
  StaleTables <- MCStaleTables
SYMMETRY Symmetry
INVARIANTS TypeOK AlmCheck Translated UnmapNeverBugs RefusedOnlyWhenFull ScanAgrees
