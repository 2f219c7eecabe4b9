\* Four ends of the process, and every draw of the jitter at the width of
\* the integers.
SPECIFICATION ProcessFairSpec
CONSTANTS
  MaxStops = 4
  Base = 2
  Cap = 12
  Poll = 3
  U64Max = 20
  MaxPasses = 3
INVARIANTS
  SchemaIsComplete
  ServesFromOwnFiles
  LoopIsPaced
  GrowsFromBase
  RangeStaysOpen
PROPERTY EventuallyServes
