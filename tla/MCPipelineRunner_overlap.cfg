SPECIFICATION RunnerFairSpec
CONSTANTS
  Tick = {loop, request}  LoopTick = loop
  Stages = 3
  None = None
INVARIANT RowsAreWhole
PROPERTY LoopKeepsTicking
