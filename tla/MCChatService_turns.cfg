SPECIFICATION ChatFairSpec
CONSTANTS
  Client = {d, h}  Direct = {d}
  Question <- MCQuestion  Called <- MCCalled
  Rounds = 2  MaxCalls = 2  MaxBatch = 2
  Session = {s}  q = q  long = long  Asked = {q, long}  Trimmed <- MCTrimmed  None = None
  MaxTurns = 2  MaxPending = 1  Ttl = 0  Days = 1  MaxId = 2  MaxTime = 2
INVARIANTS ChatTyped CallsInBudget MemoryKeepsRow SettledNotPending
PROPERTY TurnsEnd
CHECK_DEADLOCK FALSE
