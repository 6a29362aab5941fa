SPECIFICATION Spec
CONSTANTS
  Caller = {c1, c2}  Key = {k1, k2}  ParseFailure = k2  Id = {i1, i2}
  None = None  MaxSeen = 2
INVARIANT ReportsAreCounted
PROPERTIES LedgerKept
