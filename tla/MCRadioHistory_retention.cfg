SPECIFICATION MCSpec
CONSTANTS
  Key = {tx}  Optional = {tx}  Run = {loop}
  Bucket = 3  FullFor = 3  ArchiveFor = 6  Limit = 3
  MaxCount = 2  MaxSamples = 4  Start = 2  MaxTime = 9
  Link = {l}  Signal <- MCSignal  LinkRun = {r1, r2}
  Threshold = 2  Heartbeat = 2  Ttl = 1  MaxFrames = 1  None = None
INVARIANTS TypeOK NoFalseReset BucketsRemain HistoryFollowsRow EventsFollowRows ReattachmentsAreReal
SYMMETRY Runs
CHECK_DEADLOCK FALSE
