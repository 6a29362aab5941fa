SPECIFICATION FairSpec
CONSTANTS
  self = self  otbr = otbr
  Poll = {loop, request}  Loop = loop
  Slugs <- Two  Self = self
  State = {"started", "stopped", "unknown"}
  None = None  Error = Error
  MaxChanges = 2  MaxRestarts = 1  MaxFailures = 1
INVARIANTS IdsPointAtOpenWindows OneWindowPerOutage
PROPERTY WatchedOutagesEnd
