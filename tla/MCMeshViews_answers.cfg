SPECIFICATION MCSpec
CONSTANTS
  Eui <- MCEui  Rid = {1, 2, 3, 4}  Partition <- MCPartition  Hardware = {"h"}  Cost = {1, 2}
  PeerRow <- MCPeerRow  Counts <- MCCounts  NoRoute = 63  None = None  MaxHops = 3
  NodeChange <- MCNodeChange  RouteChange <- MCRouteChange
  PeerChange <- MCPeerChange  CountsChange <- MCCountsChange
INVARIANTS AnswerIsOfOneTable ViewsAgree ChokePointsAreExact FragilityIsTold HealthyIsEarned BadIsExplained
CHECK_DEADLOCK FALSE
