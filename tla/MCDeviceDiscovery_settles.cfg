SPECIFICATION FairSpec
CONSTANTS
  br = br  sed = sed  rtr = rtr
  Eui = {br, sed, rtr}
  None = None
  SedWindow = 1  OfflineAfter = 1  PhantomAfter = 1  LinkTtl = 1  Old = 2
  Run = {loop}
  Loop = loop
  Border = br
  ThreadConn = {rtr}
  Sleepy = {sed}
  Anonymous = {}
  Registries <- MCRegistries
  Meshes <- MCMeshes
  Reaches <- MCReaches
  MaxChanges = 1
PROPERTIES MeshIsMirrored StatusesSettle GhostsArePurged HealedSplitCloses
