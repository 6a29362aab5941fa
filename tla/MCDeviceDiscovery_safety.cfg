SPECIFICATION Spec
CONSTANTS
  br = br  sed = sed  rtr = rtr
  Eui = {br, sed, rtr}
  None = None
  SedWindow = 0  OfflineAfter = 0  PhantomAfter = 0  LinkTtl = 0  Old = 1
  Run = {loop, request}
  Loop = loop
  Border = br
  ThreadConn = {rtr}
  Sleepy = {sed}
  Anonymous = {sed}
  Registries <- MCRegistries
  Meshes <- MCMeshesOfTwo
  Reaches <- MCReaches
  MaxChanges = 1
INVARIANT KnownLinksResolve
PROPERTY RegisteredNeverPurged
