SPECIFICATION FairSpec
CONSTANTS
  core = core  mcp = mcp  loop = loop  tool = tool  a = a  b = b  x = x  y = y  z = z
  Process = {core, mcp}  Core = core
  Pass = {loop, tool}  Loop = loop  home <- LoopAndTool
  Slug = {a, b}
  Text = {x, y, z}  Texts <- AllAndOne
  None = None
  Window = 2
  Setters = {core, mcp}
  Overrides = {}
  MaxLines <- ThreeAndOne  MaxSets = 2  MaxRestarts = 1  MaxFailures = 0
INVARIANTS CursorIsOfItsLog OncePerScan
PROPERTY WindowIsIngested
