SPECIFICATION MCSpec
CONSTANTS
  Eui = {1, 2}  Role = {"router"}  Router = {"router"}
  Capture = {loop, request}  Loop = loop  Heartbeat = 1
  None = None  MaxChanges = 1  MaxTime = 2
INVARIANTS Sparse Coherent ChangesAreTold
PROPERTIES EveryCaptureIsWitnessed HistoryCatchesUp
