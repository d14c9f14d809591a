CONSTANTS
  MaxId = 2
  MaxRestarts = 0
  MaxFaults = 0
  Scheduler = Scheduler
  Scaler = Scaler
  Terminators <- MCTerminators
  Drivers = {d1}
  ScalingEnabled = TRUE
  Clients = {c1}
  Direct = {}
  NoClient = NoClient
  Requests <- ScaleRequests
  MinWorkers = 0
  MaxWorkers = 2
  NumWorkers = 1
SPECIFICATION ClusterSpec
INVARIANT StopLeavesNothing
CHECK_DEADLOCK FALSE
