CONSTANTS
  MaxId = 4
  MaxRestarts = 0
  MaxFaults = 1
  Scheduler = Scheduler
  Scaler = Scaler
  Terminators <- MCTerminators
  Drivers = {d1}
  ScalingEnabled = TRUE
  Clients = {c1, d1}
  Direct = {d1}
  NoClient = NoClient
  Requests <- GrowRequests
  MinWorkers = 1
  MaxWorkers = 2
  NumWorkers = 2
SPECIFICATION ClusterSpec
INVARIANTS OvershootBounded
PROPERTIES DriversGetThrough
CHECK_DEADLOCK FALSE
