CONSTANTS
  MaxId = 1
  MaxRestarts <- Unlimited
  MaxFaults = 1
  Scheduler = Scheduler
  Scaler = Scaler
  Terminators <- MCTerminators
  Drivers = {d1, d2}
  ScalingEnabled = TRUE
  Clients = {}
  Direct = {}
  NoClient = NoClient
  Requests <- StatusRequests
  MinWorkers = 0
  MaxWorkers = 2
  NumWorkers = 2
SPECIFICATION ClusterSpec
INVARIANTS ClusterTypeOK StopLeavesNothing UpMeansServing HaltedAreKilled
SYMMETRY DriversAlike
CHECK_DEADLOCK FALSE
