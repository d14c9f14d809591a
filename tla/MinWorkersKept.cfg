CONSTANTS
  MaxId = 3
  MaxRestarts = 1
  MaxFaults = 0
  Scheduler = Scheduler
  Scaler = Scaler
  Terminators <- MCTerminators
  Clients = {c1, c2}
  Direct = {}
  NoClient = NoClient
  Requests <- KeepRequests
  MinWorkers = 2
  MaxWorkers = 3
  NumWorkers = 3
SPECIFICATION Spec
INVARIANT MinWorkersKept
CHECK_DEADLOCK FALSE
