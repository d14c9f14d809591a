CONSTANTS
  MaxId = 4
  MaxRestarts = 1
  MaxFaults = 2
  Scheduler = Scheduler
  Scaler = Scaler
  Terminators <- MCTerminators
  Clients = {c1, c2}
  Direct = {}
  NoClient = NoClient
  Requests <- MixedRequests
  MinWorkers = 0
  MaxWorkers = 3
  NumWorkers = 2
SPECIFICATION FairSpec
INVARIANTS TypeOK PoolBounded FreshIds RemovedAreGone HaltedIsDoomed SettledSize
PROPERTIES KeptSurvive DoneIsSized ImplementsPoolSpec AcceptedCallsEnd
CHECK_DEADLOCK FALSE
