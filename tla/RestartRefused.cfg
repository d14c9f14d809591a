CONSTANTS
  MaxId = 0
  MaxRestarts = 1
  MaxFaults = 1
  Scheduler = Scheduler
  Scaler = Scaler
  Instances <- MCInstances
  Nobody = Nobody
  PortsOf <- MCPortsOf
  TaskPort = 5052
  ShufflePort = 5053
  SingleHost = TRUE
  Pids = {p1, p2, p3}
  MaxIncarnations = 2
  OrphansListen = FALSE
SPECIFICATION ClusterSpec
INVARIANT NeverRefused
SYMMETRY ProcessesAlike
CHECK_DEADLOCK FALSE
