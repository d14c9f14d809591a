CONSTANTS
  Instances = {0, 1}
  Nobody = Nobody
  PortsOf <- MCPortsOf
  TaskPort = 5052
  ShufflePort = 5053
  SingleHost = FALSE
  Pids = {p1, p2, p3}
  MaxIncarnations = 2
  OrphansListen = FALSE
SPECIFICATION Spec
INVARIANTS OrphansIdentifiable StoppedIsClean
PROPERTIES NeighboursLive
SYMMETRY ProcessesAlike
CHECK_DEADLOCK FALSE
