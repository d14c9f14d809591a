CONSTANTS
  Drivers = {d1, d2}
  MaxActors = 3
SPECIFICATION FairSpec
INVARIANTS TypeOK NoStray StopLeavesNothing
PROPERTIES ReadyMeansOwn DriversGetThrough
CHECK_DEADLOCK FALSE
