SPECIFICATION FairSpec
CONSTANTS
  NBlocks = 2
  NContainers = 1
  NRacks = 1
  Spacing = 2
  Deadband = 1
  Setpoints <- Demand
  MissLevels = {0}
  AirLevels = {0}
  RackLevels = {0}
  Faults <- TripsAndResets
  MaxPending = 3
INVARIANTS
  TypeOK
  TripLatch
  OpenMeansStopped
  SettledTree
  CauseFirst
PROPERTIES
  KeepsTimetable
  EveryBlockReturns
