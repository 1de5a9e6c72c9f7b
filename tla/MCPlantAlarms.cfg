SPECIFICATION Spec
CONSTANTS
  NBlocks = 1
  NContainers = 1
  NRacks = 1
  Spacing = 1
  Deadband = 2
  Setpoints <- Demand
  MissLevels = {0, 1, 2}
  AirLevels = {0, 2}
  RackLevels = {0, 3}
  Faults <- AllFaults
  MaxPending = 2
INVARIANTS
  JournalTellsAll
  ViewTellsTruth
PROPERTIES
  LatchesOutliveTicks
  ReplyIsTruthful
