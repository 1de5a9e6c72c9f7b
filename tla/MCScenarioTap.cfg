SPECIFICATION MCSpec
CONSTANTS
  MaxSeconds = 604801
  NBlocks = 2
  NContainers = 1
  NRacks = 2
  FirstTexts <- MCTexts
  Chars <- MCChars
  PathParts <- MCPathParts
  Headers <- MCHeaders
  Specs <- MCSpecs
  Seeds = {7, 8}
  DefaultSeed = 8
  MaxEvents = 2
  MaxTicks = 4
  Capacity = 2
  FrameTicks = 2
  JumpTicks = 2
  Cases <- MCCases
  Dates = {0, 3}
  Opening = 0
  Speeds = {1, 6}
  MaxTime = 4
  YearHours = 4
  PhysicsGap = 1
  SceneryGap = 2
  DayHours = 4
  PriceHours = 24
INVARIANTS
  ReadsAsDocumented
CHECK_DEADLOCK FALSE
