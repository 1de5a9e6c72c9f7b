SPECIFICATION Spec
CONSTANTS
  HeatOn = 1
  HeatOff = 2
  Cool1Off = 3
  Cool1On = 5
  Cool2Off = 6
  Cool2On = 8
  MinRun = 3
  MinOff = 4
  HeaterRise = 1
  Gains <- HeatGains
  AirTemps <- Air
  Cap = 5
  Period = 3
  Starts = {0, 1, 5}
  DcPowers <- Powers
  Heats = {0, 1}
  PcsLosses = {1}
  HvacPowers = {1}
  NUnits = 1
  BmsPower = 1
  PcsStandby = 1
  Controls = 1
  Lighting = 0
  NoLoad = 1
  LoadLoss = 1
  MaxTicks = 4
  Cells = {c1, c2}
  Full = 5
  SocMin = 1
  SocMax = 4
  TaperBand = 2
  RackRated = 2
  Ocv <- OcvCurve
  Growth = {1}
  Leak = 2
  Bleed = 2
  BalanceSoc = 3
  DvStart = 3
  DvStop = 1
  MaxDischarge = 0
  PcsRated = 4
  Threshold = 1
  NoLoadLoss = 2
  Shares <- SiteShares
  Base = 256
  NBlocks = 2
  Plants <- MCPlants
  Requests <- MCRequests
  Faults <- MCFaults
  FirstCount = 254
  LastTick = 2
  RefYear = 2024
  DayStarts <- MCDayStarts
  Price <- MCPrice
  StartOffset = 1
  ChargeHours = 3
  DischargeHours = 2
  Temp <- MCSeries
  Ghi <- MCSeries
  Weathers <- MCWeathers
  Openings <- MCStarts
  RunQuarters = 300
  StopQuarters = 8
CHECK_DEADLOCK FALSE
INVARIANTS
  PeriodsAddUp
  EnergyBalance
  PollReadsTheDevice
  CounterTellsMissed
  YearRunsOn
PROPERTIES
  KeepsRest
  HotContainerIsCooled
  RacksFollow
  CutWireIsSilent
