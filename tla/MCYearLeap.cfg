SPECIFICATION YearSpec
CONSTANTS
  RefYear = 2024
  DayStarts <- MCDayStarts
  Price <- MCPrice
  StartOffset = 1
  ChargeHours = 3
  DischargeHours = 2
  Temp <- MCSeries
  Ghi <- MCSeries
  Weathers <- MCWeathers
  Openings <- MCStarts
  RunQuarters = 300
  StopQuarters = 8
CHECK_DEADLOCK FALSE
INVARIANTS LeapDayNotVisited
