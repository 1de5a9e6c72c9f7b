SPECIFICATION Spec
CONSTANTS
  None = None
  Schedules <- TwoRuns
  CAPACITY = 2
  EVENT_BACKLOG = 1
  MaxTick = 3
  MaxEvents = 0
  Sessions = {{"modbus", "http"}}
  Posted = {0, None}
CHECK_DEADLOCK FALSE
INVARIANTS
  NoSetpointSurvivesLoad
