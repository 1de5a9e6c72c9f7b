SPECIFICATION SurfacesSpec
CONSTANTS
  None = None
  Schedules <- TwoRuns
  CAPACITY = 1
  Posted = {}
  EVENT_BACKLOG = 1
  MaxTick = 2
  MaxEvents = 2
  Sessions = {{"modbus", "http"}, {"http", "stream"}}
  Stories <- DropoutThenUndated
  Period = 2
  STORE = 4
  BURST = 1
  MaxRefusals = 1
  MaxConnections = 1
  Refusals = {"live"}
CHECK_DEADLOCK FALSE
INVARIANTS
  RecordedWordIsOut
  EachEventOnce
  EachFaultOnItsTick
  SnapshotLeads
PROPERTIES
  BrokerKeepsOrder
  OnlyALoadSilences
  RetainedCatchesUp
  RequestIsAnswered
  StreamNumbersRunOn
  StreamCatchesUp
