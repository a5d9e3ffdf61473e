SPECIFICATION SupplySpec
CONSTANTS
  CloudWarnTimeout = 1
  CloudFailTimeout = 2
  CloudRecoveryFrames = 1
  TfFailureLimit = 2
  RawEmptyLimit = 1
  FilteredEmptyLimit = 1
  FilteredEmptyIsClear = FALSE
  FilteredEmptyWarnOnly = FALSE
  Live = TRUE
  MaxSensorAge = 1
  FutureTolerance = 0
  MaxRepeated = 2
  MaxInterval = 2
  DegradedMode = "virtual_wall"
  DataAgeCap = 3
  InputWarnTimeout = 1
  InputFailTimeout = 3
  InputRecoveryFrames = 1
  MaxSourceAge = 2
  FailClosed = TRUE
  StartupMode = "virtual_wall"
  WaitHeartbeat = FALSE
  HeartbeatTimeout = 1
  ReconnectInitial = 1
  ReconnectMax = 1
  ArrivalAges = {0, 1}
  PublishPeriod = 1
  InboxDepth = 1
  Prompt = TRUE
  RestartDelay = 4
  MaxSequence = 3
  MaxCrashes = 1
INVARIANTS BridgeTypeOK DegradesSecond KilledCloudMeansWall
