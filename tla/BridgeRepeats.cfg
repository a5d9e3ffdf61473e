SPECIFICATION BridgeSpec
CONSTANTS
  CloudWarnTimeout = 1
  CloudFailTimeout = 2
  CloudRecoveryFrames = 2
  TfFailureLimit = 1
  RawEmptyLimit = 1
  FilteredEmptyLimit = 1
  FilteredEmptyIsClear = FALSE
  FilteredEmptyWarnOnly = FALSE
  Live = TRUE
  MaxSensorAge = 2
  FutureTolerance = 0
  MaxRepeated = 2
  MaxInterval = 2
  DegradedMode = "virtual_wall"
  DataAgeCap = 4
  InputWarnTimeout = 1
  InputFailTimeout = 3
  InputRecoveryFrames = 1
  MaxSourceAge = 3
  FailClosed = TRUE
  StartupMode = "virtual_wall"
  WaitHeartbeat = FALSE
  HeartbeatTimeout = 1
  ReconnectInitial = 1
  ReconnectMax = 1
  ArrivalAges = {0}
  PublishPeriod = 1
  InboxDepth = 2
  Prompt = TRUE
  RestartDelay = 4
  MaxSequence = 3
  MaxCrashes = 0
INVARIANT DegradesWithCause
