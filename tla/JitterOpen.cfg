SPECIFICATION SteadySpec
CONSTANTS
  CloudWarnTimeout = 3
  CloudFailTimeout = 5
  CloudRecoveryFrames = 2
  TfFailureLimit = 2
  RawEmptyLimit = 1
  FilteredEmptyLimit = 1
  FilteredEmptyIsClear = FALSE
  FilteredEmptyWarnOnly = FALSE
  Live = TRUE
  MaxSensorAge = 1
  FutureTolerance = 1
  MaxRepeated = 2
  MaxInterval = 2
  DegradedMode = "virtual_wall"
  DataAgeCap = 2
  MaxPause = 3
PROPERTY OpenStaysOpen
