SPECIFICATION SettlingSpec
CONSTANTS
  CloudWarnTimeout = 1
  CloudFailTimeout = 2
  CloudRecoveryFrames = 2
  TfFailureLimit = 2
  RawEmptyLimit = 1
  FilteredEmptyLimit = 1
  FilteredEmptyIsClear = TRUE
  FilteredEmptyWarnOnly = FALSE
  Live = TRUE
  MaxSensorAge = 1
  FutureTolerance = 1
  MaxRepeated = 2
  MaxInterval = 1
  DegradedMode = "virtual_wall"
  DataAgeCap = 2
  MaxPause = 1
PROPERTY Recovers
