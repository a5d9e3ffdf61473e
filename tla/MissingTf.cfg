SPECIFICATION FreshSpec
CONSTANTS
  CloudWarnTimeout = 1
  CloudFailTimeout = 2
  CloudRecoveryFrames = 3
  TfFailureLimit = 3
  RawEmptyLimit = 2
  FilteredEmptyLimit = 2
  FilteredEmptyIsClear = FALSE
  FilteredEmptyWarnOnly = FALSE
  Live = TRUE
  MaxSensorAge = 1
  FutureTolerance = 1
  MaxRepeated = 2
  MaxInterval = 1
  DegradedMode = "virtual_wall"
  DataAgeCap = 2
  PublishPeriod = 1
PROPERTY MissingTfKeepsWall
