SPECIFICATION FreshSpec
CONSTANTS
  CloudWarnTimeout = 1
  CloudFailTimeout = 2
  CloudRecoveryFrames = 2
  TfFailureLimit = 2
  RawEmptyLimit = 2
  FilteredEmptyLimit = 1
  FilteredEmptyIsClear = FALSE
  FilteredEmptyWarnOnly = FALSE
  Live = TRUE
  MaxSensorAge = 1
  FutureTolerance = 1
  MaxRepeated = 2
  MaxInterval = 2
  DegradedMode = "virtual_wall"
  DataAgeCap = 9
  PublishPeriod = 1
INVARIANTS CloudTypeOK SequenceNamesData
PROPERTIES ReleaseNeedsClouds HealthyDataIsFresh
