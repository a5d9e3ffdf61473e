\* Every method in any order; the demo profile's filtered-empty policy, so that all statuses occur but one.
SPECIFICATION WatchdogSpec
CONSTANTS
  CloudWarnTimeout = 1
  CloudFailTimeout = 2
  CloudRecoveryFrames = 3
  TfFailureLimit = 2
  RawEmptyLimit = 2
  FilteredEmptyLimit = 2
  FilteredEmptyIsClear = TRUE
  FilteredEmptyWarnOnly = TRUE
INVARIANT WatchdogTypeOK
PROPERTY AnyClientNeedsClouds
