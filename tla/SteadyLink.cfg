SPECIFICATION SteadyLinkSpec
CONSTANTS
  InputWarnTimeout = 2
  InputFailTimeout = 3
  InputRecoveryFrames = 3
  MaxSourceAge = 3
  FailClosed = TRUE
  StartupMode = "unknown"
  WaitHeartbeat = TRUE
  HeartbeatTimeout = 3
  ReconnectInitial = 1
  ReconnectMax = 3
  FramePause = 2
INVARIANTS SenderTypeOK SentDataIsFresh ReportTellsPort
PROPERTIES GuardReleasesOnNewFrames DataFlows WallEnds
