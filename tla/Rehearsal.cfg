\* A replay and a check beside it; both programs come to an end.
SPECIFICATION RehearsalSpec
CONSTANTS
  RecoveryFrames = 1
  MaxLag = 0
  MaxPolls = 1
  TargetSystem = 1
  TargetComponent = 0
  SourceSystem = 1
  SourceComponent = 191
  CheckTimeout = 2
  CheckCount = 2
  LaunchConfigs <- MCLaunchConfigs
  Talkers <- MCTalkers
INVARIANTS ReplayTypeOK NothingOutlivesController ExitTellsPlayback
  OnlySimTimeShowsReplay CheckTypeOK CheckPassesAutopilot
PROPERTIES ReplayEnds CheckEnds
CHECK_DEADLOCK FALSE
