\* Files, arguments and parameters of MCLaunchSetup; the launch may be refused or end.
SPECIFICATION SetupSpec
CONSTANTS
  RecoveryFrames = 2
  MaxLag = 2
  NoFile = NoFile
  Broken = Broken
  Unset = Unset
  Malformed = Malformed
  Invalid = Invalid
  Arguments <- MCArguments
  Parameters <- MCParameters
INVARIANTS LaunchTypeOK LastLayerWins TablesFollowRecursion DisagreeingNodesShowWall
PROPERTIES AgreeingNodesDeliver GoneCloudMeansWall
CHECK_DEADLOCK FALSE
