SPECIFICATION SectorsSpec
CONSTANTS
  SectorCount = 4
  MinDistance = 1
  MaxDistance = 4
  FilterEnabled = TRUE
  ClearFrames = 2
  AlphaNum = 2
  AlphaDen = 5
  ApproachingImmediate = TRUE
  InflationEnabled = TRUE
  MaxInflateBins = 2
  GeometricBins <- MCGeometricBins
  Readings = {1, 2, 3, 4, 5}
  SectorWidth = 4
  UnitsPerCm = 2
  MinRange = 2
  MaxRange = 8
  BinWidth = 2
  NearRange = 4
  MidRange = 6
  NearMinPoints = 2
  MidMinPoints = 2
  FarMinPoints = 1
  PercentileNum = 1
  PercentileDen = 2
  Clouds <- MCClouds
INVARIANTS DistancesTypeOK RecentObstacleIsKept NearestReaches
  DenseObstacleIsPublished MorePointsHideNothing
PROPERTY DrawsNearer
