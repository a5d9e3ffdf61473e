------------------------------ MODULE Sectors -------------------------------
(***************************************************************************)
(* The sectorizer, src/sectorizer.cpp, before the temporal filter and the  *)
(* inflation: which points of a cloud make an obstacle of a sector, and at *)
(* which distance.  A point is its direction, its horizontal range and a   *)
(* height that tells it from others; directions go clockwise from ahead,   *)
(* ranges count fractions of a centimetre.                                 *)
(***************************************************************************)
EXTENDS Distances, FiniteSets

LOCAL INSTANCE FiniteSetsExt

CONSTANTS
  SectorWidth,     \* sectorizer.sector_deg, in units of direction
  UnitsPerCm,      \* units of range in a unit of distance
  MinRange,        \* range_filter.min_range_m and max_range_m
  MaxRange,
  BinWidth,        \* sectorizer.radial_bin_width_m
  NearRange,       \* sectorizer.near_range_m and mid_range_m
  MidRange,
  NearMinPoints,   \* sectorizer.near_min_points, mid_min_points and
  MidMinPoints,    \*   far_min_points
  FarMinPoints,
  PercentileNum,   \* sectorizer.percentile, a fraction
  PercentileDen,
  Clouds           \* the filtered clouds that are tried

FullTurn == SectorCount * SectorWidth

\* metersToCentimeters: lround rounds halves up; max_range_m is too small for
\* its clamp to act.
Centimeters(range) == (2 * range + UnitsPerCm) \div (2 * UnitsPerCm)

\* validateParameters; the distances' range is that of the ranges.
ASSUME SectorsAssumption ==
  /\ {SectorWidth, UnitsPerCm, BinWidth, NearMinPoints, MidMinPoints,
      FarMinPoints, PercentileDen} \subseteq Nat \ {0}
  /\ {MinRange, MaxRange, NearRange, MidRange} \subseteq Nat \ {0}
  /\ MinRange < MaxRange
  /\ NearRange <= MidRange /\ MidRange <= MaxRange
  /\ PercentileNum \in 0 .. PercentileDen
  /\ Centimeters(MinRange) = MinDistance
  /\ Centimeters(MaxRange) = MaxDistance
  /\ Readings = Obstacles \cup {NoObstacle}
  /\ \A c \in Clouds :
       /\ IsFiniteSet(c)
       /\ \A p \in c : p.direction \in 0 .. FullTurn - 1 /\ p.range \in Nat

VARIABLE cloud   \* the latest cloud

sectorsVars == <<distancesVars, cloud>>

-----------------------------------------------------------------------------
(* Where a point falls.                                                    *)

\* lround to the nearest sector; the last half sector is ahead again.
SectorForPoint(p) ==
  ((2 * p.direction + SectorWidth) \div (2 * SectorWidth)) % SectorCount

\* A point nearer than the minimum is an obstacle at the minimum.
EffectiveRange(p) == Max({MinRange, p.range})

\* ceil of the quotient.
BinCount == (MaxRange - MinRange + BinWidth - 1) \div BinWidth

Bins == 0 .. BinCount - 1

\* A point at the very end of the range belongs to the last bin.
BinOf(p) == Min({(EffectiveRange(p) - MinRange) \div BinWidth, BinCount - 1})

Samples(points, sector, bin) ==
  {p \in points : /\ p.range <= MaxRange
                  /\ SectorForPoint(p) = sector
                  /\ BinOf(p) = bin}

-----------------------------------------------------------------------------
(* What a sector reads.                                                    *)

\* By the middle of the bin.
RequiredPointCount(bin) ==
  LET twice == 2 * MinRange + (2 * bin + 1) * BinWidth
  IN  CASE twice <= 2 * NearRange                             -> NearMinPoints
        [] 2 * NearRange < twice /\ twice <= 2 * MidRange     -> MidMinPoints
        [] 2 * MidRange < twice /\ 2 * NearRange < twice      -> FarMinPoints

\* Mutant: one point more than required is required.
DenseBeyond(points, sector, bin) ==
  Cardinality(Samples(points, sector, bin)) > RequiredPointCount(bin)

Dense(points, sector, bin) ==
  Cardinality(Samples(points, sector, bin)) >= RequiredPointCount(bin)

\* Of the ranges in order, the one whose index, from zero, is the fraction of
\* the last index rounded down.
Percentile(samples) ==
  LET index == (PercentileNum * (Cardinality(samples) - 1)) \div PercentileDen
      upTo(range) == {q \in samples : EffectiveRange(q) <= range}
      ranges == {EffectiveRange(p) : p \in samples}
  IN  Min({range \in ranges : Cardinality(upTo(range)) > index})

\* Mutant: the loop over the bins goes on after the first.
LastReading(points, sector) ==
  LET dense == {bin \in Bins : Dense(points, sector, bin)}
  IN  IF dense = {} THEN NoObstacle
      ELSE Centimeters(Percentile(Samples(points, sector, Max(dense))))

\* The nearest bin with enough points decides.
Reading(points, sector) ==
  LET dense == {bin \in Bins : Dense(points, sector, bin)}
  IN  IF dense = {} THEN NoObstacle
      ELSE Centimeters(Percentile(Samples(points, sector, Min(dense))))

Compute(points) == [sector \in Ring |-> Reading(points, sector)]

-----------------------------------------------------------------------------

Frames == {[cloud |-> c, sectors |-> Compute(c)] : c \in Clouds}

SectorsInit == DistancesInit /\ cloud = {}

\* A filtered cloud is processed to the end.
SectorsNext ==
  \E frame \in Frames :
    /\ ProcessSectors(frame.sectors)
    /\ cloud' = frame.cloud

SectorsSpec == SectorsInit /\ [][SectorsNext]_sectorsVars

-----------------------------------------------------------------------------
(* Properties.                                                             *)

\* The points of an obstacle that is no wider than a sector and no deeper than
\* a bin: clockwise and outward from its corner.
Obstacle(points, direction, range) ==
  {p \in points :
     /\ p.range <= MaxRange
     /\ \E turn \in {0, FullTurn} :
          p.direction + turn - direction \in 0 .. SectorWidth - 1
     /\ p.range - range \in 0 .. BinWidth - 1}

MostRequired == Max({NearMinPoints, MidMinPoints, FarMinPoints})

\* Every obstacle of enough points is shown in one of its sectors, no farther
\* than one of its points and a bin.
Shows(shown) ==
  \A p, q \in cloud :
    LET points == Obstacle(cloud, p.direction, q.range)
    IN  Cardinality(points) > 4 * (MostRequired - 1) =>
          \E r \in points :
            shown[SectorForPoint(r)] <= Centimeters(EffectiveRange(r) + BinWidth)

\* An obstacle's points can fall into two sectors and two bins of each, and
\* be too few in all four.  One of more than four times what is too few
\* anywhere is published in the same frame, at the seam of the ring too,
\* below the minimum range too, and whatever was remembered
\* (sectorizer.cpp:25-85, temporal_filter.cpp:15-66, inflation.cpp:19-62).
DenseObstacleIsPublished ==
  FilterEnabled /\ ApproachingImmediate => Shows(distances)

\* More points, wherever they are, never hide an obstacle: they move a
\* sector's reading away by no more than a bin, although they move the index
\* of the percentile (sectorizer.cpp:61-77).
MorePointsHideNothing ==
  \A frame \in Frames : cloud \subseteq frame.cloud =>
    \A s \in Ring : frame.sectors[s]
      <= Reading(cloud, s) + (BinWidth + UnitsPerCm - 1) \div UnitsPerCm

=============================================================================
