----------------------------- MODULE Distances ------------------------------
(***************************************************************************)
(* What the cloud node does to the sector distances of a processed cloud   *)
(* before it keeps them: the temporal filter, which remembers obstacles    *)
(* and smooths their retreat, and then the inflation, which spreads every  *)
(* obstacle over the sectors that the vehicle's own radius reaches.        *)
(***************************************************************************)
EXTENDS Integers

LOCAL INSTANCE FiniteSetsExt

CONSTANTS
  SectorCount,           \* kSectorCount
  MinDistance,           \* min_distance_cm and max_distance_cm, in the units
  MaxDistance,           \*   of the instance
  FilterEnabled,         \* temporal_filter.enable
  ClearFrames,           \* temporal_filter.clear_frames
  AlphaNum, AlphaDen,    \* temporal_filter.receding_alpha, a fraction
  ApproachingImmediate,  \* temporal_filter.approaching_immediate
  InflationEnabled,      \* inflation.enable
  MaxInflateBins,        \* inflation.max_inflate_bins
  GeometricBins,         \* sectors the vehicle's radius covers at a distance
  Readings               \* the readings of the sectorizer that are tried

Obstacles == MinDistance .. MaxDistance

NoObstacle == MaxDistance + 1

\* UINT16_MAX, the unknown distance.
Unknown == MaxDistance + 2

\* validateParameters accepts max_inflate_bins only if it is 0, no limit, or
\* at least what the smallest distance needs.
ASSUME DistancesAssumption ==
  /\ SectorCount \in Nat \ {0}
  /\ MinDistance \in Nat \ {0} /\ MaxDistance \in Nat
  /\ MinDistance <= MaxDistance
  /\ ClearFrames \in Nat \ {0}
  /\ AlphaNum \in Nat \ {0} /\ AlphaDen \in Nat /\ AlphaNum <= AlphaDen
  /\ {FilterEnabled, ApproachingImmediate, InflationEnabled} \subseteq BOOLEAN
  /\ GeometricBins \in [Obstacles -> 0 .. SectorCount \div 2]
  /\ \A d, e \in Obstacles : d <= e => GeometricBins[e] <= GeometricBins[d]
  /\ MaxInflateBins \in 0 .. SectorCount \div 2
  /\ InflationEnabled =>
       MaxInflateBins = 0 \/ MaxInflateBins >= GeometricBins[MinDistance]
  /\ Readings \subseteq Obstacles \cup {NoObstacle}

Ring == 0 .. SectorCount - 1

SectorArray == [Ring -> Obstacles \cup {NoObstacle}]

VARIABLES
  state,        \* state_: what the filter reported last, a SectorArray
  clearCounts,  \* clear_counts_, up to ClearFrames
  distances,    \* latest_distances_
  watched,      \* a sector whose obstacles are followed
  seen,         \* its latest reading of an obstacle, or NoObstacle
  framesSince   \* frames since that reading, up to ClearFrames

distancesVars == <<state, clearCounts, distances, watched, seen, framesSince>>

IsObstacle(distance) == distance \in Obstacles

-----------------------------------------------------------------------------
(* TemporalFilter.                                                         *)

\* Mutant: the smoothed distance is cut off, not rounded.
SmoothedDown(incoming, old) ==
  (AlphaNum * incoming + (AlphaDen - AlphaNum) * old) \div AlphaDen

\* old moves towards incoming by alpha of their difference; lround rounds
\* halves up.  A clamp keeps the result in range.
Smoothed(incoming, old) ==
  LET weighted == AlphaNum * incoming + (AlphaDen - AlphaNum) * old
      rounded  == (2 * weighted + AlphaDen) \div (2 * AlphaDen)
  IN  Max({MinDistance, Min({rounded, MaxDistance})})

\* Mutant: an obstacle does not start the count over.
ClearCountKept(incoming, count) ==
  IF incoming = NoObstacle THEN Min({count + 1, ClearFrames}) ELSE count

\* Frames without an obstacle in the sector, this one included.
ClearCount(incoming, count) ==
  CASE IsObstacle(incoming)   -> 0
    [] incoming = NoObstacle  -> Min({count + 1, ClearFrames})
    [] OTHER                  -> count

\* Mutant: the sector is cleared to unknown.
FilterSectorToUnknown(incoming, old, count) ==
  LET clear == ~IsObstacle(incoming) /\ count + 1 >= ClearFrames
      mean  == IsObstacle(incoming) /\ IsObstacle(old) /\ incoming >= old
  IN  CASE clear                          -> Unknown
        [] mean                           -> Smoothed(incoming, old)
        [] IsObstacle(incoming) /\ ~mean  -> incoming
        [] OTHER                          -> old

\* What the filter makes of a sector: a nearer obstacle counts at once.
FilterSector(incoming, old, count) ==
  LET atOnce == ~IsObstacle(old) \/ (incoming < old /\ ApproachingImmediate)
      clear  == incoming = NoObstacle
                  /\ ClearCount(incoming, count) >= ClearFrames
  IN  CASE IsObstacle(incoming) /\ atOnce  -> incoming
        [] IsObstacle(incoming) /\ ~atOnce -> Smoothed(incoming, old)
        [] clear                           -> NoObstacle
        [] OTHER                           -> old

Filter(input) ==
  IF FilterEnabled
  THEN /\ state' = [s \in Ring |->
                      FilterSector(input[s], state[s], clearCounts[s])]
       /\ clearCounts' = [s \in Ring |-> ClearCount(input[s], clearCounts[s])]
  ELSE state' = input /\ UNCHANGED clearCounts

-----------------------------------------------------------------------------
(* Inflation.                                                              *)

BinsForDistance(distance) ==
  LET limit == IF MaxInflateBins = 0 THEN SectorCount \div 2 ELSE MaxInflateBins
  IN  IF IsObstacle(distance) THEN Min({GeometricBins[distance], limit}) ELSE 0

\* The sectors at most bins away from s on the ring.
Around(s, bins) ==
  {(s + offset + SectorCount) % SectorCount : offset \in -bins .. bins}

\* Mutant: what was inflated is inflated again.
SpreadAgain(input, output, s) ==
  LET reached == IF IsObstacle(output[s])
                 THEN Around(s, BinsForDistance(output[s])) ELSE {}
  IN  [t \in Ring |->
         IF t \in reached /\ (IsObstacle(output[t]) => output[s] < output[t])
         THEN output[s] ELSE output[t]]

\* One sector of the input is spread over the output computed so far.
Spread(input, output, s) ==
  LET reached == IF IsObstacle(input[s])
                 THEN Around(s, BinsForDistance(input[s])) ELSE {}
  IN  [t \in Ring |->
         IF t \in reached /\ (IsObstacle(output[t]) => input[s] < output[t])
         THEN input[s] ELSE output[t]]

\* The sectors are spread one after the other.
Inflate(input) ==
  LET output[n \in 0 .. SectorCount] ==
        IF n = 0 THEN input ELSE Spread(input, output[n - 1], n - 1)
  IN  IF InflationEnabled THEN output[SectorCount] ELSE input

-----------------------------------------------------------------------------
(* The node: a cloud is processed to the end.                              *)

\* What the history keeps of a frame.
Watch(reading) ==
  IF IsObstacle(reading)
  THEN seen' = reading /\ framesSince' = 0
  ELSE UNCHANGED seen /\ framesSince' = Min({framesSince + 1, ClearFrames})

ProcessSectors(input) ==
  /\ Filter(input)
  /\ distances' = Inflate(state')
  /\ Watch(input[watched])
  /\ UNCHANGED watched

DistancesInit ==
  /\ state = [s \in Ring |-> NoObstacle]
  /\ clearCounts = [s \in Ring |-> 0]
  /\ distances = [s \in Ring |-> NoObstacle]
  /\ watched \in Ring
  /\ seen = NoObstacle
  /\ framesSince = ClearFrames

DistancesNext == \E input \in [Ring -> Readings] : ProcessSectors(input)

DistancesSpec == DistancesInit /\ [][DistancesNext]_distancesVars

-----------------------------------------------------------------------------
(* Properties.                                                             *)

\* Only obstacle distances in range and the no-obstacle value are kept.
DistancesTypeOK ==
  /\ state \in SectorArray
  /\ clearCounts \in [Ring -> 0 .. ClearFrames]
  /\ distances \in SectorArray
  /\ watched \in Ring
  /\ seen \in Obstacles \cup {NoObstacle}
  /\ framesSince \in 0 .. ClearFrames

\* Until ClearFrames frames have passed without it, an obstacle is reported
\* no farther than it was last seen, in its own sector and in every sector
\* that the vehicle's radius reaches from there, whatever the other sectors
\* show and however its own distance was smoothed (temporal_filter.cpp:15-66,
\* inflation.cpp:19-62, cloud_processor_node.cpp:838-849).
RecentObstacleIsKept ==
  FilterEnabled /\ InflationEnabled /\ ApproachingImmediate =>
    (framesSince < ClearFrames =>
       \A t \in Around(watched, GeometricBins[seen]) : distances[t] <= seen)

\* The inflation's loop changes its output while it reads its input; what it
\* returns is, in every sector, the nearest obstacle that reaches it, once
\* and not from sector to sector (inflation.cpp:25-43).
NearestReaches ==
  LET Reaching(t) == {state[s] : s \in
        {s \in Ring : IsObstacle(state[s])
                      /\ t \in Around(s, BinsForDistance(state[s]))}}
  IN  InflationEnabled =>
        \A t \in Ring : distances[t] = Min(Reaching(t) \cup {state[t]})

Apart(d, e) == IF d < e THEN e - d ELSE d - e

\* A reported distance moves towards the reading and never beyond it, and it
\* does move unless the step is at most half a unit, which rounding may
\* swallow (temporal_filter.cpp:30-42).
DrawsNearer ==
  [][framesSince' = 0 /\ IsObstacle(state[watched]) =>
       LET old == state[watched]
           new == state'[watched]
       IN  /\ Apart(old, new) + Apart(new, seen') = Apart(old, seen')
           /\ 2 * AlphaNum * Apart(old, seen') > AlphaDen => new # old]_distancesVars

=============================================================================
