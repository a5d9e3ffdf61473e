-------------------------- MODULE DistancesProofs ---------------------------
(***************************************************************************)
(* What the sectorizer makes of a cloud, what the temporal filter does to  *)
(* a distance and what the inflation's loop returns, for every ring,       *)
(* range, percentile, alpha and radius.                                    *)
(***************************************************************************)
EXTENDS Sectors, FiniteSetTheorems, WellFoundedInduction, TLAPS

LOCAL INSTANCE FiniteSetsExt

-----------------------------------------------------------------------------
(* Arithmetic.                                                             *)

\* The integer quotient lies between two multiples of the divisor.
LEMMA Quotient ==
  ASSUME NEW x \in Int, NEW y \in Nat \ {0}
  PROVE  /\ x \div y \in Int
         /\ y * (x \div y) <= x
         /\ x < y * (x \div y) + y
  BY SMT

\* A quotient is compared through the multiples of its divisor.
LEMMA QuotientBounds ==
  ASSUME NEW x \in Int, NEW y \in Nat \ {0}, NEW n \in Int
  PROVE  /\ y * n <= x => n <= x \div y
         /\ x < y * n + y => x \div y <= n
  <1> DEFINE q == x \div y
  <1>1. q \in Int /\ y * q <= x /\ x < y * q + y
    BY Quotient
  <1>2. ASSUME y * n <= x, ~(n <= q) PROVE FALSE
    <2>1. n - q - 1 \in Nat
      BY <1>1, <1>2
    <2>2. y * (n - q - 1) >= 0
      BY <2>1, SMT
    <2>3. y * (n - q - 1) = y * n - y * q - y
      BY <1>1, SMT
    <2> QED BY <1>1, <1>2, <2>2, <2>3, SMT
  <1>3. ASSUME x < y * n + y, ~(q <= n) PROVE FALSE
    <2>1. q - n - 1 \in Nat
      BY <1>1, <1>3
    <2>2. y * (q - n - 1) >= 0
      BY <2>1, SMT
    <2>3. y * (q - n - 1) = y * q - y * n - y
      BY <1>1, SMT
    <2> QED BY <1>1, <1>3, <2>2, <2>3, SMT
  <1> QED BY <1>2, <1>3

\* A step shorter than the divisor changes the quotient by at most one.
LEMMA QuotientStep ==
  ASSUME NEW x \in Int, NEW y \in Nat \ {0}, NEW z \in Int, x <= z, z < x + y
  PROVE  z \div y \in {x \div y, x \div y + 1}
<1> DEFINE k == x \div y
<1>1. k \in Int /\ y * k <= x /\ x < y * k + y
  BY Quotient
<1>2. y * (k + 1) = y * k + y /\ y * k \in Int
  BY <1>1, SMT
<1>3. z \div y \in Int
  BY Quotient
<1> HIDE DEF k
<1>4. y * k <= z /\ z < y * (k + 1) + y
  BY <1>1, <1>2
<1>5. k <= z \div y /\ z \div y <= k + 1
  BY <1>1, <1>4, QuotientBounds
<1>6. z \div y = k \/ z \div y = k + 1
  BY <1>1, <1>3, <1>5
<1> QED
  BY <1>6 DEF k

\* Adding a multiple of the divisor adds to the quotient.
LEMMA QuotientShift ==
  ASSUME NEW x \in Int, NEW y \in Nat \ {0}, NEW n \in Int
  PROVE  (x + y * n) \div y = x \div y + n
<1> DEFINE k == x \div y
           z == x + y * n
<1>1. k \in Int /\ y * k <= x /\ x < y * k + y
  BY Quotient
<1>2. y * (k + n) = y * k + y * n /\ y * k \in Int /\ y * n \in Int
  BY <1>1, SMT
<1>3. z \in Int /\ z \div y \in Int
  <2>1. z \in Int
    BY <1>2
  <2> HIDE DEF z
  <2> QED
    BY <2>1, Quotient
<1>4. y * (k + n) <= z /\ z < y * (k + n) + y
  <2> HIDE DEF k
  <2> QED
    BY <1>1, <1>2
<1> HIDE DEF k, z
<1>5. k + n <= z \div y /\ z \div y <= k + n
  BY <1>1, <1>3, <1>4, QuotientBounds
<1>6. z \div y = k + n
  BY <1>1, <1>3, <1>5
<1> QED
  BY <1>6 DEF k, z

\* The mean of a and b with weight P / Q for a, halves rounded up.
Mean(P, Q, a, b) == (2 * (P * a + (Q - P) * b) + Q) \div (2 * Q)

\* A rounded mean of two numbers lies between them, wherever the weight is.
\* It reaches a different number than b if the step towards a is more than
\* half a unit.
LEMMA RoundedMean ==
  ASSUME NEW P \in Nat \ {0}, NEW Q \in Nat, P <= Q,
         NEW a \in Nat, NEW b \in Nat,
         NEW q \in Int, q = Mean(P, Q, a, b)
  PROVE  /\ a <= b => a <= q /\ q <= b
         /\ b <= a => b <= q /\ q <= a
         /\ 2 * P * Apart(b, a) > Q => q # b
  <1> DEFINE x == 2 * (P * a + (Q - P) * b) + Q
             y == 2 * Q
  <1>1. x \in Int /\ y \in Nat \ {0}
    BY SMT
  <1>2. ASSUME NEW n \in Int
        PROVE  /\ y * n <= x => n <= q
               /\ x < y * n + y => q <= n
    <2>1. q = x \div y
      BY DEF Mean
    <2> HIDE DEF x, y
    <2> QED BY <1>1, <2>1, QuotientBounds
  <1>3. /\ x = 2 * (Q * b) + 2 * (P * (a - b)) + Q
        /\ x = 2 * (Q * a) - 2 * ((Q - P) * (a - b)) + Q
    BY SMT
  <1>4. /\ y * a = 2 * (Q * a) /\ y * b = 2 * (Q * b)
        /\ y * (b + 1) = 2 * (Q * b) + 2 * Q
        /\ y * (b - 1) = 2 * (Q * b) - 2 * Q
    BY SMT
  <1>5. P * (a - b) \in Int /\ (Q - P) * (a - b) \in Int
    BY SMT
  <1>6. a >= b => P * (a - b) >= 0 /\ (Q - P) * (a - b) >= 0
    BY SMT
  <1>7. a <= b => P * (a - b) <= 0 /\ (Q - P) * (a - b) <= 0
    <2>1. a <= b => P * (b - a) >= 0 /\ (Q - P) * (b - a) >= 0
      BY SMT
    <2>2. P * (b - a) = -(P * (a - b)) /\ (Q - P) * (b - a) = -((Q - P) * (a - b))
      BY SMT
    <2> QED BY <2>1, <2>2, <1>5, SMT
  <1>8. Q * a \in Int /\ Q * b \in Int /\ Q > 0
    BY SMT
  <1> HIDE DEF x, y
  <1>9. ASSUME a <= b PROVE a <= q /\ q <= b
    BY <1>9, <1>1, <1>2, <1>3, <1>4, <1>5, <1>7, <1>8 DEF y
  <1>10. ASSUME b <= a PROVE b <= q /\ q <= a
    BY <1>10, <1>1, <1>2, <1>3, <1>4, <1>5, <1>6, <1>8 DEF y
  <1>11. ASSUME 2 * P * Apart(b, a) > Q PROVE q # b
    <2>1. CASE b < a
      <3>1. 2 * (P * (a - b)) > Q
        <4>1. 2 * P * (a - b) > Q
          BY <1>11, <2>1 DEF Apart
        <4>2. 2 * P * (a - b) = 2 * (P * (a - b))
          BY SMT
        <4> QED BY <4>1, <4>2
      <3>2. y * (b + 1) <= x
        BY <3>1, <1>3, <1>4, <1>5, <1>8
      <3> QED BY <3>2, <1>2
    <2>2. CASE ~(b < a)
      <3>1. 2 * (P * (a - b)) < -Q
        <4>1. 2 * P * (b - a) > Q
          BY <1>11, <2>2 DEF Apart
        <4>2. 2 * P * (b - a) = -(2 * (P * (a - b)))
          BY SMT
        <4> QED BY <4>1, <4>2, <1>5
      <3>2. x < y * (b - 1) + y
        BY <3>1, <1>3, <1>4, <1>5, <1>8 DEF y
      <3> QED BY <3>2, <1>2
    <2> QED BY <2>1, <2>2
  <1> QED BY <1>9, <1>10, <1>11

-----------------------------------------------------------------------------
(* The filter.                                                             *)

\* The type invariant, but for the distances after the inflation.
FilterTypeOK ==
  /\ state \in SectorArray
  /\ clearCounts \in [Ring -> 0 .. ClearFrames]
  /\ watched \in Ring
  /\ seen \in Obstacles \cup {NoObstacle}
  /\ framesSince \in 0 .. ClearFrames

LEMMA MinOfTwo ==
  ASSUME NEW a \in Int, NEW b \in Int
  PROVE  Min({a, b}) = IF a <= b THEN a ELSE b
  BY DEF Min

LEMMA MaxOfTwo ==
  ASSUME NEW a \in Int, NEW b \in Int
  PROVE  Max({a, b}) = IF a >= b THEN a ELSE b
  BY DEF Max

\* The clamp changes nothing: the mean of two distances is a distance.
LEMMA SmoothedMean ==
  ASSUME NEW incoming \in Obstacles, NEW old \in Obstacles
  PROVE  /\ Smoothed(incoming, old) \in Obstacles
         /\ incoming <= old => /\ incoming <= Smoothed(incoming, old)
                              /\ Smoothed(incoming, old) <= old
         /\ old <= incoming => /\ old <= Smoothed(incoming, old)
                              /\ Smoothed(incoming, old) <= incoming
         /\ 2 * AlphaNum * Apart(old, incoming) > AlphaDen =>
              Smoothed(incoming, old) # old
  <1> DEFINE x == 2 * (AlphaNum * incoming + (AlphaDen - AlphaNum) * old)
                    + AlphaDen
             q == x \div (2 * AlphaDen)
  <1>0. /\ AlphaNum \in Nat \ {0} /\ AlphaDen \in Nat /\ AlphaNum <= AlphaDen
        /\ MinDistance \in Nat /\ MaxDistance \in Nat
    BY DistancesAssumption
  <1>1. /\ incoming \in Nat /\ MinDistance <= incoming /\ incoming <= MaxDistance
        /\ old \in Nat /\ MinDistance <= old /\ old <= MaxDistance
    BY <1>0 DEF Obstacles
  <1>2. x \in Int /\ 2 * AlphaDen \in Nat \ {0}
    BY <1>0, <1>1, SMT
  <1>3. q \in Int
    BY <1>2, Quotient
  <1>4. /\ incoming <= old => incoming <= q /\ q <= old
        /\ old <= incoming => old <= q /\ q <= incoming
        /\ 2 * AlphaNum * Apart(old, incoming) > AlphaDen => q # old
    <2>1. q = Mean(AlphaNum, AlphaDen, incoming, old)
      BY DEF Mean
    <2> HIDE DEF q
    <2> QED BY <1>0, <1>1, <1>3, <2>1, RoundedMean
  <1>5. Smoothed(incoming, old) = Max({MinDistance, Min({q, MaxDistance})})
    BY DEF Smoothed
  <1> HIDE DEF q, x
  <1>6. MinDistance <= q /\ q <= MaxDistance
    BY <1>0, <1>1, <1>3, <1>4
  <1>7. Min({q, MaxDistance}) = q
    BY <1>0, <1>3, <1>6, MinOfTwo
  <1>8. Smoothed(incoming, old) = q
    <2>1. Max({MinDistance, q}) = q
      BY <1>0, <1>3, <1>6, MaxOfTwo
    <2> QED BY <1>5, <1>7, <2>1
  <1> QED BY <1>0, <1>1, <1>3, <1>4, <1>6, <1>8 DEF Obstacles

LEMMA ClearCountType ==
  ASSUME NEW incoming \in Readings, NEW count \in 0 .. ClearFrames
  PROVE  /\ ClearCount(incoming, count) \in 0 .. ClearFrames
         /\ Min({count + 1, ClearFrames}) \in 0 .. ClearFrames
         /\ ~IsObstacle(incoming) =>
              ClearCount(incoming, count) = Min({count + 1, ClearFrames})
  <1>1. ClearFrames \in Nat \ {0} /\ incoming \in Obstacles \cup {NoObstacle}
    BY DistancesAssumption
  <1>2. Min({count + 1, ClearFrames}) \in 0 .. ClearFrames
    BY <1>1, MinOfTwo
  <1> QED BY <1>1, <1>2 DEF ClearCount, IsObstacle

LEMMA FilterSectorType ==
  ASSUME NEW incoming \in Readings, NEW old \in Obstacles \cup {NoObstacle},
         NEW count \in 0 .. ClearFrames
  PROVE  FilterSector(incoming, old, count) \in Obstacles \cup {NoObstacle}
  <1>1. incoming \in Obstacles \cup {NoObstacle}
    BY DistancesAssumption
  <1>2. CASE IsObstacle(incoming) /\ IsObstacle(old)
    BY <1>2, SmoothedMean DEF FilterSector, IsObstacle
  <1>3. CASE IsObstacle(incoming) /\ ~IsObstacle(old)
    BY <1>3 DEF FilterSector, IsObstacle
  <1>4. CASE ~IsObstacle(incoming)
    BY <1>4 DEF FilterSector
  <1> QED BY <1>2, <1>3, <1>4

\* One frame keeps the filter's state in range.
LEMMA FilterTypeStep ==
  ASSUME FilterTypeOK, NEW input \in [Ring -> Readings], ProcessSectors(input)
  PROVE  FilterTypeOK'
  <1>1. \A s \in Ring : /\ input[s] \in Readings
                        /\ state[s] \in Obstacles \cup {NoObstacle}
                        /\ clearCounts[s] \in 0 .. ClearFrames
    BY DEF FilterTypeOK, SectorArray
  <1>2. Readings \subseteq Obstacles \cup {NoObstacle} /\ 0 \in 0 .. ClearFrames
    BY DistancesAssumption
  <1>3. state' \in SectorArray
    <2>1. CASE FilterEnabled
      <3>1. \A s \in Ring : FilterSector(input[s], state[s], clearCounts[s])
                              \in Obstacles \cup {NoObstacle}
        BY <1>1, FilterSectorType
      <3>2. state' = [s \in Ring |->
                        FilterSector(input[s], state[s], clearCounts[s])]
        BY <2>1 DEF ProcessSectors, Filter
      <3> QED BY <3>1, <3>2, Zenon DEF SectorArray
    <2>2. CASE ~FilterEnabled
      <3>1. input \in SectorArray
        BY <1>2 DEF SectorArray
      <3> QED BY <2>2, <3>1 DEF ProcessSectors, Filter
    <2> QED BY <2>1, <2>2
  <1>4. clearCounts' \in [Ring -> 0 .. ClearFrames]
    <2>1. CASE FilterEnabled
      <3>1. \A s \in Ring :
              ClearCount(input[s], clearCounts[s]) \in 0 .. ClearFrames
        BY <1>1, ClearCountType
      <3>2. clearCounts' = [s \in Ring |-> ClearCount(input[s], clearCounts[s])]
        BY <2>1 DEF ProcessSectors, Filter
      <3> QED BY <3>1, <3>2, Zenon
    <2>2. CASE ~FilterEnabled
      BY <2>2 DEF ProcessSectors, Filter, FilterTypeOK
    <2> QED BY <2>1, <2>2
  <1>5. watched' \in Ring
    BY DEF ProcessSectors, FilterTypeOK
  <1>6. /\ seen' \in Obstacles \cup {NoObstacle}
        /\ framesSince' \in 0 .. ClearFrames
    <2>1. input[watched] \in Readings /\ framesSince \in 0 .. ClearFrames
      BY <1>1 DEF FilterTypeOK
    <2> QED BY <1>2, <2>1, ClearCountType
            DEF ProcessSectors, Watch, FilterTypeOK, IsObstacle
  <1> QED BY <1>3, <1>4, <1>5, <1>6 DEF FilterTypeOK

\* The filter reports only obstacle distances in range and the no-obstacle
\* value (temporal_filter.cpp:15-66).
THEOREM FilterTypeCorrect == DistancesSpec => []FilterTypeOK
  <1>1. DistancesInit => FilterTypeOK
    <2>1. 0 \in 0 .. ClearFrames /\ ClearFrames \in 0 .. ClearFrames
      BY DistancesAssumption
    <2> QED BY <2>1 DEF DistancesInit, FilterTypeOK, SectorArray
  <1>2. FilterTypeOK /\ [DistancesNext]_distancesVars => FilterTypeOK'
    <2> SUFFICES ASSUME FilterTypeOK, [DistancesNext]_distancesVars
                 PROVE  FilterTypeOK'
      OBVIOUS
    <2>1. CASE DistancesNext
      BY <2>1, FilterTypeStep DEF DistancesNext
    <2>2. CASE UNCHANGED distancesVars
      BY <2>2 DEF FilterTypeOK, distancesVars
    <2> QED BY <2>1, <2>2
  <1> QED BY <1>1, <1>2, PTL DEF DistancesSpec

\* One frame draws the watched sector's distance nearer to the reading.
LEMMA NearerStep ==
  ASSUME FilterTypeOK, NEW input \in [Ring -> Readings], ProcessSectors(input),
         framesSince' = 0, IsObstacle(state[watched])
  PROVE  LET old == state[watched]
             new == state'[watched]
         IN  /\ Apart(old, new) + Apart(new, seen') = Apart(old, seen')
             /\ 2 * AlphaNum * Apart(old, seen') > AlphaDen => new # old
  <1> DEFINE old == state[watched]
             new == state'[watched]
             reading == input[watched]
             count == clearCounts[watched]
  <1>1. /\ MinDistance \in Nat \ {0} /\ MaxDistance \in Nat
        /\ ClearFrames \in Nat \ {0} /\ AlphaNum \in Nat /\ AlphaDen \in Nat
        /\ Readings \subseteq Obstacles \cup {NoObstacle}
    BY DistancesAssumption
  <1>2. watched \in Ring /\ reading \in Readings /\ old \in Obstacles
    BY DEF FilterTypeOK, IsObstacle
  <1>3. IsObstacle(reading) /\ seen' = reading
    <2>1. Min({framesSince + 1, ClearFrames}) # 0
      BY <1>1, MinOfTwo DEF FilterTypeOK
    <2> QED BY <2>1 DEF ProcessSectors, Watch
  <1>4. new \in {reading, Smoothed(reading, old)}
    <2>1. CASE FilterEnabled
      <3>1. new = FilterSector(reading, old, count)
        BY <1>2, <2>1 DEF ProcessSectors, Filter
      <3> HIDE DEF new, reading, old, count
      <3> QED BY <1>3, <3>1 DEF FilterSector
    <2>2. CASE ~FilterEnabled
      BY <2>2 DEF ProcessSectors, Filter
    <2> QED BY <2>1, <2>2
  <1>5. reading \in Obstacles
    BY <1>3 DEF IsObstacle
  <1> HIDE DEF new, reading, old, count
  <1>6. reading \in Int /\ old \in Int /\ Smoothed(reading, old) \in Int
    BY <1>1, <1>2, <1>5, SmoothedMean DEF Obstacles
  <1>7. CASE new = reading
    <2>1. new = old => Apart(old, reading) = 0
      BY <1>6, <1>7 DEF Apart
    <2>2. 2 * AlphaNum * 0 = 0
      BY <1>1
    <2>3. 2 * AlphaNum * Apart(old, reading) > AlphaDen => new # old
      BY <1>1, <2>1, <2>2
    <2>4. Apart(old, new) + Apart(new, reading) = Apart(old, reading)
      BY <1>6, <1>7 DEF Apart
    <2> QED BY <1>3, <2>3, <2>4 DEF new, old
  <1>8. CASE new = Smoothed(reading, old)
    <2>1. /\ reading <= old => reading <= new /\ new <= old
          /\ old <= reading => old <= new /\ new <= reading
          /\ 2 * AlphaNum * Apart(old, reading) > AlphaDen => new # old
      BY <1>2, <1>5, <1>8, SmoothedMean
    <2>2. Apart(old, new) + Apart(new, reading) = Apart(old, reading)
      BY <1>6, <1>8, <2>1 DEF Apart
    <2> QED BY <1>3, <2>1, <2>2 DEF new, old
  <1> QED BY <1>4, <1>7, <1>8

\* A reported distance moves towards the reading, never beyond it, and stops
\* only where rounding swallows the step, for every alpha and every range of
\* distances (temporal_filter.cpp:30-42).
THEOREM DistancesDrawNearer == DistancesSpec => DrawsNearer
  <1> DEFINE Nearer ==
        framesSince' = 0 /\ IsObstacle(state[watched]) =>
          LET old == state[watched]
              new == state'[watched]
          IN  /\ Apart(old, new) + Apart(new, seen') = Apart(old, seen')
              /\ 2 * AlphaNum * Apart(old, seen') > AlphaDen => new # old
  <1>1. FilterTypeOK /\ [DistancesNext]_distancesVars => [Nearer]_distancesVars
    BY NearerStep DEF DistancesNext
  <1> QED BY <1>1, FilterTypeCorrect, PTL DEF DistancesSpec, DrawsNearer

-----------------------------------------------------------------------------
(* How long an obstacle is remembered.                                     *)

\* Until ClearFrames frames have passed without it, an obstacle is in the
\* filter's report of its sector, no farther than it was last seen.
Remembered ==
  FilterEnabled /\ ApproachingImmediate /\ framesSince < ClearFrames =>
    /\ seen \in Obstacles
    /\ clearCounts[watched] = framesSince
    /\ state[watched] \in Obstacles /\ state[watched] <= seen

LEMMA RememberedStep ==
  ASSUME FilterTypeOK, Remembered,
         NEW input \in [Ring -> Readings], ProcessSectors(input)
  PROVE  Remembered'
  <1> SUFFICES ASSUME FilterEnabled, ApproachingImmediate,
                      framesSince' < ClearFrames
               PROVE  /\ seen' \in Obstacles
                      /\ clearCounts'[watched] = framesSince'
                      /\ state'[watched] \in Obstacles
                      /\ state'[watched] <= seen'
    BY DEF Remembered, ProcessSectors
  <1> DEFINE old == state[watched]
             reading == input[watched]
             count == clearCounts[watched]
  <1>1. /\ MinDistance \in Nat \ {0} /\ MaxDistance \in Nat
        /\ ClearFrames \in Nat \ {0}
        /\ Readings \subseteq Obstacles \cup {NoObstacle}
    BY DistancesAssumption
  <1>2. /\ watched \in Ring /\ reading \in Readings
        /\ old \in Obstacles \cup {NoObstacle} /\ count \in 0 .. ClearFrames
    BY DEF FilterTypeOK, SectorArray
  <1>3. /\ state'[watched] = FilterSector(reading, old, count)
        /\ clearCounts'[watched] = ClearCount(reading, count)
    BY <1>2 DEF ProcessSectors, Filter
  <1>4. Watch(reading)
    BY DEF ProcessSectors
  <1> HIDE DEF old, reading, count
  <1>5. CASE IsObstacle(reading)
    <2>1. seen' = reading /\ framesSince' = 0 /\ reading \in Obstacles
      BY <1>4, <1>5 DEF Watch, IsObstacle
    <2>0. reading # NoObstacle
      BY <1>1, <2>1 DEF Obstacles, NoObstacle
    <2>2. clearCounts'[watched] = 0
      BY <1>3, <1>5, <2>0 DEF ClearCount
    <2>3. CASE ~IsObstacle(old) \/ reading < old
      <3>1. state'[watched] = reading
        BY <1>3, <1>5, <2>3 DEF FilterSector
      <3> QED BY <1>1, <2>1, <2>2, <3>1 DEF Obstacles
    <2>4. CASE IsObstacle(old) /\ ~(reading < old)
      <3>1. state'[watched] = Smoothed(reading, old)
        BY <1>3, <1>5, <2>0, <2>4 DEF FilterSector
      <3>2. old \in Obstacles /\ old <= reading
        BY <1>1, <2>1, <2>4 DEF IsObstacle, Obstacles
      <3> QED BY <2>1, <2>2, <3>1, <3>2, SmoothedMean
    <2> QED BY <2>3, <2>4
  <1>6. CASE ~IsObstacle(reading)
    <2>1. seen' = seen /\ framesSince' = Min({framesSince + 1, ClearFrames})
      BY <1>4, <1>6 DEF Watch
    <2>2. /\ framesSince \in Nat /\ framesSince' = framesSince + 1
          /\ framesSince < ClearFrames
      BY <1>1, <2>1, MinOfTwo DEF FilterTypeOK
    <2>3. /\ seen \in Obstacles /\ count = framesSince
          /\ old \in Obstacles /\ old <= seen
      BY <2>2 DEF Remembered, old, count
    <2>4. ClearCount(reading, count) = framesSince'
      BY <1>2, <1>6, <2>1, <2>3, ClearCountType
    <2>5. FilterSector(reading, old, count) = old
      BY <1>1, <1>6, <2>2, <2>4 DEF FilterSector
    <2> QED BY <1>3, <2>1, <2>3, <2>4, <2>5
  <1> QED BY <1>5, <1>6

\* An obstacle outlives ClearFrames - 1 frames that do not show it, and is
\* never reported farther than it was seen (temporal_filter.cpp:15-66).
THEOREM ObstacleIsRemembered == DistancesSpec => []Remembered
  <1>1. DistancesInit => Remembered
    <2>1. ClearFrames \in Nat
      BY DistancesAssumption
    <2> QED BY <2>1 DEF DistancesInit, Remembered
  <1>2. FilterTypeOK /\ Remembered /\ [DistancesNext]_distancesVars => Remembered'
    <2> SUFFICES ASSUME FilterTypeOK, Remembered, [DistancesNext]_distancesVars
                 PROVE  Remembered'
      OBVIOUS
    <2>1. CASE DistancesNext
      BY <2>1, RememberedStep DEF DistancesNext
    <2>2. CASE UNCHANGED distancesVars
      BY <2>2 DEF Remembered, distancesVars
    <2> QED BY <2>1, <2>2
  <1> QED BY <1>1, <1>2, FilterTypeCorrect, PTL DEF DistancesSpec

-----------------------------------------------------------------------------
(* The sectorizer: least and greatest elements.                            *)

\* A set of naturals has a least element, and Min is it.
LEMMA LeastElement ==
  ASSUME NEW S \in SUBSET Nat, S # {}
  PROVE  Min(S) \in S /\ \A n \in S : Min(S) <= n
<1> DEFINE R == StrictSubsetOrdering(Nat)
           T == {0 .. n : n \in S}
<1>1. T \subseteq FiniteSubsetsOf(Nat) /\ T # {}
  <2>1. \A n \in S : 0 .. n \in SUBSET Nat /\ IsFiniteSet(0 .. n)
    BY FS_Interval
  <2> QED
    BY <2>1 DEF FiniteSubsetsOf
<1>2. PICK t \in T : \A u \in T : <<u, t>> \notin R
  <2>1. IsWellFoundedOn(R, FiniteSubsetsOf(Nat))
    BY FS_StrictSubsetOrderingWellFounded
  <2> HIDE DEF R, T
  <2> QED
    BY <1>1, <2>1, WFMin
<1>3. PICK m \in S : t = 0 .. m
  BY <1>2
<1>4. ASSUME NEW n \in S, n < m
      PROVE  FALSE
  <2>1. 0 .. n \in T /\ 0 .. n \subseteq 0 .. m /\ m \notin 0 .. n /\ m \in 0 .. m
    BY <1>4
  <2>2. <<0 .. n, 0 .. m>> \in R
    BY <2>1 DEF StrictSubsetOrdering
  <2> QED
    BY <1>2, <1>3, <2>1, <2>2
<1>5. \A n \in S : m <= n
  BY <1>4
<1> QED
  BY <1>5 DEF Min

\* A bounded one has a greatest element.
LEMMA GreatestElement ==
  ASSUME NEW S \in SUBSET Nat, S # {}, NEW b \in Nat, \A n \in S : n <= b
  PROVE  \E m \in S : \A n \in S : n <= m
<1> DEFINE T == {b - n : n \in S}
<1>1. T \in SUBSET Nat /\ T # {}
  <2>1. ASSUME NEW n \in S
        PROVE  b - n \in Nat
    <3>1. n \in Nat /\ n <= b
      OBVIOUS
    <3> QED
      BY <3>1
  <2>2. T \in SUBSET Nat
    BY <2>1
  <2>3. PICK n \in S : TRUE
    OBVIOUS
  <2>4. b - n \in T
    BY <2>3
  <2> QED
    BY <2>2, <2>4
<1>2. Min(T) \in T /\ \A t \in T : Min(T) <= t
  BY <1>1, LeastElement
<1>3. PICK m \in S : Min(T) = b - m
  BY <1>2
<1>4. \A n \in S : b - m <= b - n
  BY <1>2, <1>3
<1> QED
  BY <1>4

\* Four parts of at most k elements have at most 4 * k.
LEMMA FourParts ==
  ASSUME NEW S, IsFiniteSet(S), NEW k \in Nat,
         NEW A \in SUBSET S, NEW B \in SUBSET S, NEW C \in SUBSET S,
         NEW D \in SUBSET S, S = (A \cup B) \cup (C \cup D),
         Cardinality(S) > 4 * k
  PROVE  \E part \in {A, B, C, D} : Cardinality(part) > k
<1>1. \A T \in SUBSET S : IsFiniteSet(T) /\ Cardinality(T) \in Nat
  BY FS_Subset, FS_CardinalityType
<1>2. \A T, U \in SUBSET S : Cardinality(T \cup U) <= Cardinality(T) + Cardinality(U)
  <2> TAKE T, U \in SUBSET S
  <2>1. Cardinality(T \cup U) = Cardinality(T) + Cardinality(U) - Cardinality(T \cap U)
    BY <1>1, FS_Union
  <2>2. T \cap U \in SUBSET S
    OBVIOUS
  <2> QED
    BY <1>1, <2>1, <2>2
<1>3. /\ Cardinality(A \cup B) <= Cardinality(A) + Cardinality(B)
      /\ Cardinality(C \cup D) <= Cardinality(C) + Cardinality(D)
      /\ Cardinality(S) <= Cardinality(A \cup B) + Cardinality(C \cup D)
  BY <1>2
<1>4. /\ Cardinality(A) \in Nat /\ Cardinality(B) \in Nat
      /\ Cardinality(C) \in Nat /\ Cardinality(D) \in Nat
      /\ Cardinality(A \cup B) \in Nat /\ Cardinality(C \cup D) \in Nat
      /\ Cardinality(S) \in Nat
  BY <1>1
<1>5. Cardinality(A) > k \/ Cardinality(B) > k \/ Cardinality(C) > k \/ Cardinality(D) > k
  BY <1>3, <1>4
<1> QED
  BY <1>5

-----------------------------------------------------------------------------
(* Bins and sectors.                                                       *)

\* A point as the clouds have them.
IsPoint(p) ==
  /\ p.direction \in 0 .. FullTurn - 1
  /\ p.range \in Nat

LEMMA Numbers ==
  /\ SectorCount \in Nat \ {0} /\ SectorWidth \in Nat \ {0}
  /\ FullTurn \in Nat \ {0} /\ FullTurn = SectorCount * SectorWidth
  /\ UnitsPerCm \in Nat \ {0} /\ BinWidth \in Nat \ {0}
  /\ MinRange \in Nat \ {0} /\ MaxRange \in Nat \ {0} /\ MinRange < MaxRange
  /\ NearMinPoints \in Nat \ {0} /\ MidMinPoints \in Nat \ {0}
  /\ FarMinPoints \in Nat \ {0}
  /\ PercentileNum \in Nat /\ PercentileDen \in Nat \ {0}
  /\ PercentileNum <= PercentileDen
<1>1. /\ SectorCount \in Nat \ {0} /\ SectorWidth \in Nat \ {0}
      /\ UnitsPerCm \in Nat \ {0} /\ BinWidth \in Nat \ {0}
      /\ MinRange \in Nat \ {0} /\ MaxRange \in Nat \ {0} /\ MinRange < MaxRange
      /\ NearMinPoints \in Nat \ {0} /\ MidMinPoints \in Nat \ {0}
      /\ FarMinPoints \in Nat \ {0}
      /\ PercentileNum \in Nat /\ PercentileDen \in Nat \ {0}
      /\ PercentileNum <= PercentileDen
  BY SectorsAssumption, DistancesAssumption
<1>2. SectorCount * SectorWidth \in Nat \ {0}
  BY <1>1, SMT
<1> QED
  BY <1>1, <1>2 DEF FullTurn

LEMMA EffectiveRangeType ==
  ASSUME NEW p, IsPoint(p)
  PROVE  /\ EffectiveRange(p) = IF MinRange >= p.range THEN MinRange ELSE p.range
         /\ EffectiveRange(p) \in Nat
BY Numbers, MaxOfTwo DEF EffectiveRange, IsPoint

\* The bins cover the range.
LEMMA BinsCover ==
  /\ BinCount \in Nat \ {0}
  /\ MaxRange - MinRange <= BinWidth * BinCount
<1> DEFINE x == MaxRange - MinRange + BinWidth - 1
           q == x \div BinWidth
<1>1. x \in Nat /\ BinWidth <= x
  BY Numbers
<1>2. q \in Int /\ BinWidth * q <= x /\ x < BinWidth * q + BinWidth
  BY <1>1, Numbers, Quotient
<1>3. 1 <= q
  <2>1. BinWidth * 1 <= x
    BY <1>1, Numbers
  <2> HIDE DEF x
  <2> QED
    BY <1>1, <2>1, Numbers, QuotientBounds
<1>4. BinCount = q
  BY DEF BinCount
<1>5. BinWidth * q \in Int
  BY <1>2, Numbers, SMT
<1> HIDE DEF q
<1> QED
  BY <1>2, <1>3, <1>4, <1>5, Numbers

\* A point lies between the edges of its bin.
LEMMA BinEdges ==
  ASSUME NEW p, IsPoint(p), p.range <= MaxRange
  PROVE  /\ BinOf(p) \in Bins
         /\ BinWidth * BinOf(p) <= EffectiveRange(p) - MinRange
         /\ EffectiveRange(p) - MinRange <= BinWidth * (BinOf(p) + 1)
<1> DEFINE x == EffectiveRange(p) - MinRange
           q == x \div BinWidth
<1>1. x \in Nat /\ x <= MaxRange - MinRange
  BY Numbers, EffectiveRangeType DEF IsPoint
<1>2. q \in Int /\ BinWidth * q <= x /\ x < BinWidth * q + BinWidth
  <2> HIDE DEF x
  <2> QED
    BY <1>1, Numbers, Quotient
<1>3. 0 <= q
  <2>1. BinWidth * 0 <= x
    BY <1>1, Numbers
  <2> HIDE DEF x
  <2> QED
    BY <1>1, <2>1, Numbers, QuotientBounds
<1>4. BinOf(p) = IF q <= BinCount - 1 THEN q ELSE BinCount - 1
  BY <1>2, BinsCover, MinOfTwo DEF BinOf
<1> HIDE DEF q, x
<1>5. CASE q <= BinCount - 1
  <2>1. BinWidth * (q + 1) = BinWidth * q + BinWidth
    BY <1>2, Numbers, SMT
  <2>2. BinWidth * q \in Int
    BY <1>2, Numbers, SMT
  <2> QED
    BY <1>1, <1>2, <1>3, <1>4, <1>5, <2>1, <2>2, BinsCover, Numbers DEF Bins, x
<1>6. CASE q > BinCount - 1
  <2>1. BinWidth * (BinCount - 1) <= BinWidth * q
    <3>1. q - (BinCount - 1) \in Nat
      BY <1>2, <1>6, BinsCover
    <3>2. BinWidth * (q - (BinCount - 1)) >= 0
      BY <3>1, Numbers, SMT
    <3>3. BinWidth * (q - (BinCount - 1)) = BinWidth * q - BinWidth * (BinCount - 1)
      BY <1>2, BinsCover, Numbers, SMT
    <3>4. BinWidth * q \in Int /\ BinWidth * (BinCount - 1) \in Int
      BY <1>2, BinsCover, Numbers, SMT
    <3> QED
      BY <3>2, <3>3, <3>4
  <2>2. BinWidth * q \in Int /\ BinWidth * (BinCount - 1) \in Int /\ BinWidth * BinCount \in Int
    BY <1>2, BinsCover, Numbers, SMT
  <2>3. BinOf(p) = BinCount - 1 /\ BinOf(p) + 1 = BinCount
    BY <1>2, <1>4, <1>6, BinsCover
  <2>4. BinWidth * (BinCount - 1) <= x /\ x <= BinWidth * BinCount
    BY <1>1, <1>2, <2>1, <2>2, BinsCover, Numbers
  <2>5. BinOf(p) \in Bins
    BY <2>3, BinsCover DEF Bins
  <2> QED
    BY <2>3, <2>4, <2>5 DEF x
<1> QED
  BY <1>2, <1>5, <1>6, BinsCover

\* The ranges of one bin's depth fall into two bins.
LEMMA TwoBins ==
  ASSUME NEW r \in Nat
  PROVE  \E b, c \in Int : \A p :
           IsPoint(p) /\ p.range <= MaxRange /\ p.range - r \in 0 .. BinWidth - 1
             => BinOf(p) \in {b, c}
<1> DEFINE e == IF MinRange >= r THEN MinRange ELSE r
           x == e - MinRange
           k == x \div BinWidth
           first == Min({k, BinCount - 1})
           second == Min({k + 1, BinCount - 1})
<1>1. e \in Nat /\ x \in Nat
  BY Numbers
<1>2. k \in Int /\ BinWidth * k <= x /\ x < BinWidth * k + BinWidth
  <2> HIDE DEF x
  <2> QED
    BY <1>1, Numbers, Quotient
<1>3. ASSUME NEW p, IsPoint(p), p.range <= MaxRange,
             p.range - r \in 0 .. BinWidth - 1
      PROVE  BinOf(p) \in {first, second}
  <2> DEFINE y == EffectiveRange(p) - MinRange
             q == y \div BinWidth
  <2>1. y \in Nat /\ x <= y /\ y < x + BinWidth
    BY <1>3, Numbers, EffectiveRangeType DEF IsPoint
  <2>2. BinOf(p) = Min({q, BinCount - 1})
    BY DEF BinOf
  <2> HIDE DEF x, y
  <2>3. q \in {k, k + 1}
    BY <1>1, <2>1, Numbers, QuotientStep
  <2> HIDE DEF q, k
  <2> QED
    BY <2>2, <2>3
<1>4. first \in Int /\ second \in Int
  BY <1>2, BinsCover, MinOfTwo
<1> QED
  BY <1>3, <1>4

\* A full turn does not change the sector.
LEMMA SameSector ==
  ASSUME NEW q \in Int
  PROVE  /\ q % SectorCount \in Ring
         /\ (q + SectorCount) % SectorCount = q % SectorCount
<1>1. q % SectorCount \in 0 .. SectorCount - 1
  BY Numbers, SMT
<1>2. (q + SectorCount) % SectorCount = q % SectorCount
  <2> DEFINE n == SectorCount
             a == q \div n
             b == (q + n) \div n
  <2>1. a \in Int /\ q = n * a + (q % n) /\ q % n \in 0 .. n - 1
    BY Numbers, SMT
  <2>2. b \in Int /\ q + n = n * b + ((q + n) % n) /\ (q + n) % n \in 0 .. n - 1
    BY Numbers, SMT
  <2>3. b = a + 1
    <3>1. q \in Int /\ n \in Nat \ {0} /\ 1 \in Int
      BY Numbers
    <3>2. n * 1 = n
      BY <3>1
    <3> HIDE DEF n
    <3>3. (q + n * 1) \div n = q \div n + 1
      BY <3>1, QuotientShift, Zenon
    <3> QED
      BY <3>2, <3>3
  <2>4. n * b = n * a + n /\ n * a \in Int
    <3> HIDE DEF a, b
    <3> QED
      BY <2>1, <2>3, Numbers, SMT
  <2> HIDE DEF a, b
  <2> QED
    BY <2>1, <2>2, <2>4, Numbers
<1> QED
  BY <1>1, <1>2 DEF Ring

\* The directions of one sector's width fall into two sectors.
LEMMA TwoSectors ==
  ASSUME NEW direction \in 0 .. FullTurn - 1
  PROVE  \E s, t \in Ring : \A p :
           /\ IsPoint(p)
           /\ \E turn \in {0, FullTurn} :
                p.direction + turn - direction \in 0 .. SectorWidth - 1
           => SectorForPoint(p) \in {s, t}
<1> DEFINE w == 2 * SectorWidth
           At(d) == (2 * d + SectorWidth) \div w
           k == At(direction)
<1>1. w \in Nat \ {0} /\ 2 * direction + SectorWidth \in Int
  BY Numbers
<1>2. k \in Int
  <2> HIDE DEF w
  <2> QED
    BY <1>1, Quotient
<1>3. ASSUME NEW p, IsPoint(p), NEW turn \in {0, FullTurn},
             p.direction + turn - direction \in 0 .. SectorWidth - 1
      PROVE  SectorForPoint(p) \in {k % SectorCount, (k + 1) % SectorCount}
  <2> DEFINE d == p.direction
             x == 2 * d + SectorWidth
             z == 2 * (d + turn) + SectorWidth
  <2>1. d \in Int /\ x \in Int /\ z \in Int /\ turn \in Int
    BY <1>3, Numbers DEF IsPoint
  <2>2. At(d + turn) \in {k, k + 1}
    <3>1. /\ 2 * direction + SectorWidth <= z
          /\ z < 2 * direction + SectorWidth + w
      BY <1>3, <2>1, Numbers
    <3> HIDE DEF w, z
    <3>2. z \div w \in {(2 * direction + SectorWidth) \div w,
                        (2 * direction + SectorWidth) \div w + 1}
      BY <1>1, <2>1, <3>1, QuotientStep
    <3> QED
      BY <3>2 DEF z
  <2>3. At(d) \in Int
    <3> HIDE DEF w, x
    <3>1. x \div w \in Int
      BY <1>1, <2>1, Quotient
    <3> QED
      BY <3>1 DEF x
  <2>4. SectorForPoint(p) = At(d + turn) % SectorCount
    <3>1. SectorForPoint(p) = At(d) % SectorCount
      BY DEF SectorForPoint
    <3>2. CASE turn = 0
      BY <2>1, <3>1, <3>2
    <3>3. CASE turn = FullTurn
      <4>1. z = x + w * SectorCount
        BY <2>1, <3>3, Numbers, SMT
      <4>2. At(d + turn) = At(d) + SectorCount
        <5> HIDE DEF w, x, z
        <5>1. z \div w = x \div w + SectorCount
          BY <1>1, <2>1, <4>1, Numbers, QuotientShift
        <5> QED
          BY <5>1 DEF x, z
      <4> HIDE DEF At
      <4> QED
        BY <2>3, <3>1, <4>2, SameSector
    <3> QED
      BY <1>3, <3>2, <3>3
  <2> HIDE DEF At, k
  <2> QED
    BY <2>2, <2>4
<1>4. k % SectorCount \in Ring /\ (k + 1) % SectorCount \in Ring
  <2> HIDE DEF k
  <2> QED
    BY <1>2, SameSector
<1> HIDE DEF k
<1> QED
  BY <1>3, <1>4

-----------------------------------------------------------------------------
(* What a sector reads.                                                    *)

\* Centimetres keep the order of ranges.
LEMMA CentimetersKeepOrder ==
  ASSUME NEW a \in Nat, NEW b \in Nat, a <= b
  PROVE  /\ Centimeters(a) \in Int /\ Centimeters(b) \in Int
         /\ Centimeters(a) <= Centimeters(b)
<1> DEFINE w == 2 * UnitsPerCm
           x == 2 * a + UnitsPerCm
           z == 2 * b + UnitsPerCm
<1>1. w \in Nat \ {0} /\ x \in Int /\ z \in Int /\ x <= z
  BY Numbers
<1>2. x \div w \in Int /\ z \div w \in Int /\ x \div w <= z \div w
  <2> HIDE DEF w, x, z
  <2>1. x \div w \in Int /\ z \div w \in Int /\ w * (x \div w) <= x
    BY <1>1, Quotient
  <2>2. w * (x \div w) \in Int
    <3> DEFINE k == x \div w
    <3> HIDE DEF k
    <3>1. w * k \in Int
      BY <1>1, <2>1, SMT DEF k
    <3> QED
      BY <3>1 DEF k
  <2>3. w * (x \div w) <= z
    BY <1>1, <2>1, <2>2
  <2> QED
    BY <1>1, <2>1, <2>3, QuotientBounds
<1> QED
  BY <1>2 DEF Centimeters

\* A range from the minimum to the maximum is a distance of an obstacle.
LEMMA RangeIsObstacle ==
  ASSUME NEW r \in Nat, MinRange <= r, r <= MaxRange
  PROVE  Centimeters(r) \in Obstacles
<1>1. /\ MinDistance \in Int /\ MaxDistance \in Int
      /\ Centimeters(MinRange) = MinDistance /\ Centimeters(MaxRange) = MaxDistance
  BY SectorsAssumption, DistancesAssumption
<1>2. MinDistance <= Centimeters(r) /\ Centimeters(r) <= MaxDistance
  BY <1>1, Numbers, CentimetersKeepOrder
<1>3. Centimeters(r) \in Int
  BY CentimetersKeepOrder
<1> QED
  BY <1>1, <1>2, <1>3 DEF Obstacles

\* The percentile of some points is the range of one of them.
LEMMA PercentileIsOneOfThem ==
  ASSUME NEW samples, IsFiniteSet(samples), samples # {},
         \A p \in samples : IsPoint(p) /\ p.range <= MaxRange
  PROVE  \E p \in samples : Percentile(samples) = EffectiveRange(p)
<1> DEFINE n == Cardinality(samples)
           index == (PercentileNum * (n - 1)) \div PercentileDen
           upTo(range) == {q \in samples : EffectiveRange(q) <= range}
           ranges == {EffectiveRange(p) : p \in samples}
           beyond == {range \in ranges : Cardinality(upTo(range)) > index}
<1>1. n \in Nat /\ n # 0
  BY FS_CardinalityType, FS_EmptySet
<1>2. index < n
  <2> DEFINE x == PercentileNum * (n - 1)
  <2> HIDE DEF n
  <2>1. x \in Int
    BY <1>1, Numbers, SMT
  <2>2. x <= PercentileDen * (n - 1) /\ PercentileDen * (n - 1) \in Int
    <3>1. (PercentileDen - PercentileNum) * (n - 1) >= 0
      BY <1>1, Numbers, SMT
    <3>2. (PercentileDen - PercentileNum) * (n - 1) = PercentileDen * (n - 1) - x
      BY <1>1, Numbers, SMT
    <3>3. PercentileDen * (n - 1) \in Int
      BY <1>1, Numbers, SMT
    <3> HIDE DEF x
    <3> QED
      BY <2>1, <3>1, <3>2, <3>3
  <2>3. x < PercentileDen * (n - 1) + PercentileDen
    <3> HIDE DEF x
    <3> QED
      BY <2>1, <2>2, Numbers
  <2> HIDE DEF x
  <2>4. x \div PercentileDen <= n - 1 /\ x \div PercentileDen \in Int
    BY <1>1, <2>1, <2>3, Numbers, Quotient, QuotientBounds
  <2> QED
    BY <1>1, <2>4 DEF x
<1>3. ranges \in SUBSET Nat /\ ranges # {} /\ \A r \in ranges : r <= MaxRange
  BY EffectiveRangeType, Numbers DEF IsPoint
<1>4. PICK m \in ranges : \A r \in ranges : r <= m
  <2> HIDE DEF ranges
  <2> QED
    BY <1>3, Numbers, GreatestElement
<1>5. upTo(m) = samples
  BY <1>4
<1>6. beyond \in SUBSET Nat /\ beyond # {}
  <2> HIDE DEF index, ranges
  <2> QED
    BY <1>2, <1>3, <1>4, <1>5
<1>7. Min(beyond) \in beyond
  <2> HIDE DEF beyond
  <2> QED
    BY <1>6, LeastElement
<1>8. Percentile(samples) = Min(beyond)
  BY DEF Percentile
<1> HIDE DEF index, upTo
<1> QED
  BY <1>7, <1>8

\* The bins of a sector that have enough points are numbered.
LEMMA DenseBins ==
  ASSUME NEW points, NEW sector
  PROVE  {bin \in Bins : Dense(points, sector, bin)} \in SUBSET Nat
BY BinsCover DEF Bins

\* How many points are required of a bin.
LEMMA Required ==
  ASSUME NEW bin \in Bins
  PROVE  /\ RequiredPointCount(bin) \in Nat \ {0}
         /\ RequiredPointCount(bin) <= MostRequired
         /\ MostRequired \in Nat \ {0}
<1> DEFINE twice == 2 * MinRange + (2 * bin + 1) * BinWidth
           S == {NearMinPoints, MidMinPoints, FarMinPoints}
<1>1. twice \in Int
  <2>1. bin \in Int
    BY BinsCover DEF Bins
  <2> QED
    BY <2>1, Numbers, SMT
<1>2. RequiredPointCount(bin) \in S
  <2>1. NearRange \in Int /\ MidRange \in Int
    BY SectorsAssumption
  <2> HIDE DEF twice
  <2>2. \/ twice <= 2 * NearRange
        \/ 2 * NearRange < twice /\ twice <= 2 * MidRange
        \/ 2 * MidRange < twice /\ 2 * NearRange < twice
    BY <1>1, <2>1
  <2> QED
    BY <2>2 DEF RequiredPointCount, twice
<1>3. S \in SUBSET Nat /\ S # {} /\ \A n \in S : n > 0
  BY Numbers
<1>4. MostRequired \in S /\ \A n \in S : n <= MostRequired
  <2> DEFINE b == NearMinPoints + MidMinPoints + FarMinPoints
  <2>1. b \in Nat /\ \A n \in S : n <= b
    BY Numbers
  <2> HIDE DEF S, b
  <2>2. PICK m \in S : \A n \in S : n <= m
    BY <1>3, <2>1, GreatestElement
  <2>3. Max(S) \in S /\ \A n \in S : Max(S) >= n
    BY <1>3, <2>2 DEF Max
  <2> QED
    BY <1>3, <2>3 DEF MostRequired, S
<1>5. \A n \in S : n \in Nat \ {0}
  BY <1>3
<1> HIDE DEF S, twice
<1> QED
  BY <1>2, <1>4, <1>5, Zenon

\* A bin with enough points has points, all of them of its sector and range.
LEMMA DenseHasSamples ==
  ASSUME NEW points, IsFiniteSet(points), \A p \in points : IsPoint(p),
         NEW sector, NEW bin \in Bins, Dense(points, sector, bin)
  PROVE  /\ IsFiniteSet(Samples(points, sector, bin))
         /\ Samples(points, sector, bin) # {}
         /\ \A p \in Samples(points, sector, bin) :
              IsPoint(p) /\ p.range <= MaxRange /\ BinOf(p) = bin
<1>1. Samples(points, sector, bin) \in SUBSET points
  BY DEF Samples
<1>2. IsFiniteSet(Samples(points, sector, bin))
  BY <1>1, FS_Subset
<1>3. Cardinality(Samples(points, sector, bin)) # 0
  BY Required DEF Dense
<1>4. Samples(points, sector, bin) # {}
  BY <1>3, FS_EmptySet
<1> QED
  BY <1>1, <1>2, <1>4 DEF Samples

\* A sector with such a bin reads an obstacle, no farther than a point of that
\* bin and a bin's width, whatever else there is in the sector.
LEMMA ReadingReaches ==
  ASSUME NEW points, IsFiniteSet(points), \A p \in points : IsPoint(p),
         NEW sector, NEW bin \in Bins, Dense(points, sector, bin),
         NEW p \in Samples(points, sector, bin)
  PROVE  /\ Reading(points, sector) \in Obstacles
         /\ Reading(points, sector) <= Centimeters(EffectiveRange(p) + BinWidth)
<1> DEFINE dense == {b \in Bins : Dense(points, sector, b)}
           first == Min(dense)
<1>1. bin \in dense
  OBVIOUS
<1>2. first \in dense /\ first <= bin
  <2>1. dense \in SUBSET Nat
    BY DenseBins
  <2> HIDE DEF dense
  <2> QED
    BY <1>1, <2>1, LeastElement
<1> HIDE DEF first
<1>3. PICK q \in Samples(points, sector, first) :
        Percentile(Samples(points, sector, first)) = EffectiveRange(q)
  BY <1>2, DenseHasSamples, PercentileIsOneOfThem
<1>4. Reading(points, sector) = Centimeters(EffectiveRange(q))
  BY <1>1, <1>3 DEF Reading, first
<1>5. /\ IsPoint(p) /\ p.range <= MaxRange /\ BinOf(p) = bin
      /\ IsPoint(q) /\ q.range <= MaxRange /\ BinOf(q) = first
  BY <1>2, DenseHasSamples
<1>6. /\ EffectiveRange(p) \in Nat /\ EffectiveRange(q) \in Nat
      /\ MinRange <= EffectiveRange(q) /\ EffectiveRange(q) <= MaxRange
  BY <1>5, EffectiveRangeType, Numbers DEF IsPoint
<1>7. EffectiveRange(q) <= EffectiveRange(p) + BinWidth
  <2>1. /\ EffectiveRange(q) - MinRange <= BinWidth * (first + 1)
        /\ BinWidth * bin <= EffectiveRange(p) - MinRange
    BY <1>5, BinEdges
  <2>2. first \in Nat /\ bin \in Nat
    BY <1>2, BinsCover DEF Bins
  <2>3. BinWidth * (bin - first) >= 0
    <3>1. bin - first \in Nat
      BY <1>2, <2>2
    <3> QED
      BY <3>1, Numbers, SMT
  <2>4. /\ BinWidth * (bin - first) = BinWidth * bin - BinWidth * first
        /\ BinWidth * (first + 1) = BinWidth * first + BinWidth
        /\ BinWidth * bin \in Int /\ BinWidth * first \in Int
    BY <2>2, Numbers, SMT
  <2> QED
    BY <1>6, <2>1, <2>3, <2>4, Numbers
<1>8. EffectiveRange(p) + BinWidth \in Nat
  BY <1>6, Numbers
<1> QED
  BY <1>4, <1>6, <1>7, <1>8, RangeIsObstacle, CentimetersKeepOrder

\* The sectorizer's output is one the filter can take.
LEMMA ComputeType ==
  ASSUME NEW points \in Clouds
  PROVE  Compute(points) \in [Ring -> Readings]
<1>1. IsFiniteSet(points) /\ \A p \in points : IsPoint(p)
  BY SectorsAssumption DEF IsPoint
<1>2. Readings = Obstacles \cup {NoObstacle}
  BY SectorsAssumption
<1>3. ASSUME NEW s \in Ring
      PROVE  Reading(points, s) \in Readings
  <2>1. CASE {bin \in Bins : Dense(points, s, bin)} = {}
    BY <1>2, <2>1 DEF Reading
  <2>2. CASE {bin \in Bins : Dense(points, s, bin)} # {}
    <3>1. PICK bin \in Bins : Dense(points, s, bin)
      BY <2>2
    <3>2. PICK p \in Samples(points, s, bin) : TRUE
      BY <1>1, <3>1, DenseHasSamples
    <3> QED
      BY <1>1, <1>2, <3>1, <3>2, ReadingReaches
  <2> QED
    BY <2>1, <2>2
<1> QED
  BY <1>3, Zenon DEF Compute

-----------------------------------------------------------------------------
(* The sectorizer before the filter.                                       *)

\* With the sectorizer in front of it the filter does nothing that it does not
\* do with arbitrary readings (cloud_processor_node.cpp:347-355).
THEOREM SectorsFeedDistances == SectorsSpec => DistancesSpec
<1>1. SectorsInit => DistancesInit
  BY DEF SectorsInit
<1>2. [SectorsNext]_sectorsVars => [DistancesNext]_distancesVars
  <2>1. SectorsNext => DistancesNext
    BY ComputeType DEF SectorsNext, DistancesNext, Frames
  <2> QED
    BY <2>1 DEF sectorsVars
<1> QED
  BY <1>1, <1>2, PTL DEF SectorsSpec, DistancesSpec

\* An obstacle of enough points makes one of its sectors read an obstacle near
\* one of its points.
LEMMA ObstacleIsRead ==
  ASSUME NEW points, IsFiniteSet(points), \A p \in points : IsPoint(p),
         NEW p \in points, NEW q \in points,
         Cardinality(Obstacle(points, p.direction, q.range)) > 4 * (MostRequired - 1)
  PROVE  \E r \in Obstacle(points, p.direction, q.range) :
           /\ SectorForPoint(r) \in Ring
           /\ Reading(points, SectorForPoint(r)) \in Obstacles
           /\ Reading(points, SectorForPoint(r))
                <= Centimeters(EffectiveRange(r) + BinWidth)
<1> DEFINE O == Obstacle(points, p.direction, q.range)
           k == MostRequired - 1
           Part(s, b) == {r \in O : SectorForPoint(r) = s /\ BinOf(r) = b}
<1>1. O \in SUBSET points /\ IsFiniteSet(O)
  <2>1. O \in SUBSET points
    BY DEF Obstacle
  <2> HIDE DEF O
  <2> QED
    BY <2>1, FS_Subset
<1>2. \A r \in O : IsPoint(r) /\ r.range <= MaxRange /\ BinOf(r) \in Bins
  BY BinEdges DEF Obstacle
<1>3. k \in Nat /\ MostRequired \in Nat
  <2>1. 0 \in Bins
    BY BinsCover DEF Bins
  <2> QED
    BY <2>1, Required
<1>4. PICK s, t \in Ring : \A r \in O : SectorForPoint(r) \in {s, t}
  <2>1. p.direction \in 0 .. FullTurn - 1
    BY DEF IsPoint
  <2> QED
    BY <1>2, <2>1, TwoSectors DEF Obstacle
<1>5. PICK b, c \in Int : \A r \in O : BinOf(r) \in {b, c}
  <2>1. q.range \in Nat
    BY DEF IsPoint
  <2> QED
    BY <1>2, <2>1, TwoBins DEF Obstacle
<1> HIDE DEF O, k
<1>6. O = (Part(s, b) \cup Part(s, c)) \cup (Part(t, b) \cup Part(t, c))
  BY <1>4, <1>5
<1>7. \E part \in {Part(s, b), Part(s, c), Part(t, b), Part(t, c)} :
        Cardinality(part) > k
  <2>1. Cardinality(O) > 4 * k
    BY DEF O, k
  <2>2. /\ Part(s, b) \in SUBSET O /\ Part(s, c) \in SUBSET O
        /\ Part(t, b) \in SUBSET O /\ Part(t, c) \in SUBSET O
    OBVIOUS
  <2> HIDE DEF Part
  <2> QED
    BY <1>1, <1>3, <1>6, <2>1, <2>2, FourParts
<1>8. PICK u \in {s, t}, a \in {b, c} : Cardinality(Part(u, a)) > k
  BY <1>7
<1>9. PICK r \in Part(u, a) : TRUE
  <2>1. IsFiniteSet(Part(u, a))
    <3>1. Part(u, a) \in SUBSET O
      OBVIOUS
    <3> HIDE DEF Part
    <3> QED
      BY <1>1, <3>1, FS_Subset
  <2>2. Cardinality(Part(u, a)) # 0
    <3> HIDE DEF Part
    <3> QED
      BY <1>3, <1>8
  <2> HIDE DEF Part
  <2> QED
    BY <2>1, <2>2, FS_EmptySet
<1>10. a \in Bins /\ u \in Ring /\ SectorForPoint(r) = u /\ r \in O
  BY <1>2, <1>4, <1>9
<1>11. Part(u, a) \in SUBSET Samples(points, u, a)
  BY <1>1, <1>2 DEF Samples
<1>12. Dense(points, u, a)
  <2>1. IsFiniteSet(Samples(points, u, a))
    <3>1. Samples(points, u, a) \in SUBSET points
      BY DEF Samples
    <3> QED
      BY <3>1, FS_Subset
  <2> HIDE DEF Part
  <2>2. /\ Cardinality(Part(u, a)) <= Cardinality(Samples(points, u, a))
        /\ Cardinality(Part(u, a)) \in Nat
        /\ Cardinality(Samples(points, u, a)) \in Nat
    BY <1>11, <2>1, FS_Subset, FS_CardinalityType
  <2>3. RequiredPointCount(a) \in Nat /\ RequiredPointCount(a) <= k + 1
    BY <1>3, <1>10, Required DEF k
  <2> QED
    BY <1>3, <1>8, <2>2, <2>3 DEF Dense
<1>13. r \in Samples(points, u, a)
  <2> HIDE DEF Part
  <2> QED
    BY <1>9, <1>11
<1>14. /\ Reading(points, u) \in Obstacles
       /\ Reading(points, u) <= Centimeters(EffectiveRange(r) + BinWidth)
  BY <1>10, <1>12, <1>13, ReadingReaches
<1> QED
  BY <1>10, <1>14 DEF O

\* The filter's part of DenseObstacleIsPublished.
DenseObstacleIsKept == FilterEnabled /\ ApproachingImmediate => Shows(state)

\* An obstacle that is read is in the filter's report at once.
LEMMA ReadIsKept ==
  ASSUME FilterTypeOK, FilterEnabled, ApproachingImmediate,
         NEW input \in [Ring -> Readings], ProcessSectors(input),
         NEW s \in Ring, input[s] \in Obstacles
  PROVE  state'[s] \in Int /\ state'[s] <= input[s]
<1>1. MinDistance \in Nat /\ MaxDistance \in Nat
  BY DistancesAssumption
<1>2. /\ state'[s] = FilterSector(input[s], state[s], clearCounts[s])
      /\ state[s] \in Obstacles \cup {NoObstacle}
      /\ input[s] \in Int /\ IsObstacle(input[s]) /\ input[s] # NoObstacle
  BY <1>1 DEF ProcessSectors, Filter, FilterTypeOK, SectorArray, Obstacles,
              NoObstacle, IsObstacle
<1>3. CASE ~IsObstacle(state[s]) \/ input[s] < state[s]
  BY <1>2, <1>3 DEF FilterSector
<1>4. CASE IsObstacle(state[s]) /\ ~(input[s] < state[s])
  <2>1. state'[s] = Smoothed(input[s], state[s])
    BY <1>2, <1>4 DEF FilterSector
  <2>2. state[s] \in Obstacles /\ state[s] <= input[s]
    BY <1>1, <1>2, <1>4 DEF IsObstacle, Obstacles
  <2>3. Smoothed(input[s], state[s]) \in Obstacles
        /\ Smoothed(input[s], state[s]) <= input[s]
    BY <2>2, SmoothedMean
  <2> QED
    BY <1>1, <2>1, <2>3 DEF Obstacles
<1> QED
  BY <1>3, <1>4

\* For every ring, every binning, every percentile and every alpha: an obstacle
\* of more than four times what is too few anywhere is in the filter's report
\* of the same frame (sectorizer.cpp:25-85, temporal_filter.cpp:15-66).
THEOREM DenseObstacleIsReported == SectorsSpec => []DenseObstacleIsKept
<1>1. SectorsInit => DenseObstacleIsKept
  BY DEF SectorsInit, DenseObstacleIsKept, Shows
<1>2. FilterTypeOK /\ DenseObstacleIsKept /\ [SectorsNext]_sectorsVars
        => DenseObstacleIsKept'
  <2> SUFFICES ASSUME FilterTypeOK, DenseObstacleIsKept, [SectorsNext]_sectorsVars
               PROVE  DenseObstacleIsKept'
    OBVIOUS
  <2>1. CASE UNCHANGED sectorsVars
    BY <2>1 DEF sectorsVars, distancesVars, DenseObstacleIsKept, Shows
  <2>2. CASE SectorsNext
    <3> SUFFICES ASSUME FilterEnabled, ApproachingImmediate,
                        NEW p \in cloud', NEW q \in cloud',
                        Cardinality(Obstacle(cloud', p.direction, q.range))
                          > 4 * (MostRequired - 1)
                 PROVE  \E r \in Obstacle(cloud', p.direction, q.range) :
                          state'[SectorForPoint(r)]
                            <= Centimeters(EffectiveRange(r) + BinWidth)
      BY DEF DenseObstacleIsKept, Shows
    <3>1. PICK points \in Clouds :
            ProcessSectors(Compute(points)) /\ cloud' = points
      BY <2>2 DEF SectorsNext, Frames
    <3>2. IsFiniteSet(points) /\ \A r \in points : IsPoint(r)
      BY SectorsAssumption DEF IsPoint
    <3>3. PICK r \in Obstacle(cloud', p.direction, q.range) :
            /\ SectorForPoint(r) \in Ring
            /\ Reading(points, SectorForPoint(r)) \in Obstacles
            /\ Reading(points, SectorForPoint(r))
                 <= Centimeters(EffectiveRange(r) + BinWidth)
      BY <3>1, <3>2, ObstacleIsRead
    <3>4. Compute(points)[SectorForPoint(r)] = Reading(points, SectorForPoint(r))
      BY <3>3 DEF Compute
    <3>5. /\ state'[SectorForPoint(r)] \in Int
          /\ state'[SectorForPoint(r)] <= Reading(points, SectorForPoint(r))
      BY <3>1, <3>3, <3>4, ComputeType, ReadIsKept
    <3>6. /\ Reading(points, SectorForPoint(r)) \in Int
          /\ Centimeters(EffectiveRange(r) + BinWidth) \in Int
      <4>1. MinDistance \in Nat /\ MaxDistance \in Nat
        BY DistancesAssumption
      <4>2. IsPoint(r)
        BY <3>1, <3>2 DEF Obstacle
      <4>3. EffectiveRange(r) + BinWidth \in Nat
        BY <4>2, EffectiveRangeType, Numbers
      <4> QED
        BY <3>3, <4>1, <4>3, CentimetersKeepOrder DEF Obstacles
    <3> QED
      BY <3>3, <3>5, <3>6
  <2> QED
    BY <2>1, <2>2
<1>3. SectorsSpec => []FilterTypeOK
  BY SectorsFeedDistances, FilterTypeCorrect, PTL
<1> QED
  BY <1>1, <1>2, <1>3, PTL DEF SectorsSpec

-----------------------------------------------------------------------------
(* The inflation.  Its loop is a recursive function; that there is one, and *)
(* what holds of its values, is proved from the least step at which it      *)
(* would fail.                                                              *)

\* The outputs after 0 .. k sectors have been spread.
IsLoop(input, output, k) ==
  output = [n \in 0 .. k |->
              IF n = 0 THEN input ELSE Spread(input, output[n - 1], n - 1)]

\* There are such outputs.
LEMMA LoopExists ==
  ASSUME NEW input, NEW k \in Nat
  PROVE  \E output : IsLoop(input, output, k)
<1> DEFINE S == {n \in Nat : ~ \E output : IsLoop(input, output, n)}
           m == Min(S)
<1> SUFFICES ASSUME S # {}
             PROVE  FALSE
  OBVIOUS
<1>1. m \in S /\ \A n \in S : m <= n
  BY LeastElement
<1> HIDE DEF m
<1>2. CASE m = 0
  <2>1. IsLoop(input, [n \in 0 .. 0 |-> input], 0)
    BY DEF IsLoop
  <2> QED
    BY <1>1, <1>2, <2>1
<1>3. CASE m # 0
  <2>1. m - 1 \in Nat /\ m - 1 \notin S
    BY <1>1, <1>3
  <2>2. PICK g : IsLoop(input, g, m - 1)
    BY <2>1
  <2> DEFINE h == [n \in 0 .. m |->
                     IF n = m THEN Spread(input, g[m - 1], m - 1) ELSE g[n]]
  <2>3. ASSUME NEW n \in 0 .. m
        PROVE  h[n] = IF n = 0 THEN input ELSE Spread(input, h[n - 1], n - 1)
    <3>1. CASE n = m
      BY <1>1, <1>3, <3>1
    <3>2. CASE n # m
      <4>1. n \in 0 .. m - 1
        BY <1>1, <3>2
      <4>2. g[n] = IF n = 0 THEN input ELSE Spread(input, g[n - 1], n - 1)
        BY <2>2, <4>1 DEF IsLoop
      <4>3. n # 0 => n - 1 \in 0 .. m /\ n - 1 # m
        BY <1>1, <3>2
      <4> QED
        BY <3>2, <4>2, <4>3
    <3> QED
      BY <3>1, <3>2
  <2>4. IsLoop(input, h, m)
    <3>1. h = [n \in 0 .. m |-> h[n]]
      OBVIOUS
    <3> HIDE DEF h
    <3> QED
      BY <2>3, <3>1 DEF IsLoop
  <2> QED
    BY <1>1, <2>4
<1> QED
  BY <1>2, <1>3

LEMMA InflateIsLoop ==
  ASSUME NEW input, InflationEnabled
  PROVE  \E output : /\ IsLoop(input, output, SectorCount)
                     /\ Inflate(input) = output[SectorCount]
<1> DEFINE output == CHOOSE f : IsLoop(input, f, SectorCount)
<1>1. IsLoop(input, output, SectorCount)
  BY LoopExists, DistancesAssumption
<1>2. Inflate(input) = output[SectorCount]
  BY DEF Inflate, IsLoop
<1> QED
  BY <1>1, <1>2

LEMMA NoInflation ==
  ASSUME NEW input, ~InflationEnabled
  PROVE  Inflate(input) = input
BY Zenon DEF Inflate

\* The obstacle of sector s reaches sector t.
Reaches(input, s, t) ==
  IsObstacle(input[s]) /\ t \in Around(s, BinsForDistance(input[s]))

\* output is what the obstacles of the first n sectors make of the input.
Nearest(input, output, n) ==
  /\ output \in SectorArray
  /\ \A t \in Ring :
       /\ output[t] <= input[t]
       /\ \A s \in 0 .. n - 1 : Reaches(input, s, t) => output[t] <= input[s]
       /\ \/ output[t] = input[t]
          \/ \E s \in 0 .. n - 1 : Reaches(input, s, t) /\ output[t] = input[s]

\* Distances are numbers.
LEMMA DistanceNumbers ==
  /\ Obstacles \cup {NoObstacle} \in SUBSET Nat
  /\ \A d \in Obstacles : d < NoObstacle
  /\ NoObstacle \notin Obstacles
BY DistancesAssumption DEF Obstacles, NoObstacle

LEMMA SpreadStep ==
  ASSUME NEW input \in SectorArray, NEW output, NEW s \in Ring,
         Nearest(input, output, s)
  PROVE  Nearest(input, Spread(input, output, s), s + 1)
<1> DEFINE next == Spread(input, output, s)
<1>1. /\ output \in [Ring -> Obstacles \cup {NoObstacle}]
      /\ input \in [Ring -> Obstacles \cup {NoObstacle}]
  BY DEF Nearest, SectorArray
<1>2. ASSUME NEW t \in Ring
      PROVE  next[t] = IF Reaches(input, s, t) /\ input[s] < output[t]
                       THEN input[s] ELSE output[t]
  <2>1. output[t] \in Obstacles \cup {NoObstacle}
    BY <1>1
  <2>2. input[s] \in Obstacles /\ ~IsObstacle(output[t]) => input[s] < output[t]
    BY <2>1, DistanceNumbers DEF IsObstacle
  <2> QED
    BY <2>2 DEF Spread, Reaches, IsObstacle
<1>3. next \in SectorArray
  <2>1. \A t \in Ring : next[t] \in Obstacles \cup {NoObstacle}
    BY <1>1, <1>2
  <2>2. next = [t \in Ring |-> next[t]]
    BY DEF Spread
  <2> HIDE DEF next
  <2> QED
    BY <2>1, <2>2 DEF SectorArray
<1>4. s \in Nat
  BY DEF Ring
<1>5. ASSUME NEW t \in Ring
      PROVE  /\ next[t] <= input[t]
             /\ \A r \in 0 .. s : Reaches(input, r, t) => next[t] <= input[r]
             /\ \/ next[t] = input[t]
                \/ \E r \in 0 .. s : Reaches(input, r, t) /\ next[t] = input[r]
  <2>1. output[t] \in Nat /\ input[t] \in Nat /\ input[s] \in Nat
    BY <1>1, DistanceNumbers
  <2>2. /\ next[t] = IF Reaches(input, s, t) /\ input[s] < output[t]
                     THEN input[s] ELSE output[t]
        /\ next[t] <= output[t] /\ next[t] \in Nat
    BY <1>2, <2>1
  <2>3. /\ output[t] <= input[t]
        /\ \A r \in 0 .. s - 1 : Reaches(input, r, t) => output[t] <= input[r]
        /\ \/ output[t] = input[t]
           \/ \E r \in 0 .. s - 1 : Reaches(input, r, t) /\ output[t] = input[r]
    BY DEF Nearest
  <2>4. \A r \in 0 .. s : (r \in 0 .. s - 1 \/ r = s) /\ r \in Ring
    <3>1. s \in 0 .. SectorCount - 1 /\ SectorCount \in Nat
      BY DistancesAssumption DEF Ring
    <3> QED
      BY <3>1 DEF Ring
  <2>5. \A r \in 0 .. s - 1 : r \in 0 .. s
    BY <1>4
  <2> HIDE DEF next
  <2>6. next[t] <= input[t]
    BY <2>1, <2>2, <2>3
  <2>7. ASSUME NEW r \in 0 .. s, Reaches(input, r, t)
        PROVE  next[t] <= input[r]
    <3>1. input[r] \in Nat
      BY <1>1, <2>4, DistanceNumbers
    <3>2. CASE r \in 0 .. s - 1
      BY <2>1, <2>2, <2>3, <2>7, <3>1, <3>2
    <3>3. CASE r = s
      BY <2>1, <2>2, <2>7, <3>3
    <3> QED
      BY <2>4, <3>2, <3>3
  <2>8. \/ next[t] = input[t]
        \/ \E r \in 0 .. s : Reaches(input, r, t) /\ next[t] = input[r]
    <3>1. s \in 0 .. s
      BY <1>4
    <3> QED
      BY <2>2, <2>3, <2>5, <3>1
  <2> QED
    BY <2>6, <2>7, <2>8
<1>6. (s + 1) - 1 = s
  BY <1>4
<1> HIDE DEF next
<1> QED
  BY <1>3, <1>5, <1>6 DEF Nearest, next

\* What the loop holds after n sectors is what these make of the input.
LEMMA LoopIsNearest ==
  ASSUME NEW input \in SectorArray, NEW output,
         IsLoop(input, output, SectorCount), NEW n \in 0 .. SectorCount
  PROVE  Nearest(input, output[n], n)
<1> DEFINE S == {k \in 0 .. SectorCount : ~Nearest(input, output[k], k)}
           m == Min(S)
<1> SUFFICES ASSUME S # {}
             PROVE  FALSE
  OBVIOUS
<1>0. SectorCount \in Nat
  BY DistancesAssumption
<1>1. m \in S /\ \A k \in S : m <= k
  <2>1. S \in SUBSET Nat
    OBVIOUS
  <2> HIDE DEF S
  <2> QED
    BY <2>1, LeastElement
<1> HIDE DEF m
<1>2. m \in 0 .. SectorCount /\ ~Nearest(input, output[m], m)
  BY <1>1
<1>3. output[m] = IF m = 0 THEN input ELSE Spread(input, output[m - 1], m - 1)
  BY <1>2 DEF IsLoop
<1>4. CASE m = 0
  <2>1. \A t \in Ring : input[t] <= input[t]
    BY DistanceNumbers DEF SectorArray
  <2>2. \A s \in 0 .. 0 - 1 : FALSE
    OBVIOUS
  <2> QED
    BY <1>2, <1>3, <1>4, <2>1, <2>2 DEF Nearest
<1>5. CASE m # 0
  <2>1. m - 1 \in Ring /\ m - 1 \in 0 .. SectorCount /\ (m - 1) + 1 = m
    BY <1>0, <1>2, <1>5 DEF Ring
  <2>2. m - 1 \notin S
    <3> HIDE DEF S
    <3> QED
      BY <1>0, <1>1, <1>2
  <2>3. Nearest(input, output[m - 1], m - 1)
    BY <2>1, <2>2
  <2>4. Nearest(input, Spread(input, output[m - 1], m - 1), m)
    BY <2>1, <2>3, SpreadStep
  <2> QED
    BY <1>2, <1>3, <1>5, <2>4
<1> QED
  BY <1>4, <1>5

\* The inflation returns the nearest obstacle that reaches each sector.
LEMMA InflateIsNearest ==
  ASSUME NEW input \in SectorArray, InflationEnabled
  PROVE  Nearest(input, Inflate(input), SectorCount)
<1>1. PICK output : /\ IsLoop(input, output, SectorCount)
                    /\ Inflate(input) = output[SectorCount]
  BY InflateIsLoop
<1>2. SectorCount \in 0 .. SectorCount
  BY DistancesAssumption
<1> QED
  BY <1>1, <1>2, LoopIsNearest

\* The same in the words of NearestReaches.
LEMMA NearestIsLeast ==
  ASSUME state \in SectorArray, Nearest(state, distances, SectorCount)
  PROVE  NearestReaches
<1> DEFINE Reaching(t) == {state[s] : s \in
             {s \in Ring : IsObstacle(state[s])
                           /\ t \in Around(s, BinsForDistance(state[s]))}}
<1> SUFFICES ASSUME NEW t \in Ring
             PROVE  distances[t] = Min(Reaching(t) \cup {state[t]})
  BY DEF NearestReaches
<1> DEFINE S == Reaching(t) \cup {state[t]}
<1>1. S \in SUBSET Nat /\ S # {}
  BY DistanceNumbers DEF SectorArray
<1>2. Ring = 0 .. SectorCount - 1
  BY DEF Ring
<1>3. distances[t] \in S
  BY <1>2 DEF Nearest, Reaches
<1>4. ASSUME NEW d \in S
      PROVE  distances[t] <= d
  BY <1>2 DEF Nearest, Reaches
<1>5. Min(S) \in S /\ \A d \in S : Min(S) <= d
  <2> HIDE DEF S
  <2> QED
    BY <1>1, LeastElement
<1>6. distances[t] \in Nat /\ Min(S) \in Nat
  <2> HIDE DEF S
  <2> QED
    BY <1>1, <1>3, <1>5
<1>7. distances[t] <= Min(S) /\ Min(S) <= distances[t]
  <2> HIDE DEF S
  <2> QED
    BY <1>3, <1>4, <1>5
<1>8. distances[t] = Min(S)
  <2> HIDE DEF S
  <2> QED
    BY <1>6, <1>7
<1> QED
  BY <1>8

\* What is published is the filter's state, inflated.
Inflated ==
  IF InflationEnabled THEN Nearest(state, distances, SectorCount)
                      ELSE distances = state

LEMMA InflatedInitially == DistancesInit => FilterTypeOK /\ Inflated
<1> SUFFICES ASSUME DistancesInit
             PROVE  FilterTypeOK /\ Inflated
  OBVIOUS
<1>1. ClearFrames \in Nat
  BY DistancesAssumption
<1>2. FilterTypeOK
  BY <1>1 DEF DistancesInit, FilterTypeOK, SectorArray
<1>3. distances = state /\ \A t \in Ring : state[t] = NoObstacle
  BY DEF DistancesInit
<1>4. \A s \in 0 .. SectorCount - 1, t \in Ring : ~Reaches(state, s, t)
  BY <1>3, DistanceNumbers DEF Reaches, IsObstacle, Ring
<1>5. \A t \in Ring : distances[t] <= state[t]
  BY <1>3, DistanceNumbers
<1>6. distances \in SectorArray
  BY <1>2, <1>3 DEF FilterTypeOK
<1> QED
  BY <1>2, <1>3, <1>4, <1>5, <1>6 DEF Inflated, Nearest

\* The published distances are the filtered ones, drawn over their neighbours
\* where inflation is enabled (inflation.cpp:19-62).
THEOREM PublishedIsInflated == DistancesSpec => [](FilterTypeOK /\ Inflated)
<1>1. DistancesInit => FilterTypeOK /\ Inflated
  BY InflatedInitially
<1>2. FilterTypeOK /\ Inflated /\ [DistancesNext]_distancesVars
        => (FilterTypeOK /\ Inflated)'
  <2> SUFFICES ASSUME FilterTypeOK, Inflated, [DistancesNext]_distancesVars
               PROVE  FilterTypeOK' /\ Inflated'
    OBVIOUS
  <2>1. CASE UNCHANGED distancesVars
    BY <2>1 DEF distancesVars, FilterTypeOK, Inflated, Nearest, Reaches
  <2>2. CASE DistancesNext
    <3>1. PICK input \in [Ring -> Readings] : ProcessSectors(input)
      BY <2>2 DEF DistancesNext
    <3>2. FilterTypeOK' /\ state' \in SectorArray
      BY <3>1, FilterTypeStep DEF FilterTypeOK
    <3>3. distances' = Inflate(state')
      BY <3>1 DEF ProcessSectors
    <3>4. CASE InflationEnabled
      BY <3>2, <3>3, <3>4, InflateIsNearest DEF Inflated, Nearest, Reaches
    <3>5. CASE ~InflationEnabled
      <4>1. Inflate(state') = state'
        BY <3>5, NoInflation
      <4> QED
        BY <3>2, <3>3, <3>5, <4>1 DEF Inflated
    <3> QED
      BY <3>2, <3>4, <3>5
  <2> QED
    BY <2>1, <2>2
<1> QED
  BY <1>1, <1>2, PTL DEF DistancesSpec

\* In every sector the inflation's loop returns the nearest obstacle that
\* reaches it, for every ring and every radius (inflation.cpp:19-62).
THEOREM LoopReturnsNearest == DistancesSpec => []NearestReaches
<1>1. FilterTypeOK /\ Inflated => NearestReaches
  BY NearestIsLeast DEF FilterTypeOK, Inflated, NearestReaches
<1> QED
  BY <1>1, PublishedIsInflated, PTL

\* Published distances are obstacle distances in range or the no-obstacle
\* value (temporal_filter.cpp:15-66, inflation.cpp:19-62).
THEOREM DistancesTypeCorrect == DistancesSpec => []DistancesTypeOK
<1>1. FilterTypeOK /\ Inflated => DistancesTypeOK
  BY DEF FilterTypeOK, Inflated, Nearest, DistancesTypeOK
<1> QED
  BY <1>1, PublishedIsInflated, PTL

\* A nearer obstacle reaches at least as far on the ring.
LEMMA NearerReachesFarther ==
  ASSUME InflationEnabled, NEW d \in Obstacles, NEW e \in Obstacles, d <= e,
         NEW s \in Ring
  PROVE  Around(s, GeometricBins[e]) \subseteq Around(s, BinsForDistance(d))
<1> DEFINE limit == IF MaxInflateBins = 0 THEN SectorCount \div 2
                                          ELSE MaxInflateBins
           half == SectorCount \div 2
<1>1. half \in Nat
  BY DistancesAssumption, SMT
<1>2. /\ MinDistance \in Obstacles /\ MinDistance <= d
      /\ MaxInflateBins \in 0 .. half
      /\ GeometricBins \in [Obstacles -> 0 .. half]
      /\ \A a, b \in Obstacles : a <= b => GeometricBins[b] <= GeometricBins[a]
      /\ MaxInflateBins = 0 \/ MaxInflateBins >= GeometricBins[MinDistance]
  BY DistancesAssumption DEF Obstacles
<1> HIDE DEF half
<1>3. /\ GeometricBins[d] \in Nat /\ GeometricBins[e] \in Nat
      /\ GeometricBins[e] <= GeometricBins[d] /\ GeometricBins[d] <= half
      /\ GeometricBins[d] <= GeometricBins[MinDistance]
      /\ GeometricBins[MinDistance] \in Nat
  BY <1>1, <1>2
<1>4. limit \in Nat /\ GeometricBins[d] <= limit
  BY <1>1, <1>2, <1>3 DEF half
<1>5. BinsForDistance(d) = Min({GeometricBins[d], limit})
  BY DEF BinsForDistance, IsObstacle
<1> HIDE DEF limit
<1>6. BinsForDistance(d) = GeometricBins[d]
  BY <1>3, <1>4, <1>5, MinOfTwo
<1>7. -GeometricBins[e] .. GeometricBins[e]
        \subseteq -GeometricBins[d] .. GeometricBins[d]
  BY <1>3
<1> QED
  BY <1>6, <1>7 DEF Around

LEMMA AroundIsOnRing ==
  ASSUME NEW s \in Ring, NEW bins \in Nat
  PROVE  Around(s, bins) \subseteq Ring
<1>1. SectorCount \in Nat \ {0}
  BY DistancesAssumption
<1>2. ASSUME NEW x \in Int
      PROVE  (x % SectorCount) \in 0 .. SectorCount - 1
  BY <1>1, SMT
<1> QED
  BY <1>1, <1>2 DEF Around, Ring

\* For every alpha, every clear_frames and every radius: an obstacle is
\* published in its sector and in all that the radius reaches from there, no
\* farther than last seen, until clear_frames frames have passed without it
\* (temporal_filter.cpp:15-66, inflation.cpp:19-62).
THEOREM ObstacleIsKept == DistancesSpec => []RecentObstacleIsKept
<1>1. FilterTypeOK /\ Inflated /\ Remembered => RecentObstacleIsKept
  <2> SUFFICES ASSUME FilterTypeOK, Inflated, Remembered, FilterEnabled,
                      InflationEnabled, ApproachingImmediate,
                      framesSince < ClearFrames,
                      NEW t \in Around(watched, GeometricBins[seen])
               PROVE  distances[t] <= seen
    BY DEF RecentObstacleIsKept
  <2>1. /\ seen \in Obstacles /\ state[watched] \in Obstacles
        /\ state[watched] <= seen
    BY DEF Remembered
  <2>2. watched \in Ring /\ state \in SectorArray
    BY DEF FilterTypeOK
  <2>3. GeometricBins[seen] \in Nat
    <3>1. GeometricBins \in [Obstacles -> 0 .. SectorCount \div 2]
      BY DistancesAssumption
    <3> QED
      BY <2>1, <3>1
  <2>4. t \in Ring /\ Reaches(state, watched, t)
    BY <2>1, <2>2, <2>3, AroundIsOnRing, NearerReachesFarther
       DEF Reaches, IsObstacle
  <2>5. distances[t] <= state[watched] /\ distances \in SectorArray
    BY <2>2, <2>4 DEF Inflated, Nearest, Ring
  <2>6. distances[t] \in Nat /\ seen \in Nat /\ state[watched] \in Nat
    BY <2>1, <2>4, <2>5, DistanceNumbers DEF SectorArray
  <2> QED
    BY <2>1, <2>5, <2>6
<1> QED
  BY <1>1, PublishedIsInflated, ObstacleIsRemembered, PTL

-----------------------------------------------------------------------------
(* From the cloud to what is published.                                    *)

\* The latest cloud, before the first one an empty one, is one of points.
CloudTypeOK == cloud \in Clouds \cup {{}}

LEMMA CloudOfPoints ==
  ASSUME CloudTypeOK
  PROVE  IsFiniteSet(cloud) /\ \A p \in cloud : IsPoint(p)
BY SectorsAssumption, FS_EmptySet DEF CloudTypeOK, IsPoint

\* The sectorizer is only given clouds of points (sectorizer.cpp:25-85).
THEOREM CloudTypeCorrect == SectorsSpec => []CloudTypeOK
<1>1. SectorsInit => CloudTypeOK
  BY DEF SectorsInit, CloudTypeOK
<1>2. CloudTypeOK /\ [SectorsNext]_sectorsVars => CloudTypeOK'
  BY DEF SectorsNext, Frames, sectorsVars, CloudTypeOK
<1> QED
  BY <1>1, <1>2, PTL DEF SectorsSpec

\* For every ring, every binning, every percentile, every alpha and every
\* radius: an obstacle of more than four times what is too few anywhere is
\* published in the same frame (sectorizer.cpp:25-85,
\* temporal_filter.cpp:15-66, inflation.cpp:19-62).
THEOREM DenseObstacleIsSeen == SectorsSpec => []DenseObstacleIsPublished
<1>1. FilterTypeOK /\ Inflated /\ CloudTypeOK /\ DenseObstacleIsKept
        => DenseObstacleIsPublished
  <2> SUFFICES ASSUME FilterTypeOK, Inflated, CloudTypeOK, DenseObstacleIsKept,
                      FilterEnabled, ApproachingImmediate,
                      NEW p \in cloud, NEW q \in cloud,
                      Cardinality(Obstacle(cloud, p.direction, q.range))
                        > 4 * (MostRequired - 1)
               PROVE  \E r \in Obstacle(cloud, p.direction, q.range) :
                        distances[SectorForPoint(r)]
                          <= Centimeters(EffectiveRange(r) + BinWidth)
    BY DEF DenseObstacleIsPublished, Shows
  <2>1. PICK r \in Obstacle(cloud, p.direction, q.range) :
          state[SectorForPoint(r)] <= Centimeters(EffectiveRange(r) + BinWidth)
    BY DEF DenseObstacleIsKept, Shows
  <2>2. IsPoint(r)
    BY CloudOfPoints DEF Obstacle
  <2>3. SectorForPoint(r) \in Ring
    <3> DEFINE x == 2 * r.direction + SectorWidth
               w == 2 * SectorWidth
    <3>1. x \in Int /\ w \in Nat \ {0}
      BY <2>2, Numbers DEF IsPoint
    <3> HIDE DEF x, w
    <3>2. x \div w \in Int
      BY <3>1, Quotient
    <3>3. (x \div w) % SectorCount \in Ring
      BY <3>2, SameSector
    <3> QED
      BY <3>3 DEF SectorForPoint, x, w
  <2>4. Centimeters(EffectiveRange(r) + BinWidth) \in Int
    <3>1. EffectiveRange(r) + BinWidth \in Nat
      BY <2>2, EffectiveRangeType, Numbers
    <3> QED
      BY <3>1, CentimetersKeepOrder
  <2> DEFINE t == SectorForPoint(r)
  <2> HIDE DEF t
  <2>5. distances[t] <= state[t] /\ distances[t] \in Int /\ state[t] \in Int
    <3>1. t \in Ring /\ state \in SectorArray
      BY <2>3 DEF t, FilterTypeOK
    <3>2. distances \in SectorArray
      BY <3>1 DEF Inflated, Nearest
    <3>3. distances[t] \in Nat /\ state[t] \in Nat
      BY <3>1, <3>2, DistanceNumbers DEF SectorArray
    <3> QED
      BY <3>1, <3>3 DEF Inflated, Nearest
  <2>6. distances[t] <= Centimeters(EffectiveRange(r) + BinWidth)
    BY <2>1, <2>4, <2>5 DEF t
  <2> QED
    BY <2>6 DEF t
<1>2. SectorsSpec => [](FilterTypeOK /\ Inflated)
  BY SectorsFeedDistances, PublishedIsInflated, PTL
<1> QED
  BY <1>1, <1>2, CloudTypeCorrect, DenseObstacleIsReported, PTL

\* A bin's width in centimetres, rounded up.
BinInCm == (BinWidth + UnitsPerCm - 1) \div UnitsPerCm

\* A bin farther is that much farther in centimetres, at most.
LEMMA FartherByBin ==
  ASSUME NEW r \in Nat
  PROVE  /\ BinInCm \in Nat /\ Centimeters(r) \in Int
         /\ Centimeters(r + BinWidth) \in Int
         /\ Centimeters(r + BinWidth) <= Centimeters(r) + BinInCm
<1> DEFINE x == BinWidth + UnitsPerCm - 1
           c == x \div UnitsPerCm
<1>1. x \in Nat /\ UnitsPerCm \in Nat \ {0} /\ BinWidth \in Nat \ {0}
  BY Numbers
<1>2. c \in Int /\ UnitsPerCm * c <= x /\ x < UnitsPerCm * c + UnitsPerCm
  <2> HIDE DEF x
  <2> QED
    BY <1>1, Quotient
<1>3. c \in Nat
  <2>1. UnitsPerCm * 0 <= x
    BY <1>1
  <2> HIDE DEF x
  <2>2. 0 <= c
    BY <1>1, <2>1, QuotientBounds
  <2> QED
    BY <1>2, <2>2
<1>4. BinInCm = c
  BY DEF BinInCm
<1> HIDE DEF c
<1>5. UnitsPerCm * c \in Nat
  BY <1>1, <1>3, SMT
<1>6. BinWidth <= UnitsPerCm * c
  BY <1>1, <1>2, <1>5
<1>7. r + BinWidth \in Nat /\ r + UnitsPerCm * c \in Nat
      /\ r + BinWidth <= r + UnitsPerCm * c
  BY <1>1, <1>5, <1>6
<1>8. Centimeters(r + BinWidth) <= Centimeters(r + UnitsPerCm * c)
      /\ Centimeters(r + BinWidth) \in Int
  BY <1>7, CentimetersKeepOrder
<1>9. Centimeters(r + UnitsPerCm * c) = Centimeters(r) + c
  <2> DEFINE w == 2 * UnitsPerCm
             y == 2 * r + UnitsPerCm
  <2>1. w \in Nat \ {0} /\ y \in Int
    BY <1>1
  <2>2. 2 * (r + UnitsPerCm * c) + UnitsPerCm = y + w * c
    BY <1>1, <1>3, SMT
  <2> HIDE DEF w, y
  <2>3. (y + w * c) \div w = y \div w + c
    <3>1. c \in Int
      BY <1>3
    <3> QED
      BY <2>1, <3>1, QuotientShift, Zenon
  <2> QED
    BY <2>2, <2>3 DEF Centimeters, w, y
<1>10. Centimeters(r) \in Int
  BY CentimetersKeepOrder
<1> QED
  BY <1>3, <1>4, <1>8, <1>9, <1>10

\* Points that are added move a reading away by a bin at most.
LEMMA MorePointsRead ==
  ASSUME NEW points, NEW more, IsFiniteSet(more), points \subseteq more,
         \A p \in more : IsPoint(p), NEW s
  PROVE  Reading(points, s) = NoObstacle
         \/ Reading(more, s) <= Reading(points, s) + BinInCm
<1> DEFINE dense == {b \in Bins : Dense(points, s, b)}
           first == Min(dense)
<1>1. IsFiniteSet(points) /\ \A p \in points : IsPoint(p)
  BY FS_Subset
<1>2. CASE dense = {}
  BY <1>2 DEF Reading
<1>3. CASE dense # {}
  <2>1. first \in dense
    <3>1. dense \in SUBSET Nat
      BY DenseBins
    <3> HIDE DEF dense
    <3> QED
      BY <1>3, <3>1, LeastElement
  <2>2. PICK q \in Samples(points, s, first) :
          Percentile(Samples(points, s, first)) = EffectiveRange(q)
    <3>1. first \in Bins /\ Dense(points, s, first)
      BY <2>1
    <3> HIDE DEF first
    <3> QED
      BY <1>1, <3>1, DenseHasSamples, PercentileIsOneOfThem
  <2>3. Reading(points, s) = Centimeters(EffectiveRange(q))
    BY <1>3, <2>2 DEF Reading
  <2> HIDE DEF first
  <2>4. /\ Samples(points, s, first) \subseteq Samples(more, s, first)
        /\ Samples(more, s, first) \subseteq more
    BY DEF Samples
  <2>5. /\ IsFiniteSet(Samples(more, s, first))
        /\ Cardinality(Samples(points, s, first))
             <= Cardinality(Samples(more, s, first))
        /\ Cardinality(Samples(points, s, first)) \in Nat
        /\ Cardinality(Samples(more, s, first)) \in Nat
    BY <2>4, FS_Subset, FS_CardinalityType
  <2>6. first \in Bins /\ Dense(more, s, first)
    <3>1. RequiredPointCount(first) \in Nat
      BY <2>1, Required
    <3> QED
      BY <2>1, <2>5, <3>1 DEF Dense
  <2>7. /\ Reading(more, s) \in Obstacles
        /\ Reading(more, s) <= Centimeters(EffectiveRange(q) + BinWidth)
    BY <2>2, <2>4, <2>6, ReadingReaches
  <2>8. Reading(more, s) \in Int
    BY <2>7, DistanceNumbers
  <2>9. EffectiveRange(q) \in Nat
    BY <1>1, <2>2, EffectiveRangeType DEF Samples
  <2> QED
    BY <2>3, <2>7, <2>8, <2>9, FartherByBin
<1> QED
  BY <1>2, <1>3

\* For every binning and every percentile: points that are added never move a
\* sector's reading away by more than a bin (sectorizer.cpp:61-77).
THEOREM PointsHideNothing == SectorsSpec => []MorePointsHideNothing
<1>1. CloudTypeOK => MorePointsHideNothing
  <2> SUFFICES ASSUME CloudTypeOK, NEW frame \in Frames, cloud \subseteq frame.cloud,
                      NEW s \in Ring
               PROVE  frame.sectors[s] <= Reading(cloud, s) + BinInCm
    BY DEF MorePointsHideNothing, BinInCm
  <2>1. PICK c \in Clouds : frame.cloud = c /\ frame.sectors = Compute(c)
    BY DEF Frames
  <2>2. frame.sectors[s] = Reading(c, s)
    BY <2>1 DEF Compute
  <2>3. IsFiniteSet(c) /\ \A p \in c : IsPoint(p)
    BY SectorsAssumption DEF IsPoint
  <2>4. CASE Reading(cloud, s) = NoObstacle
    <3>1. Reading(c, s) \in Readings
      BY <2>1, <2>2, ComputeType
    <3>2. Reading(c, s) \in Nat /\ Reading(c, s) <= NoObstacle
          /\ NoObstacle \in Nat
      BY <3>1, SectorsAssumption, DistanceNumbers
    <3>3. BinInCm \in Nat
      <4>1. 0 \in Nat
        OBVIOUS
      <4> QED
        BY <4>1, FartherByBin
    <3> QED
      BY <2>2, <2>4, <3>2, <3>3
  <2>5. CASE Reading(cloud, s) # NoObstacle
    BY <2>1, <2>2, <2>3, <2>5, MorePointsRead
  <2> QED
    BY <2>4, <2>5
<1> QED
  BY <1>1, CloudTypeCorrect, PTL

=============================================================================
