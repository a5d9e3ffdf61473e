---------------------------- MODULE MCDistances -----------------------------
(***************************************************************************)
(* Instance of Sectors and Distances for TLC: a ring of four sectors, each *)
(* four units wide; four distances of two units; three bins.               *)
(***************************************************************************)
EXTENDS Sectors

\* The nearest distance reaches half of the ring, the farthest its own sector.
MCGeometricBins == [d \in 1 .. 4 |-> CASE d = 1 -> 2 [] d = 4 -> 0 [] OTHER -> 1]

\* n points one above the other.
Column(direction, range, n) ==
  {[direction |-> direction, range |-> range, height |-> h] : h \in 1 .. n}

\* Something near, something far or nothing in the middle of each sector.
ClearCut ==
  {UNION {Column(SectorWidth * s, ranges[s], 2) : s \in Ring} :
     ranges \in [Ring -> {2, 8, 9}]}

\* An obstacle across the border of two sectors and of two bins.
Corner(direction, range, ns) ==
  Column(direction, range, ns[1]) \cup Column(direction + 1, range, ns[2])
  \cup Column(direction, range + 1, ns[3])
  \cup Column(direction + 1, range + 1, ns[4])

Split ==
  {Corner(direction, range, ns) :
     direction \in {1, 13}, range \in {3, 5},
     ns \in {<<1, 1, 1, 1>>, <<1, 1, 2, 1>>, <<2, 1, 1, 1>>, <<1, 1, 1, 2>>}}

\* Below the minimum, at both ends of a bin, across the seam of directions,
\* something far behind, and clouds inside others.
Others ==
  {Column(0, 0, 1) \cup Column(0, 1, 1),
   Column(0, 2, 2),
   Column(0, 2, 2) \cup Column(0, 8, 1),
   Column(0, 2, 2) \cup Column(0, 3, 1),
   Column(0, 2, 2) \cup Column(0, 3, 3),
   Column(0, 6, 1) \cup Column(0, 8, 2),
   Column(0, 6, 1),
   Column(15, 4, 2) \cup Column(0, 4, 2) \cup Column(1, 4, 2),
   Column(12, 0, 1) \cup Column(14, 1, 3) \cup Column(15, 1, 1)}

MCClouds == ClearCut \cup Split \cup Others

=============================================================================
