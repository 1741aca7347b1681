------------------------ MODULE MCWeightedInterleave ------------------------
(***************************************************************************)
(* Instances of WeightedInterleave for TLC.                                *)
(***************************************************************************)
EXTENDS WeightedInterleave

\* Three nodes, the highest id first, with weights in tenths of a percent: tables that
\* ascend and others, sums of 85, 99.7, 100, 100.3 and 115 percent.
ThreeNodes == 0..2
ThreeNodeTables ==
  [id : {[k \in 1..3 |-> 3 - k]},
   upto : {[k \in 0..3 |-> <<0, a, a + b, total>>[k + 1]] :
             a \in {-50, 0, 150, 333}, b \in {0, 200, 333, 450},
             total \in {850, 997, 1000, 1003, 1150}}]

\* Segments of up to 12 pages of 8 bytes from three offsets in a page.
SmallSegments == {s \in [start : {8, 9, 15}, end : 8..103] : s.start <= s.end}
SmallPages == 0..14
=============================================================================
