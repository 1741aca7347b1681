----------------------------- MODULE MCReweight -----------------------------
(***************************************************************************)
(* An instance of Reweight for TLC: files for two and three nodes: with    *)
(* halves of percents, with sums a little off 100, short and empty.        *)
(***************************************************************************)
EXTENDS Reweight

Line(weight, id) == [weight |-> weight, id |-> id]
SomeFiles ==
  {{Line(a, i), Line(1000 - a, 1 - i)} : a \in {0, 125, 333, 375, 500}, i \in 0..1}
  \cup {{Line(333, 0), Line(666, 1)}, {Line(334, 1), Line(668, 0)},
        {Line(400, 0), Line(500, 1)}, {Line(1000, 1)}, {}}
  \cup {{Line(101, i), Line(232, 1), Line(667, 2 - i)} : i \in {0, 2}}
  \cup {{Line(125, 1), Line(125, i), Line(750, 2 - i)} : i \in {0, 2}}

\* Whole percents, from taking 10% from the workers to giving them 73% more.
SomeRatios == {-100, 0, 90, 500, 730}
=============================================================================
