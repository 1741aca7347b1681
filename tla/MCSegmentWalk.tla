---------------------------- MODULE MCSegmentWalk ----------------------------
(***************************************************************************)
(* An instance of SegmentWalk for TLC.                                     *)
(***************************************************************************)
EXTENDS SegmentWalk

\* Two segments longer than 1 MB.
TwoSegments == <<2, 2>>
=============================================================================
