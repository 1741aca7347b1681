------------------------- MODULE WeightedInterleave -------------------------
(***************************************************************************)
(* The division of a segment among the nodes (PagePlacement.cpp):          *)
(* place_pages_weighted_initial, which interleaves the part of each entry  *)
(* of the weights table over the nodes that still receive pages, and       *)
(* place_pages_weighted_contiguous, which binds a part to each node.       *)
(* place_pages_weighted is the first loop again, over nodes_info_temp,     *)
(* whose weights need not ascend, nor be positive.  Nothing makes the      *)
(* weights of a table sum to 100.                                          *)
(*                                                                         *)
(* One step is one iteration of the loop, with its mbind.  Lengths are in  *)
(* pages, since every length the loop handles is a multiple of the page    *)
(* size; the share that is rounded up to pages is in bytes.  The code      *)
(* computes that share in float: here it is any number of bytes within     *)
(* FloatError of the exact one.                                            *)
(*                                                                         *)
(* A variant with a plausible mistake stands just before the operator it   *)
(* varies; nothing uses the variants.                                      *)
(***************************************************************************)
EXTENDS Integers, FiniteSets

CONSTANTS
  N,          \* MAX_NODES
  Nodes,      \* ids of the nodes
  Tables,     \* contents of nodes_info and of nodes_info_temp
  Whole,      \* what a weight of 100 is in the tables: 1000 for tenths of a percent
  Segments,   \* segments to place, with their first and last byte
  Pages,      \* numbers of the pages around the segments
  PageSize,
  PlaceMin,   \* segments longer than this many bytes are placed
  FloatError, \* bound on the error of a share, in bytes
  Parts       \* what a page counts for when shares are compared with weights

\* A table is given by the ids of its entries and by the sum of their weights up
\* to each of them.
SumUpTo(t, k) == t.upto[k]
Weight(t, k) == IF k = 0 THEN 0 ELSE SumUpTo(t, k) - SumUpTo(t, k - 1)
Total(t) == SumUpTo(t, N)

\* The weights ascend from 0, as in a file of percentages that read_weights sorts.
Sorted(t) == \A k \in 1..N : Weight(t, k - 1) <= Weight(t, k)

ASSUME SizesAssumption ==
  /\ N \in Nat \ {0}
  /\ PageSize \in Nat \ {0}
  /\ PlaceMin \in Nat \ {0}
  /\ FloatError \in Nat
  /\ Whole \in Nat \ {0}

\* The mask of the first part has a bit for each of MAX_NODES nodes, all of them set.
ASSUME NodesAssumption == IsFiniteSet(Nodes) /\ Cardinality(Nodes) = N

\* A page counts the same for each of the nodes it is interleaved over.
ASSUME PartsAssumption == Parts \in Nat \ {0} /\ \A m \in 1..N : Parts % m = 0

\* Each node has an entry; its weight may be any.
ASSUME TablesAssumption ==
  \A t \in Tables :
    /\ \A k \in 1..N : t.id[k] \in Nodes
    /\ \A j, k \in 1..N : j # k => t.id[j] # t.id[k]
    /\ \A k \in 0..N : SumUpTo(t, k) \in Int
    /\ SumUpTo(t, 0) = 0

ASSUME SegmentsAssumption ==
  \A s \in Segments : s.start \in Nat /\ s.end \in Nat /\ s.start <= s.end

ASSUME PagesAssumption ==
  /\ Pages \subseteq Nat
  /\ \A s \in Segments : (s.start \div PageSize) .. (s.end \div PageSize) \subseteq Pages

(***************************************************************************)
(* Page alignment.                                                         *)
(***************************************************************************)
PagesDown(x) == x \div PageSize
PagesUp(x) == (x + PageSize - 1) \div PageSize

Length(s) == s.end - s.start + 1

\* pageAlignedStartAddress and pageAlignedLength.  The end of a segment is its
\* last byte, and it is rounded up like the address past the end.
FirstPage(s) == PagesDown(s.start)
PageCount(s) == PagesUp(s.end) - FirstPage(s)

VARIABLES
  segment,     \* the segment being placed
  scheme,      \* "interleave" or "contiguous"
  table,       \* nodes_info
  i,           \* entries of the table done
  w,           \* weight already allotted to the nodes that still receive pages
  total_size,  \* pages placed
  node_set,    \* the nodes that still receive pages
  policy,      \* policy[p]: the nodes page p may go to; none if not placed
  pc

vars == <<segment, scheme, table, i, w, total_size, node_set, policy, pc>>

Unplaced == [p \in Pages |-> {}]

\* Segments of at most 1 MB are left alone.  The contiguous scheme is for nodes_info.
Init ==
  /\ segment \in Segments
  /\ scheme \in {"interleave", "contiguous"}
  /\ table \in Tables
  /\ scheme = "contiguous" => Sorted(table)
  /\ i = 0
  /\ w = 0
  /\ total_size = 0
  /\ node_set = IF scheme = "interleave" THEN Nodes ELSE {}
  /\ policy = Unplaced
  /\ pc = IF Length(segment) > PlaceMin THEN "loop" ELSE "done"

size == PageCount(segment)
Lesser(a, b) == IF a <= b THEN a ELSE b
Greater(a, b) == IF a >= b THEN a ELSE b

\* The nodes that still receive pages share what the next entry adds to the
\* weight they have in common; a node of the contiguous scheme has its weight.
Portion(k) ==
  IF scheme = "interleave"
  THEN (N - k + 1) * (Weight(table, k) - w)
  ELSE Weight(table, k)

\* The portion of the bytes, as computed in float.  One below zero is converted to
\* size_t all the same, which is undefined: it becomes a length close to 2^64, which
\* rounding up may bring back to 0.
ExactShare(k) == (Portion(k) * (size * PageSize)) \div Whole
Shares(k) ==
  IF Portion(k) = 0 THEN {0}
  ELSE IF Portion(k) < 0 THEN {0, size * PageSize}
  ELSE {s \in (ExactShare(k) - FloatError) .. (ExactShare(k) + FloatError) : s >= 0}

\* Rounded up to pages, and no more than what remains.
MySizeRoundedDown(share) == Lesser(PagesDown(share), size - total_size)
MySizeUncapped(share) == PagesUp(share)
MySize(share) == Lesser(PagesUp(share), size - total_size)

\* The nodes of the mbind for entry k, and those left for the next one.
Mask(k) == IF scheme = "interleave" THEN node_set ELSE node_set \cup {table.id[k]}
AfterMaskKept(k) == Mask(k)
AfterMask(k) == Mask(k) \ {table.id[k]}

\* mbind, on as many pages from the next one on.
Bind(pages, nodes) ==
  LET from == FirstPage(segment) + total_size
  IN  [p \in Pages |-> IF p \in from .. (from + pages - 1) THEN nodes ELSE policy[p]]

\* The weight is not carried over to the next entry.
PlaceNextNoCarry ==
  /\ pc = "loop"
  /\ i < N /\ total_size # size
  /\ \E share \in Shares(i + 1) :
       /\ policy' = Bind(MySize(share), Mask(i + 1))
       /\ total_size' = total_size + MySize(share)
  /\ node_set' = AfterMask(i + 1)
  /\ i' = i + 1
  /\ UNCHANGED <<segment, scheme, table, w, pc>>

PlaceNext ==
  /\ pc = "loop"
  /\ i < N /\ total_size # size
  /\ \E share \in Shares(i + 1) :
       /\ policy' = Bind(MySize(share), Mask(i + 1))
       /\ total_size' = total_size + MySize(share)
  /\ w' = Weight(table, i + 1)
  /\ node_set' = AfterMask(i + 1)
  /\ i' = i + 1
  /\ UNCHANGED <<segment, scheme, table, pc>>

\* The process dies when mbind fails, as it does when a thread of the
\* application has unmapped a page of the segment.
MbindFails ==
  /\ pc = "loop"
  /\ i < N /\ total_size # size
  /\ \E share \in Shares(i + 1) : MySize(share) # 0
  /\ pc' = "died"
  /\ UNCHANGED <<segment, scheme, table, i, w, total_size, node_set, policy>>

Finish ==
  /\ pc = "loop"
  /\ i = N \/ total_size = size
  /\ pc' = "done"
  /\ UNCHANGED <<segment, scheme, table, i, w, total_size, node_set, policy>>

Next == PlaceNext \/ MbindFails \/ Finish

Spec == Init /\ [][Next]_vars

(***************************************************************************)
(* Properties.                                                             *)
(***************************************************************************)
Schemes == {"interleave", "contiguous"}
AlignedRange == FirstPage(segment) .. (FirstPage(segment) + size - 1)

\* The types of the variables.
TypeOK ==
  /\ segment \in Segments
  /\ scheme \in Schemes
  /\ table \in Tables
  /\ i \in 0..N
  /\ w \in Int
  /\ total_size \in 0..size
  /\ node_set \subseteq Nodes
  /\ policy \in [Pages -> SUBSET Nodes]
  /\ pc \in {"loop", "done", "died"}

\* When the loop ends, the pages of the range that are not bound are the last ones,
\* and no more than what the weights lack of a hundred percent: if they lack nothing,
\* the roundings of the shares, up to pages in the end, leave no tail that no entry
\* of the table covers.
UnboundOnlyForLack ==
  pc = "done" /\ Length(segment) > PlaceMin =>
    \A p \in AlignedRange :
      policy[p] = {} =>
        Whole * (FirstPage(segment) + size - p)
          < Greater(Whole - Total(table), 0) * size + Whole

\* No page outside the range is bound, whatever the roundings add: what remains
\* of the range bounds every part ("only interleave if memory is in the region",
\* PagePlacement.cpp:902).
NothingElseBound == \A p \in Pages \ AlignedRange : policy[p] = {}

\* The part node n has of a page with these nodes, and of all pages of the range.
PartOfPage(n, nodes) == IF n \in nodes THEN Parts \div Cardinality(nodes) ELSE 0
PartsOfRange(n) ==
  LET upto[k \in 0..size] ==
        IF k = 0 THEN 0 ELSE upto[k - 1] + PartOfPage(n, policy[FirstPage(segment) + k - 1])
  IN  upto[size]

\* With a sorted table each node gets its weight of the pages, to within one page more
\* than there are nodes: no rounding of one entry starves the nodes of later entries
\* of more.  Only what the weights are over a hundred percent may be missing too: the
\* range ends before the last entries have their shares.
SharesFollowWeights ==
  pc = "done" /\ Length(segment) > PlaceMin /\ Sorted(table) =>
    \A k \in 1..N :
      LET error == Whole * PartsOfRange(table.id[k]) - Parts * (Weight(table, k) * size)
          over == Parts * (Greater(Total(table) - Whole, 0) * size)
          margin == Whole * ((N + 1) * Parts)
      IN  -margin - over < error /\ error < margin

(***************************************************************************)
(* The inductive invariant behind them.                                    *)
(***************************************************************************)
\* The weight that the entries done account for: in the interleave scheme the
\* nodes that remain have the weight of the last entry each.
Accounted ==
  IF scheme = "interleave"
  THEN SumUpTo(table, i) + (N - i) * Weight(table, i)
  ELSE SumUpTo(table, i)

\* Until the range is full, the bytes placed fall short of that weight by what
\* rounding to bytes and the error of the shares lose, and by nothing else.
ShortfallBounded ==
  \/ total_size = size
  \/ Whole * (total_size * PageSize) + i * (Whole * (FloatError + 1))
       >= Accounted * (size * PageSize)

\* The pages bound are the first ones of the range.
BoundInOrder ==
  \A p \in Pages :
    policy[p] # {} <=> p \in FirstPage(segment) .. (FirstPage(segment) + total_size - 1)

\* The nodes of the entries to come still receive pages.
NodesLeft ==
  scheme = "interleave" => \A k \in (i + 1)..N : table.id[k] \in node_set

IInv ==
  /\ TypeOK
  /\ w = Weight(table, i)
  /\ ShortfallBounded
  /\ BoundInOrder
  /\ NodesLeft
  /\ pc = "done" /\ Length(segment) > PlaceMin => i = N \/ total_size = size
=============================================================================
