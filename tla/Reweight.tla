------------------------------ MODULE Reweight ------------------------------
(***************************************************************************)
(* The weights tables and the placements by page number, as a caller of    *)
(* PagePlacement.hpp and unstickymem.h meets them: the file of weights is  *)
(* loaded (read_weights), the weights of workers and others are summed     *)
(* (get_sum_nww_ww), a round of placements shifts weight between them      *)
(* (place_pages_weighted_s, place_pages_weighted_dwp) by one table that    *)
(* lasts until place_all_pages resets it, and pages are assigned to nodes  *)
(* one by one (move_pages_remote, move_pages_initial) or by chunks         *)
(* (force_uniform_interleave).                                             *)
(*                                                                         *)
(* Weights, sums and ratios are in tenths of a percent.  Where the code    *)
(* rounds or compares a number computed in floating point and the exact    *)
(* number is a tie, both outcomes are possible here.                       *)
(***************************************************************************)
EXTENDS Integers, FiniteSets, FiniteSetsExt

CONSTANTS
  MaxNodes,   \* the values of MAX_NODES the library is built with
  Files,      \* weights files: sets of lines, [weight, id]
  Workers,    \* values of the environment variable UNSTICKYMEM_WORKERS
  Ratios,     \* values of s and of ratio
  Counts,     \* lengths of segments, in pages
  ChunkPages, \* pages bound together by force_uniform_interleave
  NumNodes    \* numa_num_configured_nodes()

ASSUME BoundsAssumption ==
  /\ MaxNodes \cup {ChunkPages, NumNodes} \subseteq Nat \ {0}
  /\ Counts \subseteq Nat
  /\ Ratios \subseteq Int

\* The lines of a file are of nodes of their own.
ASSUME FilesAssumption ==
  \A f \in Files :
    /\ IsFiniteSet(f)
    /\ f \subseteq [weight : Nat, id : Nat]
    /\ \A l, m \in f : l.id = m.id => l = m

VARIABLES
  N,          \* MAX_NODES
  workers,    \* OPT_NUM_WORKERS_VALUE
  nodes_info,
  nodes_info_temp,
  weight_initialized,
  sum_ww,
  sum_nww,
  call,       \* the call made last: its name and arguments
  nodes,      \* the node that call asks for, for each page
  pc

build == <<N, workers, nodes_info>>
table == <<nodes_info_temp, weight_initialized>>
sums == <<sum_ww, sum_nww>>
vars == <<build, table, sums, call, nodes, pc>>

(***************************************************************************)
(* The table.                                                              *)
(***************************************************************************)
NoRecord == [weight |-> 0, id |-> 0]

\* read_weights: the file is sorted by weight; records without a line stay 0.
Before(l, m) == l.weight < m.weight \/ (l.weight = m.weight /\ l.id < m.id)
Sorted(f) ==
  {order \in [1..Cardinality(f) -> f] :
     \A j, k \in 1..Cardinality(f) : j < k => Before(order[j], order[k])}
LoadedMarked(f) ==
  {[k \in 1..N |-> IF k <= Cardinality(f) THEN order[k] ELSE [weight |-> 0, id |-> -1]] :
   order \in Sorted(f)}
Loaded(f) ==
  {[k \in 1..N |-> IF k <= Cardinality(f) THEN order[k] ELSE NoRecord] : order \in Sorted(f)}

\* The loops that add up the weights of the records of S.
Sum(S, t) ==
  LET upto[k \in 0..N] ==
        IF k = 0 THEN 0 ELSE upto[k - 1] + (IF k \in S THEN t[k].weight ELSE 0)
  IN  upto[N]

\* check_sum and the test of get_sum_nww_ww: the sum rounds to 100.
SumsTo100(tenths) == 995 <= tenths /\ tenths < 1005

\* One worker means node 0, two mean node 1.
Supported == workers \in {1, 2}
IsWorker(k) == nodes_info[k].id = workers - 1
WorkerRecords == {k \in 1..N : IsWorker(k)}
OtherRecords == 1..N \ WorkerRecords

\* n / d rounded to an integer, halves upwards or downwards.
RoundTieWhole(n, d, up) == 10 * ((2 * n + 10 * d - IF up THEN 0 ELSE 1) \div (20 * d))
RoundTie(n, d, up) == (2 * n + d - IF up THEN 0 ELSE 1) \div (2 * d)

\* A weight is divided by a sum that is 0, since nobody called get_sum_nww_ww or
\* the weights are 0: the result is infinite or no number, and so is the sum.
WorkersUnsummed == sum_ww = 0 /\ WorkerRecords # {}
OthersUnsummed == sum_nww = 0 /\ OtherRecords # {}

\* place_pages_weighted_s: the workers have s more, in proportion, and the others
\* share the rest in proportion.
TableSBack(s, up) ==
  [k \in 1..N |->
    [weight |-> IF IsWorker(k)
                THEN RoundTie(nodes_info[k].weight * (sum_ww - s), sum_ww, up[k])
                ELSE RoundTie(nodes_info[k].weight * (1000 - sum_ww + s), sum_nww, up[k]),
     id |-> nodes_info[k].id]]
TableS(s, up) ==
  [k \in 1..N |->
    [weight |-> IF IsWorker(k)
                THEN RoundTie(nodes_info[k].weight * (sum_ww + s), sum_ww, up[k])
                ELSE RoundTie(nodes_info[k].weight * (1000 - sum_ww - s), sum_nww, up[k]),
     id |-> nodes_info[k].id]]
TablesS(s) ==
  IF ~Supported \/ WorkersUnsummed \/ OthersUnsummed THEN {}
  ELSE {TableS(s, up) : up \in [1..N -> BOOLEAN]}

\* place_pages_weighted_dwp: the workers have s less, in whole percents, and each
\* of the others has the rest.
TableDwp(s, up) ==
  [k \in 1..N |->
    [weight |-> IF IsWorker(k)
                THEN 10 * RoundTie(nodes_info[k].weight * (sum_ww - s), 10 * sum_ww, up[k])
                ELSE 10 * RoundTie(1000 - sum_ww + s, 10, up[k]),
     id |-> nodes_info[k].id]]
TablesDwp(s) ==
  IF ~Supported \/ WorkersUnsummed THEN {} ELSE {TableDwp(s, up) : up \in [1..N -> BOOLEAN]}

(***************************************************************************)
(* The node asked for, for each page.                                      *)
(***************************************************************************)
PagesOf(count) == 0..(count - 1)

\* move_pages_remote: pages alternate between the local and the remote node in the
\* first part of the segment, and the rest is local up to half and remote beyond.
\* Both are node 0, with any number of workers.
local_node == 0
remote_node == 0
Interleaved(count, share) ==
  IF share <= 0 THEN {0}
  ELSE {Min({c, count}) : c \in
         {d \in 0..(count * N + 1) :
            1000 * (d - 1) <= share * count * N /\ share * count * N <= 1000 * d}}
RemoteNodes(count, ratio) ==
  {[p \in PagesOf(count) |->
     IF p < c THEN IF p % 2 = 0 THEN local_node ELSE remote_node
     ELSE IF ratio <= 500 THEN local_node ELSE remote_node] :
   c \in Interleaved(count, IF ratio <= 500 THEN ratio ELSE 1000 - ratio)}

\* move_pages_initial: entry k of the table takes the pages from cut[k - 1] to
\* cut[k], round robin over its node and those of the later entries; a page of no
\* entry stays with node 0.
PortionNoCarry(k) == (N - k + 1) * nodes_info[k].weight
Portion(k) ==
  (N - k + 1) * (nodes_info[k].weight - IF k = 1 THEN 0 ELSE nodes_info[k - 1].weight)
Truncated(n, d, low) == n \div d - IF low /\ n % d = 0 /\ n > 0 THEN 1 ELSE 0
Cut(count, low) ==
  LET cut[k \in 0..N] ==
        IF k = 0 THEN 0
        ELSE IF cut[k - 1] = count THEN count
        ELSE Min({count, cut[k - 1] + Truncated(Portion(k) * count, 1000, low[k])})
  IN  cut
NodeBy(cut, p) ==
  LET entries == {k \in 1..N : cut[k - 1] <= p /\ p < cut[k]}
      last == Max(entries)
  IN  IF entries = {} THEN 0 ELSE nodes_info[last + (p % (N - last + 1))].id
InitialNodes(count) ==
  {LET cut == Cut(count, low) IN [p \in PagesOf(count) |-> NodeBy(cut, p)] :
   low \in [1..N -> BOOLEAN]}

\* force_uniform_interleave: chunks go to the nodes in turn.
UniformNodes(count) == [p \in PagesOf(count) |-> (p \div ChunkPages) % NumNodes]

(***************************************************************************)
(* Calls.                                                                  *)
(***************************************************************************)
NoCall == [op |-> "none", s |-> 0, fresh |-> FALSE]

Init ==
  /\ N \in MaxNodes
  /\ workers \in Workers
  /\ \E f \in Files : Cardinality(f) <= N /\ nodes_info \in Loaded(f)
  /\ nodes_info_temp = [k \in 1..N |-> NoRecord]
  /\ weight_initialized = FALSE
  /\ sum_ww = 0 /\ sum_nww = 0
  /\ call = NoCall
  /\ nodes = <<>>
  /\ pc = "running"

Called(op, s) == call' = [op |-> op, s |-> s, fresh |-> ~weight_initialized]

\* The sums are added to what they were.
GetSums ==
  /\ pc = "running"
  /\ Called("sums", 0)
  /\ IF Supported
     THEN /\ sum_ww' = sum_ww + Sum(WorkerRecords, nodes_info)
          /\ sum_nww' = sum_nww + Sum(OtherRecords, nodes_info)
          /\ pc' = IF SumsTo100(sum_ww' + sum_nww') THEN "running" ELSE "exited"
     ELSE UNCHANGED sums /\ pc' = "exited"
  /\ nodes' = <<>>
  /\ UNCHANGED <<build, table>>

\* A new table is computed at the first call of a round, and the process ends
\* unless there is one and its weights sum to 100.
NewTable(Candidates) ==
  /\ ~weight_initialized
  /\ \E t \in Candidates : SumsTo100(Sum(1..N, t)) /\ nodes_info_temp' = t
  /\ weight_initialized' = TRUE

SameTable ==
  /\ weight_initialized
  /\ UNCHANGED table

Exits ==
  /\ pc' = "exited"
  /\ nodes' = <<>>
  /\ UNCHANGED <<build, table, sums>>

NoTable(Candidates) ==
  /\ ~weight_initialized
  /\ Candidates = {} \/ \E t \in Candidates : ~SumsTo100(Sum(1..N, t))
  /\ Exits

\* The table is used by place_pages_weighted, the loop of WeightedInterleave.
PlaceS(s) ==
  /\ pc = "running"
  /\ Called("s", s)
  /\ \/ /\ NewTable(TablesS(s)) \/ SameTable
        /\ nodes' = <<>>
        /\ UNCHANGED <<build, sums, pc>>
     \/ NoTable(TablesS(s))

\* The table is checked, and the pages are then moved by s alone.
PlaceDwp(s, count) ==
  /\ pc = "running"
  /\ Called("dwp", s)
  /\ \/ /\ NewTable(TablesDwp(s)) \/ SameTable
        /\ nodes' \in RemoteNodes(count, s)
        /\ UNCHANGED <<build, sums, pc>>
     \/ NoTable(TablesDwp(s))

\* place_all_pages, on a list of one long segment: the round ends.
PlaceAll(ratio, count) ==
  /\ pc = "running"
  /\ Called("all", ratio)
  /\ nodes' \in RemoteNodes(count, ratio)
  /\ weight_initialized' = FALSE
  /\ UNCHANGED <<build, nodes_info_temp, sums, pc>>

MoveInitial(count) ==
  /\ pc = "running"
  /\ Called("initial", 0)
  /\ nodes' \in InitialNodes(count)
  /\ UNCHANGED <<build, table, sums, pc>>

UniformInterleave(count) ==
  /\ pc = "running"
  /\ Called("uniform", 0)
  /\ nodes' = UniformNodes(count)
  /\ UNCHANGED <<build, table, sums, pc>>

\* mbind or move_pages fails, memory for the arrays is lacking, or the length
\* given to force_uniform_interleave is no multiple of the page size.
KernelFails ==
  /\ pc = "running"
  /\ Called("kernel", 0)
  /\ Exits

Next ==
  \/ GetSums
  \/ \E s \in Ratios : PlaceS(s)
  \/ \E s \in Ratios, count \in Counts : PlaceDwp(s, count) \/ PlaceAll(s, count)
  \/ \E count \in Counts : MoveInitial(count) \/ UniformInterleave(count)
  \/ KernelFails

Spec == Init /\ [][Next]_vars

(***************************************************************************)
(* Properties.                                                             *)
(***************************************************************************)
Records == [weight : Int, id : Nat]

\* The types of the variables.
TypeOK ==
  /\ workers \in Workers
  /\ \A k \in 1..N : nodes_info[k] \in Records /\ nodes_info_temp[k] \in Records
  /\ weight_initialized \in BOOLEAN
  /\ sum_ww \in Nat /\ sum_nww \in Nat
  /\ pc \in {"running", "exited"}

BothPresent == WorkerRecords # {} /\ OtherRecords # {}
Distance(a, b) == IF a <= b THEN b - a ELSE a - b

\* The process exits over a new table only without sums, or when workers or others
\* are missing from the file, or when place_pages_weighted_dwp has not one of each
\* to deal with, or half a percent of both to round.  No other rounding makes the
\* weights miss 100.
RefusedOnlyForHalves ==
  call.op \in {"s", "dwp"} /\ pc = "exited" =>
    \/ ~Supported \/ WorkersUnsummed \/ ~BothPresent
    \/ call.op = "s" /\ OthersUnsummed
    \/ call.op = "dwp" /\ (Cardinality(OtherRecords) # 1 \/ (sum_ww - call.s) % 10 = 5)

\* A new table of place_pages_weighted_s is one of percentages, and gives the
\* workers s more than the file, to half a tenth for each record, if there are
\* workers and that leaves them and the others no less than nothing.
WorkersGainTheShift ==
  /\ call.op = "s" /\ call.fresh /\ weight_initialized
  /\ WorkerRecords # {} /\ call.s \in (-sum_ww)..(1000 - sum_ww)
  => /\ \A k \in 1..N : nodes_info_temp[k].weight \in 0..1000
     /\ 2 * Distance(Sum(WorkerRecords, nodes_info_temp), sum_ww + call.s) <= N

Ascending(t) == \A k \in 2..N : t[k - 1].weight <= t[k].weight

\* place_pages_weighted takes the next node to be the one with the smallest weight
\* (PagePlacement.cpp:356), and nobody sorts the new table.  With two records it
\* keeps the order of the file exactly as long as the first of them, be it the
\* worker or the other, is not given more than half.
AscendingUntilOvertaken ==
  /\ N = 2 /\ BothPresent
  /\ call.op = "s" /\ call.fresh /\ weight_initialized
  => LET total == sum_ww + call.s
     IN  Ascending(nodes_info_temp) <=> IF IsWorker(1) THEN total <= 500 ELSE total >= 500

Count(S) == Cardinality({p \in DOMAIN nodes : nodes[p] \in S})

\* A page may be left over for each record, and all of them go to node 0.
PortionsFollowWeights ==
  call.op = "initial" /\ Ascending(nodes_info) /\ Sum(1..N, nodes_info) = 1000 =>
    \A k \in 1..N :
      LET record == nodes_info[k]
          excess == 1000 * Count({record.id}) - record.weight * Cardinality(DOMAIN nodes)
      IN  -1000 * k <= excess /\ excess <= 1000 * (k + IF record.id = 0 THEN N ELSE 0)
ChunksAreEven ==
  call.op = "uniform" =>
    \A m, n \in 0..(NumNodes - 1) : Count({m}) - Count({n}) <= ChunkPages

\* move_pages_initial gives the node of the k-th record of a complete file its weight
\* of the pages to within k pages, and node 0 what is left over besides, and
\* force_uniform_interleave gives no node more than a chunk more than another.
NodesGetTheirShare == PortionsFollowWeights /\ ChunksAreEven
=============================================================================
