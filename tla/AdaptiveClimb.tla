---------------------------- MODULE AdaptiveClimb ----------------------------
(***************************************************************************)
(* The search of the adaptive mode for a local ratio (AdaptiveMode.cpp),   *)
(* with the placement of a segment by that ratio (place_pages of           *)
(* PagePlacement.cpp) and the sampling of the stall rate                   *)
(* (PerformanceCounters.cpp) it decides by.                                *)
(*                                                                         *)
(* Time is reduced to what the samples can be wrong about: whether the     *)
(* last reading of the counters was taken before or after the placement in *)
(* force.  An average of the samples is any of Rates, in thousandths of    *)
(* some unit.                                                              *)
(***************************************************************************)
EXTENDS Integers

CONSTANTS
  NodeCounts,      \* numbers of nodes a machine may have
  SegmentPages,    \* pages of the segment that is placed
  Rates,           \* averages the sampling may return
  NumPolls,        \* UNSTICKYMEM_NUM_POLLS
  NumPollOutliers  \* UNSTICKYMEM_NUM_POLL_OUTLIERS

\* One node is a division by zero.  A segment that is placed has 256 pages or more;
\* what matters is that a step of the search moves at least one.
ASSUME NodesAssumption == NodeCounts \subseteq Nat \ {0, 1}
ASSUME SegmentAssumption == SegmentPages \in Nat /\ SegmentPages >= 10
ASSUME RatesAssumption == Rates \subseteq Nat
ASSUME PollsAssumption ==
  NumPolls \in Nat /\ NumPollOutliers \in Nat /\ NumPolls > 2 * NumPollOutliers

AdaptationStep == 10
Infinity == -1       \* no stall rate yet

VARIABLES
  nodes,             \* numa_num_configured_nodes()
  counters,          \* "running" or "stopped"
  local_percentage,
  inForce,           \* the percentage last placed, 0 before the first
  local_from,        \* first page that placement bound to the worker nodes
  lastRead,          \* the last reading: "never", "before" or "after" the
                     \* placement in force
  samples,           \* measurements of the average being taken
  mixed,             \* one of them covers time before the placement in force
  checks,            \* averages taken at this percentage
  stall_rate,
  best_stall_rate,
  measured,          \* first averages of the percentages so far
  pc

vars == <<nodes, counters, local_percentage, inForce, local_from, lastRead, samples,
          mixed, checks, stall_rate, best_stall_rate, measured, pc>>

placement == <<inForce, local_from>>
sampling == <<samples, mixed>>
rates == <<stall_rate, best_stall_rate, measured>>

\* The first percentage: a uniform share, rounded up to a multiple of 5.  Both
\* divisions are of integers.
FirstPercentageDown(n) == ((100 \div n) \div 5) * 5
FirstPercentage(n) == ((100 \div n + 4) \div 5) * 5

Init ==
  /\ nodes \in NodeCounts
  /\ counters = "running"
  /\ local_percentage = FirstPercentage(nodes)
  /\ inForce = 0
  /\ local_from = SegmentPages
  /\ lastRead = "never"
  /\ samples = 0
  /\ mixed = FALSE
  /\ checks = 0
  /\ stall_rate = Infinity
  /\ best_stall_rate = Infinity
  /\ measured = {}
  /\ pc = "begin"

(***************************************************************************)
(* One reading of the counters: they are stopped, read and started again.  *)
(* The process exits if a call of likwid fails.  The model starts with the *)
(* counters set up by initialize_likwid: the library's own call of it is   *)
(* commented out, and without one the first reading ends the process.      *)
(***************************************************************************)
StopCounters(label, next) ==
  /\ pc = label
  /\ counters = "running"
  /\ counters' = "stopped"
  /\ pc' = next
  /\ UNCHANGED <<nodes, local_percentage, placement, lastRead, sampling, checks, rates>>

StartCounters == counters = "stopped" /\ counters' = "running"

\* Measurements of an average.
WantedOneMore == IF checks = 0 THEN NumPolls ELSE 2 * NumPolls + 1
Wanted == IF checks = 0 THEN NumPolls ELSE 2 * NumPolls

ReadingFails ==
  /\ pc \in {"begin", "started", "baseline", "read0", "sample", "read"}
  /\ pc = "sample" => samples < Wanted
  /\ pc' = "exited"
  /\ UNCHANGED <<nodes, counters, local_percentage, placement, lastRead, sampling, checks,
                 rates>>

\* A reading for its side effect on the previous values: get_stall_rate_v2 and
\* get_elapsed_stall_rate when the thread starts.
Begin == StopCounters("begin", "started")
Started ==
  /\ pc = "started"
  /\ StartCounters
  /\ lastRead' = "after"
  /\ pc' = "test"
  /\ UNCHANGED <<nodes, local_percentage, placement, sampling, checks, rates>>

(***************************************************************************)
(* The loop over the percentages.                                          *)
(***************************************************************************)
Test ==
  /\ pc = "test"
  /\ LET skipped == local_percentage % 10 = 0 /\ local_percentage # 100
     IN  /\ local_percentage' =
              local_percentage + (IF local_percentage <= 100 /\ skipped THEN AdaptationStep ELSE 0)
         /\ pc' = IF local_percentage > 100 THEN "done"
                  ELSE IF skipped THEN "test" ELSE "place"
  /\ UNCHANGED <<nodes, counters, placement, lastRead, sampling, checks, rates>>

\* place_pages keeps the first pages as they are and binds the rest to the worker
\* nodes.  The local node has its part of the first pages too, so the share of
\* those is n * (1 - r) / (n - 1), for a ratio r of at least a uniform share.
RatioValid == nodes * local_percentage >= 100

\* The pages before the local ones; the product, in double, may come out below a
\* whole number of pages.
InterleavedPages ==
  LET exact == nodes * (100 - local_percentage) * SegmentPages
      unit  == 100 * (nodes - 1)
  IN  {exact \div unit} \cup
        {p \in {exact \div unit - 1} : exact % unit = 0 /\ p >= 0}

\* The policy of the pages before local_from stays as it was.
Place ==
  /\ pc = "place"
  /\ RatioValid
  /\ local_from' \in InterleavedPages
  /\ inForce' = local_percentage
  /\ lastRead' = "before"
  /\ checks' = 0
  /\ samples' = 0 /\ mixed' = FALSE
  /\ pc' = "baseline"
  /\ UNCHANGED <<nodes, counters, local_percentage, rates>>

\* DIEIF(local_ratio < 0.0 ...)
BadRatio ==
  /\ pc = "place"
  /\ ~RatioValid
  /\ pc' = "badRatio"
  /\ UNCHANGED <<nodes, counters, local_percentage, placement, lastRead, sampling, checks,
                 rates>>

MbindFails ==
  /\ pc = "place"
  /\ RatioValid
  /\ \E p \in InterleavedPages : p < SegmentPages
  /\ pc' = "exited"
  /\ UNCHANGED <<nodes, counters, local_percentage, placement, lastRead, sampling, checks,
                 rates>>

\* unstickymem_log, before the average: the file was opened when the library was
\* loaded, and without it the first message ends the process.
LogFails ==
  /\ pc = "baseline"
  /\ measured = {}
  /\ pc' = "exited"
  /\ UNCHANGED <<nodes, counters, local_percentage, placement, lastRead, sampling, checks,
                 rates>>

(***************************************************************************)
(* get_average_stall_rate: one measurement is thrown away, then the others *)
(* are taken; the second average of a percentage takes twice as many.      *)
(***************************************************************************)
Baseline == StopCounters("baseline", "read0")

\* The first measurement counts.
ReadBaselineKept ==
  /\ pc = "read0"
  /\ StartCounters
  /\ mixed' = (lastRead # "after")
  /\ samples' = 1
  /\ lastRead' = "after"
  /\ pc' = "sample"
  /\ UNCHANGED <<nodes, local_percentage, placement, checks, rates>>
ReadBaseline ==
  /\ pc = "read0"
  /\ StartCounters
  /\ lastRead' = "after"
  /\ pc' = "sample"
  /\ UNCHANGED <<nodes, local_percentage, placement, sampling, checks, rates>>

Sample == samples < Wanted /\ StopCounters("sample", "read")

ReadSample ==
  /\ pc = "read"
  /\ StartCounters
  /\ mixed' = (mixed \/ lastRead # "after")
  /\ samples' = samples + 1
  /\ lastRead' = "after"
  /\ pc' = "sample"
  /\ UNCHANGED <<nodes, local_percentage, placement, checks, rates>>

(***************************************************************************)
(* The decision.                                                           *)
(***************************************************************************)
Less(a, b) == b = Infinity \/ (a # Infinity /\ a < b)
MinRate(a, b) == IF Less(b, a) THEN b ELSE a
WorseOrEqual(rate, best) == rate >= best
Worse(rate, best) == 1000 * rate > 1001 * best

\* The loop goes on to the next percentage.
GoOnRepeat == local_percentage' = local_percentage /\ pc' = "test"
GoOnOrBack ==
  /\ local_percentage' =
       local_percentage + (IF checks = 1 THEN -AdaptationStep ELSE AdaptationStep)
  /\ pc' = "test"
GoOn == local_percentage' = local_percentage + AdaptationStep /\ pc' = "test"

FirstAverage ==
  /\ pc = "sample" /\ samples = Wanted /\ checks = 0
  /\ \E r \in Rates :
       /\ stall_rate' = r
       /\ measured' = measured \cup {r}
       /\ best_stall_rate' = MinRate(best_stall_rate, r)
  /\ checks' = 1
  /\ IF Worse(stall_rate', best_stall_rate')
     THEN /\ pc' = "baseline" /\ local_percentage' = local_percentage
          /\ samples' = 0 /\ mixed' = FALSE
     ELSE /\ GoOn
          /\ UNCHANGED sampling
  /\ UNCHANGED <<nodes, counters, placement, lastRead>>

\* "just make sure that its not something transient": the search ends if the
\* second average is worse too.
SecondAverage ==
  /\ pc = "sample" /\ samples = Wanted /\ checks = 1
  /\ checks' = 2
  /\ \E r \in Rates :
       IF Worse(r, best_stall_rate)
       THEN pc' = "done" /\ local_percentage' = local_percentage
       ELSE GoOn
  /\ UNCHANGED <<nodes, counters, placement, lastRead, sampling, rates>>

Step ==
  \/ Begin \/ Started \/ Test \/ Place \/ BadRatio
  \/ Baseline \/ ReadBaseline \/ Sample \/ ReadSample
  \/ FirstAverage \/ SecondAverage

Next == Step \/ ReadingFails \/ MbindFails \/ LogFails

Spec == Init /\ [][Next]_vars

\* The thread is scheduled, and every sleep ends.
FairSpec == Spec /\ WF_vars(Next)

(***************************************************************************)
(* Properties.                                                             *)
(***************************************************************************)
\* The types of the variables.
TypeOK ==
  /\ nodes \in NodeCounts
  /\ counters \in {"running", "stopped"}
  /\ local_percentage \in 0..110
  /\ inForce \in 0..100
  /\ local_from \in 0..SegmentPages
  /\ lastRead \in {"never", "before", "after"}
  /\ samples \in 0..(2 * NumPolls)
  /\ mixed \in BOOLEAN
  /\ checks \in 0..2
  /\ stall_rate \in Rates \cup {Infinity}
  /\ best_stall_rate \in Rates \cup {Infinity}
  /\ measured \subseteq Rates
  /\ pc \in {"begin", "started", "test", "place", "baseline", "read0", "sample", "read",
             "done", "exited", "badRatio"}

\* No measurement of an average covers time before the placement it judges: that
\* is what the measurement thrown away is for ("throw away a measurement, just
\* because", PerformanceCounters.cpp:445).
SamplesJudgeThePlacement == ~mixed

\* The search ends early only at a percentage whose average is worse than that of
\* one tried before: no average of those in between has made it forget the best.
GivesUpOnlyWhenWorse ==
  pc = "done" /\ local_percentage <= 100 => \E r \in measured : 1000 * stall_rate > 1001 * r

\* Every ratio the search tries is one place_pages accepts ("bad local_ratio
\* calculation", PagePlacement.cpp:613) unless the machine has 17 to 19 nodes:
\* rounding twice gives less than a uniform share nowhere else, and no later ratio
\* is rejected.
RatioAcceptedUnlessTooSmall ==
  pc = "badRatio" => nodes \in 17..19 /\ inForce = 0

\* Each placement covers the pages of the one before, so the pages bound to the
\* worker nodes are those of the last ratio and none is left over from another:
\* place_pages never takes a page back, and relies on the search to go up only.
PlacementsNest == [][local_from' <= local_from /\ inForce' >= inForce]_vars

\* The search ends: each percentage is averaged twice at most.
SearchEnds == <>(pc \in {"done", "exited", "badRatio"})
=============================================================================
