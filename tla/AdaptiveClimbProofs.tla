------------------------- MODULE AdaptiveClimbProofs -------------------------
(***************************************************************************)
(* Proofs about AdaptiveClimb, for any numbers of nodes, pages, rates and  *)
(* measurements.                                                           *)
(***************************************************************************)
EXTENDS AdaptiveClimb, TLAPS

(***************************************************************************)
(* What an average is made of.                                             *)
(***************************************************************************)
\* Once the measurement thrown away has been made, the last reading was taken after
\* the placement, and the next one covers no time before it.
BaselineTaken ==
  /\ mixed = FALSE
  /\ pc \in {"sample", "read"} => lastRead = "after"

\* Every average of the search is made of measurements of the placement in force.
THEOREM SamplesAreOfThePlacement == Spec => []SamplesJudgeThePlacement
<1>1. Init => BaselineTaken
  BY DEF Init, BaselineTaken
<1>2. BaselineTaken /\ [Next]_vars => BaselineTaken'
  <2> SUFFICES ASSUME BaselineTaken, [Next]_vars
               PROVE  BaselineTaken'
    OBVIOUS
  <2> USE DEF BaselineTaken, placement, sampling, rates
  <2>1. CASE Begin \/ Started \/ Test
    BY <2>1 DEF Begin, Started, Test, StopCounters
  <2>2. CASE Place \/ BadRatio \/ MbindFails \/ LogFails \/ ReadingFails
    BY <2>2 DEF Place, BadRatio, MbindFails, LogFails, ReadingFails
  <2>3. CASE Baseline \/ ReadBaseline
    BY <2>3 DEF Baseline, ReadBaseline, StopCounters
  <2>4. CASE Sample
    BY <2>4 DEF Sample, StopCounters
  <2>5. CASE ReadSample
    <3>1. mixed' = (mixed \/ lastRead # "after") /\ lastRead = "after"
      BY <2>5 DEF ReadSample
    <3>2. mixed' = FALSE
      BY <3>1, Zenon
    <3> QED
      BY <2>5, <3>2 DEF ReadSample
  <2>6. CASE FirstAverage \/ SecondAverage
    BY <2>6 DEF FirstAverage, SecondAverage, GoOn
  <2>7. CASE UNCHANGED vars
    BY <2>7 DEF vars
  <2> QED
    BY <2>1, <2>2, <2>3, <2>4, <2>5, <2>6, <2>7 DEF Next, Step
<1>3. BaselineTaken => SamplesJudgeThePlacement
  BY DEF BaselineTaken, SamplesJudgeThePlacement
<1> QED
  BY <1>1, <1>2, <1>3, PTL DEF Spec

(***************************************************************************)
(* The ratios.                                                             *)
(***************************************************************************)
\* The first percentage is a multiple of 5 below 100, and at least a uniform share
\* or too small to be placed before a step is added, except with 17 to 19 nodes.
LEMMA FirstPercentageFacts ==
  ASSUME NEW n \in Nat \ {0, 1}
  PROVE  /\ FirstPercentage(n) \in 0..50
         /\ n * FirstPercentage(n) >= 100 \/ n \in 17..19 \/ n > 100
         /\ n > 100 => FirstPercentage(n) = 0
         /\ n \in 17..19 => FirstPercentage(n) = 5
<1> DEFINE d == 100 \div n
<1>1. d \in 0..50 /\ n * d <= 100 /\ 100 < n * (d + 1)
  BY Z3
<1>2. FirstPercentage(n) \in 0..50 /\ d <= FirstPercentage(n)
  BY <1>1 DEF FirstPercentage
<1>3. n > 100 => d = 0
  BY <1>1
<1>4. n > 100 => FirstPercentage(n) = 0
  BY <1>3 DEF FirstPercentage
<1>5. n \in 17..19 => d = 5
  BY <1>1
<1>6. n \in 17..19 => FirstPercentage(n) = 5
  BY <1>5 DEF FirstPercentage
<1>7. n * FirstPercentage(n) >= 100 \/ n \in 17..19 \/ n > 100
  <2>1. CASE n \in 2..16
    BY <2>1, Z3 DEF FirstPercentage
  <2>2. CASE n \in 20..100
    <3>1. d \in 1..5
      BY <1>1, <2>2
    <3>2. FirstPercentage(n) = 5
      BY <3>1 DEF FirstPercentage
    <3> QED
      BY <2>2, <3>2
  <2> QED
    BY <2>1, <2>2
<1> QED
  BY <1>2, <1>4, <1>6, <1>7

\* In the loop the percentage is at least a uniform share, unless the machine has
\* so few or so many nodes that rounding decides: with 17 to 19 nothing is ever
\* placed, with more than 100 only multiples of 10 come up, and 100 is the first
\* of them that is not skipped.
RatioInv ==
  /\ nodes \in Nat \ {0, 1} /\ local_percentage \in Nat
  /\ \/ nodes * local_percentage >= 100
     \/ nodes > 100 /\ local_percentage % 10 = 0
     \/ /\ nodes \in 17..19 /\ inForce = 0
        /\ pc \in {"begin", "started", "test", "place", "exited", "badRatio"}
  /\ pc = "place" => local_percentage % 10 # 0 \/ local_percentage = 100
  /\ pc = "badRatio" => nodes \in 17..19 /\ inForce = 0

\* Adding a step keeps the percentage large enough, or a multiple of 10.
LEMMA StepUp ==
  ASSUME NEW n \in Nat, NEW p \in Nat
  PROVE  /\ n * p >= 100 => n * (p + AdaptationStep) >= 100
         /\ p % 10 = 0 => (p + AdaptationStep) % 10 = 0
<1>1. n * (p + 10) = n * p + 10 * n
  OBVIOUS
<1> QED
  BY <1>1 DEF AdaptationStep

\* With 17 to 19 nodes 5 per cent is rejected before anything is placed.
LEMMA RatioInvInit == Init => RatioInv
<1> SUFFICES ASSUME Init
             PROVE  RatioInv
  OBVIOUS
<1>1. nodes \in Nat \ {0, 1} /\ local_percentage = FirstPercentage(nodes)
      /\ inForce = 0 /\ pc = "begin"
  BY NodesAssumption DEF Init
<1> QED
  BY <1>1, FirstPercentageFacts DEF RatioInv

LEMMA RatioInvNext == RatioInv /\ [Next]_vars => RatioInv'
<1> SUFFICES ASSUME RatioInv, [Next]_vars
             PROVE  RatioInv'
  OBVIOUS
<1> USE DEF RatioInv, placement, sampling, rates
<1>1. CASE Begin \/ Started \/ ReadingFails
  BY <1>1 DEF Begin, Started, ReadingFails, StopCounters
<1>2. CASE Test
  <2>1. nodes' = nodes /\ inForce' = inForce
    BY <1>2 DEF Test
  <2>2. CASE local_percentage' = local_percentage
    BY <1>2, <2>1, <2>2 DEF Test, AdaptationStep
  <2>3. CASE local_percentage' = local_percentage + AdaptationStep /\ pc' = "test"
    BY <1>2, <2>1, <2>3, StepUp DEF Test, AdaptationStep
  <2> QED
    BY <1>2, <2>2, <2>3 DEF Test, AdaptationStep
<1>3. CASE Place \/ MbindFails \/ LogFails
  BY <1>3 DEF Place, MbindFails, LogFails, RatioValid
<1>4. CASE BadRatio
  BY <1>4 DEF BadRatio, RatioValid
<1>5. CASE Baseline \/ ReadBaseline \/ Sample \/ ReadSample
  BY <1>5 DEF Baseline, ReadBaseline, Sample, ReadSample, StopCounters
<1>6. CASE FirstAverage \/ SecondAverage
  <2>1. nodes' = nodes /\ inForce' = inForce /\ pc = "sample"
    BY <1>6 DEF FirstAverage, SecondAverage
  <2>2. \/ local_percentage' = local_percentage /\ pc' \in {"baseline", "done"}
        \/ local_percentage' = local_percentage + AdaptationStep /\ pc' = "test"
    BY <1>6 DEF FirstAverage, SecondAverage, GoOn
  <2>3. CASE local_percentage' = local_percentage /\ pc' \in {"baseline", "done"}
    BY <2>1, <2>3
  <2>4. CASE local_percentage' = local_percentage + AdaptationStep /\ pc' = "test"
    BY <2>1, <2>4, StepUp DEF AdaptationStep
  <2> QED
    BY <2>2, <2>3, <2>4
<1>7. CASE UNCHANGED vars
  BY <1>7 DEF vars
<1> QED
  BY <1>1, <1>2, <1>3, <1>4, <1>5, <1>6, <1>7 DEF Next, Step

\* place_pages rejects a ratio of the search only on machines of 17 to 19 nodes, and
\* there the first one.
THEOREM RejectsFirstRatioOnly == Spec => []RatioAcceptedUnlessTooSmall
<1>1. RatioInv => RatioAcceptedUnlessTooSmall
  BY DEF RatioInv, RatioAcceptedUnlessTooSmall
<1> QED
  BY <1>1, RatioInvInit, RatioInvNext, PTL DEF Spec

(***************************************************************************)
(* The placements.                                                         *)
(***************************************************************************)
\* The whole pages before the local ones at percentage p, but for the rounding.
Interleaved(n, p) == (n * (100 - p) * SegmentPages) \div (100 * (n - 1))

\* They are pages of the segment.
LEMMA InterleavedFits ==
  ASSUME NEW n \in Nat \ {0, 1}, NEW p \in 0..100, n * p >= 100
  PROVE  Interleaved(n, p) \in 0..SegmentPages
<1> DEFINE e == n * (100 - p) * SegmentPages
           u == 100 * (n - 1)
<1>1. n * (100 - p) = 100 * n - n * p
  OBVIOUS
<1>2. n * (100 - p) \in 0..u
  BY <1>1
<1>3. u \in Nat \ {0} /\ e \in Nat /\ e <= u * SegmentPages
  BY <1>2, SegmentAssumption
<1>4. ASSUME NEW x \in Nat, NEW y \in Nat \ {0}, NEW z \in Nat, x <= y * z
      PROVE  x \div y \in 0..z
  BY <1>4, Z3
<1> QED
  BY <1>3, <1>4, SegmentAssumption DEF Interleaved

\* A step of the search takes at least one more of them.
LEMMA InterleavedShrinks ==
  ASSUME NEW n \in Nat \ {0, 1}, NEW a \in 0..100, NEW b \in 0..100, a + 10 <= b
  PROVE  Interleaved(n, b) + 1 <= Interleaved(n, a)
<1> DEFINE x == n * (100 - b) * SegmentPages
           y == n * (100 - a) * SegmentPages
           u == 100 * (n - 1)
           m == b - a
<1>1. n * (100 - a) = n * (100 - b) + n * m
  OBVIOUS
<1>2. y = x + n * m * SegmentPages
  BY <1>1, SegmentAssumption
<1>3. m * SegmentPages >= 100
  BY SegmentAssumption
<1>4. n * m * SegmentPages >= u
  <2>1. n * m * SegmentPages = n * (m * SegmentPages)
    BY SegmentAssumption
  <2>2. ASSUME NEW k \in Nat, k >= 100
        PROVE  n * k >= 100 * (n - 1)
    BY <2>2
  <2>3. m * SegmentPages \in Nat
    BY SegmentAssumption
  <2> QED
    BY <1>3, <2>1, <2>2, <2>3
<1>5. x \in Nat /\ y \in Nat /\ u \in Nat \ {0} /\ y >= x + u
  <2>1. n * (100 - b) \in Nat /\ n * (100 - a) \in Nat
    OBVIOUS
  <2> QED
    BY <1>2, <1>4, <2>1, SegmentAssumption
<1>6. ASSUME NEW v \in Nat, NEW w \in Nat, NEW k \in Nat \ {0}, w >= v + k
      PROVE  v \div k + 1 <= w \div k
  BY <1>6, Z3
<1> QED
  BY <1>5, <1>6 DEF Interleaved

\* Placements are at valid ratios, and the percentage of the next one is a step
\* or more above.
NestInv ==
  /\ nodes \in Nat \ {0, 1} /\ local_percentage \in Nat
  /\ \/ inForce = 0 /\ local_from = SegmentPages
     \/ /\ inForce \in 1..100
        /\ local_from \in {Interleaved(nodes, inForce), Interleaved(nodes, inForce) - 1}
  /\ pc \in {"begin", "started"} => inForce = 0
  /\ pc \in {"test", "place"} => inForce = 0 \/ inForce + 10 <= local_percentage
  /\ pc = "place" => local_percentage <= 100
  /\ pc \in {"baseline", "read0", "sample", "read"} => inForce = local_percentage

\* Placing keeps the invariant and covers the placement before.
LEMMA PlaceNests ==
  ASSUME NestInv, Place
  PROVE  NestInv' /\ local_from' <= local_from /\ inForce' >= inForce
<1> USE DEF NestInv
<1>1. nodes' = nodes /\ inForce' = local_percentage /\ local_percentage' = local_percentage
      /\ pc' = "baseline" /\ pc = "place" /\ local_percentage \in 1..100
      /\ nodes * local_percentage >= 100
  BY DEF Place, RatioValid
<1>2. local_from' \in {Interleaved(nodes, local_percentage),
                       Interleaved(nodes, local_percentage) - 1}
  BY DEF Place, InterleavedPages, Interleaved
<1>3. Interleaved(nodes, local_percentage) \in 0..SegmentPages
  <2>1. nodes \in Nat \ {0, 1} /\ local_percentage \in 0..100
    BY <1>1
  <2> HIDE DEF NestInv
  <2> QED
    BY <1>1, <2>1, InterleavedFits
<1>4. local_from' <= local_from /\ inForce' >= inForce
  <2>1. CASE inForce = 0 /\ local_from = SegmentPages
    BY <1>1, <1>2, <1>3, <2>1, SegmentAssumption
  <2>2. CASE inForce \in 1..100 /\ inForce + 10 <= local_percentage
             /\ local_from \in {Interleaved(nodes, inForce), Interleaved(nodes, inForce) - 1}
    <3>1. Interleaved(nodes, local_percentage) + 1 <= Interleaved(nodes, inForce)
      <4>1. nodes \in Nat \ {0, 1} /\ local_percentage \in 0..100 /\ inForce \in 0..100
        BY <1>1, <2>2
      <4> HIDE DEF NestInv
      <4> QED
        BY <2>2, <4>1, InterleavedShrinks
    <3>2. Interleaved(nodes, inForce) \in Int
      BY <2>2, SegmentAssumption DEF Interleaved
    <3> QED
      BY <1>1, <1>2, <1>3, <2>2, <3>1, <3>2
  <2> QED
    BY <1>1, <2>1, <2>2
<1> QED
  BY <1>1, <1>2, <1>4

LEMMA NestInvInit == Init => NestInv
<1> SUFFICES ASSUME Init
             PROVE  NestInv
  OBVIOUS
<1>1. nodes \in Nat \ {0, 1} /\ local_percentage = FirstPercentage(nodes)
  BY NodesAssumption DEF Init
<1>2. local_percentage \in Nat
  BY <1>1, FirstPercentageFacts
<1> QED
  BY <1>1, <1>2 DEF NestInv, Init

\* Only Place moves pages; the other steps keep what it left.
LEMMA NestInvNext ==
  ASSUME NestInv, [Next]_vars
  PROVE  NestInv' /\ local_from' <= local_from /\ inForce' >= inForce
<1> DEFINE Kept == inForce' = inForce /\ local_from' = local_from
<1> USE DEF placement, sampling, rates
<1>1. local_from \in Int /\ inForce \in Int
  <2>1. CASE inForce = 0 /\ local_from = SegmentPages
    BY <2>1, SegmentAssumption
  <2>2. CASE inForce \in 1..100 /\ local_from \in {Interleaved(nodes, inForce),
                                                   Interleaved(nodes, inForce) - 1}
    <3>1. nodes \in Nat \ {0, 1}
      BY DEF NestInv
    <3>2. Interleaved(nodes, inForce) \in Int
      BY <2>2, <3>1, SegmentAssumption DEF Interleaved
    <3> QED
      BY <2>2, <3>2
  <2> QED
    BY <2>1, <2>2 DEF NestInv
<1>2. CASE Place
  BY <1>2, PlaceNests
<1>3. CASE Begin \/ Started \/ ReadingFails \/ BadRatio \/ MbindFails \/ LogFails
  <2>1. NestInv' /\ Kept
    BY <1>3 DEF NestInv, Begin, Started, ReadingFails, BadRatio, MbindFails, LogFails, StopCounters
  <2> QED
    BY <1>1, <2>1
<1>4. CASE Test
  <2>1. NestInv' /\ Kept
    BY <1>4 DEF NestInv, Test, AdaptationStep
  <2> QED
    BY <1>1, <2>1
<1>5. CASE Baseline \/ ReadBaseline \/ Sample \/ ReadSample
  <2>1. NestInv' /\ Kept
    BY <1>5 DEF NestInv, Baseline, ReadBaseline, Sample, ReadSample, StopCounters
  <2> QED
    BY <1>1, <2>1
<1>6. CASE FirstAverage \/ SecondAverage
  <2>1. NestInv' /\ Kept
    BY <1>6 DEF NestInv, FirstAverage, SecondAverage, GoOn, AdaptationStep
  <2> QED
    BY <1>1, <2>1
<1>7. CASE UNCHANGED vars
  <2>1. NestInv' /\ Kept
    BY <1>7 DEF NestInv, vars
  <2> QED
    BY <1>1, <2>1
<1> QED
  BY <1>2, <1>3, <1>4, <1>5, <1>6, <1>7 DEF Next, Step

\* Each placement of the search covers the one before, for any number of nodes and
\* any segment of ten pages or more, also when a product comes out a page short.
THEOREM PlacementsCoverEarlierOnes == Spec => PlacementsNest
<1>1. NestInv /\ [Next]_vars => NestInv'
  BY NestInvNext
<1>2. NestInv /\ [Next]_vars => [local_from' <= local_from /\ inForce' >= inForce]_vars
  BY NestInvNext
<1> QED
  BY <1>1, <1>2, NestInvInit, PTL DEF Spec, PlacementsNest

(***************************************************************************)
(* The end of the search.                                                  *)
(***************************************************************************)
\* The best rate is one of those measured, and a second average is taken, and the
\* search given up, at a percentage whose average is worse.
BestKnown ==
  /\ measured \subseteq Nat /\ local_percentage \in Nat
  /\ best_stall_rate \in measured \cup {Infinity}
  /\ (checks = 1 /\ pc \in {"baseline", "read0", "sample", "read"})
       \/ (pc = "done" /\ local_percentage <= 100)
     => best_stall_rate \in measured /\ Worse(stall_rate, best_stall_rate)

\* The search gives up early only if some average was better.
THEOREM EndsEarlyOnlyWhenWorse == Spec => []GivesUpOnlyWhenWorse
<1>1. Init => BestKnown
  BY NodesAssumption, FirstPercentageFacts DEF Init, BestKnown
<1>2. BestKnown /\ [Next]_vars => BestKnown'
  <2> SUFFICES ASSUME BestKnown, [Next]_vars
               PROVE  BestKnown'
    OBVIOUS
  <2> USE DEF BestKnown, placement, sampling, rates
  <2>1. CASE Begin \/ Started \/ ReadingFails
    BY <2>1 DEF Begin, Started, ReadingFails, StopCounters
  <2>7. CASE BadRatio \/ MbindFails \/ LogFails \/ Place
    <3>1. CASE BadRatio \/ MbindFails \/ LogFails
      BY <3>1 DEF BadRatio, MbindFails, LogFails
    <3>2. CASE Place
      BY <3>2 DEF Place
    <3> QED
      BY <2>7, <3>1, <3>2
  <2>2. CASE Test
    BY <2>2 DEF Test, AdaptationStep
  <2>3. CASE Baseline \/ ReadBaseline \/ Sample \/ ReadSample
    BY <2>3 DEF Baseline, ReadBaseline, Sample, ReadSample, StopCounters
  <2>4. CASE FirstAverage
    <3>1. PICK r \in Rates : /\ stall_rate' = r
                             /\ measured' = measured \cup {r}
                             /\ best_stall_rate' = MinRate(best_stall_rate, r)
      BY <2>4 DEF FirstAverage
    <3>2. r \in Nat /\ measured' \subseteq Nat
      BY <3>1, RatesAssumption
    <3>3. best_stall_rate' \in measured'
      BY <3>1, <3>2 DEF MinRate, Less, Infinity
    <3>4. \/ Worse(stall_rate', best_stall_rate')
          \/ pc' = "test"
      BY <2>4 DEF FirstAverage, GoOn
    <3>5. local_percentage' \in Nat /\ pc' \in {"baseline", "test"}
      BY <2>4 DEF FirstAverage, GoOn, AdaptationStep
    <3> QED
      BY <3>2, <3>3, <3>4, <3>5
  <2>5. CASE SecondAverage
    BY <2>5 DEF SecondAverage, GoOn, AdaptationStep
  <2>6. CASE UNCHANGED vars
    BY <2>6 DEF vars
  <2> QED
    BY <2>1, <2>2, <2>3, <2>4, <2>5, <2>6, <2>7 DEF Next, Step
<1>3. BestKnown => GivesUpOnlyWhenWorse
  BY DEF BestKnown, GivesUpOnlyWhenWorse, Worse
<1> QED
  BY <1>1, <1>2, <1>3, PTL DEF Spec

(***************************************************************************)
(* Bounds of the search.                                                   *)
(***************************************************************************)
\* A percentage past 100 is met by the test of the loop only, and a measurement
\* under way is one of those the average needs.
Bounded ==
  /\ TypeOK
  /\ pc \notin {"test", "done"} => local_percentage <= 100
  /\ pc \in {"baseline", "read0", "sample", "read"} => samples <= Wanted
  /\ pc = "read" => samples < Wanted

LEMMA BoundedInit == Init => Bounded
<1> SUFFICES ASSUME Init
             PROVE  Bounded
  OBVIOUS
<1>1. nodes \in Nat \ {0, 1} /\ local_percentage = FirstPercentage(nodes)
  BY NodesAssumption DEF Init
<1>2. local_percentage \in 0..50
  BY <1>1, FirstPercentageFacts
<1>3. mixed \in BOOLEAN
  BY DEF Init
<1>4. 0 \in 0..(2 * NumPolls) /\ 0 <= NumPolls
  BY PollsAssumption
<1> QED
  BY <1>2, <1>3, <1>4, SegmentAssumption DEF Init, Bounded, TypeOK, Wanted

LEMMA BoundedPlace ==
  ASSUME Bounded, Place
  PROVE  Bounded'
<1>1. pc = "place" /\ nodes \in Nat \ {0, 1} /\ local_percentage \in 0..100
      /\ nodes * local_percentage >= 100
  BY NodesAssumption DEF Place, RatioValid, Bounded, TypeOK
<1>2. /\ local_from' \in {Interleaved(nodes, local_percentage),
                         Interleaved(nodes, local_percentage) - 1}
      /\ local_from' >= 0 \/ local_from' = Interleaved(nodes, local_percentage)
  BY DEF Place, InterleavedPages, Interleaved
<1>3. local_from' \in 0..SegmentPages
  <2>1. Interleaved(nodes, local_percentage) \in 0..SegmentPages
    BY <1>1, InterleavedFits
  <2> QED
    BY <1>2, <2>1, SegmentAssumption
<1>4. /\ inForce' = local_percentage /\ lastRead' = "before" /\ checks' = 0 /\ samples' = 0
      /\ mixed' = FALSE /\ pc' = "baseline"
      /\ UNCHANGED <<nodes, counters, local_percentage, stall_rate, best_stall_rate, measured>>
  BY DEF Place, rates
<1>5. mixed' \in BOOLEAN
  BY <1>4
<1>6. 0 \in 0..(2 * NumPolls) /\ 0 <= NumPolls
  BY PollsAssumption
<1> QED
  BY <1>1, <1>3, <1>4, <1>5, <1>6 DEF Bounded, TypeOK, Wanted

LEMMA BoundedNext == Bounded /\ [Next]_vars => Bounded'
<1> SUFFICES ASSUME Bounded, [Next]_vars
             PROVE  Bounded'
  OBVIOUS
<1> USE PollsAssumption DEF placement, sampling, rates
<1>1. CASE Place
  BY <1>1, BoundedPlace
<1>2. CASE Begin \/ Started \/ ReadingFails \/ BadRatio \/ MbindFails \/ LogFails
  BY <1>2 DEF Bounded, TypeOK, Wanted, Begin, Started, StartCounters, ReadingFails, BadRatio,
    MbindFails, LogFails, StopCounters
<1>3. CASE Test
  BY <1>3 DEF Bounded, TypeOK, Wanted, Test, AdaptationStep
<1>4. CASE Baseline \/ ReadBaseline
  BY <1>4 DEF Bounded, TypeOK, Wanted, Baseline, ReadBaseline, StopCounters, StartCounters
<1>5. CASE Sample
  BY <1>5 DEF Bounded, TypeOK, Wanted, Sample, StopCounters
<1>6. CASE ReadSample
  BY <1>6 DEF Bounded, TypeOK, Wanted, ReadSample, StartCounters
<1>7. CASE FirstAverage
  <2>1. PICK r \in Rates :
          /\ stall_rate' = r /\ measured' = measured \cup {r}
          /\ best_stall_rate' = MinRate(best_stall_rate, r)
    BY <1>7 DEF FirstAverage
  <2>2. best_stall_rate' \in Rates \cup {Infinity} /\ measured' \subseteq Rates
    BY <2>1 DEF MinRate, Bounded, TypeOK
  <2>3. mixed' \in BOOLEAN
    BY <1>7 DEF FirstAverage, Bounded, TypeOK
  <2>4. /\ local_percentage' \in 0..110 /\ samples' \in 0..(2 * NumPolls)
        /\ pc' \notin {"test", "done"} => local_percentage' <= 100
        /\ pc' = "baseline" => samples' = 0
        /\ pc' \in {"baseline", "test"} /\ checks' = 1
    BY <1>7 DEF FirstAverage, Bounded, TypeOK, Wanted, GoOn, AdaptationStep
  <2>5. UNCHANGED <<nodes, counters, inForce, local_from, lastRead>>
    BY <1>7 DEF FirstAverage
  <2> QED
    BY <2>1, <2>2, <2>3, <2>4, <2>5 DEF Bounded, TypeOK, Wanted
<1>8. CASE SecondAverage
  BY <1>8 DEF Bounded, TypeOK, Wanted, SecondAverage, GoOn, AdaptationStep
<1>9. CASE UNCHANGED vars
  BY <1>9 DEF Bounded, TypeOK, Wanted, vars
<1> QED
  BY <1>1, <1>2, <1>3, <1>4, <1>5, <1>6, <1>7, <1>8, <1>9 DEF Next, Step

\* The variables keep their types, for any number of nodes, pages and measurements:
\* the percentage never passes 110, whatever the first one is, and no average takes
\* more measurements than it was asked for.
THEOREM TypeCorrect == Spec => []TypeOK
<1>1. Bounded => TypeOK
  BY DEF Bounded
<1> QED
  BY <1>1, BoundedInit, BoundedNext, PTL DEF Spec
=============================================================================
