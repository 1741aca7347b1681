--------------------------- MODULE StallRateProofs ---------------------------
(***************************************************************************)
(* Proofs about StallRate.  As long as likwid has refused nothing, one     *)
(* thread at a time is in the midst of a reading, although there is no     *)
(* lock, and every measurement refers to one earlier reading of its own    *)
(* average; the first refusal has a reason; a thread that reads alone      *)
(* never reads running counters; and the filter keeps nothing that lies    *)
(* outside the undisturbed measurements.                                   *)
(***************************************************************************)
EXTENDS StallRate, FiniteSetTheorems, TLAPS

\* The whole invariant, with what the filter promises.
Inv == IInv /\ KeptWithinGood

LEMMA Initially == Init => Inv
<1> SUFFICES ASSUME Init PROVE Inv
  OBVIOUS
<1>1. TypeOK
  <2>1. /\ polls \in PollChoices /\ outliers \in TrimChoices
        /\ perfmon \in {"off", "running", "stopped"} /\ topology \in {"none", "ready", "freed"}
        /\ initiatialized \in BOOLEAN /\ cpus \in {"none", "allocated", "freed"}
        /\ err \in {0, -1} /\ exited \in BOOLEAN
        /\ refused \in {"no", "stop", "start", "fault"}
    BY DEF Init
  <2>2. /\ readings \in Nat /\ averages \in 0..MaxAverages
        /\ prevStalls \in 0..readings /\ prevClock \in 0..readings
        /\ elapsedStalls \in 0..readings /\ elapsedClock \in 0..readings
    <3>1. 0 \in 0..MaxAverages /\ 0 \in 0..0
      BY ChoicesAssumption
    <3> QED BY <3>1 DEF Init
  <2>3. /\ pc \in [Threads -> Between \cup Leaving \cup
                {"load", "idle", "stop", "started", "testStart", "filter", "done"}]
        /\ kind \in [Threads -> {"elapsed", "baseline", "sample"}]
    BY DEF Init
  <2>4. /\ reading \in [Threads -> 0..readings] /\ returned \in [Threads -> {0, -1}]
        /\ taken \in [Threads -> Nat]
        /\ began \in [Threads -> 0..readings]
    BY DEF Init
  <2>5. /\ good \in [Threads -> SUBSET Rates] /\ kept \in [Threads -> SUBSET Rates]
        /\ since \in [Threads -> SUBSET ((0..readings) \X (0..readings))]
    BY Zenon DEF Init
  <2> QED BY <2>1, <2>2, <2>3, <2>4, <2>5 DEF TypeOK
<1>2. OwnSteps
  BY ThreadsAssumption DEF Init, OwnSteps, Threads
<1>3. NoFailure /\ AtMostOne /\ StoppedWhileReading
  BY ThreadsAssumption DEF Init, NoFailure, AtMostOne, StoppedWhileReading, Between, Leaving, Threads
<1>4. StaticsTogether /\ BaselineStored /\ WholeSamples /\ KeptWithinGood
  BY ThreadsAssumption DEF Init, StaticsTogether, BaselineStored, WholeSamples, KeptWithinGood, Threads
<1> QED BY <1>1, <1>2, <1>3, <1>4 DEF Inv, IInv, Undisturbed

\* With d at most as many of the measurements as are left out at an end, one of any
\* m + 1 places of the sorted measurements holds one that is not in d.
LEMMA OneUndisturbed ==
  ASSUME NEW n \in Nat, NEW m \in Nat,
         NEW d \in SUBSET (1..n), Cardinality(d) <= m,
         NEW p \in [1..n -> 1..n],
         \A i, j \in 1..n : i # j => p[i] # p[j]
  PROVE  \A from, to \in 1..n : to - from + 1 > m => \E j \in from..to : p[j] \notin d
<1> SUFFICES ASSUME NEW from \in 1..n, NEW to \in 1..n, to - from + 1 > m,
                    \A j \in from..to : p[j] \in d
             PROVE  FALSE
  OBVIOUS
<1>1. IsFiniteSet(from..to) /\ Cardinality(from..to) = to - from + 1
  <2>1. from \in Int /\ to \in Int /\ ~(from > to)
    OBVIOUS
  <2> QED BY <2>1, FS_Interval
<1>2. IsFiniteSet(1..n)
  BY FS_Interval
<1>3. IsFiniteSet(d) /\ Cardinality(d) \in Nat
  BY <1>2, FS_Subset, FS_CardinalityType
<1>4. Cardinality(d) < Cardinality(from..to)
  BY <1>1, <1>3
<1>5. from..to \subseteq 1..n
  OBVIOUS
<1> DEFINE f == [j \in from..to |-> p[j]]
<1>6. f \in [from..to -> d]
  OBVIOUS
<1>7. \E x, y \in from..to : x # y /\ f[x] = f[y]
  <2> HIDE DEF f
  <2> QED BY <1>1, <1>3, <1>4, <1>6, FS_PigeonHole
<1>8. PICK x \in from..to, y \in from..to : x # y /\ p[x] = p[y]
  BY <1>7
<1> QED BY <1>5, <1>8

\* What the filter leaves lies between undisturbed measurements.
LEMMA TrimmedWithin ==
  ASSUME NEW n \in Nat, NEW m \in Nat, NEW v \in [1..n -> Nat],
         NEW d \in SUBSET (1..n), Cardinality(d) <= m,
         NEW p \in [1..n -> 1..n], Sorts(p, v),
         NEW i \in (m + 1)..(n - m)
  PROVE  \E a, b \in {v[k] : k \in (1..n) \ d} : a <= v[p[i]] /\ v[p[i]] <= b
<1>1. /\ \A j, k \in 1..n : j # k => p[j] # p[k]
      /\ \A j, k \in 1..n : j < k => v[p[j]] <= v[p[k]]
  BY DEF Sorts
<1>2. i \in 1..n /\ 1 \in 1..n /\ n \in 1..n /\ i - 1 + 1 > m /\ n - i + 1 > m
  OBVIOUS
<1>a. \A from, to \in 1..n : to - from + 1 > m => \E j \in from..to : p[j] \notin d
  BY <1>1, OneUndisturbed
<1>3. PICK j \in 1..i : p[j] \notin d
  BY <1>2, <1>a
<1>4. PICK k \in i..n : p[k] \notin d
  BY <1>2, <1>a
<1>5. j \in 1..n /\ k \in 1..n /\ p[j] \in (1..n) \ d /\ p[k] \in (1..n) \ d
  <2>1. j \in 1..n /\ k \in 1..n
    BY <1>2
  <2>2. p[j] \in 1..n /\ p[k] \in 1..n
    BY <2>1
  <2> QED BY <1>3, <1>4, <2>1, <2>2
<1>6. v[p[j]] \in Nat /\ v[p[i]] \in Nat /\ v[p[k]] \in Nat
  BY <1>2, <1>5
<1>7. v[p[j]] <= v[p[i]]
  <2>1. CASE j = i
    BY <1>6, <2>1
  <2>2. CASE j < i
    BY <1>1, <1>2, <1>5, <2>2
  <2> QED BY <2>1, <2>2, <1>2
<1>8. v[p[i]] <= v[p[k]]
  <2>1. CASE i = k
    BY <1>6, <2>1
  <2>2. CASE i < k
    BY <1>1, <1>2, <1>5, <2>2
  <2> QED BY <2>1, <2>2, <1>2
<1> QED BY <1>5, <1>7, <1>8

\* Setting the counters up finds no thread of a mode.
LEMMA InitializeLikwidKeeps ==
  ASSUME Inv, InitializeLikwid PROVE Inv'
<1> USE DEF Inv, IInv
<1>1. TypeOK'
  BY ChoicesAssumption, ThreadsAssumption DEF InitializeLikwid, TypeOK, Between,
    Leaving, Threads, Goto, options, likwid, setup, statics, results, average, filter
<1>2. OwnSteps'
  BY ThreadsAssumption DEF InitializeLikwid, TypeOK, OwnSteps, Leaving, Threads, Goto,
    options, likwid, setup, statics, results, average, filter
<1>3. ASSUME refused' = "no" PROVE Undisturbed'
  <2>1. refused = "no" /\ Undisturbed
    BY <1>3 DEF InitializeLikwid, options, likwid, setup, statics, results, average,
      filter
  <2> USE DEF Undisturbed
  <2>2. NoFailure'
    BY <1>3, <2>1 DEF InitializeLikwid, TypeOK, NoFailure, Leaving, Threads, Goto,
      options, likwid, setup, statics, results, average, filter
  <2>3. AtMostOne'
    BY <1>3, <2>1, ThreadsAssumption DEF InitializeLikwid, TypeOK, NoFailure, AtMostOne,
      StoppedWhileReading, Between, Threads, Goto, options, likwid, setup, statics,
      results, average, filter
  <2>4. StoppedWhileReading'
    BY <1>3, <2>1, ThreadsAssumption DEF InitializeLikwid, TypeOK, OwnSteps, NoFailure,
      AtMostOne, StoppedWhileReading, Between, Threads, Goto, options, likwid, setup,
      statics, results, average, filter
  <2>5. StaticsTogether'
    BY <1>3, <2>1, ThreadsAssumption DEF InitializeLikwid, TypeOK, OwnSteps, AtMostOne,
      StoppedWhileReading, StaticsTogether, Between, Threads, Goto, options, likwid,
      setup, statics, results, average, filter
  <2>6. BaselineStored'
    BY <1>3, <2>1, ThreadsAssumption DEF InitializeLikwid, TypeOK, OwnSteps, AtMostOne,
      StoppedWhileReading, StaticsTogether, BaselineStored, Between, Threads, Goto,
      options, likwid, setup, statics, results, average, filter
  <2>7. WholeSamples'
    BY <1>3, <2>1, ThreadsAssumption DEF InitializeLikwid, TypeOK, OwnSteps, AtMostOne,
      StoppedWhileReading, StaticsTogether, BaselineStored, WholeSamples, Between,
      Threads, Goto, options, likwid, setup, statics, results, average, filter
  <2> QED BY <2>2, <2>3, <2>4, <2>5, <2>6, <2>7
<1>4. KeptWithinGood'
  BY DEF InitializeLikwid, KeptWithinGood, filter
<1> QED BY <1>1, <1>2, <1>3, <1>4

\* Without counters the readings begin all the same.
LEMMA LoadWithoutCountersKeeps ==
  ASSUME Inv, LoadWithoutCounters PROVE Inv'
<1> USE DEF Inv, IInv
<1>1. TypeOK'
  BY ChoicesAssumption, ThreadsAssumption DEF LoadWithoutCounters, TypeOK, Between,
    Leaving, Threads, Goto, options, likwid, setup, statics, results, average, filter
<1>2. OwnSteps'
  BY ThreadsAssumption DEF LoadWithoutCounters, TypeOK, OwnSteps, Leaving, Threads,
    Goto, options, likwid, setup, statics, results, average, filter
<1>3. ASSUME refused' = "no" PROVE Undisturbed'
  <2>1. refused = "no" /\ Undisturbed
    BY <1>3 DEF LoadWithoutCounters, options, likwid, setup, statics, results, average,
      filter
  <2> USE DEF Undisturbed
  <2>2. NoFailure'
    BY <1>3, <2>1 DEF LoadWithoutCounters, TypeOK, NoFailure, Leaving, Threads, Goto,
      options, likwid, setup, statics, results, average, filter
  <2>3. AtMostOne'
    BY <1>3, <2>1, ThreadsAssumption DEF LoadWithoutCounters, TypeOK, NoFailure,
      AtMostOne, StoppedWhileReading, Between, Threads, Goto, options, likwid, setup,
      statics, results, average, filter
  <2>4. StoppedWhileReading'
    BY <1>3, <2>1, ThreadsAssumption DEF LoadWithoutCounters, TypeOK, OwnSteps,
      NoFailure, AtMostOne, StoppedWhileReading, Between, Threads, Goto, options,
      likwid, setup, statics, results, average, filter
  <2>5. StaticsTogether'
    BY <1>3, <2>1, ThreadsAssumption DEF LoadWithoutCounters, TypeOK, OwnSteps,
      AtMostOne, StoppedWhileReading, StaticsTogether, Between, Threads, Goto, options,
      likwid, setup, statics, results, average, filter
  <2>6. BaselineStored'
    BY <1>3, <2>1, ThreadsAssumption DEF LoadWithoutCounters, TypeOK, OwnSteps,
      AtMostOne, StoppedWhileReading, StaticsTogether, BaselineStored, Between, Threads,
      Goto, options, likwid, setup, statics, results, average, filter
  <2>7. WholeSamples'
    BY <1>3, <2>1, ThreadsAssumption DEF LoadWithoutCounters, TypeOK, OwnSteps,
      AtMostOne, StoppedWhileReading, StaticsTogether, BaselineStored, WholeSamples,
      Between, Threads, Goto, options, likwid, setup, statics, results, average, filter
  <2> QED BY <2>2, <2>3, <2>4, <2>5, <2>6, <2>7
<1>4. KeptWithinGood'
  BY DEF LoadWithoutCounters, KeptWithinGood, filter
<1> QED BY <1>1, <1>2, <1>3, <1>4

\* The application goes to stop the counters for good ...
LEMMA StopAllCountersKeeps ==
  ASSUME Inv, StopAllCounters PROVE Inv'
<1> USE DEF Inv, IInv
<1>1. TypeOK'
  BY ChoicesAssumption, ThreadsAssumption DEF StopAllCounters, TypeOK, Between,
    Leaving, Threads, Goto, options, likwid, setup, statics, results, average, filter
<1>2. OwnSteps'
  BY ThreadsAssumption DEF StopAllCounters, TypeOK, OwnSteps, Leaving, Threads, Goto,
    options, likwid, setup, statics, results, average, filter
<1>3. ASSUME refused' = "no" PROVE Undisturbed'
  <2>1. refused = "no" /\ Undisturbed
    BY <1>3 DEF StopAllCounters, options, likwid, setup, statics, results, average,
      filter
  <2> USE DEF Undisturbed
  <2>2. NoFailure'
    BY <1>3, <2>1 DEF StopAllCounters, TypeOK, NoFailure, Leaving, Threads, Goto,
      options, likwid, setup, statics, results, average, filter
  <2>3. AtMostOne'
    BY <1>3, <2>1, ThreadsAssumption DEF StopAllCounters, TypeOK, NoFailure, AtMostOne,
      StoppedWhileReading, Between, Threads, Goto, options, likwid, setup, statics,
      results, average, filter
  <2>4. StoppedWhileReading'
    BY <1>3, <2>1, ThreadsAssumption DEF StopAllCounters, TypeOK, OwnSteps, NoFailure,
      AtMostOne, StoppedWhileReading, Between, Threads, Goto, options, likwid, setup,
      statics, results, average, filter
  <2>5. StaticsTogether'
    BY <1>3, <2>1, ThreadsAssumption DEF StopAllCounters, TypeOK, OwnSteps, AtMostOne,
      StoppedWhileReading, StaticsTogether, Between, Threads, Goto, options, likwid,
      setup, statics, results, average, filter
  <2>6. BaselineStored'
    BY <1>3, <2>1, ThreadsAssumption DEF StopAllCounters, TypeOK, OwnSteps, AtMostOne,
      StoppedWhileReading, StaticsTogether, BaselineStored, Between, Threads, Goto,
      options, likwid, setup, statics, results, average, filter
  <2>7. WholeSamples'
    BY <1>3, <2>1, ThreadsAssumption DEF StopAllCounters, TypeOK, OwnSteps, AtMostOne,
      StoppedWhileReading, StaticsTogether, BaselineStored, WholeSamples, Between,
      Threads, Goto, options, likwid, setup, statics, results, average, filter
  <2> QED BY <2>2, <2>3, <2>4, <2>5, <2>6, <2>7
<1>4. KeptWithinGood'
  BY DEF StopAllCounters, KeptWithinGood, filter
<1> QED BY <1>1, <1>2, <1>3, <1>4

\* ... gives the array back ...
LEMMA FreeCpusKeeps ==
  ASSUME Inv, FreeCpus PROVE Inv'
<1> USE DEF Inv, IInv
<1>1. TypeOK'
  BY ChoicesAssumption, ThreadsAssumption DEF FreeCpus, TypeOK, Between, Leaving,
    Threads, Goto, options, likwid, statics, results, average, filter
<1>2. OwnSteps'
  BY ThreadsAssumption DEF FreeCpus, TypeOK, OwnSteps, Leaving, Threads, Goto,
    options, likwid, statics, results, average, filter
<1>3. ASSUME refused' = "no" PROVE Undisturbed'
  <2>1. refused = "no" /\ Undisturbed
    BY <1>3 DEF FreeCpus, options, likwid, statics, results, average, filter
  <2> USE DEF Undisturbed
  <2>2. NoFailure'
    BY <1>3, <2>1 DEF FreeCpus, TypeOK, NoFailure, Leaving, Threads, Goto, options,
      likwid, statics, results, average, filter
  <2>3. AtMostOne'
    BY <1>3, <2>1, ThreadsAssumption DEF FreeCpus, TypeOK, NoFailure, AtMostOne,
      StoppedWhileReading, Between, Threads, Goto, options, likwid, statics, results,
      average, filter
  <2>4. StoppedWhileReading'
    BY <1>3, <2>1, ThreadsAssumption DEF FreeCpus, TypeOK, OwnSteps, NoFailure,
      AtMostOne, StoppedWhileReading, Between, Threads, Goto, options, likwid, statics,
      results, average, filter
  <2>5. StaticsTogether'
    BY <1>3, <2>1, ThreadsAssumption DEF FreeCpus, TypeOK, OwnSteps, AtMostOne,
      StoppedWhileReading, StaticsTogether, Between, Threads, Goto, options, likwid,
      statics, results, average, filter
  <2>6. BaselineStored'
    BY <1>3, <2>1, ThreadsAssumption DEF FreeCpus, TypeOK, OwnSteps, AtMostOne,
      StoppedWhileReading, StaticsTogether, BaselineStored, Between, Threads, Goto,
      options, likwid, statics, results, average, filter
  <2>7. WholeSamples'
    BY <1>3, <2>1, ThreadsAssumption DEF FreeCpus, TypeOK, OwnSteps, AtMostOne,
      StoppedWhileReading, StaticsTogether, BaselineStored, WholeSamples, Between,
      Threads, Goto, options, likwid, statics, results, average, filter
  <2> QED BY <2>2, <2>3, <2>4, <2>5, <2>6, <2>7
<1>4. KeptWithinGood'
  BY DEF FreeCpus, KeptWithinGood, filter
<1> QED BY <1>1, <1>2, <1>3, <1>4

\* ... and likwid; nobody else is reading then.
LEMMA GiveBackKeeps ==
  ASSUME Inv, GiveBack PROVE Inv'
<1> USE DEF Inv, IInv
<1>1. TypeOK'
  BY ChoicesAssumption, ThreadsAssumption DEF GiveBack, TypeOK, Between, Leaving,
    Threads, Goto, options, setup, statics, results, average, filter
<1>2. OwnSteps'
  BY ThreadsAssumption DEF GiveBack, TypeOK, OwnSteps, Leaving, Threads, Goto,
    options, setup, statics, results, average, filter
<1>3. ASSUME refused' = "no" PROVE Undisturbed'
  <2>1. refused = "no" /\ Undisturbed
    BY <1>3 DEF GiveBack, options, setup, statics, results, average, filter
  <2> USE DEF Undisturbed
  <2>2. NoFailure'
    BY <1>3, <2>1 DEF GiveBack, TypeOK, NoFailure, Leaving, Threads, Goto, options,
      setup, statics, results, average, filter
  <2>3. AtMostOne'
    BY <1>3, <2>1, ThreadsAssumption DEF GiveBack, TypeOK, NoFailure, AtMostOne,
      StoppedWhileReading, Between, Threads, Goto, options, setup, statics, results,
      average, filter
  <2>4. StoppedWhileReading'
    BY <1>3, <2>1, ThreadsAssumption DEF GiveBack, TypeOK, OwnSteps, NoFailure,
      AtMostOne, StoppedWhileReading, Between, Threads, Goto, options, setup, statics,
      results, average, filter
  <2>5. StaticsTogether'
    BY <1>3, <2>1, ThreadsAssumption DEF GiveBack, TypeOK, OwnSteps, AtMostOne,
      StoppedWhileReading, StaticsTogether, Between, Threads, Goto, options, setup,
      statics, results, average, filter
  <2>6. BaselineStored'
    BY <1>3, <2>1, ThreadsAssumption DEF GiveBack, TypeOK, OwnSteps, AtMostOne,
      StoppedWhileReading, StaticsTogether, BaselineStored, Between, Threads, Goto,
      options, setup, statics, results, average, filter
  <2>7. WholeSamples'
    BY <1>3, <2>1, ThreadsAssumption DEF GiveBack, TypeOK, OwnSteps, AtMostOne,
      StoppedWhileReading, StaticsTogether, BaselineStored, WholeSamples, Between,
      Threads, Goto, options, setup, statics, results, average, filter
  <2> QED BY <2>2, <2>3, <2>4, <2>5, <2>6, <2>7
<1>4. KeptWithinGood'
  BY DEF GiveBack, KeptWithinGood, filter
<1> QED BY <1>1, <1>2, <1>3, <1>4

\* The counters are stopped only while no reading is under way.
LEMMA StopCountersKeeps ==
  ASSUME Inv, NEW t \in Threads, StopCounters(t) PROVE Inv'
<1> USE DEF Inv, IInv
<1>1. TypeOK'
  BY ChoicesAssumption, ThreadsAssumption DEF StopCounters, TypeOK, Between, Leaving,
    Threads, Goto, options, setup, statics, average, filter, Calls
<1>2. OwnSteps'
  BY ThreadsAssumption DEF StopCounters, TypeOK, OwnSteps, Leaving, Threads, Goto,
    options, setup, statics, average, filter, Calls
<1>3. ASSUME refused' = "no" PROVE Undisturbed'
  <2>1. refused = "no" /\ Undisturbed
    BY <1>3 DEF StopCounters, options, setup, statics, average, filter, Calls
  <2> USE DEF Undisturbed
  <2>2. NoFailure'
    BY <1>3, <2>1 DEF StopCounters, TypeOK, NoFailure, Leaving, Threads, Goto, options,
      setup, statics, average, filter, Calls
  <2>3. AtMostOne'
    BY <1>3, <2>1, ThreadsAssumption DEF StopCounters, TypeOK, NoFailure, AtMostOne,
      StoppedWhileReading, Between, Threads, Goto, options, setup, statics, average,
      filter, Calls
  <2>4. StoppedWhileReading'
    BY <1>3, <2>1, ThreadsAssumption DEF StopCounters, TypeOK, OwnSteps, NoFailure,
      AtMostOne, StoppedWhileReading, Between, Threads, Goto, options, setup, statics,
      average, filter, Calls
  <2>5. StaticsTogether'
    BY <1>3, <2>1, ThreadsAssumption DEF StopCounters, TypeOK, OwnSteps, AtMostOne,
      StoppedWhileReading, StaticsTogether, Between, Threads, Goto, options, setup,
      statics, average, filter, Calls
  <2>6. BaselineStored'
    BY <1>3, <2>1, ThreadsAssumption DEF StopCounters, TypeOK, OwnSteps, AtMostOne,
      StoppedWhileReading, StaticsTogether, BaselineStored, Between, Threads, Goto,
      options, setup, statics, average, filter, Calls
  <2>7. WholeSamples'
    BY <1>3, <2>1, ThreadsAssumption DEF StopCounters, TypeOK, OwnSteps, AtMostOne,
      StoppedWhileReading, StaticsTogether, BaselineStored, WholeSamples, Between,
      Threads, Goto, options, setup, statics, average, filter, Calls
  <2> QED BY <2>2, <2>3, <2>4, <2>5, <2>6, <2>7
<1>4. KeptWithinGood'
  BY DEF StopCounters, KeptWithinGood, filter
<1> QED BY <1>1, <1>2, <1>3, <1>4

\* They are still stopped when they are started again.
LEMMA StartCountersKeeps ==
  ASSUME Inv, NEW t \in Readers, StartCounters(t) PROVE Inv'
<1> USE DEF Inv, IInv
<1>1. TypeOK'
  BY ChoicesAssumption, ThreadsAssumption DEF StartCounters, TypeOK, Between, Leaving,
    Threads, Goto, options, setup, statics, average, filter, Calls
<1>2. OwnSteps'
  BY ThreadsAssumption DEF StartCounters, TypeOK, OwnSteps, Leaving, Threads, Goto,
    options, setup, statics, average, filter, Calls
<1>3. ASSUME refused' = "no" PROVE Undisturbed'
  <2>1. refused = "no" /\ Undisturbed
    BY <1>3 DEF StartCounters, options, setup, statics, average, filter, Calls
  <2> USE DEF Undisturbed
  <2>2. NoFailure'
    BY <1>3, <2>1 DEF StartCounters, TypeOK, NoFailure, Leaving, Threads, Goto, options,
      setup, statics, average, filter, Calls
  <2>3. AtMostOne'
    BY <1>3, <2>1, ThreadsAssumption DEF StartCounters, TypeOK, NoFailure, AtMostOne,
      StoppedWhileReading, Between, Threads, Goto, options, setup, statics, average,
      filter, Calls
  <2>4. StoppedWhileReading'
    BY <1>3, <2>1, ThreadsAssumption DEF StartCounters, TypeOK, OwnSteps, NoFailure,
      AtMostOne, StoppedWhileReading, Between, Threads, Goto, options, setup, statics,
      average, filter, Calls
  <2>5. StaticsTogether'
    BY <1>3, <2>1, ThreadsAssumption DEF StartCounters, TypeOK, OwnSteps, AtMostOne,
      StoppedWhileReading, StaticsTogether, Between, Threads, Goto, options, setup,
      statics, average, filter, Calls
  <2>6. BaselineStored'
    BY <1>3, <2>1, ThreadsAssumption DEF StartCounters, TypeOK, OwnSteps, AtMostOne,
      StoppedWhileReading, StaticsTogether, BaselineStored, Between, Threads, Goto,
      options, setup, statics, average, filter, Calls
  <2>7. WholeSamples'
    BY <1>3, <2>1, ThreadsAssumption DEF StartCounters, TypeOK, OwnSteps, AtMostOne,
      StoppedWhileReading, StaticsTogether, BaselineStored, WholeSamples, Between,
      Threads, Goto, options, setup, statics, average, filter, Calls
  <2> QED BY <2>2, <2>3, <2>4, <2>5, <2>6, <2>7
<1>4. KeptWithinGood'
  BY DEF StartCounters, KeptWithinGood, filter
<1> QED BY <1>1, <1>2, <1>3, <1>4

\* No call has failed, so all of them store the same result ...
LEMMA StoreErrKeeps ==
  ASSUME Inv, NEW t \in Threads, StoreErr(t) PROVE Inv'
<1> USE DEF Inv, IInv
<1>1. TypeOK'
  BY ChoicesAssumption, ThreadsAssumption DEF StoreErr, TypeOK, Between, Leaving,
    Threads, Goto, options, likwid, setup, statics, average, filter
<1>2. OwnSteps'
  BY ThreadsAssumption DEF StoreErr, TypeOK, OwnSteps, Leaving, Threads, Goto,
    options, likwid, setup, statics, average, filter
<1>3. ASSUME refused' = "no" PROVE Undisturbed'
  <2>1. refused = "no" /\ Undisturbed
    BY <1>3 DEF StoreErr, options, likwid, setup, statics, average, filter
  <2> USE DEF Undisturbed
  <2>2. NoFailure'
    BY <1>3, <2>1 DEF StoreErr, TypeOK, NoFailure, Leaving, Threads, Goto, options,
      likwid, setup, statics, average, filter
  <2>3. AtMostOne'
    BY <1>3, <2>1, ThreadsAssumption DEF StoreErr, TypeOK, NoFailure, AtMostOne,
      StoppedWhileReading, Between, Threads, Goto, options, likwid, setup, statics,
      average, filter
  <2>4. StoppedWhileReading'
    BY <1>3, <2>1, ThreadsAssumption DEF StoreErr, TypeOK, OwnSteps, NoFailure,
      AtMostOne, StoppedWhileReading, Between, Threads, Goto, options, likwid, setup,
      statics, average, filter
  <2>5. StaticsTogether'
    BY <1>3, <2>1, ThreadsAssumption DEF StoreErr, TypeOK, OwnSteps, AtMostOne,
      StoppedWhileReading, StaticsTogether, Between, Threads, Goto, options, likwid,
      setup, statics, average, filter
  <2>6. BaselineStored'
    BY <1>3, <2>1, ThreadsAssumption DEF StoreErr, TypeOK, OwnSteps, AtMostOne,
      StoppedWhileReading, StaticsTogether, BaselineStored, Between, Threads, Goto,
      options, likwid, setup, statics, average, filter
  <2>7. WholeSamples'
    BY <1>3, <2>1, ThreadsAssumption DEF StoreErr, TypeOK, OwnSteps, AtMostOne,
      StoppedWhileReading, StaticsTogether, BaselineStored, WholeSamples, Between,
      Threads, Goto, options, likwid, setup, statics, average, filter
  <2> QED BY <2>2, <2>3, <2>4, <2>5, <2>6, <2>7
<1>4. KeptWithinGood'
  BY DEF StoreErr, KeptWithinGood, filter
<1> QED BY <1>1, <1>2, <1>3, <1>4

\* ... and every test finds it.
LEMMA TestStopKeeps ==
  ASSUME Inv, NEW t \in Threads, TestStop(t) PROVE Inv'
<1> USE DEF Inv, IInv
<1>1. TypeOK'
  BY ChoicesAssumption, ThreadsAssumption DEF TestStop, TypeOK, Between, Leaving,
    Threads, Goto, options, likwid, setup, statics, results, average, filter
<1>2. OwnSteps'
  BY ThreadsAssumption DEF TestStop, TypeOK, OwnSteps, Leaving, Threads, Goto,
    options, likwid, setup, statics, results, average, filter
<1>3. ASSUME refused' = "no" PROVE Undisturbed'
  <2>1. refused = "no" /\ Undisturbed
    BY <1>3 DEF TestStop, options, likwid, setup, statics, results, average, filter
  <2> USE DEF Undisturbed
  <2>2. NoFailure'
    BY <1>3, <2>1 DEF TestStop, TypeOK, NoFailure, Leaving, Threads, Goto, options,
      likwid, setup, statics, results, average, filter
  <2>3. AtMostOne'
    BY <1>3, <2>1, ThreadsAssumption DEF TestStop, TypeOK, NoFailure, AtMostOne,
      StoppedWhileReading, Between, Threads, Goto, options, likwid, setup, statics,
      results, average, filter
  <2>4. StoppedWhileReading'
    BY <1>3, <2>1, ThreadsAssumption DEF TestStop, TypeOK, OwnSteps, NoFailure,
      AtMostOne, StoppedWhileReading, Between, Threads, Goto, options, likwid, setup,
      statics, results, average, filter
  <2>5. StaticsTogether'
    BY <1>3, <2>1, ThreadsAssumption DEF TestStop, TypeOK, OwnSteps, AtMostOne,
      StoppedWhileReading, StaticsTogether, Between, Threads, Goto, options, likwid,
      setup, statics, results, average, filter
  <2>6. BaselineStored'
    BY <1>3, <2>1, ThreadsAssumption DEF TestStop, TypeOK, OwnSteps, AtMostOne,
      StoppedWhileReading, StaticsTogether, BaselineStored, Between, Threads, Goto,
      options, likwid, setup, statics, results, average, filter
  <2>7. WholeSamples'
    BY <1>3, <2>1, ThreadsAssumption DEF TestStop, TypeOK, OwnSteps, AtMostOne,
      StoppedWhileReading, StaticsTogether, BaselineStored, WholeSamples, Between,
      Threads, Goto, options, likwid, setup, statics, results, average, filter
  <2> QED BY <2>2, <2>3, <2>4, <2>5, <2>6, <2>7
<1>4. KeptWithinGood'
  BY DEF TestStop, KeptWithinGood, filter
<1> QED BY <1>1, <1>2, <1>3, <1>4

\* A reading that is over has stored counter and clock.
LEMMA TestStartKeeps ==
  ASSUME Inv, NEW t \in Readers, TestStart(t) PROVE Inv'
<1> USE DEF Inv, IInv
<1>1. TypeOK'
  BY ChoicesAssumption, ThreadsAssumption DEF TestStart, TypeOK, Between, Leaving,
    Threads, Goto, options, likwid, setup, statics, results, average, filter
<1>2. OwnSteps'
  BY ThreadsAssumption DEF TestStart, TypeOK, OwnSteps, Leaving, Threads, Goto,
    options, likwid, setup, statics, results, average, filter
<1>3. ASSUME refused' = "no" PROVE Undisturbed'
  <2>1. refused = "no" /\ Undisturbed
    BY <1>3 DEF TestStart, options, likwid, setup, statics, results, average, filter
  <2> USE DEF Undisturbed
  <2>2. NoFailure'
    BY <1>3, <2>1 DEF TestStart, TypeOK, NoFailure, Leaving, Threads, Goto, options,
      likwid, setup, statics, results, average, filter
  <2>3. AtMostOne'
    BY <1>3, <2>1, ThreadsAssumption DEF TestStart, TypeOK, NoFailure, AtMostOne,
      StoppedWhileReading, Between, Threads, Goto, options, likwid, setup, statics,
      results, average, filter
  <2>4. StoppedWhileReading'
    BY <1>3, <2>1, ThreadsAssumption DEF TestStart, TypeOK, OwnSteps, NoFailure,
      AtMostOne, StoppedWhileReading, Between, Threads, Goto, options, likwid, setup,
      statics, results, average, filter
  <2>5. StaticsTogether'
    BY <1>3, <2>1, ThreadsAssumption DEF TestStart, TypeOK, OwnSteps, AtMostOne,
      StoppedWhileReading, StaticsTogether, Between, Threads, Goto, options, likwid,
      setup, statics, results, average, filter
  <2>6. BaselineStored'
    BY <1>3, <2>1, ThreadsAssumption DEF TestStart, TypeOK, OwnSteps, AtMostOne,
      StoppedWhileReading, StaticsTogether, BaselineStored, Between, Threads, Goto,
      options, likwid, setup, statics, results, average, filter
  <2>7. WholeSamples'
    BY <1>3, <2>1, ThreadsAssumption DEF TestStart, TypeOK, OwnSteps, AtMostOne,
      StoppedWhileReading, StaticsTogether, BaselineStored, WholeSamples, Between,
      Threads, Goto, options, likwid, setup, statics, results, average, filter
  <2> QED BY <2>2, <2>3, <2>4, <2>5, <2>6, <2>7
<1>4. KeptWithinGood'
  BY DEF TestStart, KeptWithinGood, filter
<1> QED BY <1>1, <1>2, <1>3, <1>4

\* A measurement refers to the last reading, which is one of this average.
LEMMA GetResultKeeps ==
  ASSUME Inv, NEW t \in Readers, GetResult(t) PROVE Inv'
<1> USE DEF Inv, IInv
<1>1. TypeOK'
  BY ChoicesAssumption, ThreadsAssumption DEF GetResult, TypeOK, Between, Leaving,
    Threads, Goto, options, likwid, setup, results, filter
<1>2. OwnSteps'
  BY ThreadsAssumption DEF GetResult, TypeOK, OwnSteps, Leaving, Threads, Goto,
    options, likwid, setup, results, filter
<1>3. ASSUME refused' = "no" PROVE Undisturbed'
  <2>1. refused = "no" /\ Undisturbed
    BY <1>3 DEF GetResult, options, likwid, setup, results, filter
  <2> USE DEF Undisturbed
  <2>2. NoFailure'
    BY <1>3, <2>1 DEF GetResult, TypeOK, NoFailure, Leaving, Threads, Goto, options,
      likwid, setup, results, filter
  <2>3. AtMostOne'
    BY <1>3, <2>1, ThreadsAssumption DEF GetResult, TypeOK, NoFailure, AtMostOne,
      StoppedWhileReading, Between, Threads, Goto, options, likwid, setup, results,
      filter
  <2>4. StoppedWhileReading'
    BY <1>3, <2>1, ThreadsAssumption DEF GetResult, TypeOK, OwnSteps, NoFailure,
      AtMostOne, StoppedWhileReading, Between, Threads, Goto, options, likwid, setup,
      results, filter
  <2>5. StaticsTogether'
    BY <1>3, <2>1, ThreadsAssumption DEF GetResult, TypeOK, OwnSteps, AtMostOne,
      StoppedWhileReading, StaticsTogether, Between, Threads, Goto, options, likwid,
      setup, results, filter
  <2>6. BaselineStored'
    BY <1>3, <2>1, ThreadsAssumption DEF GetResult, TypeOK, OwnSteps, AtMostOne,
      StoppedWhileReading, StaticsTogether, BaselineStored, Between, Threads, Goto,
      options, likwid, setup, results, filter
  <2>7. WholeSamples'
    BY <1>3, <2>1, ThreadsAssumption DEF GetResult, TypeOK, OwnSteps, AtMostOne,
      StoppedWhileReading, StaticsTogether, BaselineStored, WholeSamples, Between,
      Threads, Goto, options, likwid, setup, results, filter
  <2> QED BY <2>2, <2>3, <2>4, <2>5, <2>6, <2>7
<1>4. KeptWithinGood'
  BY DEF GetResult, KeptWithinGood, filter
<1> QED BY <1>1, <1>2, <1>3, <1>4

\* The counter is stored ...
LEMMA StoreStallsKeeps ==
  ASSUME Inv, NEW t \in Readers, StoreStalls(t) PROVE Inv'
<1> USE DEF Inv, IInv
<1>1. TypeOK'
  BY ChoicesAssumption, ThreadsAssumption DEF StoreStalls, TypeOK, Between, Leaving,
    Threads, Goto, options, likwid, setup, results, average, filter
<1>2. OwnSteps'
  BY ThreadsAssumption DEF StoreStalls, TypeOK, OwnSteps, Leaving, Threads, Goto,
    options, likwid, setup, results, average, filter
<1>3. ASSUME refused' = "no" PROVE Undisturbed'
  <2>1. refused = "no" /\ Undisturbed
    BY <1>3 DEF StoreStalls, options, likwid, setup, results, average, filter
  <2> USE DEF Undisturbed
  <2>2. NoFailure'
    BY <1>3, <2>1 DEF StoreStalls, TypeOK, NoFailure, Leaving, Threads, Goto, options,
      likwid, setup, results, average, filter
  <2>3. AtMostOne'
    BY <1>3, <2>1, ThreadsAssumption DEF StoreStalls, TypeOK, NoFailure, AtMostOne,
      StoppedWhileReading, Between, Threads, Goto, options, likwid, setup, results,
      average, filter
  <2>4. StoppedWhileReading'
    BY <1>3, <2>1, ThreadsAssumption DEF StoreStalls, TypeOK, OwnSteps, NoFailure,
      AtMostOne, StoppedWhileReading, Between, Threads, Goto, options, likwid, setup,
      results, average, filter
  <2>5. StaticsTogether'
    BY <1>3, <2>1, ThreadsAssumption DEF StoreStalls, TypeOK, OwnSteps, AtMostOne,
      StoppedWhileReading, StaticsTogether, Between, Threads, Goto, options, likwid,
      setup, results, average, filter
  <2>6. BaselineStored'
    BY <1>3, <2>1, ThreadsAssumption DEF StoreStalls, TypeOK, OwnSteps, AtMostOne,
      StoppedWhileReading, StaticsTogether, BaselineStored, Between, Threads, Goto,
      options, likwid, setup, results, average, filter
  <2>7. WholeSamples'
    BY <1>3, <2>1, ThreadsAssumption DEF StoreStalls, TypeOK, OwnSteps, AtMostOne,
      StoppedWhileReading, StaticsTogether, BaselineStored, WholeSamples, Between,
      Threads, Goto, options, likwid, setup, results, average, filter
  <2> QED BY <2>2, <2>3, <2>4, <2>5, <2>6, <2>7
<1>4. KeptWithinGood'
  BY DEF StoreStalls, KeptWithinGood, filter
<1> QED BY <1>1, <1>2, <1>3, <1>4

\* ... and then the clock of the same reading.
LEMMA StoreClockKeeps ==
  ASSUME Inv, NEW t \in Readers, StoreClock(t) PROVE Inv'
<1> USE DEF Inv, IInv
<1>1. TypeOK'
  BY ChoicesAssumption, ThreadsAssumption DEF StoreClock, TypeOK, Between, Leaving,
    Threads, Goto, options, likwid, setup, results, average, filter
<1>2. OwnSteps'
  BY ThreadsAssumption DEF StoreClock, TypeOK, OwnSteps, Leaving, Threads, Goto,
    options, likwid, setup, results, average, filter
<1>3. ASSUME refused' = "no" PROVE Undisturbed'
  <2>1. refused = "no" /\ Undisturbed
    BY <1>3 DEF StoreClock, options, likwid, setup, results, average, filter
  <2> USE DEF Undisturbed
  <2>2. NoFailure'
    BY <1>3, <2>1 DEF StoreClock, TypeOK, NoFailure, Leaving, Threads, Goto, options,
      likwid, setup, results, average, filter
  <2>3. AtMostOne'
    BY <1>3, <2>1, ThreadsAssumption DEF StoreClock, TypeOK, NoFailure, AtMostOne,
      StoppedWhileReading, Between, Threads, Goto, options, likwid, setup, results,
      average, filter
  <2>4. StoppedWhileReading'
    BY <1>3, <2>1, ThreadsAssumption DEF StoreClock, TypeOK, OwnSteps, NoFailure,
      AtMostOne, StoppedWhileReading, Between, Threads, Goto, options, likwid, setup,
      results, average, filter
  <2>5. StaticsTogether'
    BY <1>3, <2>1, ThreadsAssumption DEF StoreClock, TypeOK, OwnSteps, AtMostOne,
      StoppedWhileReading, StaticsTogether, Between, Threads, Goto, options, likwid,
      setup, results, average, filter
  <2>6. BaselineStored'
    BY <1>3, <2>1, ThreadsAssumption DEF StoreClock, TypeOK, OwnSteps, AtMostOne,
      StoppedWhileReading, StaticsTogether, BaselineStored, Between, Threads, Goto,
      options, likwid, setup, results, average, filter
  <2>7. WholeSamples'
    BY <1>3, <2>1, ThreadsAssumption DEF StoreClock, TypeOK, OwnSteps, AtMostOne,
      StoppedWhileReading, StaticsTogether, BaselineStored, WholeSamples, Between,
      Threads, Goto, options, likwid, setup, results, average, filter
  <2> QED BY <2>2, <2>3, <2>4, <2>5, <2>6, <2>7
<1>4. KeptWithinGood'
  BY DEF StoreClock, KeptWithinGood, filter
<1> QED BY <1>1, <1>2, <1>3, <1>4

\* An average begins with no measurement.
LEMMA BeginAverageKeeps ==
  ASSUME Inv, NEW t \in Readers, BeginAverage(t) PROVE Inv'
<1> USE DEF Inv, IInv
<1>1. TypeOK'
  BY ChoicesAssumption, ThreadsAssumption DEF BeginAverage, TypeOK, Between, Leaving,
    Threads, Goto, options, likwid, setup, statics, results, filter
<1>2. OwnSteps'
  BY ThreadsAssumption DEF BeginAverage, TypeOK, OwnSteps, Leaving, Threads, Goto,
    options, likwid, setup, statics, results, filter
<1>3. ASSUME refused' = "no" PROVE Undisturbed'
  <2>1. refused = "no" /\ Undisturbed
    BY <1>3 DEF BeginAverage, options, likwid, setup, statics, results, filter
  <2> USE DEF Undisturbed
  <2>2. NoFailure'
    BY <1>3, <2>1 DEF BeginAverage, TypeOK, NoFailure, Leaving, Threads, Goto, options,
      likwid, setup, statics, results, filter
  <2>3. AtMostOne'
    BY <1>3, <2>1, ThreadsAssumption DEF BeginAverage, TypeOK, NoFailure, AtMostOne,
      StoppedWhileReading, Between, Threads, Goto, options, likwid, setup, statics,
      results, filter
  <2>4. StoppedWhileReading'
    BY <1>3, <2>1, ThreadsAssumption DEF BeginAverage, TypeOK, OwnSteps, NoFailure,
      AtMostOne, StoppedWhileReading, Between, Threads, Goto, options, likwid, setup,
      statics, results, filter
  <2>5. StaticsTogether'
    BY <1>3, <2>1, ThreadsAssumption DEF BeginAverage, TypeOK, OwnSteps, AtMostOne,
      StoppedWhileReading, StaticsTogether, Between, Threads, Goto, options, likwid,
      setup, statics, results, filter
  <2>6. BaselineStored'
    BY <1>3, <2>1, ThreadsAssumption DEF BeginAverage, TypeOK, OwnSteps, AtMostOne,
      StoppedWhileReading, StaticsTogether, BaselineStored, Between, Threads, Goto,
      options, likwid, setup, statics, results, filter
  <2>7. WholeSamples'
    BY <1>3, <2>1, ThreadsAssumption DEF BeginAverage, TypeOK, OwnSteps, AtMostOne,
      StoppedWhileReading, StaticsTogether, BaselineStored, WholeSamples, Between,
      Threads, Goto, options, likwid, setup, statics, results, filter
  <2> QED BY <2>2, <2>3, <2>4, <2>5, <2>6, <2>7
<1>4. KeptWithinGood'
  BY DEF BeginAverage, KeptWithinGood, filter
<1> QED BY <1>1, <1>2, <1>3, <1>4

\* A thread that gives up, or reads on what is left of likwid, does so after a refusal.
LEMMA FailingKeeps ==
  ASSUME Inv, NEW t \in Threads, Failing(t) \/ UnknownMake(t) PROVE Inv'
<1> USE DEF Inv, IInv
<1>1. CASE UnknownMake(t)
  <2>1. UNCHANGED <<options, likwid, setup, statics, results, average, pc, kind, taken, filter>>
    BY <1>1 DEF UnknownMake
  <2>2. exited' \in BOOLEAN
    BY <1>1 DEF UnknownMake
  <2>3. TypeOK' /\ OwnSteps' /\ KeptWithinGood'
    BY <2>1, <2>2 DEF TypeOK, OwnSteps, KeptWithinGood, options, likwid, setup, statics, results,
      average, filter
  <2>4. ASSUME refused' = "no" PROVE Undisturbed'
    <3>1. refused = "no" /\ Undisturbed
      BY <2>1, <2>4 DEF results
    <3> QED BY <2>1, <3>1 DEF Undisturbed, NoFailure, AtMostOne, StoppedWhileReading,
          StaticsTogether, BaselineStored, WholeSamples, likwid, setup, statics, results, average
  <2> QED BY <2>3, <2>4
<1>2. CASE Failing(t)
  <2>1. pc[t] \in Leaving /\ UNCHANGED results
    BY <1>2 DEF Failing, FinalizePerfmon, FinalizeTopology, EndProcess, Leaving
  <2>2. refused' # "no"
    BY <2>1 DEF Undisturbed, NoFailure, results
  <2>3. TypeOK' /\ OwnSteps'
    <3>1. CASE FinalizePerfmon(t)
      BY <3>1, ThreadsAssumption DEF FinalizePerfmon, TypeOK, OwnSteps, Leaving, Threads, Goto,
        options, setup, statics, results, average, filter
    <3>2. CASE FinalizeTopology(t)
      BY <3>2, ThreadsAssumption DEF FinalizeTopology, TypeOK, OwnSteps, Leaving, Threads, Goto,
        options, setup, statics, results, average, filter
    <3>3. CASE EndProcess(t)
      BY <3>3 DEF EndProcess, TypeOK, OwnSteps, options, likwid, setup, statics, results, average,
        filter
    <3> QED BY <1>2, <3>1, <3>2, <3>3 DEF Failing
  <2>4. KeptWithinGood'
    BY <1>2 DEF Failing, FinalizePerfmon, FinalizeTopology, EndProcess, KeptWithinGood, filter
  <2> QED BY <2>2, <2>3, <2>4
<1> QED BY <1>1, <1>2

\* The filter ends the average: what it leaves lies between undisturbed measurements.
LEMMA FilterOutliersKeeps ==
  ASSUME Inv, NEW t \in Readers, FilterOutliers(t) PROVE Inv'
<1> USE DEF Inv, IInv
<1>1. PICK v \in [1..polls -> Rates], d \in SUBSET (1..polls), p \in [1..polls -> 1..polls] :
        /\ Cardinality(d) <= outliers
        /\ good' = [good EXCEPT ![t] = {v[i] : i \in (1..polls) \ d}]
        /\ Sorts(p, v)
        /\ kept' = [kept EXCEPT ![t] = Trimmed(v, p)]
  BY DEF FilterOutliers
<1>2. polls \in Nat /\ outliers \in Nat /\ v \in [1..polls -> Nat]
  BY ChoicesAssumption DEF TypeOK
<1>3. {v[i] : i \in (1..polls) \ d} \in SUBSET Rates
  OBVIOUS
<1>4. Trimmed(v, p) \in SUBSET Rates
  <2> SUFFICES ASSUME NEW i \in (outliers + 1)..(polls - outliers) PROVE v[p[i]] \in Rates
    BY DEF Trimmed
  <2>1. i \in 1..polls
    BY <1>2
  <2> QED BY <2>1
<1>5. TypeOK'
  <2>1. /\ good' \in [Threads -> SUBSET Rates]
        /\ kept' \in [Threads -> SUBSET Rates]
    <3>1. t \in Threads /\ good \in [Threads -> SUBSET Rates] /\ kept \in [Threads -> SUBSET Rates]
      BY DEF TypeOK, Threads
    <3> QED BY <1>1, <1>3, <1>4, <3>1
  <2>2. /\ pc' \in [Threads -> Between \cup Leaving \cup
                {"load", "idle", "stop", "started", "testStart", "filter", "done"}]
        /\ taken' \in [Threads -> Nat]
        /\ since' \in [Threads -> SUBSET ((0..readings) \X (0..readings))]
    BY DEF FilterOutliers, TypeOK, Threads, Goto
  <2> QED BY <2>1, <2>2 DEF FilterOutliers, TypeOK, options, likwid, setup,
    statics, results
<1>6. OwnSteps'
  BY ThreadsAssumption DEF FilterOutliers, TypeOK, OwnSteps, Leaving, Threads, Goto, setup
<1>7. ASSUME refused' = "no" PROVE Undisturbed'
  <2>1. refused = "no" /\ Undisturbed
    BY <1>7 DEF FilterOutliers, results
  <2> USE DEF Undisturbed
  <2>2. NoFailure' /\ AtMostOne'
    BY <2>1 DEF FilterOutliers, TypeOK, NoFailure, AtMostOne, Between, Leaving, Threads, Goto,
      results
  <2>3. StoppedWhileReading'
    BY <2>1, ThreadsAssumption DEF FilterOutliers, TypeOK, StoppedWhileReading, Between, Threads,
      Goto, likwid, setup, statics
  <2>4. StaticsTogether'
    BY <2>1 DEF FilterOutliers, TypeOK, StaticsTogether, Threads, Goto, statics
  <2>5. BaselineStored'
    BY <2>1 DEF FilterOutliers, TypeOK, BaselineStored, Threads, Goto, statics
  <2>6. WholeSamples'
    BY <2>1 DEF FilterOutliers, TypeOK, WholeSamples, Threads
  <2> QED BY <2>2, <2>3, <2>4, <2>5, <2>6
<1>8. KeptWithinGood'
  <2> SUFFICES ASSUME NEW u \in Readers, NEW k \in kept'[u]
               PROVE  \E a, b \in good'[u] : a <= k /\ k <= b
    BY DEF KeptWithinGood
  <2>1. t \in Threads /\ u \in Threads
    BY DEF Threads
  <2>2. CASE u # t
    <3>1. kept'[u] = kept[u] /\ good'[u] = good[u]
      BY <1>1, <2>1, <2>2 DEF TypeOK
    <3> QED BY <3>1 DEF KeptWithinGood
  <2>3. CASE u = t
    <3>1. k \in Trimmed(v, p) /\ good'[t] = {v[i] : i \in (1..polls) \ d}
      BY <1>1, <2>1, <2>3 DEF TypeOK
    <3>2. PICK i \in (outliers + 1)..(polls - outliers) : k = v[p[i]]
      BY <3>1 DEF Trimmed
    <3>3. \E a, b \in {v[j] : j \in (1..polls) \ d} : a <= v[p[i]] /\ v[p[i]] <= b
      BY <1>1, <1>2, TrimmedWithin
    <3> QED BY <2>3, <3>1, <3>2, <3>3
  <2> QED BY <2>2, <2>3
<1> QED BY <1>5, <1>6, <1>7, <1>8

LEMMA StepsKeep == Inv /\ [Next]_vars => Inv'
<1> SUFFICES ASSUME Inv, [Next]_vars PROVE Inv'
  OBVIOUS
<1>1. CASE LifeCycle
  BY <1>1, InitializeLikwidKeeps, LoadWithoutCountersKeeps, StopAllCountersKeeps, FreeCpusKeeps,
     GiveBackKeeps, StopCountersKeeps, StoreErrKeeps, TestStopKeeps, FailingKeeps
     DEF LifeCycle, Stopping, Threads
<1>2. ASSUME NEW t \in Readers, Reading(t) PROVE Inv'
  BY <1>2, StopCountersKeeps, StoreErrKeeps, TestStopKeeps, FailingKeeps, GetResultKeeps,
     StoreStallsKeeps, StoreClockKeeps, StartCountersKeeps, TestStartKeeps
     DEF Reading, Stopping, Threads
<1>3. ASSUME NEW t \in Readers, BeginAverage(t) \/ FilterOutliers(t) PROVE Inv'
  BY <1>3, BeginAverageKeeps, FilterOutliersKeeps
<1>4. CASE UNCHANGED vars
  <2>1. TypeOK' /\ OwnSteps' /\ KeptWithinGood'
    BY <1>4 DEF Inv, IInv, TypeOK, OwnSteps, KeptWithinGood, vars, options, likwid, setup,
      statics, results, average, filter
  <2>2. refused' = "no" => Undisturbed'
    BY <1>4 DEF Inv, IInv, Undisturbed, NoFailure, AtMostOne, StoppedWhileReading,
      StaticsTogether, BaselineStored, WholeSamples, vars, likwid, setup, statics, results, average
  <2> QED BY <2>1, <2>2 DEF Inv, IInv
<1> QED BY <1>1, <1>2, <1>3, <1>4 DEF Next, Rest

\* The inductive invariant of the readings: for any number of threads and
\* measurements, what holds as long as likwid has refused nothing.
THEOREM Invariance == Spec => []IInv
<1>1. Spec => []Inv
  BY Initially, StepsKeep, PTL DEF Spec
<1>2. Inv => IInv
  BY DEF Inv
<1> QED BY <1>1, <1>2, PTL

\* As long as likwid has refused nothing, one thread at a time is between the stop
\* and the start of the counters.
THEOREM OneReadingAtATime == Spec => []OneReading
<1>1. IInv => OneReading
  BY DEF IInv, Undisturbed, OneReading
<1> QED BY <1>1, Invariance, PTL

\* As long as likwid has refused nothing, every measurement of an average refers to
\* the counter and the clock of one reading, made since the average began.
THEOREM SamplesAreWhole == Spec => []SamplesWhole
<1>1. IInv => SamplesWhole
  BY DEF IInv, Undisturbed, SamplesWhole
<1> QED BY <1>1, Invariance, PTL

\* What the filter keeps lies between undisturbed measurements, for any number of
\* measurements, if no more of them are disturbed than are filtered at each end.
THEOREM FilterKeepsWithin == Spec => []KeptWithinGood
<1>1. Spec => []Inv
  BY Initially, StepsKeep, PTL DEF Spec
<1>2. Inv => KeptWithinGood
  BY DEF Inv
<1> QED BY <1>1, <1>2, PTL

\* The first call that is refused stops counters that are not there, or that another
\* thread has stopped; and no thread gives up before.
LEMMA FirstRefusalSteps ==
  ASSUME IInv, [Next]_vars, refused = "no" PROVE FirstRefusal
<1>1. TypeOK /\ OwnSteps /\ Undisturbed
  BY DEF IInv
<1>2. ASSUME NEW t \in Threads, StopCounters(t) PROVE FirstRefusal
  BY <1>1, <1>2 DEF StopCounters, Calls, FirstRefusal, TypeOK, Undisturbed, NoFailure,
    StoppedWhileReading, Goto, Leaving
<1>3. ASSUME NEW t \in Readers, StartCounters(t) PROVE FirstRefusal
  <2>1. perfmon = "stopped"
    BY <1>1, <1>3 DEF StartCounters, Undisturbed, StoppedWhileReading, Between, Threads
  <2> QED BY <1>1, <1>3, <2>1 DEF StartCounters, Calls, FirstRefusal, TypeOK, Undisturbed,
        NoFailure, Goto, Leaving
<1>4. ASSUME NEW t \in Threads, TestStop(t) \/ TestStart(t) PROVE FirstRefusal
  BY <1>1, <1>4 DEF TestStop, TestStart, FirstRefusal, TypeOK, Undisturbed, NoFailure, Goto,
    Leaving, results
<1>5. ASSUME UNCHANGED results,
             \A t \in Threads : pc'[t] \in Leaving => pc[t] \in Leaving
      PROVE  FirstRefusal
  BY <1>1, <1>5 DEF FirstRefusal, Undisturbed, NoFailure, results
<1>6. ASSUME NEW t \in Threads, StoreErr(t) PROVE FirstRefusal
  BY <1>1, <1>6 DEF StoreErr, FirstRefusal, TypeOK, Undisturbed, NoFailure, Goto, Leaving
<1>7. ASSUME NEW t \in Threads, Failing(t) PROVE FirstRefusal
  BY <1>1, <1>7 DEF Failing, FinalizePerfmon, FinalizeTopology, EndProcess, Undisturbed,
    NoFailure, Leaving
<1>8. CASE \/ InitializeLikwid \/ LoadWithoutCounters \/ StopAllCounters \/ FreeCpus \/ GiveBack
  BY <1>1, <1>5, <1>8 DEF InitializeLikwid, LoadWithoutCounters, StopAllCounters, FreeCpus,
    GiveBack, TypeOK, Goto, Leaving
<1>9. ASSUME NEW t \in Readers,
             \/ GetResult(t) \/ UnknownMake(t) \/ StoreStalls(t) \/ StoreClock(t)
             \/ BeginAverage(t) \/ FilterOutliers(t)
      PROVE  FirstRefusal
  <2>1. UNCHANGED results
    BY <1>9 DEF GetResult, UnknownMake, StoreStalls, StoreClock, BeginAverage, FilterOutliers
  <2>2. \A u \in Threads : pc'[u] \in Leaving => pc[u] \in Leaving
    BY <1>1, <1>9 DEF GetResult, UnknownMake, StoreStalls, StoreClock, BeginAverage,
      FilterOutliers, TypeOK, Goto, Leaving
  <2> QED BY <1>5, <2>1, <2>2
<1>10. CASE UNCHANGED vars
  BY <1>5, <1>10 DEF vars
<1> QED BY <1>2, <1>3, <1>4, <1>6, <1>7, <1>8, <1>9, <1>10
        DEF Next, LifeCycle, Reading, Stopping, Rest, Threads

\* A thread at its way out stays there, and one refusal is never forgotten.
LEMMA LaterSteps ==
  ASSUME IInv, [Next]_vars, refused # "no" PROVE FirstRefusal
BY DEF FirstRefusal

\* The first call likwid refuses has a reason other than a call of the same thread
\* that went wrong, and no thread gives up before it.
THEOREM FailsForAReason == Spec => FailsOnlyWithoutCounters
<1>1. IInv /\ [Next]_vars => [FirstRefusal]_vars
  BY FirstRefusalSteps, LaterSteps
<1> QED BY <1>1, Invariance, PTL DEF Spec, FailsOnlyWithoutCounters

(***************************************************************************)
(* A thread that reads alone, with an application that leaves the counters *)
(* alone, finds its own results in err.                                    *)
(***************************************************************************)
Alone == ~StopsAtEnd /\ \A t, u \in Readers : t = u

OwnResult ==
  /\ pc[App] \in {"load", "idle"}
  /\ \A t \in Readers :
       /\ pc[t] = "stopped" /\ returned[t] = 0 => perfmon = "stopped"
       /\ pc[t] = "testStop" /\ err = 0 => perfmon = "stopped"
       /\ pc[t] = "result" => perfmon = "stopped"

LEMMA OwnResultSteps ==
  ASSUME Alone, IInv, OwnResult, [Next]_vars PROVE OwnResult'
<1>1. TypeOK /\ OwnSteps
  BY DEF IInv
<1>2. CASE InitializeLikwid \/ LoadWithoutCounters
  BY <1>1, <1>2, ThreadsAssumption DEF InitializeLikwid, LoadWithoutCounters, OwnResult, OwnSteps,
    TypeOK, Threads, Goto
<1>3. ASSUME NEW t \in Readers, Stopping(t) PROVE OwnResult'
  BY <1>1, <1>3, ThreadsAssumption DEF Alone, Stopping, StopCounters, StoreErr, TestStop, Calls,
    OwnResult, TypeOK, Threads, Goto, likwid, results
<1>4. ASSUME NEW t \in Readers, pc'[t] \notin {"stopped", "testStop", "result"},
             pc'[App] = pc[App]
      PROVE  OwnResult'
  BY <1>4 DEF Alone, OwnResult
<1>5. ASSUME NEW t \in Readers,
             \/ GetResult(t) \/ StoreStalls(t) \/ StoreClock(t) \/ StartCounters(t)
             \/ TestStart(t) \/ Failing(t) \/ BeginAverage(t) \/ FilterOutliers(t)
      PROVE  OwnResult'
  <2>1. pc'[t] \notin {"stopped", "testStop", "result"} /\ pc'[App] = pc[App]
    BY <1>1, <1>5, ThreadsAssumption DEF GetResult, StoreStalls, StoreClock, StartCounters,
      TestStart, Failing, FinalizePerfmon, FinalizeTopology, EndProcess, BeginAverage,
      FilterOutliers, TypeOK, Threads, Goto
  <2> QED BY <1>4, <2>1
<1>6. CASE UNCHANGED vars \/ \E t \in Readers : UnknownMake(t)
  <2>1. UNCHANGED <<pc, likwid, results>>
    BY <1>6 DEF vars, UnknownMake
  <2> QED BY <2>1 DEF OwnResult, likwid, results
<1>7. ~(StopAllCounters \/ FreeCpus \/ GiveBack \/ Stopping(App) \/ Failing(App))
  BY DEF Alone, OwnResult, StopAllCounters, FreeCpus, GiveBack, Stopping, StopCounters, StoreErr,
    TestStop, Failing, FinalizePerfmon, FinalizeTopology, EndProcess
<1> QED BY <1>2, <1>3, <1>5, <1>6, <1>7 DEF Next, LifeCycle, Reading, Rest

\* A thread that reads alone never reads counters that run, whatever likwid refuses.
THEOREM AloneStoppedForTheRead == ASSUME Alone PROVE Spec => []StoppedForTheRead
<1>1. Init => OwnResult
  BY ThreadsAssumption DEF Init, OwnResult, Threads
<1>2. IInv /\ OwnResult /\ [Next]_vars => OwnResult'
  BY OwnResultSteps
<1>3. OwnResult => StoppedForTheRead
  BY DEF OwnResult, StoppedForTheRead
<1> QED BY <1>1, <1>2, <1>3, Invariance, PTL DEF Spec

=============================================================================
