------------------------------ MODULE StallRate ------------------------------
(***************************************************************************)
(* The readings of the performance counters (PerformanceCounters.cpp):     *)
(* initialize_likwid, get_stall_rate_v2, get_elapsed_stall_rate,           *)
(* get_average_stall_rate and stop_all_counters, called by several threads *)
(* with no lock, as when the adaptive mode is started twice.               *)
(*                                                                         *)
(* A reading stops the counters of likwid, reads them and the clock,       *)
(* stores both in static variables and starts the counters again.  likwid  *)
(* refuses to stop counters that are not running and to start counters     *)
(* that are not stopped, and any call of it may fail for reasons of its    *)
(* own.  What a call returns goes into the global err, which all threads   *)
(* share, and is tested there in a later step: a thread may miss its own   *)
(* refusal or take another thread's for its own.  Then it gives likwid     *)
(* back and ends the process, while the others run on.                     *)
(*                                                                         *)
(* A variant with a plausible mistake stands just before the operator it   *)
(* varies; nothing uses the variants.                                      *)
(***************************************************************************)
EXTENDS Integers, FiniteSets

CONSTANTS
  Readers,      \* threads that take averages
  App,          \* the thread that loads and unloads the library
  StopsAtEnd,   \* unloading the library calls stop_all_counters
  PollChoices,  \* values of UNSTICKYMEM_NUM_POLLS
  TrimChoices,  \* values of UNSTICKYMEM_NUM_POLL_OUTLIERS
  Rates,        \* values a measurement can have
  MaxAverages   \* averages that are asked for in all

Threads == Readers \cup {App}

ASSUME ThreadsAssumption == App \notin Readers
ASSUME ChoicesAssumption ==
  /\ StopsAtEnd \in BOOLEAN
  /\ PollChoices \subseteq Nat \ {0} /\ TrimChoices \subseteq Nat /\ Rates \subseteq Nat
  /\ MaxAverages \in Nat

VARIABLES
  polls, outliers,        \* the options: they never change
  perfmon,                \* likwid: "off", "running" or "stopped"
  topology,               \* likwid's description of the machine: "none", "ready", "freed"
  initiatialized,         \* the flag of initialize_likwid
  cpus,                   \* the array cpus: "none", "allocated" or "freed"
  err,                    \* the global err: what some call has returned last
  prevStalls, prevClock,  \* the static variables of get_stall_rate_v2, as the
                          \* number of the reading they come from
  elapsedStalls, elapsedClock,  \* those of get_elapsed_stall_rate
  readings,               \* readings so far
  pc, kind, reading,      \* for each thread: the next step, the reading it takes
  returned,               \* returned[t]: what its last call of likwid has returned
  taken,                  \* taken[t]: measurements of the current average
  began,                  \* began[t]: readings there were when it began
  since,                  \* since[t]: previous readings its measurements refer to
  good, kept,             \* for each thread: the values of the measurements of its
                          \* last average that nothing disturbed, and of those that
                          \* the filter has left
  averages,               \* averages asked for
  refused,                \* history: the first call that has not succeeded, "stop" or
                          \* "start", "fault" if for reasons of likwid's own, or "no"
  exited                  \* the process has ended

options == <<polls, outliers>>
likwid == <<perfmon, topology>>
setup == <<initiatialized, cpus>>
statics == <<prevStalls, prevClock, elapsedStalls, elapsedClock, readings>>
results == <<err, returned, refused>>
average == <<reading, began, since, averages>>
filter == <<good, kept>>
vars == <<options, likwid, setup, statics, results, average, pc, kind, taken, filter, exited>>

Init ==
  /\ polls \in PollChoices /\ outliers \in TrimChoices
  /\ perfmon = "off" /\ topology = "none" /\ initiatialized = FALSE /\ cpus = "none"
  /\ err = 0
  /\ prevStalls = 0 /\ prevClock = 0 /\ elapsedStalls = 0 /\ elapsedClock = 0
  /\ readings = 0
  /\ pc = [t \in Threads |-> IF t = App THEN "load" ELSE "idle"]
  /\ kind = [t \in Threads |-> "elapsed"]
  /\ reading = [t \in Threads |-> 0]
  /\ returned = [t \in Threads |-> 0]
  /\ taken = [t \in Threads |-> 0]
  /\ began = [t \in Threads |-> 0]
  /\ since = [t \in Threads |-> {}]
  /\ good = [t \in Threads |-> {}] /\ kept = [t \in Threads |-> {}]
  /\ averages = 0
  /\ refused = "no"
  /\ exited = FALSE

Goto(t, label) == pc' = [pc EXCEPT ![t] = label]

(***************************************************************************)
(* The life of the counters.                                               *)
(***************************************************************************)
\* The constructor of the library sets the counters up or, as it stands, does not;
\* any of the calls may fail and end the process.  No mode's thread runs yet.
InitializeLikwid ==
  /\ pc[App] = "load"
  /\ ~initiatialized
  /\ \/ /\ perfmon' = "running" /\ topology' = "ready"
        /\ cpus' = "allocated" /\ initiatialized' = TRUE
        /\ UNCHANGED exited
     \/ exited' = TRUE /\ UNCHANGED <<likwid, setup>>
  /\ Goto(App, "idle")
  /\ UNCHANGED <<options, statics, results, average, kind, taken, filter>>

LoadWithoutCounters ==
  /\ pc[App] = "load"
  /\ Goto(App, "idle")
  /\ UNCHANGED <<options, likwid, setup, statics, results, average, kind, taken, filter, exited>>

\* stop_all_counters, up to its call of perfmon_stopCounters.
StopAllCounters ==
  /\ pc[App] = "idle"
  /\ StopsAtEnd
  /\ Goto(App, "stop")
  /\ UNCHANGED <<options, likwid, setup, statics, results, average, kind, taken, filter, exited>>

FreeCpus ==
  /\ pc[App] = "free"
  /\ cpus' = "freed"
  /\ Goto(App, "giveBack")
  /\ UNCHANGED <<options, likwid, initiatialized, statics, results, average, kind, taken,
                 filter, exited>>

GiveBack ==
  /\ pc[App] = "giveBack"
  /\ perfmon' = "off" /\ topology' = "freed"
  /\ Goto(App, "done")
  /\ UNCHANGED <<options, setup, statics, results, average, kind, taken, filter, exited>>

(***************************************************************************)
(* A call of likwid: the call, the store of its result, the test.          *)
(***************************************************************************)
\* What call leaves behind in likwid is `to`, if likwid is as it should be and does
\* not fail; r is what it returns.
Calls(t, call, from, to, r) ==
  /\ \/ r = 0 /\ perfmon = from /\ perfmon' = to
     \/ r < 0 /\ UNCHANGED perfmon
  /\ returned' = [returned EXCEPT ![t] = r]
  /\ refused' = IF r = 0 \/ refused # "no" THEN refused
                ELSE IF perfmon = from THEN "fault" ELSE call

\* As if stopping counters that another reading has stopped did no harm.
StopCountersAnyway(t) ==
  /\ pc[t] = "stop"
  /\ \E r \in {0, -1} :
       Calls(t, "stop", IF perfmon = "stopped" THEN "stopped" ELSE "running", "stopped", r)
  /\ Goto(t, "stopped")
  /\ UNCHANGED <<options, topology, setup, statics, err, average, kind, taken, filter, exited>>
StopCounters(t) ==
  /\ pc[t] = "stop"
  /\ \E r \in {0, -1} : Calls(t, "stop", "running", "stopped", r)
  /\ Goto(t, "stopped")
  /\ UNCHANGED <<options, topology, setup, statics, err, average, kind, taken, filter, exited>>

\* As if a reading left the counters stopped.
StartCountersLeftOut(t) ==
  /\ pc[t] = "start"
  /\ Goto(t, "started")
  /\ UNCHANGED <<options, likwid, setup, statics, results, average, kind, taken, filter, exited>>
StartCounters(t) ==
  /\ pc[t] = "start"
  /\ \E r \in {0, -1} : Calls(t, "start", "stopped", "running", r)
  /\ Goto(t, "started")
  /\ UNCHANGED <<options, topology, setup, statics, err, average, kind, taken, filter, exited>>

StoreErr(t) ==
  /\ pc[t] \in {"stopped", "started"}
  /\ err' = returned[t]
  /\ Goto(t, IF pc[t] = "stopped" THEN "testStop" ELSE "testStart")
  /\ UNCHANGED <<options, likwid, setup, statics, returned, refused, average, kind, taken,
                 filter, exited>>

TestStop(t) ==
  /\ pc[t] = "testStop"
  /\ Goto(t, IF err < 0 THEN "finalize" ELSE IF t = App THEN "free" ELSE "result")
  /\ UNCHANGED <<options, likwid, setup, statics, results, average, kind, taken, filter, exited>>

\* The reading is over: the elapsed rate and the measurement thrown away lead to
\* the next one, the measurements are counted.
TestStartFirstKept(t) ==
  /\ pc[t] = "testStart"
  /\ IF err < 0
     THEN Goto(t, "finalize") /\ UNCHANGED <<kind, taken>>
     ELSE /\ taken' = [taken EXCEPT ![t] = IF kind[t] = "sample" THEN @ + 1 ELSE 0]
          /\ kind' = [kind EXCEPT ![t] = "sample"]
          /\ Goto(t, IF taken'[t] = polls THEN "filter" ELSE "stop")
  /\ UNCHANGED <<options, likwid, setup, statics, results, average, filter, exited>>
TestStart(t) ==
  /\ pc[t] = "testStart"
  /\ IF err < 0
     THEN Goto(t, "finalize") /\ UNCHANGED <<kind, taken>>
     ELSE /\ taken' = [taken EXCEPT ![t] = IF kind[t] = "sample" THEN @ + 1 ELSE 0]
          /\ kind' = [kind EXCEPT ![t] = IF @ = "elapsed" THEN "baseline" ELSE "sample"]
          /\ Goto(t, IF taken'[t] = polls THEN "filter" ELSE "stop")
  /\ UNCHANGED <<options, likwid, setup, statics, results, average, filter, exited>>

\* The way out of a call that is taken to have failed.
FinalizePerfmon(t) ==
  /\ pc[t] = "finalize"
  /\ perfmon' = "off"
  /\ Goto(t, "topology")
  /\ UNCHANGED <<options, topology, setup, statics, results, average, kind, taken, filter, exited>>

FinalizeTopology(t) ==
  /\ pc[t] = "topology"
  /\ topology' = "freed"
  /\ Goto(t, "exit")
  /\ UNCHANGED <<options, perfmon, setup, statics, results, average, kind, taken, filter, exited>>

EndProcess(t) ==
  /\ pc[t] = "exit"
  /\ exited' = TRUE
  /\ UNCHANGED <<options, likwid, setup, statics, results, average, pc, kind, taken, filter>>

(***************************************************************************)
(* One reading.                                                            *)
(***************************************************************************)
\* The counter, the clock, and the rate since the previous reading.
GetResult(t) ==
  /\ pc[t] = "result"
  /\ readings' = readings + 1
  /\ reading' = [reading EXCEPT ![t] = readings']
  /\ since' = [since EXCEPT ![t] =
       IF kind[t] = "sample" THEN @ \cup {<<prevStalls, prevClock>>} ELSE @]
  /\ Goto(t, "stalls")
  /\ UNCHANGED <<options, likwid, setup, prevStalls, prevClock, elapsedStalls, elapsedClock,
                 results, began, averages, kind, taken, filter, exited>>

\* The description of a machine that is of no known make, as after it has been freed.
UnknownMake(t) ==
  /\ pc[t] = "result"
  /\ topology # "ready"
  /\ exited' = TRUE
  /\ UNCHANGED <<options, likwid, setup, statics, results, average, pc, kind, taken, filter>>

StoreStalls(t) ==
  /\ pc[t] = "stalls"
  /\ IF kind[t] = "elapsed"
     THEN elapsedStalls' = reading[t] /\ UNCHANGED prevStalls
     ELSE prevStalls' = reading[t] /\ UNCHANGED elapsedStalls
  /\ Goto(t, "clock")
  /\ UNCHANGED <<options, likwid, setup, prevClock, elapsedClock, readings, results, average,
                 kind, taken, filter, exited>>

StoreClockShared(t) ==
  /\ pc[t] = "clock"
  /\ prevClock' = reading[t] /\ elapsedClock' = reading[t]
  /\ Goto(t, "start")
  /\ UNCHANGED <<options, likwid, setup, prevStalls, elapsedStalls, readings, results, average,
                 kind, taken, filter, exited>>
StoreClock(t) ==
  /\ pc[t] = "clock"
  /\ IF kind[t] = "elapsed"
     THEN elapsedClock' = reading[t] /\ UNCHANGED prevClock
     ELSE prevClock' = reading[t] /\ UNCHANGED elapsedClock
  /\ Goto(t, "start")
  /\ UNCHANGED <<options, likwid, setup, prevStalls, elapsedStalls, readings, results, average,
                 kind, taken, filter, exited>>

(***************************************************************************)
(* get_average_stall_rate.                                                 *)
(***************************************************************************)
\* A mode's thread begins with the elapsed rate; later averages begin at once.
BeginAverage(t) ==
  /\ pc[t] = "idle"
  /\ pc[App] # "load"
  /\ averages < MaxAverages
  /\ averages' = averages + 1
  /\ \E k \in {"elapsed", "baseline"} : kind' = [kind EXCEPT ![t] = k]
  /\ began' = [began EXCEPT ![t] = readings]
  /\ Goto(t, "stop")
  /\ UNCHANGED <<options, likwid, setup, statics, results, reading, since, taken, filter, exited>>

\* p puts the measurements v in order.
Sorts(p, v) ==
  /\ \A i, j \in DOMAIN v : i # j => p[i] # p[j]
  /\ \A i, j \in DOMAIN v : i < j => v[p[i]] <= v[p[j]]

\* What the two calls of erase leave of the sorted measurements.
TrimmedBelow(v, p) ==
  {v[p[i]] : i \in (2 * outliers + 1)..polls}
Trimmed(v, p) ==
  {v[p[i]] : i \in (outliers + 1)..(polls - outliers)}

\* The values of the measurements matter here only, so they are chosen here: at
\* most as many as are filtered at each end have been disturbed.
FilterOutliersOrWait(t) ==
  /\ pc[t] = "filter"
  /\ IF polls > 2 * outliers
     THEN /\ Goto(t, "idle")
          /\ taken' = [taken EXCEPT ![t] = 0]
          /\ since' = [since EXCEPT ![t] = {}]
     ELSE UNCHANGED <<pc, taken, since>>
  /\ UNCHANGED <<options, likwid, setup, statics, results, reading, began, averages, kind, filter,
                 exited>>
FilterOutliers(t) ==
  /\ pc[t] = "filter"
  /\ \E v \in [1..polls -> Rates], d \in SUBSET (1..polls) :
       /\ Cardinality(d) <= outliers
       /\ good' = [good EXCEPT ![t] = {v[i] : i \in (1..polls) \ d}]
       /\ \E p \in [1..polls -> 1..polls] :
            Sorts(p, v) /\ kept' = [kept EXCEPT ![t] = Trimmed(v, p)]
  /\ Goto(t, "idle")
  /\ taken' = [taken EXCEPT ![t] = 0]
  /\ since' = [since EXCEPT ![t] = {}]
  /\ UNCHANGED <<options, likwid, setup, statics, results, reading, began, averages, kind, exited>>

Failing(t) == FinalizePerfmon(t) \/ FinalizeTopology(t) \/ EndProcess(t)

Stopping(t) == StopCounters(t) \/ StoreErr(t) \/ TestStop(t)

Reading(t) ==
  \/ Stopping(t) \/ GetResult(t) \/ UnknownMake(t) \/ StoreStalls(t) \/ StoreClock(t)
  \/ StartCounters(t) \/ TestStart(t) \/ Failing(t)

LifeCycle ==
  \/ InitializeLikwid \/ LoadWithoutCounters \/ StopAllCounters \/ FreeCpus \/ GiveBack
  \/ Stopping(App) \/ Failing(App)

\* Nothing to do, or the process has ended.
Rest == (exited \/ \A t \in Threads : pc[t] \in {"idle", "done"}) /\ UNCHANGED vars

Next ==
  \/ ~exited /\ (LifeCycle \/ \E t \in Readers : Reading(t) \/ BeginAverage(t) \/ FilterOutliers(t))
  \/ Rest

Spec == Init /\ [][Next]_vars

\* The kernel runs every thread.
FairSpec ==
  Spec /\ \A t \in Readers : WF_vars(~exited /\ (Reading(t) \/ FilterOutliers(t)))

(***************************************************************************)
(* Properties.                                                             *)
(***************************************************************************)
\* From the call that stops the counters to the one that starts them again.
Between == {"stopped", "testStop", "result", "stalls", "clock", "start", "free", "giveBack"}
Leaving == {"finalize", "topology", "exit"}

\* The types of the variables.
TypeOK ==
  /\ polls \in PollChoices /\ outliers \in TrimChoices
  /\ perfmon \in {"off", "running", "stopped"} /\ topology \in {"none", "ready", "freed"}
  /\ initiatialized \in BOOLEAN /\ cpus \in {"none", "allocated", "freed"}
  /\ err \in {0, -1} /\ returned \in [Threads -> {0, -1}]
  /\ readings \in Nat
  /\ prevStalls \in 0..readings /\ prevClock \in 0..readings
  /\ elapsedStalls \in 0..readings /\ elapsedClock \in 0..readings
  /\ pc \in [Threads -> Between \cup Leaving \cup
                {"load", "idle", "stop", "started", "testStart", "filter", "done"}]
  /\ kind \in [Threads -> {"elapsed", "baseline", "sample"}]
  /\ reading \in [Threads -> 0..readings]
  /\ taken \in [Threads -> Nat]
  /\ began \in [Threads -> 0..readings]
  /\ good \in [Threads -> SUBSET Rates] /\ kept \in [Threads -> SUBSET Rates]
  /\ since \in [Threads -> SUBSET ((0..readings) \X (0..readings))]
  /\ averages \in 0..MaxAverages
  /\ refused \in {"no", "stop", "start", "fault"} /\ exited \in BOOLEAN

\* One thread at a time is between the stop and the start of the counters.
AtMostOne == \A t, u \in Threads : pc[t] \in Between /\ pc[u] \in Between => t = u

\* A measurement refers to one reading, made since the average began.
WholeSamples == \A t \in Readers : \A s \in since[t] : s[1] = s[2] /\ s[1] > began[t]

\* As long as likwid has refused nothing, one thread at a time is between the stop
\* and the start of the counters, although there is no lock: a second one is refused
\* when it stops them.
OneReading == refused = "no" => AtMostOne

\* As long as likwid has refused nothing, every measurement of an average refers to
\* one earlier reading, of the counter and the clock alike, made since the average
\* began: the one thrown away sees to that, and the readings of other threads shorten
\* the interval of a measurement but never mix two of them.
SamplesWhole == refused = "no" => WholeSamples

\* The first call likwid refuses, unless it fails for reasons of its own, is one that
\* stops the counters when they have not been set up, have been given back or are
\* being read by another thread; no thread gives up before that call.
FirstRefusal ==
  /\ refused = "no" /\ refused' \in {"stop", "start"} =>
       /\ refused' = "stop"
       /\ ~initiatialized \/ cpus = "freed" \/ \E t \in Threads : pc[t] \in Between
  /\ \A t \in Threads : pc'[t] \in Leaving => refused # "no"
FailsOnlyWithoutCounters == [][FirstRefusal]_vars

\* While no more measurements are disturbed than are filtered at each end, every
\* measurement the average is made of lies between two undisturbed ones, also when
\* the disturbed ones are all on the same side.
KeptWithinGood ==
  \A t \in Readers : \A k \in kept[t] : \E a, b \in good[t] : a <= k /\ k <= b

\* An average that has begun ends, or the process does.
AverageEnds == \A t \in Readers : pc[t] = "stop" ~> (pc[t] = "idle" \/ exited)

\* The counters do not run while a thread does a read: it stops them before, as the
\* comment at PerformanceCounters.cpp:315 says.  It is not so when several threads
\* read: one whose stop has failed may find the result of another one's call in err.
StoppedForTheRead == \A t \in Readers : pc[t] = "result" => perfmon # "running"

(***************************************************************************)
(* The inductive invariant behind OneReading, SamplesWhole and             *)
(* FailsOnlyWithoutCounters, as long as likwid has refused nothing.        *)
(***************************************************************************)
\* The steps of the application and of the readers are their own.
OwnSteps ==
  /\ \A t \in Readers : pc[t] \notin {"load", "free", "giveBack", "done"}
  /\ pc[App] \in {"load", "idle", "stop", "stopped", "testStop", "free", "giveBack", "done"} \cup Leaving
  /\ pc[App] = "load" => ~initiatialized /\ \A t \in Readers : pc[t] = "idle"

\* No call has failed, and no thread believes that one has.
NoFailure == err = 0 /\ \A t \in Threads : returned[t] = 0 /\ pc[t] \notin Leaving

\* The counters are stopped while a thread is between stop and start, and only
\* then; its reading is the last one.
StoppedWhileReading ==
  /\ \A t \in Threads : pc[t] \in Between => perfmon = "stopped"
  /\ perfmon = "stopped" => \E t \in Threads : pc[t] \in Between
  /\ perfmon = "off" => ~initiatialized \/ cpus = "freed"
  /\ pc[App] = "giveBack" => cpus = "freed"
  /\ \A t \in Threads : pc[t] \in {"stalls", "clock", "start"} => reading[t] = readings

\* The static variables are of one reading, but for the thread that has stored the
\* counter and not yet the clock.
StaticsTogether ==
  /\ prevStalls = prevClock \/ \E t \in Readers : pc[t] = "clock" /\ kind[t] # "elapsed"
  /\ elapsedStalls = elapsedClock \/ \E t \in Readers : pc[t] = "clock" /\ kind[t] = "elapsed"
  /\ prevClock <= prevStalls
  /\ \A t \in Readers :
       pc[t] = "clock" =>
         reading[t] = IF kind[t] = "elapsed" THEN elapsedStalls ELSE prevStalls

\* A thread that takes measurements has stored the one it has thrown away.
BaselineStored ==
  \A t \in Readers :
    /\ kind[t] # "sample" => since[t] = {}
    /\ pc[t] = "idle" => since[t] = {}
    /\ kind[t] = "sample" /\ pc[t] # "idle" => began[t] < prevClock
    /\ pc[t] \in {"stalls", "clock", "start", "started", "testStart"} => began[t] < reading[t]
    /\ pc[t] = "start" /\ kind[t] # "elapsed" => prevClock = reading[t]
    /\ pc[t] \in {"started", "testStart"} /\ kind[t] # "elapsed" => began[t] < prevClock

Undisturbed ==
  /\ NoFailure
  /\ AtMostOne
  /\ StoppedWhileReading
  /\ StaticsTogether
  /\ BaselineStored
  /\ WholeSamples

IInv ==
  /\ TypeOK
  /\ OwnSteps
  /\ refused = "no" => Undisturbed
=============================================================================
