# A verification development for BWAP (unstickymem)

BWAP is a shared library that is preloaded into a parallel program on a NUMA
machine. It interposes the allocation functions, keeps a list of the program's
memory segments, and spreads the pages of long segments over the NUMA nodes in
proportion to weights, which a background thread may go on to adapt while it
watches the stall rate of the processors.

This directory holds TLA+ modules for the parts of the library whose behaviour
depends on order, concurrency or arithmetic at a boundary, TLC configurations
that check them on small instances, and TLAPS proofs for every value of the
constants. Source paths below are relative to the root of the repository.

## 1. The system: inventory

| component | source | state it keeps | operations |
|---|---|---|---|
| Memory map tracker | `memory/MemoryMap.cpp` | `_segments` (list, under `_segments_lock`), `_heap` and its end | constructor, `updateHeap`, `handle_malloc` to `handle_munmap`, iteration |
| Memory segment | `memory/MemorySegment.cpp` | first and inclusive last address, name | `contains`, `length`, page-aligned views |
| Interposed functions | `unstickymem.cpp` | `is_initialized`, thread-local `inside_unstickymem`, a buffer of 1024*1024 bytes for callocs made inside `dlsym` | wrappers of malloc, calloc, realloc, reallocarray, free, posix_memalign, mmap, munmap, mremap, brk, sbrk, mbind |
| Constructor, singletons, Runtime | `unstickymem.cpp`, `Runtime.cpp` | two function-local statics, the selected mode | `libunstickymem_initialize`, `getInstance`, `startSelectedMode` |
| Weighted placement | `PagePlacement.cpp` | none of its own | `place_pages_weighted_initial`, `_dwp`, `_s` |
| Migration by ratio | `PagePlacement.cpp` | `nodes_info_temp`, `weight_initialized` | `place_all_pages`, `force_uniform_interleave`, `move_pages_remote` |
| Weighted adaptive mode | `mode/WeightedAdaptiveMode.cpp` | `MEM_INIT`, a shared-memory copy of the list | `start`, `memInitThread`, `adaptiveThread`, `processSegmentAddition` |
| Adaptive mode | `mode/AdaptiveMode.cpp` | best ratio and best stall rate of the search | `adaptiveThread` |
| Scan, fixed ratio, disabled | `mode/*.cpp` | options | `start` |
| Performance counters | `PerformanceCounters.cpp` | likwid group, last readings | `initialize_likwid`, `get_stall_rate_v2`, `get_elapsed_stall_rate`, `get_average_stall_rate`, `stop_all_counters` |
| Weights files | `unstickymem.cpp` | `nodes_info[MAX_NODES]`, `sum_ww`, `sum_nww` | `read_weights`, `get_sum_nww_ww` |
| Gradient descent executor | `test/bwap_gd_executor.c` | weights, best time | the search loop around the library |
| Logger, options, wrap | `Logger.cpp`, `wrap.cpp` | streams, pointers | output, `dlsym` |

All functions of the second and third row run on the application's threads.
Each wrapper of `unstickymem.cpp` sets `inside_unstickymem`, calls the handler
of the tracker, which makes the real call first, reads the break and updates the
list under `_segments_lock`, and calls `processSegmentAddition` of the selected
mode with the lock held. The modes' own threads (`adaptiveThread`,
`memInitThread`, `pollerThread`) walk the same list through `begin()` and `end()`
without the lock, and read the counters.

What is hard, component by component, and what would make each correct:

* **Tracker.** The real call and the update of the list are two steps, `_heap`
  has no lock, a lookup made before the real call is used after it, and
  `realloc` takes the lock twice. Correct means: the list covers live memory, a
  call removes its own segment and no other, heap blocks never get into it,
  every long block is placed, no call blocks for ever.
* **Interposition.** The library allocates while it handles an allocation; only a
  thread-local flag keeps it from waiting for its own lock.
* **Constructor.** With `AUTOSTART` the modes ask for singletons that are still
  being made. Correct means: one map and one runtime, never half a map, and a
  startup that ends.
* **Weighted placement.** Shares are computed in float, rounded up to pages and
  capped by what remains. Nothing checks that the weights sum to 100, and of
  the table of `place_pages_weighted` nothing makes them ascend. Correct means: what the
  weights cover of the range is bound, nothing past it, and each node gets its weight.
* **Migration by ratio.** `place_pages` never takes a page back, `move_pages_remote`
  has the same node for both ends of the move.
* **Weighted adaptive mode.** A thread walks the list while handlers erase nodes
  from it, and ends when another thread has set a plain `int`; the segments are
  published in an object of 64 KB.
* **Adaptive mode and counters.** A reading covers the time since the last one,
  also before the placement it judges; noise around a threshold of 0.1% decides.
  Correct means: the ratios are valid, samples judge the placement in force, the
  search ends and gives up only when it is worse off.
* **Counters, shared.** Several threads stop, read and start one group of
  counters and share static variables and the `err` that tells them whether
  a call has failed, without a lock. Correct means: a measurement is of one interval,
  of counter and clock alike, and made while the counters are stopped.
* **Weights.** Weights are rounded one by one and must sum to 100 again; a table
  is computed once and lasts until another function resets a flag.

## 2. Modules

| module | models |
|---|---|
| `MemoryMap` | the tracker, driven by the wrappers, one action per step of a handler; the refinement mapping to `RegionList` |
| `RegionList` | what the tracker promises to a program of one thread: the abstract specification |
| `MCMemoryMap` | instances of `MemoryMap` for TLC |
| `MemoryMapProofs` | types, `SegmentsLive`, `LongBlocksPlaced`, `PlacementFailsOnlyWithoutBlock`, `NewRegionsOutsideHeap`, `RemovesOwnSegmentOnly`, the steps of the refinement |
| `SegmentWalk` | the threads that walk the list while handlers change it, the shared object |
| `MCSegmentWalk`, `SegmentWalkProofs` | its instance for TLC; the inductive invariants, `PassComplete`, `DiesOnlyOf`, `ListingAvailable` |
| `Startup` | the constructor of the library, the two singletons, the modes' start functions, several threads |
| `StartupProofs` | types, `NoHalfBuiltMap`, `StackExhaustedOnlyByScan`, `OneMapUnlessAutostart` |
| `WeightedInterleave` | the division of a segment among the nodes, one step per node |
| `MCWeightedInterleave` | tables and segments for TLC |
| `WeightedInterleaveProofs` | the inductive invariants, `NothingElseBound`, `UnboundOnlyForLack`, `SharesFollowWeights` |
| `Reweight`, `MCReweight` | the weights tables of a round and the placements by page number; an instance for TLC |
| `ReweightProofs` | types, sums and roundings, and every property of `Reweight` |
| `AdaptiveClimb` | the search of the adaptive mode, with the placement by ratio and the sampling |
| `AdaptiveClimbProofs` | types, and that ratios are valid, placements nest, samples judge their placement, and the search ends early only when worse |
| `StallRate` | the life of the likwid counters and the readings, by several threads |
| `StallRateProofs` | the inductive invariant, `OneReading`, `SamplesWhole`, `FailsOnlyWithoutCounters`, `KeptWithinGood`; `StoppedForTheRead` for one thread |
| `InductionFacts` | induction over sets of natural numbers, partial sums: what the proofs about loops rest on |

How they fit: `MemoryMap` adds to and removes from a list; `SegmentWalk` takes each
of these updates as one step (`_segments_lock` makes it one) and puts the threads
without the lock beside it. `Startup` ends where `MemoryMap` begins, with
`is_initialized`. `WeightedInterleave` is the inside of the one step `PlaceSegment` of
`MemoryMap` and of `SegmentWalk`; its tables are those of the weights file and those that
`Reweight` makes, so they may hold any integers. `AdaptiveClimb` has one thread whose
readings are those of `StallRate`.

Operators whose comment states a mistake (`KeptByStart`, `MySizeUncapped`, ...)
are variants that nothing uses. Each stands just before the operator it varies,
and putting it in that operator's place violates a property of a run.

### 2.1 MemoryMap

`segments` is `_segments` without the entries for the heap, the stack, the data and
the text of the program, `heapEnd` is `_heap->endAddress()`, `lock` is the owner
of `_segments_lock`, `inside` the thread-local flag, `call[t]` the parameters and
local variables of the call of thread t, `pc[t]` the next step of its handler.
`brk` and `live` are the kernel's and libc's: the break, and the blocks given out.
`placed` is the set of addresses that have had the weighted policy. `hand[t]` is
the block a call works on: the application does not use a block that it has
passed to `free`.

A call is: `Enter` (wrapper and the test of the pointer against the heap), a
`Real...` action (the libc or kernel call), for most functions `ReadBreak`,
`CompareHeapEnd`, `ReadBreakAgain` and `StoreHeapEnd` (`updateHeap`), `Classify` (is
the result in the heap), then `AcquireLock` with `RemoveSegments` or with
`InsertSegment` and `PlaceSegment`, and `Return`. `realloc` goes through the lock twice.

Abstractions:

* `munmap` is given any range that reaches a block of the application's mappings and no
  block of anyone else's: a part of one, several with the gaps between them, or a gap
  and what follows it. `AnyUnmap` and `PartialUnmap` restrict it to a range within one
  block, and to whole blocks; the run and the theorems that need that say so.
  `skipped` is history: the segments whose memory a munmap has taken without starting
  in them, which the handler, looking for one address, does not remove. A block given
  out meanwhile is not in the range of a munmap that is about to be made (`Unmapping`):
  a program in which it were would unmap what it has not mapped.
* `malloc` and `calloc` share one operation: their handlers differ in a name.
* What libc hands out outside the main heap (mmapped chunks, arenas of other
  threads) is an address outside the heap, like a mapping.
* Addresses are single units and pages are not modelled here; a placement is one
  step, since the lock is held throughout. It fails when a part of the range is
  not mapped. `placed` forgets an address when its block is freed or moved: that
  can only make `LongBlocksPlaced` harder to satisfy.
* The list nodes and bitmasks that a handler allocates go to libc (the flag is
  set) and may move the break; `NestedCalls` requires the flag.
* `realloc(p, 0)` frees p and returns NULL, and `posix_memalign` that fails leaves
  the pointer as it was, as in glibc.
* The heap may fill its zone, which ends below the last address: a break past
  every address would have no value to be read.
* Not modelled: mappings over existing ones (`MAP_FIXED`), the text of
  `/proc/self/maps`, the names of segments, `print`, calls
  made before the constructor has run.

`RegionList` is the promise to a program of one thread whose calls succeed and which
unmaps blocks as a whole, one at a time: the list is the set of the program's
regions outside the heap whenever the program runs; within a call it lags behind by
that call's region, which is removed first and added after that. The mapping in
`MemoryMap` takes `regions` to be the blocks of `live` outside the heap, `list` to
be `segments`, and `busy` to be that a call is under way; every step of a handler
but the real call, the removal and the addition is a stutter. With two threads the
refinement does not hold: that is what the two races of the tracker in section 3
are.

### 2.2 WeightedInterleave

One `PlaceNext` is one iteration of the loop over `nodes_info`; `i`, `w` and
`total_size` are the variables of the same name, `node_set` the bitmask, and
`policy[p]` the mask of the last mbind that covered page p. Lengths are in pages,
because every length the loop adds is a multiple of the page size; shares are in
bytes, because they are rounded up to pages. The float product is any number
within `FloatError` bytes of the exact one, chosen anew in every iteration.
`scheme` selects `place_pages_weighted_initial` or `place_pages_weighted_contiguous`;
`place_pages_weighted` is the first of the two over another table. A table is the
ids and the running sums of the weights, in units of which a hundred percent are `Whole`
(1000 in the run: the driver writes weights with one decimal, and `Reweight` makes
tenths). `TablesAssumption` asks for distinct ids only. Weights need not sum to 100, since
nothing checks that they do (`check_sum` allows half a percent, and its call for
the file at `unstickymem.cpp:98` is commented out). They need not ascend
either, as those of `nodes_info_temp` may not: a share below zero is then converted to an
unsigned length, which is undefined and here is nothing or all that remains. Only the
contiguous scheme has a sorted table always, for it reads the file's.
`NodesAssumption` is the mask that `numa_bitmask_setall` makes: `MAX_NODES` nodes.

An interleaved page may be on any node of its mask. `SharesFollowWeights` counts it as
an equal part for each of them, and `Parts` is what a whole page counts, a number that
all numbers of nodes up to N divide (6 for three nodes), so that the parts are integers.

### 2.3 AdaptiveClimb

The steps of `adaptiveThread`: `Begin` and `Started` are the two readings before
the loop, `Test` is the loop's condition with the `continue`, `Place` is
`place_pages` on one segment, `Baseline`/`ReadBaseline` the measurement thrown away
and `Sample`/`ReadSample` the others, `FirstAverage` and `SecondAverage` the decisions.
A reading stops the counters, reads and starts them again, and any of its calls may
fail, which ends the process. So does the first message to the log when the file could
not be opened (`LogFails`). An average is any of `Rates`; what is kept of time
is whether the last reading was taken before or after the placement in force.
The model starts with the counters running, as after `initialize_likwid`. That
function is exported, and the library's own call of it (`unstickymem.cpp:95`) is
commented out: unless something else has made the call, the first reading of the
adaptive and fixed ratio modes ends the process. One segment stands for all, as
`place_all_pages_adaptive` treats them alike; the walk over the list is in
`SegmentWalk`. `place_pages` binds the pages after the interleaved ones to the
workers, one to four of them; with more workers it does nothing.

### 2.4 SegmentWalk

A node of the list has the number of its addition, since segments are added at the
back, so the list is a set of numbers and an iterator is a number. `at[w]` is the
next step of walker w, `seen[w]` what it has handed to the body of the loop in this
pass, `stray[w]` that it has used an iterator to an erased node. What such an
iterator reads is a choice over what the build can produce: what is left of the
node, a node added since in the same memory, or an invalid pointer that ends the
process. Handlers are three steps: `AddSegment`, `GiveBack` (the real free, munmap
or realloc) and `Erase`; between the last two the memory is gone and the node is
there. Walkers are `adaptiveThread` of the weighted adaptive mode (`Start`,
`RemoveObject`, `CreateObject`, then `Visit` with `Publish`), `memInitThread`
(`StartMemInit`, `TestMemInit`, `Visit` with `PlaceSegment`, `Sleep`),
`ScanMode::start` and `place_all_pages` (`StartPass`). `PlaceSegment` succeeds on
memory that is mapped; `PlaceSegmentFails` is an mbind that fails, over memory given
back or for reasons of the kernel's own. An object of the name may be there when a
publisher begins: one an earlier process has left, which is removed, or one of
another user, which cannot be and makes the creation throw (`Foreign`). `madeBy[w]`
is how many nodes had been added when the pass of publisher w ended, which is what
its listing is compared with. Another live process with an object of the same name,
and segments that a munmap has left stale for good, are not here. The capacity of
the shared object is counted in records, `Capacity`, for 65536 bytes. The plain `int
MEM_INIT` is read anew in every pass: the loop calls functions that the compiler
cannot see through.

### 2.5 Startup

`frames[t]` is the stack of thread t: each getInstance, constructor and start
function under way has a frame with the place where it goes on. `mapObject` and
`runtimeObject` are the two static pointers, assigned by `MapStore` and `RunStore`
after the constructor; objects are numbered in the order their constructors begin,
and `parsed` are the maps that are complete. `MapLine` is one line of
`/proc/self/maps` that is handed to the mode (others are skipped), `RunLoad` is
`loadConfiguration` and the test of `_autostart`. The start function of each mode is
an action of its own, and so is each thread's first call for the map. A real stack
is bounded in bytes; here it is `MaxDepth` frames, six in the run, where four are
enough without a cycle. Between the test of a static pointer and its assignment
other threads run: the pointers are assigned by placement new and are no C++
function-local objects with a guard.

### 2.6 StallRate

`perfmon` and `topology` are what likwid holds; it refuses to stop what is not running
and to start what is not stopped, and may fail for reasons of its own. A call of likwid
is three steps, since `err` is one variable for all threads: the call (`StopCounters`,
`StartCounters`), the store of what it returned (`StoreErr`) and the test (`TestStop`,
`TestStart`). Between the last two another thread may store its own result, so that
a thread goes on after a call that failed, or gives up after one that did not.
Giving up is three steps as well, `FinalizePerfmon`, `FinalizeTopology` and `EndProcess`,
while the others run on: a reading may find the counters off, or a machine of no known
make (`UnknownMake`). `refused` is history: the first call that likwid has refused.

The static variables of `get_stall_rate_v2` and `get_elapsed_stall_rate` hold the number
of the reading they come from. A reading is the stop, `GetResult`, `StoreStalls`,
`StoreClock` and the start; `GetResult` notes in `since` which reading the measurement
refers to. `App` loads the library and may call `stop_all_counters` when it unloads it.
Values of measurements matter in the filter only and are chosen there, with any set of
at most `outliers` disturbed ones; `good` are the values of the others and `kept` what
the two calls of erase leave of the sorted values. The log file is taken as open.

### 2.7 Reweight

Weights, sums and ratios are in tenths of a percent, which is what
`place_pages_weighted_s` rounds to. `NewTable`, `SameTable` and `NoTable` are the
three ways through `if (weight_initialized == 0)`: a table is computed and passes
`check_sum`, one is there already, or the process exits. `nodes` is what the last
call asks of the kernel for each page. Both nodes of `move_pages_remote`,
`local_node` and `remote_node`, are node 0 in the code, whatever the number of
workers: the function moves every page to node 0 whatever the ratio, and no property
speaks of their division. Products that are exact ties may be rounded either way,
and a double that is a whole number may come out below it. A file is a finite set of
lines, each of a node of its own; `Sorted` is the set of its orders by weight and
id, which has one member. `NodesGetTheirShare` has two halves,
`PortionsFollowWeights` for `move_pages_initial` and `ChunksAreEven` for
`force_uniform_interleave`. Each cut loses less than a page, or a whole one where a
product that is a whole number comes out below it, and no later cut makes up for it:
the node of the k-th record is off by k pages at most, and the pages after the last
cut, one for each record at most, keep the 0 they were allocated with and go to node
0.

## 3. Runs

Instances are small, for these reasons: a race of the tracker needs two threads
and three or four calls; two block sizes tell long blocks from short ones; the
heap of one or two addresses can grow, shrink and be full; four or five
addresses outside it let a block be split, merged with its neighbour and reused. No run
has `reallocarray`, whose block may be reused while a segment describes the old one, nor
a `posix_memalign` that fails: what is known of these are the
theorems of section 4 that do not exclude them, `LongBlocksArePlaced` among them.
Three nodes and twelve pages of eight bytes are enough for each rounding of one
entry to reach the next ones and for the last entries to get nothing.

| run | shows |
|---|---|
| `tracker_threads` | two threads, three calls, failures, empty blocks, `munmap` of any range, merged mappings: the inductive invariant; no segment stays stale but those a `munmap` has skipped, long blocks are placed, a placement fails only over a block that was not given, and every call returns, unless the process ends |
| `tracker_alone` | one thread, five calls that succeed, whole blocks unmapped: the handlers implement `RegionList`, heap blocks never get into the list, a call removes its own segment |
| `walkers` | two walkers of any roles, three segments, room for two records: passes overlook nothing, the process ends for named reasons only, the name leads to the long segments of the list, in order and each once, `memInitThread` ends |
| `startup_modes` | all modes and configurations, two mode threads, two calls of the application: one map without `AUTOSTART`, no half-built map, endless recursion in scan mode with `AUTOSTART` only, startup ends |
| `interleave_shares` | tables in tenths of a percent that ascend and that do not, with sums of 85 to 115%, every segment: what the weights cover is bound, nothing else, and with an ascending table each node gets its weight to within four pages and what the weights are over; the inductive invariant |
| `reweight_rounds` | two and three nodes, files with halves of percents, sums a little off, short and empty ones, five ratios, any sequence of calls: refused for named reasons only, workers gain the shift, order kept until one half, `move_pages_initial` follows the weights, chunks go round |
| `climb_search` | 2 to 24 nodes, failures of counters, mbind and log: the search ends, placements nest, samples are of the placement they judge, an early end only when worse, a ratio rejected with 17 to 19 nodes only |
| `counter_readers` | two readers that share `err`, two averages, failures: the inductive invariant; as long as likwid has refused nothing, one reading at a time and whole samples, and the first refusal has a named reason |
| `counter_averages` | one reader, two averages of two or three measurements, the application stops the counters: what the filter keeps, averages end |

In `walkers` two walkers are enough for two publishers, or a publisher and
`memInitThread`, and three segments for one erased, one added and one that stays. In
`startup_modes` the recursion of scan mode repeats after four frames, so six show
it, and two threads race for each pointer. Two records of room are one less than the
segments, so a listing has an order and can be too long. In `counter_readers` a
third reader would find the counters as the second does; in `counter_averages` 2
measurements with 1 outlier is the case of an empty average. In `reweight_rounds` 40
pages are more than any cut and rounding, 7 leave cuts in the middle of a page and 0
is the empty segment.

Three runs check a statement of the sources that the code does not keep; TLC's
counterexample is a shortest history:

| run | what the code does |
|---|---|
| `tracker_heap_race` | two mallocs that grow the heap: the older break is stored last and a heap block is added as a new region |
| `tracker_free_race` | the address of a block freed is given to another thread before the segment is removed: the segment of the new block is removed |
| `counter_race` | a reader whose stop has failed finds the result of another one's in `err`, goes on, and reads counters that the other one has started again |

More such facts are in the models without a run of their own:

* A munmap of a range that starts before a mapping unmaps it, and its segment stays in
  the list: the handler removes the segments that contain the first address of the range
  (the exception of `skipped` in `SegmentsLive`).
* With `AUTOSTART` the thread of a mode, or `start` of scan mode itself, asks for
  the map while it is being made, and a second one is made: `getInstance` assigns
  its pointer after the constructor (the exceptions in `OneMapUnlessAutostart` and
  `StackExhaustedOnlyByScan`).
* `move_pages_remote` asks for node 0 for every page of a segment, whatever the ratio and
  the number of workers: the local and the remote node are the same.
* A malloc that returns NULL is tracked and, if long, placed: mbind fails and the
  process is aborted (the exception in `PlacementFailsOnlyWithoutBlock`).
* A segment whose last byte is the first of a page loses that page: `PAGE_ALIGN_UP`
  rounds the inclusive end (`UnboundOnlyForLack` is about the range so aligned).
* With weights that sum to 99.7 the loop ends with an unbound tail of 0.3% of the range
  (`UnboundOnlyForLack` bounds it); with more than 100 the last entries come short.
* With 17 to 19 nodes the first percentage of the search is 5, less than a uniform
  share, and `place_pages` ends the process (the exception in
  `RatioAcceptedUnlessTooSmall`). With two nodes the search starts at 50%, skips the
  multiples of 10 and tries 100% only.
* An average of as many measurements as twice the outliers is one of nothing: a
  division by zero.
* After `stop_all_counters` the flag of `initialize_likwid` still says that the counters
  are set up, so they cannot be set up again, and the next reading exits.
* `place_pages_weighted_dwp` exits whenever there are two non-workers or more, as each
  gets the whole rest, and when the workers' new share ends in half a percent.
* A second call of `get_sum_nww_ww` adds to the sums of the first and exits.
* The free of one of two blocks that shared a mapping when the library was loaded
  removes the segment of both (`tracker_threads` starts from such a mapping;
  `RemovesOwnSegmentOnly` does not hold there, nor when a part of a mapping is unmapped).
* The segment of an empty block contains no address, so its free leaves it in the
  list (`ImplementsRegionList` fails as soon as `Sizes` has 0, which is why
  `tracker_alone` has none).

Fairness. `CallsReturn` assumes weak fairness of the steps of each call: the
kernel runs every thread. Calls are bounded, so a thread that waits for
`_segments_lock` is not overtaken for ever, and strong fairness of the mutex is
not needed. `ImplementsRegionList` and its weak fairness of `Remove` and `Add` rest on the
same. `SearchEnds` assumes weak fairness of the one thread: it is scheduled, and its
sleeps end. `MemInitEnds` and `AverageEnds` assume weak fairness of the steps of each
thread, and nothing of the handlers, of `start` or of the application: that a list of
bounded length is passed over in finite time is a consequence of the bound on
additions. `StartupEnds` assumes weak fairness of the loading thread. Deadlock is not
checked where a run to the end is the normal outcome (`WeightedInterleave`,
`AdaptiveClimb`, `Reweight`); the others have a step `Rest` for the states in which the
process has ended or nobody has anything to do.

Note on the end of the search: after `SecondAverage` the pages stay where the
last, worse, ratio put them. Nothing in the repository says that they should go back
(the variant of the weighted adaptive mode that does is in a comment), so no
property says so.

## 4. Proofs

**MemoryMapProofs**, for any set of threads, any zones, sizes and number of calls.

* `TypeCorrect`: `Spec => []TypeOK`.
* `Invariance`: `Spec => []IInv`, and `NoStaleSegments`: `Spec => []SegmentsLive`, that a
  munmap of a range that starts before a segment is the only way to leave a stale one;
  both from `TrackedCalls`: no `reallocarray` (its wrapper keeps no record, so its
  block may be reused while a segment describes the old one) and no failing
  `posix_memalign` (it leaves a pointer to any block).
* `LongBlocksArePlaced`: `Spec => []LongBlocksPlaced`, with no further assumption.
* `PlacementFailsForLackOfBlock`: `Spec => []PlacementFailsOnlyWithoutBlock`, if
  `posix_memalign` does not fail.
* `NewRegionsAreOutsideHeap`: `Spec => []NewRegionsOutsideHeap`, from `OneThread`; the
  run `tracker_heap_race` is what two threads do.
* `RemovesOwnSegment`: `Spec => RemovesOwnSegmentOnly`, and `RegionListRefined`:
  `Spec => Promise!Safety`, from `Alone`: one thread, calls that succeed and are
  tracked, no empty blocks, mappings unmapped as a whole and one at a time, and
  mappings that are one block each when the library is loaded. Section 3 says what
  the code does without them.

`SegmentsLive` is not inductive: one has to know that blocks do not overlap and that
a call owns its block (`BlocksApart`), that what a munmap is about to take belongs
to no one else (`RangesApart`), that a pointer outside the heap is taken for what it
is although `heapEnd` may be stale (`ReleasesItsBlock`), that a segment about to be
added describes a block of that call (`AddsItsBlock`), and that a segment covers
each block wholly or not at all unless a call is about to remove it
(`SegmentsWhole`, again but for those a munmap has skipped); otherwise the release
of one block could leave half a segment that the removal, which looks at one
address, does not match. Each step preserves the statements about blocks, in the
lemmas `BaseInv...`; those about segments follow from what the release leaves and
from the lookups of the other threads.

The other invariants. `PlacedInv`: a long block outside the heap has the policy, or
the call that made it has its placement still ahead. `Describing`: from the real call
on, the address and size a call goes by are those of a block in its hand, or the
address is none. `BreakInv`: with one thread every heap block is below the break, and
what `updateHeap` has read is the break. `AloneInv`: the list, once the removal of the
call under way is made, is the set of the blocks outside the heap but for that
call's own, and no two segments share an address. From it each step of a handler
maps to a step of `RegionList` or to none; that the list catches up in the end, the
weak fairness in `RegionList`, stays with the run `tracker_alone`.

**WeightedInterleaveProofs**, for any number of nodes, page size, set of segments and
tables, sorted or not and whatever their sums.

* `Invariance`, and `OnlyTheRange`: nothing outside the page-aligned range is bound.
* `TailIsLack`: what is left unbound at the end is the tail of the range, no longer than
  what the weights lack of 100% (and less than a page more), from `ErrorsFitPage`, that
  N * (FloatError + 1) is less than a page. A float has 24 bits, so a share is off by
  some 2^-22 of the segment; with four nodes and pages of 4 KB that is segments of up
  to about 4 GB.
* `SharesAreWeights`: `Spec => []SharesFollowWeights`, from the same: if the table
  ascends, each node has its weight of the pages at the end to within N + 1 pages and
  what the weights are over 100%, in both schemes.

The idea is `Accounted`: after i entries of the interleave scheme the weight given
out is the sum of the first i weights plus what the nodes that remain have in
common, since the sum of (N - k + 1) * (w[k] - w[k - 1]) telescopes. At the
end it is the sum of the table, and each entry loses at most `FloatError` + 1 bytes to
rounding. A share below zero adds nothing or fills the range, so the
shortfall only gets smaller by it.

`SharesAreWeights` needs an invariant of its own, `SInv`. `Ahead` is by how much the
bytes placed exceed what is accounted for, and `NeverFarAhead` bounds it from the
other side: a page and a float error for each entry. `Left` is which nodes still
receive pages, and `Off` by how much a node differs from a weight. A node that still
receives pages has been given what all of them have in common, but for what each
entry rounded (`Carried`): an entry adds to each of m nodes the m-th part of what
was bound, and of the weight (`OffMoves`). A node is settled with its entry, or when
the range is full (`Settled`). If that happens before the last entry, what the other
entries still had to come is no more than `Ahead` and what the weights are over
(`RemainingWeight`, `Beyond`). That `PartsOfRange` grows by the part of each page
bound is `BindAdds`.

**AdaptiveClimbProofs**, for any numbers of nodes from 2 on, rates, measurements and
segments of at least ten pages (the code places none of less than 256).

* `SamplesAreOfThePlacement`: after the measurement thrown away the last reading is
  newer than the placement (`BaselineTaken`).
* `RejectsFirstRatioOnly`: the two integer divisions of the first percentage are
  treated by cases on the number of nodes (`FirstPercentageFacts`); after that the
  percentage only grows, and with more than 100 nodes it stays a multiple of 10
  until it is 100 (`RatioInv`).
* `PlacementsCoverEarlierOnes`: a step of 10 moves at least a page, which outweighs
  the page that a product in double may come out short of (`InterleavedShrinks`).
* `EndsEarlyOnlyWhenWorse`: the best rate is one of those measured, and a second
  average is only taken at a percentage whose first was worse (`BestKnown`).

* `TypeCorrect`: the percentage never passes 110, since only the test of the loop meets
  one past 100, and samples stop at what was asked for (`Bounded`).

**SegmentWalkProofs**, for any number of walkers, segments and records.

* `Invariance`: `Spec => []IInv`, and `PassesAreComplete`: `Spec => PassComplete`.
* `DiesForAReason`: `Spec => []DiesOnlyOf`, and `ListingIsAvailable`:
  `Spec => []ListingAvailable`.

`SeenBehind` is what a pass must keep: each long segment of the list before the
iterator has been dealt with, unless the walker has used an erased node. Additions
are at the back, so they are never behind an iterator; erasures only make the claim
weaker; an advance from a listed node skips none. `CursorAdded`, that an iterator in
the loop points to a node that has been added, makes the first of these an argument.
The set of walkers is finite (`WalkersAssumption`). `DeathInv` adds what a publisher
has written: unless it has used an erased node, its object has the long nodes it has
seen, once each and in the order of the list, and when its pass is over all those in
the list that were added before (`VectorOK`), and the name leads to the object of a
publisher that is past its creation, unless one is about to create it (`ObjectInv`).

**StartupProofs**, for any number of threads, lines, frames and calls.

* `TypeCorrect` and `MapsAreWhole`: `Spec => []NoHalfBuiltMap`.
* `OnlyScanExhaustsTheStack`: `Spec => []StackExhaustedOnlyByScan`, where `MaxDepth` is
  four or more.
* `OneMapWithoutAutostart`: `Spec => []OneMapUnlessAutostart`.

The invariant is about the stacks: above a function that has asked for a map is
the frame of `MemoryMap::getInstance` (`AskedAbove`), when that has returned the result is
a complete map (`ResultsFit`), and a frame that constructs has a numbered object
(`Numbered`). Four lemmas say that going on, calling, returning and beginning a
thread keep this; each action is one of them.

Stacks stay low because each kind of function has a rank, and the rank of a frame
and its height are at most five together (`Descending`); scan mode needs ranks in
another order, and with `AUTOSTART` it has none: there the frames go round a loop
from which there is no way up (`LoopInv`). For the one map, either the library is
still loading, on one thread, with nobody else inside it (`Loading`), or it is up and
has one map, which every use refers to (`Up`).

**StallRateProofs**, for any readers, numbers of measurements and outliers, and rates.

* `Invariance`, `OneReadingAtATime`, `SamplesAreWhole`, `FailsForAReason`: these are about
  the time before likwid has refused a call, `refused = "no"`. `err` is then 0 and nobody
  believes that a call has failed (`NoFailure`), although all threads write it; the
  counters are stopped exactly while one thread is between stop and start
  (`StoppedWhileReading`), and a second one cannot stop them without a refusal. Hence
  the static variables are of one reading except while that thread stores them
  (`StaticsTogether`), and a measurement comes after the one thrown away of the same
  average (`BaselineStored`). All of this is `Undisturbed`. `FailsForAReason` says what
  ends that time: nothing but a stop of counters that are not there or are being
  read, or a failure of likwid's own (`FirstRefusal`). After it two readers may be between
  stop and start together: that is the run `counter_race`.
* `AloneStoppedForTheRead`: one reader, and an application that does not stop the
  counters, never reads counters that run, whatever likwid refuses.
* `FilterKeepsWithin`: with at most k disturbed measurements, among the k + 1 smallest
  one is undisturbed, and among the k + 1 largest. This is a statement about
  cardinalities and permutations, for any k.

**ReweightProofs**, for any weights files, numbers of nodes, ratios, lengths and
sequences of calls.

* `TypeCorrect`: `Spec => []TypeOK`.
* `WorkersGain`: `Spec => []WorkersGainTheShift`.
* `OrderIsTheFiles`: `Spec => []AscendingUntilOvertaken`.
* `RefusedForHalves`: `Spec => []RefusedOnlyForHalves`, if `MAX_NODES` is at most 9: each
  weight is rounded by up to half a tenth, and ten of them may reach the half
  percent at which `check_sum` fails. `unstickymem.h:18` has 2, `bwap_gd_executor.c:25` 8.
* `ChunksGoRound`: `Spec => []ChunksAreEven`.
* `SharesFollowFile`: `Spec => []NodesGetTheirShare`, that is, `ChunksAreEven` and
  `PortionsFollowWeights`.

`RInv` is about the file and the sums: no two records of one node have weights other
than 0, and while the process runs the sums are those of the file or both 0, since a
second `get_sum_nww_ww` does not pass its test. `CallInv` is about the last call: a
table computed or refused by it is one of `TablesS` or `TablesDwp` for its s, and
the pages dealt by it are those of `UniformNodes`. Everything else is arithmetic. A
rounded quotient is within half (`RoundTieFacts`), an exact one is itself
(`RoundTieExact`). If d * t[k] is within d / 2 of u[k] * x for each record and the
u[k] sum to d, the t[k] sum to x within half of their number (`ProportionalSum`).
Chunks dealt in turn are counted by `Dealt`: some rounds to everyone, a chunk more
to the first nodes, and the beginning of a chunk to the next.

`SharesFollowFile` rests on four facts. The portions of a whole file, sorted, add up
to 100% (`PortionsAddUp`), so no cut is made short by the end of the segment and each
is its portion to a page (`CutFacts`). Of the first n pages, one in m has a given
remainder by m, to less than one (`OneInTurn`). So an entry gives each node it serves,
to a page, what its weight is more than the weight before (`EntryShare`), and those
differences add up to the weight of the node (`AllEntriesGive`). It needs the invariant
`MovedInitial`: a table is of nodes of their own, unless the file has fewer lines than
there are records, and then the last record has no weight and the file is not whole.
The proof changed the property. As first stated it gave every node its share to
within N pages, which held with the two and three nodes it was checked with and does not
with four: with weights of 7, 7.2, 23 and 47.8% of 250 pages the first node, if it
is node 0, can be 4.5 pages off, since what the cuts lose is left to node 0.

Induction is over sets here, since the provers cannot match the predicate of an
induction theorem: the numbers up to which two sums compare are a set that has 0
and successors (`BoundedInduction`), and that a loop has a sequence of sums at all
is `PartialSums`. The attempt to prove `WorkersGainTheShift` changed it: as first
stated it spoke of any shift that leaves the workers 0 to 100%, but if the sums are
a little more than 100 the others can have a weight below 0 then, and a file
without workers gains nothing. It now asks for workers, and for a shift that leaves
both no less than nothing.

Every invariant and action property that a run checks is proved, some under the
assumptions named above. Only model-checked:

* Liveness: `CallsReturn`, `SearchEnds`, `MemInitEnds`, `AverageEnds`, `StartupEnds`
  and the fairness in `ImplementsRegionList`. A proof needs ENABLED, which the
  provers do not handle.
* The three counterexamples, which are facts about an instance.

## 5. Not modelled

The logger and the options, the wrap pointers, the benchmarks, build files and
better-enums keep no state of the algorithm. The gradient descent executor of
`src/test` is a driver of experiments around the library: it writes weights, starts
a program, reads its time. `get_stall_rate` and `scannerThread` have no caller. Most
of what `Reweight` models has none in the library either: `place_pages_weighted_s`
and `_dwp`, `place_all_pages`, `get_sum_nww_ww`, `move_pages_initial` and
`force_uniform_interleave` are exported, or called from commented-out lines. The
functions that write log files decide one thing: without the file the first message
ends the process, which is a step of `AdaptiveClimb` and left out of `StallRate`.
The text of `/proc/self/maps` and of the weights file is data here; a weights file
of more than `MAX_NODES` lines overruns an array. The buffer for callocs made inside
`dlsym` depends on how often the C library calls calloc there. Calls the application
makes while the constructor runs are not tracked by the library, and `Startup` and
`MemoryMap` are not composed to show what the list misses then: the constructor runs
before main, on one thread.
