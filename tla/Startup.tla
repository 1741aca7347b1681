------------------------------- MODULE Startup -------------------------------
(***************************************************************************)
(* How the library comes up: the constructor libunstickymem_initialize     *)
(* (unstickymem.cpp), the two singletons MemoryMap and Runtime that it     *)
(* asks for, the start functions of the modes and the threads they begin.  *)
(*                                                                         *)
(* The getInstance functions keep a static pointer that is null until the  *)
(* constructor of the object has returned.  Each constructor needs the     *)
(* other singleton: MemoryMap asks for the Runtime at every line of        *)
(* /proc/self/maps it keeps, and Runtime, with UNSTICKYMEM_AUTOSTART,      *)
(* starts a mode that asks for the MemoryMap.  So the calls of a thread    *)
(* are a stack of frames here, and the steps of several threads            *)
(* interleave between the test of a static pointer and its assignment.     *)
(*                                                                         *)
(* A variant with a plausible mistake stands just before the operator it   *)
(* varies; nothing uses the variants.                                      *)
(***************************************************************************)
EXTENDS Integers

CONSTANTS
  Loader,       \* the thread that loads the library and then runs main
  ModeThreads,  \* threads the modes can begin
  Lines,        \* lines of /proc/self/maps that are handed to the mode
  MaxDepth,     \* frames on a stack
  MaxStarts     \* calls of unstickymem_start and unstickymem_initialize

Threads == {Loader} \cup ModeThreads
AllModes == {"wadaptive", "adaptive", "fixed", "scan", "disabled"}

ASSUME ThreadsAssumption == Loader \notin ModeThreads
ASSUME BoundsAssumption ==
  /\ Lines \in Nat \ {0} /\ MaxDepth \in Nat /\ MaxDepth >= 4 /\ MaxStarts \in Nat

VARIABLES
  mode, autostart, weights,   \* the configuration: it never changes
  mapObject, runtimeObject,   \* the static pointers of the getInstance functions
  mapsMade, runtimesMade,     \* constructors begun; objects are numbered by them
  parsed,                     \* maps whose constructor has returned
  memory, runtime,            \* the pointers of the library
  initialized,                \* is_initialized
  depth, frames,              \* depth[t] frames on the stack of t, frames[t][i]
  result,                     \* result[t]: what the last call of t returned
  using,                      \* using[t]: the map a mode's thread works on
  begun,                      \* mode threads that have been begun
  starts,                     \* calls the application has made
  memInit,                    \* MEM_INIT
  died                        \* why the process has ended, or "no"

config == <<mode, autostart, weights>>
objects == <<mapObject, runtimeObject, mapsMade, runtimesMade, parsed>>
library == <<memory, runtime, initialized>>
stacks == <<depth, frames, result>>
vars == <<config, objects, library, stacks, using, begun, starts, memInit, died>>

Labels == {"config", "gotMemory", "gotRuntime", "main",
           "mapAsk", "mapLine", "mapStore", "runAsk", "runLoad", "runStore",
           "start", "walk", "publish", "init", "adapt", "poll", "use"}

\* Where a function is, the object it constructs, and the lines still to read.
Frame == [at : Labels, id : Nat, lines : 0..Lines]
New(label) == [at |-> label, id |-> 0, lines |-> 0]

Init ==
  /\ mode \in AllModes \cup {"unknown"}
  /\ autostart \in BOOLEAN
  /\ weights \in BOOLEAN
  /\ mapObject = 0 /\ runtimeObject = 0 /\ mapsMade = 0 /\ runtimesMade = 0
  /\ parsed = {}
  /\ memory = 0 /\ runtime = 0 /\ initialized = FALSE
  /\ depth = [t \in Threads |-> IF t = Loader THEN 1 ELSE 0]
  /\ frames = [t \in Threads |-> [i \in 1..MaxDepth |-> New("config")]]
  /\ result = [t \in Threads |-> 0]
  /\ using = [t \in Threads |-> 0]
  /\ begun = {}
  /\ starts = 0
  /\ memInit = 0
  /\ died = "no"

(***************************************************************************)
(* Stacks.                                                                 *)
(***************************************************************************)
Top(t) == frames[t][depth[t]]
At(t, label) == depth[t] > 0 /\ Top(t).at = label

\* The function on top goes on at another place.
Goto(t, f) ==
  /\ frames' = [frames EXCEPT ![t] = [@ EXCEPT ![depth[t]] = f]]
  /\ UNCHANGED <<depth, result, died>>

\* It calls another one, and will go on at f.  Past MaxDepth the stack is full.
Call(t, f, callee) ==
  IF depth[t] < MaxDepth
  THEN /\ frames' = [frames EXCEPT ![t] =
                       [@ EXCEPT ![depth[t]] = f, ![depth[t] + 1] = New(callee)]]
       /\ depth' = [depth EXCEPT ![t] = @ + 1]
       /\ UNCHANGED <<result, died>>
  ELSE /\ died' = "stack"
       /\ UNCHANGED stacks

Return(t, v) ==
  /\ depth' = [depth EXCEPT ![t] = @ - 1]
  /\ result' = [result EXCEPT ![t] = v]
  /\ UNCHANGED <<frames, died>>

\* exit(), DIE and DIEIF.
Exit == died' = "exit" /\ UNCHANGED stacks

(***************************************************************************)
(* MemoryMap::getInstance and the constructor of MemoryMap.                *)
(***************************************************************************)
MapAskEarly(t) ==
  /\ At(t, "mapAsk")
  /\ IF mapObject # 0
     THEN Return(t, mapObject) /\ UNCHANGED <<mapsMade, mapObject>>
     ELSE /\ mapsMade' = mapsMade + 1
          /\ mapObject' = mapsMade'
          /\ Goto(t, [at |-> "mapLine", id |-> mapsMade', lines |-> Lines])
  /\ UNCHANGED <<config, runtimeObject, runtimesMade, parsed, library, using,
                 begun, starts, memInit>>
MapAsk(t) ==
  /\ At(t, "mapAsk")
  /\ IF mapObject # 0
     THEN Return(t, mapObject) /\ UNCHANGED mapsMade
     ELSE /\ mapsMade' = mapsMade + 1
          /\ Goto(t, [at |-> "mapLine", id |-> mapsMade', lines |-> Lines])
  /\ UNCHANGED <<config, mapObject, runtimeObject, runtimesMade, parsed, library,
                 using, begun, starts, memInit>>

\* One line of /proc/self/maps: the segment is added and given to the mode of
\* the Runtime.
MapLineAgain(t) ==
  /\ At(t, "mapLine")
  /\ IF Top(t).lines > 0
     THEN Call(t, Top(t), "runAsk")
     ELSE Goto(t, [Top(t) EXCEPT !.at = "mapStore"])
  /\ UNCHANGED <<config, objects, library, using, begun, starts, memInit>>
MapLineOneMore(t) ==
  /\ At(t, "mapLine")
  /\ IF Top(t).lines >= 0
     THEN Call(t, [Top(t) EXCEPT !.lines = @ - 1], "runAsk")
     ELSE Goto(t, [Top(t) EXCEPT !.at = "mapStore"])
  /\ UNCHANGED <<config, objects, library, using, begun, starts, memInit>>
MapLine(t) ==
  /\ At(t, "mapLine")
  /\ IF Top(t).lines > 0
     THEN Call(t, [Top(t) EXCEPT !.lines = @ - 1], "runAsk")
     ELSE Goto(t, [Top(t) EXCEPT !.at = "mapStore"])
  /\ UNCHANGED <<config, objects, library, using, begun, starts, memInit>>

MapStoreForgotten(t) ==
  /\ At(t, "mapStore")
  /\ Return(t, Top(t).id)
  /\ parsed' = parsed \cup {Top(t).id}
  /\ UNCHANGED <<config, mapObject, runtimeObject, mapsMade, runtimesMade, library,
                 using, begun, starts, memInit>>
MapStore(t) ==
  /\ At(t, "mapStore")
  /\ mapObject' = Top(t).id
  /\ Return(t, Top(t).id)
  /\ parsed' = parsed \cup {Top(t).id}
  /\ UNCHANGED <<config, runtimeObject, mapsMade, runtimesMade, library, using,
                 begun, starts, memInit>>

(***************************************************************************)
(* Runtime::getInstance and the constructor of Runtime.                    *)
(***************************************************************************)
RunAsk(t) ==
  /\ At(t, "runAsk")
  /\ IF runtimeObject # 0
     THEN Return(t, runtimeObject) /\ UNCHANGED runtimesMade
     ELSE /\ runtimesMade' = runtimesMade + 1
          /\ Goto(t, [at |-> "runLoad", id |-> runtimesMade', lines |-> 0])
  /\ UNCHANGED <<config, mapObject, runtimeObject, mapsMade, parsed, library,
                 using, begun, starts, memInit>>

\* loadConfiguration ends the process for an unknown mode.
RunLoad(t) ==
  /\ At(t, "runLoad")
  /\ IF mode \notin AllModes THEN Exit
     ELSE IF autostart THEN Call(t, [Top(t) EXCEPT !.at = "runStore"], "start")
     ELSE Goto(t, [Top(t) EXCEPT !.at = "runStore"])
  /\ UNCHANGED <<config, objects, library, using, begun, starts, memInit>>

RunStore(t) ==
  /\ At(t, "runStore")
  /\ runtimeObject' = Top(t).id
  /\ Return(t, Top(t).id)
  /\ UNCHANGED <<config, mapObject, mapsMade, runtimesMade, parsed, library, using,
                 begun, starts, memInit>>

\* mmap of the object, fopen, a line or the placement of its segment, or what the
\* constructors check at the end fails, or help was asked for.
ConstructorFails(t) ==
  /\ \/ At(t, "mapAsk") /\ mapObject = 0
     \/ At(t, "mapLine")
     \/ At(t, "mapStore")
     \/ At(t, "runAsk") /\ runtimeObject = 0
     \/ At(t, "runLoad")
  /\ Exit
  /\ UNCHANGED <<config, objects, library, using, begun, starts, memInit>>

(***************************************************************************)
(* The start functions of the modes.  std::thread's constructor throws     *)
(* when there is no thread left.                                           *)
(***************************************************************************)
\* d gives the depths of the stacks without the new thread.
Begin(label, d) ==
  IF begun = ModeThreads
  THEN died' = "threads" /\ UNCHANGED <<stacks, begun>>
  ELSE \E u \in ModeThreads \ begun :
         /\ begun' = begun \cup {u}
         /\ frames' = [frames EXCEPT ![u] = [@ EXCEPT ![1] = New(label)]]
         /\ depth' = [d EXCEPT ![u] = 1]
         /\ UNCHANGED <<result, died>>

StartScan(t) ==
  /\ mode = "scan"
  /\ Call(t, New("walk"), "mapAsk")
  /\ UNCHANGED <<begun, memInit>>

StartDisabled(t) ==
  /\ mode = "disabled"
  /\ Return(t, 0)
  /\ UNCHANGED <<begun, memInit>>

Returned(t) == [depth EXCEPT ![t] = @ - 1]

StartAdaptive(t) ==
  /\ mode = "adaptive"
  /\ Begin("adapt", Returned(t))
  /\ UNCHANGED memInit

StartFixedRatio(t) ==
  /\ mode = "fixed"
  /\ Begin("poll", Returned(t))
  /\ UNCHANGED memInit

\* As it was once: it walks the list before it begins its thread.
StartWeightedAdaptiveWalks(t) ==
  /\ mode = "wadaptive"
  /\ memInit' = 1
  /\ Call(t, New("walk"), "mapAsk")
  /\ UNCHANGED begun
StartWeightedAdaptive(t) ==
  /\ mode = "wadaptive"
  /\ memInit' = 1
  /\ Begin("publish", Returned(t))

Start(t) ==
  /\ At(t, "start")
  /\ \/ StartScan(t) \/ StartDisabled(t)
     \/ StartAdaptive(t) \/ StartFixedRatio(t) \/ StartWeightedAdaptive(t)
  /\ UNCHANGED <<config, objects, library, using, starts>>

\* Scan mode places every segment of the map and returns; a placement that fails
\* ends the process.
Walk(t) ==
  /\ At(t, "walk")
  /\ using' = [using EXCEPT ![t] = result[t]]
  /\ Return(t, 0) \/ Exit
  /\ UNCHANGED <<config, objects, library, begun, starts, memInit>>

(***************************************************************************)
(* The threads of the modes ask for the map and work on it.  The adaptive  *)
(* one reads the counters first, which ends the process unless the         *)
(* application has set them up.                                            *)
(***************************************************************************)
WeightedAdaptiveThread(t) == At(t, "publish") /\ Call(t, New("use"), "mapAsk")
MemInitThread(t) == At(t, "init") /\ Call(t, New("use"), "mapAsk")
PollerThread(t) == At(t, "poll") /\ Call(t, New("use"), "mapAsk")
AdaptiveThread(t) == At(t, "adapt") /\ (Call(t, New("use"), "mapAsk") \/ Exit)

ThreadAsks(t) ==
  /\ WeightedAdaptiveThread(t) \/ MemInitThread(t) \/ PollerThread(t) \/ AdaptiveThread(t)
  /\ UNCHANGED <<config, objects, library, using, begun, starts, memInit>>

ThreadUses(t) ==
  /\ At(t, "use")
  /\ using' = [using EXCEPT ![t] = result[t]]
  /\ Return(t, 0) \/ Exit
  /\ UNCHANGED <<config, objects, library, begun, starts, memInit>>

(***************************************************************************)
(* libunstickymem_initialize, and the calls the application makes after.   *)
(***************************************************************************)
ReadConfig ==
  /\ At(Loader, "config")
  /\ IF weights THEN Call(Loader, New("gotMemory"), "mapAsk") ELSE Exit
  /\ UNCHANGED <<config, objects, library, using, begun, starts, memInit>>

GotMemory ==
  /\ At(Loader, "gotMemory")
  /\ memory' = result[Loader]
  /\ Call(Loader, New("gotRuntime"), "runAsk")
  /\ UNCHANGED <<config, objects, runtime, initialized, using, begun, starts, memInit>>

GotRuntime ==
  /\ At(Loader, "gotRuntime")
  /\ runtime' = result[Loader]
  /\ initialized' = TRUE
  /\ Goto(Loader, New("main"))
  /\ UNCHANGED <<config, objects, memory, using, begun, starts, memInit>>

\* unstickymem_start runs the mode's start again, whatever AUTOSTART did.
UnstickymemStart ==
  /\ At(Loader, "main")
  /\ starts < MaxStarts
  /\ starts' = starts + 1
  /\ Call(Loader, New("main"), "start")
  /\ UNCHANGED <<config, objects, library, using, begun, memInit>>

\* unstickymem_initialize begins memInitThread in the weighted adaptive mode.
UnstickymemInitialize ==
  /\ At(Loader, "main")
  /\ starts < MaxStarts
  /\ mode = "wadaptive"
  /\ starts' = starts + 1
  /\ Begin("init", depth)
  /\ UNCHANGED <<config, objects, library, using, memInit>>

Load == ReadConfig \/ GotMemory \/ GotRuntime

GetInstances(t) ==
  \/ MapAsk(t) \/ MapLine(t) \/ MapStore(t)
  \/ RunAsk(t) \/ RunLoad(t) \/ RunStore(t) \/ ConstructorFails(t)

StepOfMode(t) == Start(t) \/ Walk(t) \/ ThreadAsks(t) \/ ThreadUses(t)

Application == UnstickymemStart \/ UnstickymemInitialize

\* The process has ended, or the library is up and the application does the rest.
Rest == (died # "no" \/ initialized) /\ UNCHANGED vars

Next ==
  \/ /\ died = "no"
     /\ \/ Load \/ Application
        \/ \E t \in Threads : GetInstances(t) \/ StepOfMode(t)
  \/ Rest

Spec == Init /\ [][Next]_vars

\* The kernel runs the thread that loads the library.
FairSpec ==
  Spec /\ WF_vars(died = "no" /\ (Load \/ GetInstances(Loader) \/ StepOfMode(Loader)))

(***************************************************************************)
(* Properties.                                                             *)
(***************************************************************************)
\* The types of the variables.
TypeOK ==
  /\ mode \in AllModes \cup {"unknown"} /\ autostart \in BOOLEAN /\ weights \in BOOLEAN
  /\ mapsMade \in Nat /\ runtimesMade \in Nat
  /\ mapObject \in 0..mapsMade /\ runtimeObject \in 0..runtimesMade
  /\ parsed \subseteq 1..mapsMade
  /\ memory \in 0..mapsMade /\ runtime \in 0..runtimesMade /\ initialized \in BOOLEAN
  /\ depth \in [Threads -> 0..MaxDepth]
  /\ frames \in [Threads -> [1..MaxDepth -> Frame]]
  /\ result \in [Threads -> Nat]
  /\ using \in [Threads -> Nat]
  /\ begun \subseteq ModeThreads
  /\ starts \in 0..MaxStarts
  /\ memInit \in {0, 1}
  /\ died \in {"no", "exit", "stack", "threads"}

\* "Creating MemoryMap singleton object" (MemoryMap.cpp:74): there is one map of
\* the memory and one runtime in the process.
OneMap == mapsMade <= 1 /\ runtimesMade <= 1

\* Without UNSTICKYMEM_AUTOSTART the singletons are single, and every thread of
\* a mode works on the map that the handlers of malloc and free keep up to date:
\* the constructors are over before a thread is begun.
OneMapUnlessAutostart ==
  ~autostart => OneMap /\ \A t \in Threads : using[t] \in {0, memory}

\* Nobody gets a map whose constructor is still reading /proc/self/maps, also
\* when several threads ask for it while it is being made: the static pointer is
\* assigned after the constructor.
NoHalfBuiltMap ==
  /\ {mapObject, memory} \subseteq parsed \cup {0}
  /\ \A t \in Threads : using[t] \in parsed \cup {0}

\* The constructors of the two singletons call each other without end in scan
\* mode with UNSTICKYMEM_AUTOSTART only, and then the library never comes up.
StackExhaustedOnlyByScan ==
  /\ died = "stack" => autostart /\ mode = "scan"
  /\ autostart /\ mode = "scan" => ~initialized

\* The constructor of the library returns, or the process ends.
StartupEnds == <>(initialized \/ died # "no")
=============================================================================
