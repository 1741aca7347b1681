---------------------------- MODULE StartupProofs ----------------------------
(***************************************************************************)
(* Proofs about Startup: no thread ever gets a map of the memory whose     *)
(* constructor is still under way, whichever constructors call each other  *)
(* and however many threads ask for it meanwhile.                          *)
(*                                                                         *)
(* The argument is about the stacks: a function that will use the map it   *)
(* asked for has the frame of MemoryMap::getInstance right above it, which *)
(* returns an object of `parsed` only.                                     *)
(*                                                                         *)
(* Then: no stack needs more than four frames but in scan mode with        *)
(* AUTOSTART, where none is enough; and without AUTOSTART there is one     *)
(* map, since the thread that loads the library is alone until it has      *)
(* both objects.                                                           *)
(***************************************************************************)
EXTENDS Startup, TLAPS

MapFrames == {"mapAsk", "mapLine", "mapStore"}
RunFrames == {"runAsk", "runLoad", "runStore"}

\* Where a function has asked for a map.
MapUsers == {"gotMemory", "walk", "use"}

\* Types of the stacks.
StackTypes ==
  /\ depth \in [Threads -> 0..MaxDepth]
  /\ frames \in [Threads -> [1..MaxDepth -> Frame]]
  /\ result \in [Threads -> Nat]

\* Above a function that has asked for a singleton is the getInstance it called.
AskedAbove ==
  \A t \in Threads, i \in 1..MaxDepth : i < depth[t] =>
    /\ frames[t][i].at \in MapUsers => frames[t][i + 1].at \in MapFrames
    /\ frames[t][i].at = "gotRuntime" => frames[t][i + 1].at \in RunFrames

\* Once that has returned there is nothing above, and the result is what was asked for.
ResultsFit ==
  \A t \in Threads : depth[t] > 0 =>
    /\ Top(t).at \in MapUsers => result[t] \in parsed \cup {0}
    /\ Top(t).at = "gotRuntime" => result[t] \in 0..runtimesMade

\* Objects under construction are numbered.
Numbered ==
  \A t \in Threads, i \in 1..MaxDepth :
    /\ frames[t][i].at \in {"mapLine", "mapStore"} => frames[t][i].id \in 1..mapsMade
    /\ frames[t][i].at \in {"runLoad", "runStore"} => frames[t][i].id \in 1..runtimesMade

Stacks == StackTypes /\ AskedAbove /\ ResultsFit /\ Numbered

Inv == TypeOK /\ Stacks /\ NoHalfBuiltMap

\* A frame the function on top may go on with: it asks for the same singleton.
SameKind(f, g) ==
  /\ f.at \in MapFrames => g.at \in MapFrames
  /\ f.at \in RunFrames => g.at \in RunFrames

NumberedFrame(f) ==
  /\ f.at \in {"mapLine", "mapStore"} => f.id \in 1..mapsMade'
  /\ f.at \in {"runLoad", "runStore"} => f.id \in 1..runtimesMade'

\* No object is unmade.
Grows ==
  /\ mapsMade \in Nat /\ mapsMade' \in Nat /\ mapsMade <= mapsMade'
  /\ runtimesMade \in Nat /\ runtimesMade' \in Nat /\ runtimesMade <= runtimesMade'
  /\ parsed \subseteq parsed'

LEMMA NewFrame == \A label \in Labels : New(label) \in Frame /\ New(label).at = label
  BY BoundsAssumption DEF New, Frame

LEMMA TopFrame ==
  ASSUME StackTypes, NEW t \in Threads, depth[t] > 0
  PROVE  depth[t] \in 1..MaxDepth /\ Top(t) \in Frame
  BY BoundsAssumption DEF StackTypes, Top

LEMMA GotoKeeps ==
  ASSUME Stacks, Grows, NEW t \in Threads, depth[t] > 0, NEW f \in Frame, Goto(t, f),
         SameKind(Top(t), f), NumberedFrame(f), f.at \notin MapUsers \cup {"gotRuntime"}
  PROVE  Stacks'
<1> DEFINE d == depth[t]
<1>1. d \in 1..MaxDepth /\ MaxDepth \in Nat
  BY TopFrame, BoundsAssumption DEF Stacks
<1>2. /\ \A u \in Threads : u # t => frames'[u] = frames[u]
      /\ \A i \in 1..MaxDepth : frames'[t][i] = IF i = d THEN f ELSE frames[t][i]
      /\ depth' = depth /\ result' = result
  BY <1>1 DEF Goto, Stacks, StackTypes
<1>3. StackTypes'
  BY <1>1 DEF Goto, Stacks, StackTypes
<1>4. AskedAbove'
  <2> SUFFICES ASSUME NEW u \in Threads, NEW i \in 1..MaxDepth, i < depth[u]
               PROVE  /\ frames'[u][i].at \in MapUsers => frames'[u][i + 1].at \in MapFrames
                      /\ frames'[u][i].at = "gotRuntime" => frames'[u][i + 1].at \in RunFrames
    BY <1>2 DEF AskedAbove
  <2>1. i + 1 \in 1..MaxDepth /\ depth[u] \in 0..MaxDepth
    BY <1>1 DEF Stacks, StackTypes
  <2>2. /\ frames[u][i].at \in MapUsers => frames[u][i + 1].at \in MapFrames
        /\ frames[u][i].at = "gotRuntime" => frames[u][i + 1].at \in RunFrames
    BY DEF Stacks, AskedAbove
  <2>3. CASE u # t
    BY <1>2, <2>2, <2>3
  <2>4. CASE u = t /\ i + 1 # d
    BY <1>2, <2>1, <2>2, <2>4
  <2>5. CASE u = t /\ i + 1 = d
    <3>1. frames'[u][i] = frames[u][i] /\ frames'[u][i + 1] = f /\ frames[u][i + 1] = Top(t)
      BY <1>1, <1>2, <2>1, <2>5 DEF Top
    <3> QED BY <3>1, <2>2 DEF SameKind
  <2> QED BY <2>3, <2>4, <2>5
<1>5. ResultsFit'
  <2>1. \A u \in Threads : u # t => Top(u)' = Top(u)
    BY <1>2 DEF Top
  <2>2. Top(t)' = f
    BY <1>1, <1>2 DEF Top
  <2> QED BY <1>2, <2>1, <2>2 DEF Stacks, StackTypes, ResultsFit, Grows
<1>6. Numbered'
  BY <1>1, <1>2 DEF Stacks, Numbered, NumberedFrame, Grows
<1> QED BY <1>3, <1>4, <1>5, <1>6 DEF Stacks

LEMMA CallKeeps ==
  ASSUME Stacks, Grows, NEW t \in Threads, depth[t] > 0, NEW f \in Frame,
         NEW callee \in Labels, Call(t, f, callee),
         SameKind(Top(t), f), NumberedFrame(f),
         callee \notin MapUsers \cup {"gotRuntime", "mapLine", "mapStore", "runLoad", "runStore"},
         f.at \in MapUsers => callee = "mapAsk", f.at = "gotRuntime" => callee = "runAsk"
  PROVE  Stacks'
<1> DEFINE d == depth[t]
<1>1. d \in 1..MaxDepth /\ MaxDepth \in Nat
  BY TopFrame, BoundsAssumption DEF Stacks
<1>2. New(callee) \in Frame /\ New(callee).at = callee
  BY NewFrame
<1>3. CASE d < MaxDepth
  <2>1. /\ frames' = [frames EXCEPT ![t] = [@ EXCEPT ![d] = f, ![d + 1] = New(callee)]]
        /\ depth' = [depth EXCEPT ![t] = d + 1] /\ result' = result
    BY <1>3 DEF Call
  <2>2. /\ \A u \in Threads : u # t => frames'[u] = frames[u] /\ depth'[u] = depth[u]
        /\ \A i \in 1..MaxDepth :
             frames'[t][i] = IF i = d THEN f ELSE IF i = d + 1 THEN New(callee) ELSE frames[t][i]
        /\ depth'[t] = d + 1
    BY <1>1, <1>3, <2>1 DEF Stacks, StackTypes
  <2>3. StackTypes'
    <3>1. d + 1 \in 1..MaxDepth /\ frames[t] \in [1..MaxDepth -> Frame]
      BY <1>1, <1>3 DEF Stacks, StackTypes
    <3>2. [frames[t] EXCEPT ![d] = f, ![d + 1] = New(callee)] \in [1..MaxDepth -> Frame]
      BY <1>1, <1>2, <3>1
    <3>3. frames' \in [Threads -> [1..MaxDepth -> Frame]]
      BY <2>1, <3>2 DEF Stacks, StackTypes
    <3>4. depth' \in [Threads -> 0..MaxDepth]
      BY <2>1, <3>1 DEF Stacks, StackTypes
    <3> QED BY <2>1, <3>3, <3>4 DEF Stacks, StackTypes
  <2>4. AskedAbove'
    <3> SUFFICES ASSUME NEW u \in Threads, NEW i \in 1..MaxDepth, i < depth'[u]
                 PROVE  /\ frames'[u][i].at \in MapUsers => frames'[u][i + 1].at \in MapFrames
                        /\ frames'[u][i].at = "gotRuntime" => frames'[u][i + 1].at \in RunFrames
      BY DEF AskedAbove
    <3>1. i + 1 \in 1..MaxDepth /\ depth[u] \in 0..MaxDepth
      BY <1>1, <1>3, <2>2 DEF Stacks, StackTypes
    <3>2. i < depth[u] =>
            /\ frames[u][i].at \in MapUsers => frames[u][i + 1].at \in MapFrames
            /\ frames[u][i].at = "gotRuntime" => frames[u][i + 1].at \in RunFrames
      BY DEF Stacks, AskedAbove
    <3>3. CASE u # t
      BY <2>2, <3>2, <3>3
    <3>4. CASE u = t /\ i + 1 < d
      BY <1>1, <2>2, <3>1, <3>2, <3>4
    <3>5. CASE u = t /\ i + 1 = d
      <4>1. frames'[u][i] = frames[u][i] /\ frames'[u][i + 1] = f /\ frames[u][i + 1] = Top(t)
        BY <1>1, <2>2, <3>1, <3>5 DEF Top
      <4> QED BY <1>1, <3>2, <3>5, <4>1 DEF SameKind
    <3>6. CASE u = t /\ i = d
      <4>1. frames'[u][i] = f /\ frames'[u][i + 1].at = callee
        BY <1>1, <1>2, <2>2, <3>1, <3>6
      <4> QED BY <4>1 DEF MapFrames, RunFrames
    <3> QED BY <1>1, <2>2, <3>3, <3>4, <3>5, <3>6
  <2>5. ResultsFit'
    BY <1>1, <1>2, <1>3, <2>1, <2>2 DEF Stacks, StackTypes, ResultsFit, Top, Grows
  <2>6. Numbered'
    BY <1>1, <1>2, <1>3, <2>2 DEF Stacks, Numbered, NumberedFrame, Grows
  <2> QED BY <2>3, <2>4, <2>5, <2>6 DEF Stacks
<1>4. CASE ~(d < MaxDepth)
  <2>1. UNCHANGED stacks
    BY <1>4 DEF Call
  <2> QED BY <2>1 DEF stacks, Stacks, StackTypes, AskedAbove, ResultsFit, Numbered, Top, Grows
<1> QED BY <1>3, <1>4

LEMMA ReturnKeeps ==
  ASSUME Stacks, Grows, NEW t \in Threads, depth[t] > 0, NEW v \in Nat, Return(t, v),
         Top(t).at \in MapFrames => v \in parsed' \cup {0},
         Top(t).at \in RunFrames => v \in 0..runtimesMade'
  PROVE  Stacks'
<1> DEFINE d == depth[t]
<1>1. d \in 1..MaxDepth /\ MaxDepth \in Nat
  BY TopFrame, BoundsAssumption DEF Stacks
<1>2. /\ \A u \in Threads : u # t => depth'[u] = depth[u] /\ result'[u] = result[u]
      /\ depth'[t] = d - 1 /\ result'[t] = v /\ frames' = frames
  BY <1>1 DEF Return, Stacks, StackTypes
<1>3. StackTypes'
  BY <1>1 DEF Return, Stacks, StackTypes
<1>4. AskedAbove'
  <2>1. \A u \in Threads, i \in 1..MaxDepth : i < depth'[u] => i < depth[u]
    BY <1>1, <1>2
  <2> QED BY <1>2, <2>1 DEF Stacks, AskedAbove
<1>5. ResultsFit'
  <2> SUFFICES ASSUME NEW u \in Threads, depth'[u] > 0
               PROVE  /\ Top(u)'.at \in MapUsers => result'[u] \in parsed' \cup {0}
                      /\ Top(u)'.at = "gotRuntime" => result'[u] \in 0..runtimesMade'
    BY DEF ResultsFit
  <2>1. CASE u # t
    <3>1. Top(u)' = Top(u) /\ result'[u] = result[u] /\ depth[u] > 0
      BY <1>2, <2>1 DEF Top
    <3> QED BY <3>1 DEF Stacks, ResultsFit, Grows
  <2>2. CASE u = t
    <3>1. Top(u)' = frames[t][d - 1] /\ result'[u] = v /\ d - 1 \in 1..MaxDepth /\ d - 1 < d
      BY <1>1, <1>2, <2>2 DEF Top
    <3>2. /\ frames[t][d - 1].at \in MapUsers => Top(t).at \in MapFrames
          /\ frames[t][d - 1].at = "gotRuntime" => Top(t).at \in RunFrames
      BY <1>1, <3>1 DEF Stacks, AskedAbove, Top
    <3> QED BY <3>1, <3>2
  <2> QED BY <2>1, <2>2
<1>6. Numbered'
  BY <1>1, <1>2 DEF Stacks, Numbered, Grows
<1> QED BY <1>3, <1>4, <1>5, <1>6 DEF Stacks

LEMMA ExitKeeps == ASSUME Stacks, Grows, UNCHANGED stacks PROVE Stacks'
  BY DEF stacks, Stacks, StackTypes, AskedAbove, ResultsFit, Numbered, Top, Grows

\* A new thread has a stack of one frame, which has asked for nothing yet.
LEMMA BeginKeeps ==
  ASSUME Stacks, Grows, NEW t \in Threads, depth[t] > 0,
         NEW label \in {"publish", "init", "adapt", "poll"},
         NEW d \in {depth, [depth EXCEPT ![t] = @ - 1]},
         d = depth \/ Top(t).at = "start", Begin(label, d)
  PROVE  Stacks'
<1>1. depth[t] \in 1..MaxDepth /\ MaxDepth \in Nat /\ 1 \in 1..MaxDepth
  BY TopFrame, BoundsAssumption DEF Stacks
<1>2. CASE begun = ModeThreads
  BY <1>2, ExitKeeps DEF Begin
<1>3. CASE begun # ModeThreads
  <2>1. PICK u \in ModeThreads \ begun :
          /\ frames' = [frames EXCEPT ![u] = [@ EXCEPT ![1] = New(label)]]
          /\ depth' = [d EXCEPT ![u] = 1]
          /\ result' = result
    BY <1>3 DEF Begin
  <2>2. u \in Threads /\ New(label) \in Frame /\ New(label).at = label
    BY NewFrame DEF Threads, Labels
  <2>3. d \in [Threads -> 0..MaxDepth] /\ \A w \in Threads : d[w] = depth[w] \/ (w = t /\ d[w] = depth[w] - 1)
    BY <1>1 DEF Stacks, StackTypes
  <2>4. /\ \A w \in Threads : w # u => frames'[w] = frames[w] /\ depth'[w] = d[w]
        /\ \A i \in 1..MaxDepth : frames'[u][i] = IF i = 1 THEN New(label) ELSE frames[u][i]
        /\ depth'[u] = 1
    BY <1>1, <2>1, <2>2, <2>3 DEF Stacks, StackTypes
  <2>5. StackTypes'
    <3>1. frames[u] \in [1..MaxDepth -> Frame]
      BY <2>2 DEF Stacks, StackTypes
    <3>2. [frames[u] EXCEPT ![1] = New(label)] \in [1..MaxDepth -> Frame]
      BY <1>1, <2>2, <3>1
    <3>3. frames' \in [Threads -> [1..MaxDepth -> Frame]]
      BY <2>1, <3>2 DEF Stacks, StackTypes
    <3>4. depth' \in [Threads -> 0..MaxDepth]
      <4>1. 1 \in 0..MaxDepth
        BY <1>1
      <4> QED BY <4>1, <2>1, <2>2, <2>3
    <3> QED BY <2>1, <3>3, <3>4 DEF Stacks, StackTypes
  <2>6. AskedAbove'
    <3> SUFFICES ASSUME NEW w \in Threads, NEW i \in 1..MaxDepth, i < depth'[w]
                 PROVE  /\ frames'[w][i].at \in MapUsers => frames'[w][i + 1].at \in MapFrames
                        /\ frames'[w][i].at = "gotRuntime" => frames'[w][i + 1].at \in RunFrames
      BY DEF AskedAbove
    <3>1. w # u
      BY <2>4
    <3>2. i < depth[w]
      BY <1>1, <2>3, <2>4, <3>1 DEF Stacks, StackTypes
    <3> QED BY <2>4, <3>1, <3>2 DEF Stacks, AskedAbove
  <2>7. ResultsFit'
    <3> SUFFICES ASSUME NEW w \in Threads, depth'[w] > 0
                 PROVE  /\ Top(w)'.at \in MapUsers => result[w] \in parsed' \cup {0}
                        /\ Top(w)'.at = "gotRuntime" => result[w] \in 0..runtimesMade'
      BY <2>1 DEF ResultsFit
    <3>1. CASE w = u
      BY <1>1, <2>2, <2>4, <3>1 DEF Top, MapUsers
    <3>2. CASE w # u /\ d[w] = depth[w]
      <4>1. Top(w)' = Top(w)
        BY <2>4, <3>2 DEF Top
      <4> QED BY <2>4, <3>2, <4>1 DEF Stacks, StackTypes, ResultsFit, Grows
    <3>3. CASE w # u /\ d[w] # depth[w]
      <4>1. w = t /\ depth'[w] = depth[t] - 1 /\ Top(t).at = "start"
        BY <2>3, <2>4, <3>3
      <4>2. depth[t] - 1 \in 1..MaxDepth /\ Top(w)' = frames[t][depth[t] - 1]
        BY <1>1, <2>4, <3>3, <4>1 DEF Top
      <4>3. frames[t][(depth[t] - 1) + 1].at = "start"
        BY <1>1, <4>1 DEF Top
      <4> QED BY <1>1, <4>2, <4>3 DEF Stacks, AskedAbove, MapFrames, RunFrames
    <3> QED BY <3>1, <3>2, <3>3
  <2>8. Numbered'
    BY <2>2, <2>4 DEF Stacks, Numbered, Grows
  <2> QED BY <2>5, <2>6, <2>7, <2>8 DEF Stacks
<1> QED BY <1>2, <1>3

LEMMA Initially == Init => Inv
<1> SUFFICES ASSUME Init PROVE Inv
  OBVIOUS
<1>1. New("config") \in Frame /\ New("config").at = "config"
  BY NewFrame DEF Labels
<1>2. MaxDepth \in Nat /\ MaxDepth >= 4 /\ MaxStarts \in Nat
  BY BoundsAssumption
<1>3. StackTypes
  BY <1>1, <1>2 DEF Init, StackTypes
<1>4. \A t \in Threads, i \in 1..MaxDepth : frames[t][i].at = "config" /\ depth[t] \in 0..1
  BY <1>1 DEF Init
<1>5. AskedAbove /\ Numbered
  BY <1>2, <1>4 DEF AskedAbove, Numbered, MapUsers
<1>8. ResultsFit
  <2> SUFFICES ASSUME NEW t \in Threads, depth[t] > 0 PROVE Top(t).at = "config"
    BY DEF ResultsFit, MapUsers
  <2>1. depth[t] = 1 /\ 1 \in 1..MaxDepth
    BY <1>2, <1>4
  <2> QED BY <1>4, <2>1 DEF Top
<1>6. NoHalfBuiltMap
  BY DEF Init, NoHalfBuiltMap
<1>7. TypeOK
  <2>1. 0 \in 0..MaxStarts /\ 0 \in 0..0
    BY <1>2
  <2>2. using \in [Threads -> Nat]
    BY DEF Init
  <2> QED BY <1>3, <2>1, <2>2 DEF Init, TypeOK, StackTypes
<1> QED BY <1>3, <1>5, <1>6, <1>7, <1>8 DEF Inv, Stacks

\* Each step keeps the invariant.
LEMMA MapAskKeeps == ASSUME Inv, NEW t \in Threads, MapAsk(t) PROVE Inv'
<1>1. Stacks /\ depth[t] > 0 /\ Top(t).at = "mapAsk" /\ Top(t) \in Frame
  BY TopFrame DEF MapAsk, At, Inv, Stacks, Threads
<1>2. Grows
  BY <1>1 DEF MapAsk, Inv, TypeOK, Grows, objects
<1>3. Stacks'
  <2>1. CASE mapObject # 0
    <3>1. mapObject \in Nat /\ mapObject \in parsed /\ parsed' = parsed /\ Return(t, mapObject)
      BY <2>1 DEF MapAsk, Inv, TypeOK, NoHalfBuiltMap
    <3> QED BY <1>1, <1>2, <3>1, ReturnKeeps DEF RunFrames
  <2>2. CASE mapObject = 0
    <3> DEFINE f == [at |-> "mapLine", id |-> mapsMade', lines |-> Lines]
    <3>1. mapsMade' = mapsMade + 1 /\ runtimesMade' = runtimesMade /\ Goto(t, f)
      BY <2>2 DEF MapAsk
    <3>2. f \in Frame /\ SameKind(Top(t), f) /\ NumberedFrame(f)
      BY <1>1, <3>1, BoundsAssumption DEF Inv, TypeOK, SameKind, NumberedFrame, MapFrames, RunFrames, MapUsers, Frame, Labels
    <3>3. f.at \notin MapUsers \cup {"gotRuntime"}
      BY DEF MapUsers
    <3> HIDE DEF f
    <3> QED BY <1>1, <1>2, <3>1, <3>2, <3>3, GotoKeeps
  <2> QED BY <2>1, <2>2
<1>4. TypeOK' /\ NoHalfBuiltMap'
  BY <1>1, <1>3 DEF MapAsk, Inv, TypeOK, NoHalfBuiltMap, Stacks, StackTypes, config, objects,
    library, Goto, Return
<1> QED BY <1>3, <1>4 DEF Inv

LEMMA MapLineKeeps == ASSUME Inv, NEW t \in Threads, MapLine(t) PROVE Inv'
<1>1. Stacks /\ depth[t] > 0 /\ Top(t).at = "mapLine" /\ Top(t) \in Frame
  BY TopFrame DEF MapLine, At, Inv, Stacks, Threads
<1>2. Grows
  BY <1>1 DEF MapLine, Inv, TypeOK, Grows, objects
<1>3. Stacks'
  <2>1. \/ \E l \in 0..Lines : Call(t, [Top(t) EXCEPT !.lines = l], "runAsk")
        \/ Goto(t, [Top(t) EXCEPT !.at = "mapStore"])
    BY <1>1, BoundsAssumption DEF MapLine, Frame
  <2>2. Top(t).id \in 1..mapsMade'
    BY <1>1, <1>2 DEF Stacks, StackTypes, Numbered, Top, Grows
  <2>3. ASSUME NEW l \in 0..Lines, Call(t, [Top(t) EXCEPT !.lines = l], "runAsk") PROVE Stacks'
    <3> DEFINE f == [Top(t) EXCEPT !.lines = l]
    <3>1. f \in Frame /\ f.at = "mapLine" /\ SameKind(Top(t), f) /\ NumberedFrame(f)
      BY <1>1, <2>2 DEF SameKind, NumberedFrame, MapFrames, RunFrames, MapUsers, Frame, Labels
    <3> HIDE DEF f
    <3> QED BY <1>1, <1>2, <2>3, <3>1, CallKeeps DEF f, MapUsers, Labels
  <2>4. CASE Goto(t, [Top(t) EXCEPT !.at = "mapStore"])
    <3> DEFINE f == [Top(t) EXCEPT !.at = "mapStore"]
    <3>1. f \in Frame /\ f.at = "mapStore" /\ SameKind(Top(t), f) /\ NumberedFrame(f)
      BY <1>1, <2>2 DEF SameKind, NumberedFrame, MapFrames, RunFrames, MapUsers, Frame, Labels
    <3>2. Goto(t, f) /\ f.at \notin MapUsers \cup {"gotRuntime"}
      BY <2>4, <3>1 DEF MapUsers
    <3> HIDE DEF f
    <3> QED BY <1>1, <1>2, <3>1, <3>2, GotoKeeps
  <2> QED BY <2>1, <2>3, <2>4
<1>4. TypeOK' /\ NoHalfBuiltMap'
  BY <1>1, <1>3 DEF MapLine, Inv, TypeOK, NoHalfBuiltMap, Stacks, StackTypes, config, objects,
    library, Goto, Call, stacks
<1> QED BY <1>3, <1>4 DEF Inv

LEMMA MapStoreKeeps == ASSUME Inv, NEW t \in Threads, MapStore(t) PROVE Inv'
<1>1. Stacks /\ depth[t] > 0 /\ Top(t).at = "mapStore" /\ Top(t) \in Frame
  BY TopFrame DEF MapStore, At, Inv, Stacks, Threads
<1>2. Grows
  BY <1>1 DEF MapStore, Inv, TypeOK, Grows, objects
<1>3. Top(t).id \in 1..mapsMade
  BY <1>1, TopFrame DEF Stacks, Numbered, Top
<1>4. Stacks'
  <2>1. Return(t, Top(t).id) /\ Top(t).id \in parsed' /\ Top(t).id \in Nat
    BY <1>1 DEF MapStore, Frame
  <2> QED BY <1>1, <1>2, <2>1, ReturnKeeps DEF RunFrames
<1>5. /\ mapObject' = Top(t).id /\ parsed' = parsed \cup {Top(t).id} /\ died' = died
      /\ UNCHANGED <<config, runtimeObject, mapsMade, runtimesMade, library, using, begun, starts,
                     memInit>>
  BY DEF MapStore, Return
<1>6. TypeOK'
  <2>1. mapObject' \in 0..mapsMade' /\ parsed' \subseteq 1..mapsMade'
    <3>1. mapsMade \in Nat /\ mapsMade' = mapsMade /\ parsed \subseteq 1..mapsMade
      BY <1>5 DEF Inv, TypeOK
    <3>2. mapObject' \in 1..mapsMade
      BY <1>3, <1>5
    <3>3. parsed' \subseteq 1..mapsMade
      BY <1>3, <1>5, <3>1 DEF config
    <3> QED BY <3>1, <3>2, <3>3
  <2>2. StackTypes'
    BY <1>4 DEF Stacks
  <2> QED BY <1>5, <2>1, <2>2 DEF Inv, TypeOK, StackTypes, config, library
<1>7. NoHalfBuiltMap'
  BY <1>5 DEF Inv, NoHalfBuiltMap, library
<1> QED BY <1>4, <1>6, <1>7 DEF Inv

LEMMA RunAskKeeps == ASSUME Inv, NEW t \in Threads, RunAsk(t) PROVE Inv'
<1>1. Stacks /\ depth[t] > 0 /\ Top(t).at = "runAsk" /\ Top(t) \in Frame
  BY TopFrame DEF RunAsk, At, Inv, Stacks, Threads
<1>2. Grows
  BY <1>1 DEF RunAsk, Inv, TypeOK, Grows, objects
<1>3. Stacks'
  <2>1. CASE runtimeObject # 0
    <3>1. runtimeObject \in Nat /\ runtimeObject \in 0..runtimesMade' /\ Return(t, runtimeObject)
      BY <2>1 DEF RunAsk, Inv, TypeOK
    <3> QED BY <1>1, <1>2, <3>1, ReturnKeeps DEF MapFrames
  <2>2. CASE runtimeObject = 0
    <3> DEFINE f == [at |-> "runLoad", id |-> runtimesMade', lines |-> 0]
    <3>1. mapsMade' = mapsMade /\ runtimesMade' = runtimesMade + 1 /\ Goto(t, f)
      BY <2>2 DEF RunAsk
    <3>2. f \in Frame /\ SameKind(Top(t), f) /\ NumberedFrame(f)
      BY <1>1, <3>1, BoundsAssumption DEF Inv, TypeOK, SameKind, NumberedFrame, MapFrames, RunFrames, MapUsers, Frame, Labels
    <3>3. f.at \notin MapUsers \cup {"gotRuntime"}
      BY DEF MapUsers
    <3> HIDE DEF f
    <3> QED BY <1>1, <1>2, <3>1, <3>2, <3>3, GotoKeeps
  <2> QED BY <2>1, <2>2
<1>4. TypeOK' /\ NoHalfBuiltMap'
  BY <1>1, <1>3 DEF RunAsk, Inv, TypeOK, NoHalfBuiltMap, Stacks, StackTypes, config, objects,
    library, Goto, Return
<1> QED BY <1>3, <1>4 DEF Inv

LEMMA RunLoadKeeps == ASSUME Inv, NEW t \in Threads, RunLoad(t) PROVE Inv'
<1>1. Stacks /\ depth[t] > 0 /\ Top(t).at = "runLoad" /\ Top(t) \in Frame
  BY TopFrame DEF RunLoad, At, Inv, Stacks, Threads
<1>2. Grows
  BY <1>1 DEF RunLoad, Inv, TypeOK, Grows, objects
<1>3. Stacks'
  <2> DEFINE f == [Top(t) EXCEPT !.at = "runStore"]
  <2>1. Exit \/ Call(t, f, "start") \/ Goto(t, f)
    BY DEF RunLoad
  <2>2. Top(t).id \in 1..runtimesMade'
    BY <1>1, <1>2 DEF Stacks, StackTypes, Numbered, Top, Grows
  <2>3. f \in Frame /\ f.at = "runStore" /\ SameKind(Top(t), f) /\ NumberedFrame(f)
    BY <1>1, <2>2 DEF SameKind, NumberedFrame, MapFrames, RunFrames, MapUsers, Frame, Labels
  <2> HIDE DEF f
  <2>4. CASE Exit
    BY <1>1, <1>2, <2>4, ExitKeeps DEF Exit
  <2>5. CASE Call(t, f, "start")
    BY <1>1, <1>2, <2>3, <2>5, CallKeeps DEF MapUsers, Labels
  <2>6. CASE Goto(t, f)
    <3>1. f.at \notin MapUsers \cup {"gotRuntime"}
      BY <2>3 DEF MapUsers
    <3> QED BY <1>1, <1>2, <2>3, <2>6, <3>1, GotoKeeps
  <2> QED BY <2>1, <2>4, <2>5, <2>6
<1>4. TypeOK' /\ NoHalfBuiltMap'
  BY <1>1, <1>3 DEF RunLoad, Inv, TypeOK, NoHalfBuiltMap, Stacks, StackTypes, config, objects,
    library, Goto, Call, Exit, stacks
<1> QED BY <1>3, <1>4 DEF Inv

LEMMA RunStoreKeeps == ASSUME Inv, NEW t \in Threads, RunStore(t) PROVE Inv'
<1>1. Stacks /\ depth[t] > 0 /\ Top(t).at = "runStore" /\ Top(t) \in Frame
  BY TopFrame DEF RunStore, At, Inv, Stacks, Threads
<1>2. Grows
  BY <1>1 DEF RunStore, Inv, TypeOK, Grows, objects
<1>3. Stacks'
  <2>1. Return(t, Top(t).id) /\ Top(t).id \in 0..runtimesMade' /\ Top(t).id \in Nat
    BY <1>1, <1>2 DEF RunStore, Frame, Stacks, StackTypes, Numbered, Top, Grows
  <2> QED BY <1>1, <1>2, <2>1, ReturnKeeps DEF MapFrames
<1>4. TypeOK' /\ NoHalfBuiltMap'
  BY <1>1, <1>3 DEF RunStore, Inv, TypeOK, NoHalfBuiltMap, Stacks, StackTypes, config, objects,
    library, Return, Numbered, Top
<1> QED BY <1>3, <1>4 DEF Inv

LEMMA ConstructorFailsKeeps == ASSUME Inv, NEW t \in Threads, ConstructorFails(t) PROVE Inv'
<1>1. Stacks /\ depth[t] > 0 /\ TRUE /\ Top(t) \in Frame
  BY TopFrame DEF ConstructorFails, At, Inv, Stacks, Threads
<1>2. Grows
  BY <1>1 DEF ConstructorFails, Inv, TypeOK, Grows, objects
<1>3. Stacks'
  BY <1>1, <1>2, ExitKeeps DEF ConstructorFails, Exit
<1>4. TypeOK' /\ NoHalfBuiltMap'
  BY <1>1, <1>3 DEF ConstructorFails, Inv, TypeOK, NoHalfBuiltMap, Stacks, StackTypes, config, objects,
    library, Exit, stacks
<1> QED BY <1>3, <1>4 DEF Inv

LEMMA StartKeeps == ASSUME Inv, NEW t \in Threads, Start(t) PROVE Inv'
<1>1. Stacks /\ depth[t] > 0 /\ Top(t).at = "start" /\ Top(t) \in Frame
  BY TopFrame DEF Start, At, Inv, Stacks, Threads
<1>2. Grows
  BY <1>1 DEF Start, Inv, TypeOK, Grows, objects
<1>3. Stacks'
  <2>1. New("walk") \in Frame /\ New("walk").at = "walk"
    BY NewFrame DEF Labels
  <2>2. SameKind(Top(t), New("walk")) /\ NumberedFrame(New("walk"))
    BY <1>1, <2>1 DEF SameKind, NumberedFrame, MapFrames, RunFrames
  <2>3. CASE StartScan(t)
    <3>1. Call(t, New("walk"), "mapAsk")
      BY <2>3 DEF StartScan
    <3> QED BY <1>1, <1>2, <2>1, <2>2, <3>1, CallKeeps DEF MapUsers, Labels
  <2>4. CASE StartDisabled(t)
    <3>1. Return(t, 0)
      BY <2>4 DEF StartDisabled
    <3> QED BY <1>1, <1>2, <3>1, ReturnKeeps DEF MapFrames, RunFrames
  <2>5. CASE StartAdaptive(t) \/ StartFixedRatio(t) \/ StartWeightedAdaptive(t)
    <3>1. PICK label \in {"publish", "adapt", "poll"} : Begin(label, Returned(t))
      BY <2>5 DEF StartAdaptive, StartFixedRatio, StartWeightedAdaptive
    <3> QED BY <1>1, <1>2, <3>1, BeginKeeps DEF Returned
  <2> QED BY <2>3, <2>4, <2>5 DEF Start
<1>4. TypeOK' /\ NoHalfBuiltMap'
  <2>1. begun' \subseteq ModeThreads /\ memInit' \in {0, 1}
    BY DEF Start, StartScan, StartDisabled, StartAdaptive, StartFixedRatio, StartWeightedAdaptive,
      Begin, Inv, TypeOK
  <2>2. died' \in {"no", "exit", "stack", "threads"}
    BY DEF Start, StartScan, StartDisabled, StartAdaptive, StartFixedRatio, StartWeightedAdaptive,
      Call, Return, Begin, Inv, TypeOK
  <2>3. UNCHANGED <<config, objects, library, using, starts>>
    BY DEF Start
  <2> QED BY <1>3, <2>1, <2>2, <2>3 DEF Inv, TypeOK, NoHalfBuiltMap, Stacks, StackTypes, config, objects,
    library
<1> QED BY <1>3, <1>4 DEF Inv

LEMMA WalkKeeps == ASSUME Inv, NEW t \in Threads, Walk(t) PROVE Inv'
<1>1. Stacks /\ depth[t] > 0 /\ Top(t).at = "walk" /\ Top(t) \in Frame
  BY TopFrame DEF Walk, At, Inv, Stacks, Threads
<1>2. Grows
  BY <1>1 DEF Walk, Inv, TypeOK, Grows, objects
<1>3. Stacks'
  <2>1. CASE Return(t, 0)
    BY <1>1, <1>2, <2>1, ReturnKeeps DEF MapFrames, RunFrames
  <2>2. CASE Exit
    BY <1>1, <1>2, <2>2, ExitKeeps DEF Exit
  <2> QED BY <2>1, <2>2 DEF Walk
<1>4. TypeOK' /\ NoHalfBuiltMap'
  BY <1>1, <1>3 DEF Walk, Inv, TypeOK, NoHalfBuiltMap, Stacks, StackTypes, config, objects,
    library, ResultsFit, MapUsers, Return, Exit, stacks
<1> QED BY <1>3, <1>4 DEF Inv

LEMMA ThreadUsesKeeps == ASSUME Inv, NEW t \in Threads, ThreadUses(t) PROVE Inv'
<1>1. Stacks /\ depth[t] > 0 /\ Top(t).at = "use" /\ Top(t) \in Frame
  BY TopFrame DEF ThreadUses, At, Inv, Stacks, Threads
<1>2. Grows
  BY <1>1 DEF ThreadUses, Inv, TypeOK, Grows, objects
<1>3. Stacks'
  <2>1. CASE Return(t, 0)
    BY <1>1, <1>2, <2>1, ReturnKeeps DEF MapFrames, RunFrames
  <2>2. CASE Exit
    BY <1>1, <1>2, <2>2, ExitKeeps DEF Exit
  <2> QED BY <2>1, <2>2 DEF ThreadUses
<1>4. TypeOK' /\ NoHalfBuiltMap'
  BY <1>1, <1>3 DEF ThreadUses, Inv, TypeOK, NoHalfBuiltMap, Stacks, StackTypes, config, objects,
    library, ResultsFit, MapUsers, Return, Exit, stacks
<1> QED BY <1>3, <1>4 DEF Inv

LEMMA ThreadAsksKeeps == ASSUME Inv, NEW t \in Threads, ThreadAsks(t) PROVE Inv'
<1>1. Stacks /\ depth[t] > 0 /\ Top(t).at \in {"publish", "init", "adapt", "poll"} /\ Top(t) \in Frame
  BY TopFrame DEF ThreadAsks, WeightedAdaptiveThread, MemInitThread, PollerThread,
    AdaptiveThread, At, Inv, Stacks, Threads
<1>2. Grows
  BY <1>1 DEF ThreadAsks, WeightedAdaptiveThread, MemInitThread, PollerThread,
    AdaptiveThread, Inv, TypeOK, Grows, objects
<1>3. Stacks'
  <2>1. New("use") \in Frame /\ New("use").at = "use"
    BY NewFrame DEF Labels
  <2>2. SameKind(Top(t), New("use")) /\ NumberedFrame(New("use"))
    BY <1>1, <2>1 DEF SameKind, NumberedFrame, MapFrames, RunFrames
  <2>3. CASE Call(t, New("use"), "mapAsk")
    BY <1>1, <1>2, <2>1, <2>2, <2>3, CallKeeps DEF MapUsers, Labels
  <2>4. CASE Exit
    BY <1>1, <1>2, <2>4, ExitKeeps DEF Exit
  <2> QED BY <2>3, <2>4 DEF ThreadAsks, WeightedAdaptiveThread, MemInitThread, PollerThread,
    AdaptiveThread
<1>4. TypeOK' /\ NoHalfBuiltMap'
  BY <1>1, <1>3 DEF ThreadAsks, WeightedAdaptiveThread, MemInitThread, PollerThread,
    AdaptiveThread, Inv, TypeOK, NoHalfBuiltMap, Stacks, StackTypes, config, objects,
    library, Call, Exit, stacks
<1> QED BY <1>3, <1>4 DEF Inv

LEMMA ReadConfigKeeps == ASSUME Inv, ReadConfig PROVE Inv'
<1>1. Stacks /\ depth[Loader] > 0 /\ Top(Loader).at = "config" /\ Top(Loader) \in Frame /\ Loader \in Threads
  BY TopFrame DEF ReadConfig, At, Inv, Stacks, Threads
<1>2. Grows
  BY <1>1 DEF ReadConfig, Inv, TypeOK, Grows, objects
<1>3. Stacks'
  <2>1. New("gotMemory") \in Frame /\ New("gotMemory").at = "gotMemory"
    BY NewFrame DEF Labels
  <2>2. SameKind(Top(Loader), New("gotMemory")) /\ NumberedFrame(New("gotMemory"))
    BY <1>1, <2>1 DEF SameKind, NumberedFrame, MapFrames, RunFrames
  <2>3. CASE Call(Loader, New("gotMemory"), "mapAsk")
    BY <1>1, <1>2, <2>1, <2>2, <2>3, CallKeeps DEF MapUsers, Labels
  <2>4. CASE Exit
    BY <1>1, <1>2, <2>4, ExitKeeps DEF Exit
  <2> QED BY <2>3, <2>4 DEF ReadConfig
<1>4. TypeOK' /\ NoHalfBuiltMap'
  BY <1>1, <1>3 DEF ReadConfig, Inv, TypeOK, NoHalfBuiltMap, Stacks, StackTypes, config, objects,
    library, Call, Exit, stacks
<1> QED BY <1>3, <1>4 DEF Inv

LEMMA GotMemoryKeeps == ASSUME Inv, GotMemory PROVE Inv'
<1>1. Stacks /\ depth[Loader] > 0 /\ Top(Loader).at = "gotMemory" /\ Top(Loader) \in Frame /\ Loader \in Threads
  BY TopFrame DEF GotMemory, At, Inv, Stacks, Threads
<1>2. Grows
  BY <1>1 DEF GotMemory, Inv, TypeOK, Grows, objects
<1>3. Stacks'
  <2>1. New("gotRuntime") \in Frame /\ New("gotRuntime").at = "gotRuntime"
    BY NewFrame DEF Labels
  <2>2. SameKind(Top(Loader), New("gotRuntime")) /\ NumberedFrame(New("gotRuntime"))
    BY <1>1, <2>1 DEF SameKind, NumberedFrame, MapFrames, RunFrames
  <2>3. Call(Loader, New("gotRuntime"), "runAsk")
    BY DEF GotMemory
  <2> QED BY <1>1, <1>2, <2>1, <2>2, <2>3, CallKeeps DEF MapUsers, Labels
<1>4. TypeOK' /\ NoHalfBuiltMap'
  BY <1>1, <1>3 DEF GotMemory, Inv, TypeOK, NoHalfBuiltMap, Stacks, StackTypes, config, objects,
    library, ResultsFit, MapUsers, Call, stacks
<1> QED BY <1>3, <1>4 DEF Inv

LEMMA GotRuntimeKeeps == ASSUME Inv, GotRuntime PROVE Inv'
<1>1. Stacks /\ depth[Loader] > 0 /\ Top(Loader).at = "gotRuntime" /\ Top(Loader) \in Frame /\ Loader \in Threads
  BY TopFrame DEF GotRuntime, At, Inv, Stacks, Threads
<1>2. Grows
  BY <1>1 DEF GotRuntime, Inv, TypeOK, Grows, objects
<1>3. Stacks'
  <2>1. New("main") \in Frame /\ New("main").at = "main"
    BY NewFrame DEF Labels
  <2>2. SameKind(Top(Loader), New("main")) /\ NumberedFrame(New("main"))
    BY <1>1, <2>1 DEF SameKind, NumberedFrame, MapFrames, RunFrames
  <2>3. Goto(Loader, New("main")) /\ New("main").at \notin MapUsers \cup {"gotRuntime"}
    BY <2>1 DEF GotRuntime, MapUsers
  <2> QED BY <1>1, <1>2, <2>1, <2>2, <2>3, GotoKeeps
<1>4. TypeOK' /\ NoHalfBuiltMap'
  BY <1>1, <1>3 DEF GotRuntime, Inv, TypeOK, NoHalfBuiltMap, Stacks, StackTypes, config, objects,
    library, ResultsFit, Goto
<1> QED BY <1>3, <1>4 DEF Inv

LEMMA UnstickymemStartKeeps == ASSUME Inv, UnstickymemStart PROVE Inv'
<1>1. Stacks /\ depth[Loader] > 0 /\ Top(Loader).at = "main" /\ Top(Loader) \in Frame /\ Loader \in Threads
  BY TopFrame DEF UnstickymemStart, At, Inv, Stacks, Threads
<1>2. Grows
  BY <1>1 DEF UnstickymemStart, Inv, TypeOK, Grows, objects
<1>3. Stacks'
  <2>1. New("main") \in Frame /\ New("main").at = "main"
    BY NewFrame DEF Labels
  <2>2. SameKind(Top(Loader), New("main")) /\ NumberedFrame(New("main"))
    BY <1>1, <2>1 DEF SameKind, NumberedFrame, MapFrames, RunFrames
  <2>3. Call(Loader, New("main"), "start")
    BY DEF UnstickymemStart
  <2> QED BY <1>1, <1>2, <2>1, <2>2, <2>3, CallKeeps DEF MapUsers, Labels
<1>4. starts' \in 0..MaxStarts
  BY BoundsAssumption DEF UnstickymemStart, Inv, TypeOK
<1>5. TypeOK' /\ NoHalfBuiltMap'
  BY <1>1, <1>3, <1>4 DEF UnstickymemStart, Inv, TypeOK, NoHalfBuiltMap, Stacks, StackTypes, config, objects,
    library, Call, stacks
<1> QED BY <1>3, <1>5 DEF Inv

LEMMA UnstickymemInitializeKeeps == ASSUME Inv, UnstickymemInitialize PROVE Inv'
<1>1. Stacks /\ depth[Loader] > 0 /\ Top(Loader).at = "main" /\ Top(Loader) \in Frame /\ Loader \in Threads
  BY TopFrame DEF UnstickymemInitialize, At, Inv, Stacks, Threads
<1>2. Grows
  BY <1>1 DEF UnstickymemInitialize, Inv, TypeOK, Grows, objects
<1>3. Stacks'
  <2>1. Begin("init", depth)
    BY DEF UnstickymemInitialize
  <2> QED BY <1>1, <1>2, <2>1, BeginKeeps
<1>4. starts' \in 0..MaxStarts
  BY BoundsAssumption DEF UnstickymemInitialize, Inv, TypeOK
<1>5. TypeOK' /\ NoHalfBuiltMap'
  BY <1>1, <1>3, <1>4 DEF UnstickymemInitialize, Inv, TypeOK, NoHalfBuiltMap, Stacks, StackTypes, config, objects,
    library, Begin, stacks
<1> QED BY <1>3, <1>5 DEF Inv

LEMMA StepsKeep == Inv /\ [Next]_vars => Inv'
<1> SUFFICES ASSUME Inv, [Next]_vars PROVE Inv'
  OBVIOUS
<1>1. CASE Load \/ Application
  BY <1>1, ReadConfigKeeps, GotMemoryKeeps, GotRuntimeKeeps, UnstickymemStartKeeps,
     UnstickymemInitializeKeeps DEF Load, Application
<1>2. ASSUME NEW t \in Threads, GetInstances(t) PROVE Inv'
  BY <1>2, MapAskKeeps, MapLineKeeps, MapStoreKeeps, RunAskKeeps, RunLoadKeeps, RunStoreKeeps,
     ConstructorFailsKeeps DEF GetInstances
<1>3. ASSUME NEW t \in Threads, StepOfMode(t) PROVE Inv'
  BY <1>3, StartKeeps, WalkKeeps, ThreadAsksKeeps, ThreadUsesKeeps DEF StepOfMode
<1>4. CASE UNCHANGED vars
  BY <1>4 DEF Inv, TypeOK, Stacks, StackTypes, AskedAbove, ResultsFit, Numbered, Top,
    NoHalfBuiltMap, vars, config, objects, library, stacks
<1> QED BY <1>1, <1>2, <1>3, <1>4 DEF Next, Rest

\* The variables keep their types, for any number of threads, lines and calls.
THEOREM TypeCorrect == Spec => []TypeOK
<1>1. Inv => TypeOK
  BY DEF Inv
<1> QED BY <1>1, Initially, StepsKeep, PTL DEF Spec

\* No thread gets a map whose constructor is under way, for any number of threads
\* and any nesting of the constructors.
THEOREM MapsAreWhole == Spec => []NoHalfBuiltMap
<1>1. Inv => NoHalfBuiltMap
  BY DEF Inv
<1> QED BY <1>1, Initially, StepsKeep, PTL DEF Spec


(***************************************************************************)
(* The stack.  Unless scan mode is started by the constructor of Runtime,  *)
(* what a function calls has a lower rank than the function: four frames   *)
(* are enough.                                                             *)
(***************************************************************************)
ScanAutostart == autostart /\ mode = "scan"

Rank(label) ==
  CASE label \in MapFrames -> IF mode = "scan" THEN 2 ELSE 3
    [] label \in RunFrames -> IF mode = "scan" THEN 1 ELSE 2
    [] label \in {"start", "walk"} -> IF mode = "scan" THEN 3 ELSE 1
    [] OTHER -> 4

Descending ==
  \A t \in Threads, i \in 1..MaxDepth :
    i <= depth[t] => Rank(frames[t][i].at) + i <= 5

StackInv == ~ScanAutostart => Descending /\ died # "stack"

\* In the other case the two constructors call each other and neither returns, so
\* that the two static pointers stay null and no thread is begun.
LoopLabels == {"config", "mapAsk", "mapLine", "runAsk", "runLoad", "start"}

LoopInv ==
  ScanAutostart =>
    /\ ~initialized /\ mapObject = 0 /\ runtimeObject = 0
    /\ \A t \in ModeThreads : depth[t] = 0
    /\ depth[Loader] > 0 /\ Top(Loader).at \in LoopLabels
    /\ Top(Loader).at = "mapLine" => Top(Loader).lines > 0

(***************************************************************************)
(* One map, without UNSTICKYMEM_AUTOSTART: the loader makes the singletons *)
(* one after the other while it is alone, and afterwards everyone gets     *)
(* the map it made.                                                        *)
(***************************************************************************)
Quiet == runtimeObject = runtimesMade /\ runtimesMade <= 1

\* Runtime::getInstance is the i-th frame of the loader, the topmost one.
AsksRuntime(i) ==
  /\ depth[Loader] = i
  /\ \/ frames[Loader][i].at = "runAsk" /\ Quiet
     \/ /\ frames[Loader][i].at \in {"runLoad", "runStore"} /\ frames[Loader][i].id = 1
        /\ runtimeObject = 0 /\ runtimesMade = 1

NoMap == mapsMade = 0 /\ mapObject = 0
MapUnderWay == mapsMade = 1 /\ mapObject = 0
MapMade == mapsMade = 1 /\ mapObject = 1

\* The loader before MemoryMap::getInstance has returned to it.
LoadsMap ==
  \/ frames[Loader][1].at = "config" /\ depth[Loader] = 1 /\ NoMap /\ Quiet
  \/ /\ frames[Loader][1].at = "gotMemory"
     /\ \/ frames[Loader][2].at = "mapAsk" /\ depth[Loader] = 2 /\ NoMap /\ Quiet
        \/ /\ frames[Loader][2].at \in {"mapLine", "mapStore"} /\ frames[Loader][2].id = 1
           /\ depth[Loader] = 2 /\ MapUnderWay /\ Quiet
        \/ /\ frames[Loader][2].at = "mapLine" /\ frames[Loader][2].id = 1
           /\ MapUnderWay /\ AsksRuntime(3)

\* And after.
LoadsRuntime ==
  /\ MapMade
  /\ \/ /\ frames[Loader][1].at = "gotMemory" /\ depth[Loader] = 1
        /\ result[Loader] = 1 /\ Quiet
     \/ /\ frames[Loader][1].at = "gotRuntime" /\ memory = 1
        /\ AsksRuntime(2) \/ (depth[Loader] = 1 /\ Quiet)

Loading ==
  /\ ~initialized
  /\ \A t \in ModeThreads : depth[t] = 0
  /\ \A t \in Threads : using[t] = 0
  /\ LoadsMap \/ LoadsRuntime

\* The library is up: nobody is inside a constructor.
UpLabels == {"main", "start", "walk", "publish", "init", "adapt", "poll", "use", "mapAsk"}

UpStacks ==
  /\ \A t \in Threads, i \in 1..MaxDepth : i <= depth[t] => frames[t][i].at \in UpLabels
  /\ \A t \in Threads : depth[t] > 0 /\ Top(t).at \in {"walk", "use"} => result[t] = 1

Up ==
  /\ MapMade /\ memory = 1 /\ runtimesMade <= 1
  /\ UpStacks
  /\ \A t \in Threads : using[t] \in {0, 1}

OnceInv == ~autostart => Loading \/ Up


(***************************************************************************)
(* What the operations on a stack do, frame by frame.                      *)
(***************************************************************************)
LEMMA GotoEffect ==
  ASSUME StackTypes, NEW t \in Threads, depth[t] > 0, NEW f, Goto(t, f)
  PROVE  /\ \A u \in Threads : u # t => frames'[u] = frames[u]
         /\ \A i \in 1..MaxDepth : frames'[t][i] = IF i = depth[t] THEN f ELSE frames[t][i]
         /\ depth' = depth /\ result' = result /\ died' = died
  BY TopFrame DEF Goto, StackTypes

LEMMA CallEffect ==
  ASSUME StackTypes, NEW t \in Threads, depth[t] > 0, NEW f, NEW callee, Call(t, f, callee),
         depth[t] < MaxDepth
  PROVE  /\ \A u \in Threads : u # t => frames'[u] = frames[u] /\ depth'[u] = depth[u]
         /\ \A i \in 1..MaxDepth :
              frames'[t][i] = IF i = depth[t] THEN f
                              ELSE IF i = depth[t] + 1 THEN New(callee) ELSE frames[t][i]
         /\ depth'[t] = depth[t] + 1 /\ depth[t] + 1 \in 1..MaxDepth
         /\ result' = result /\ died' = died
<1>1. depth[t] \in 1..MaxDepth /\ MaxDepth \in Nat /\ depth[t] + 1 \in 1..MaxDepth
  BY TopFrame, BoundsAssumption
<1>2. /\ frames' = [frames EXCEPT ![t] =
                      [@ EXCEPT ![depth[t]] = f, ![depth[t] + 1] = New(callee)]]
      /\ depth' = [depth EXCEPT ![t] = @ + 1] /\ result' = result /\ died' = died
  BY DEF Call
<1> QED BY <1>1, <1>2 DEF StackTypes

\* A stack that is full.
LEMMA CallFails ==
  ASSUME StackTypes, NEW t \in Threads, depth[t] > 0, NEW f, NEW callee, Call(t, f, callee),
         ~(depth[t] < MaxDepth)
  PROVE  UNCHANGED stacks
  BY DEF Call

LEMMA ReturnEffect ==
  ASSUME StackTypes, NEW t \in Threads, depth[t] > 0, NEW v, Return(t, v)
  PROVE  /\ \A u \in Threads : u # t => depth'[u] = depth[u] /\ result'[u] = result[u]
         /\ depth'[t] = depth[t] - 1 /\ result'[t] = v /\ frames' = frames /\ died' = died
  BY TopFrame DEF Return, StackTypes

\* The stack of the new thread u; d gives the depths of the others.
Begun(u, label, d) ==
  /\ \A w \in Threads : w # u => frames'[w] = frames[w] /\ depth'[w] = d[w]
  /\ \A i \in 1..MaxDepth : frames'[u][i] = IF i = 1 THEN New(label) ELSE frames[u][i]
  /\ depth'[u] = 1

LEMMA BeginEffect ==
  ASSUME StackTypes, NEW t \in Threads, depth[t] > 0, NEW label,
         NEW d \in {depth, [depth EXCEPT ![t] = @ - 1]}, Begin(label, d)
  PROVE  \/ UNCHANGED stacks /\ died' = "threads"
         \/ /\ result' = result /\ died' = died
            /\ \E u \in ModeThreads \ begun : Begun(u, label, d)
<1>1. depth[t] \in 1..MaxDepth /\ MaxDepth \in Nat /\ 1 \in 1..MaxDepth
  BY TopFrame, BoundsAssumption
<1>2. CASE begun = ModeThreads
  BY <1>2 DEF Begin
<1>3. CASE begun # ModeThreads
  <2>1. PICK u \in ModeThreads \ begun :
          /\ frames' = [frames EXCEPT ![u] = [@ EXCEPT ![1] = New(label)]]
          /\ depth' = [d EXCEPT ![u] = 1]
          /\ result' = result /\ died' = died
    BY <1>3 DEF Begin
  <2>2. u \in Threads /\ d \in [Threads -> 0..MaxDepth]
    <3>1. u \in Threads
      BY DEF Threads
    <3>2. depth \in [Threads -> 0..MaxDepth] /\ depth[t] - 1 \in 0..MaxDepth
      BY <1>1 DEF StackTypes
    <3> QED BY <3>1, <3>2
  <2>3. Begun(u, label, d)
    <3>1. \A w \in Threads : w # u => frames'[w] = frames[w]
      BY <2>1, <2>2 DEF StackTypes
    <3>2. \A i \in 1..MaxDepth : frames'[u][i] = IF i = 1 THEN New(label) ELSE frames[u][i]
      BY <1>1, <2>1, <2>2 DEF StackTypes
    <3>3. depth'[u] = 1 /\ \A w \in Threads : w # u => depth'[w] = d[w]
      BY <2>1, <2>2
    <3> QED BY <3>1, <3>2, <3>3 DEF Begun
  <2> QED BY <2>1, <2>3
<1> QED BY <1>2, <1>3

(***************************************************************************)
(* Ranks.                                                                  *)
(***************************************************************************)
LEMMA Ranks ==
  /\ \A label : Rank(label) \in 1..4
  /\ \A label \in MapFrames : Rank(label) = IF mode = "scan" THEN 2 ELSE 3
  /\ \A label \in RunFrames : Rank(label) = IF mode = "scan" THEN 1 ELSE 2
  /\ \A label \in {"start", "walk"} : Rank(label) = IF mode = "scan" THEN 3 ELSE 1
  /\ \A label \in {"config", "gotMemory", "gotRuntime", "main", "publish", "init", "adapt",
                   "poll", "use"} : Rank(label) = 4
<1>1. \A label : Rank(label) \in 1..4
  BY DEF Rank
<1>2. \A label \in MapFrames : Rank(label) = IF mode = "scan" THEN 2 ELSE 3
  BY DEF Rank, MapFrames, RunFrames
<1>3. \A label \in RunFrames : Rank(label) = IF mode = "scan" THEN 1 ELSE 2
  BY DEF Rank, MapFrames, RunFrames
<1>4. \A label \in {"start", "walk"} : Rank(label) = IF mode = "scan" THEN 3 ELSE 1
  BY DEF Rank, MapFrames, RunFrames
<1>5. \A label \in {"config", "gotMemory", "gotRuntime", "main", "publish", "init", "adapt",
                   "poll", "use"} : Rank(label) = 4
  BY DEF Rank, MapFrames, RunFrames
<1> QED BY <1>1, <1>2, <1>3, <1>4, <1>5

LEMMA SameRanks == mode' = mode => \A label : (Rank(label))' = Rank(label)
  BY DEF Rank

LEMMA GotoDescends ==
  ASSUME StackTypes, Descending, mode' = mode, NEW t \in Threads, depth[t] > 0, NEW f,
         Goto(t, f), Rank(f.at) <= Rank(Top(t).at)
  PROVE  Descending' /\ died' = died
<1>1. depth[t] \in 1..MaxDepth
  BY TopFrame
<1>2. Rank(Top(t).at) + depth[t] <= 5 /\ Rank(f.at) \in 1..4 /\ Rank(Top(t).at) \in 1..4
  BY <1>1, Ranks DEF Descending, Top
<1> SUFFICES ASSUME NEW u \in Threads, NEW i \in 1..MaxDepth, i <= depth'[u]
             PROVE  Rank(frames'[u][i].at) + i <= 5
  BY GotoEffect, SameRanks DEF Descending
<1>3. Rank(frames[u][i].at) + i <= 5
  BY GotoEffect DEF Descending
<1> QED BY <1>1, <1>2, <1>3, GotoEffect

\* The callee has a lower rank than the function on top: there is room for it.
LEMMA CallDescends ==
  ASSUME StackTypes, Descending, mode' = mode, NEW t \in Threads, depth[t] > 0, NEW f,
         NEW callee \in Labels, Call(t, f, callee), Rank(f.at) <= Rank(Top(t).at),
         Rank(callee) < Rank(Top(t).at)
  PROVE  Descending' /\ died' = died /\ depth[t] < MaxDepth
<1>1. depth[t] \in 1..MaxDepth /\ MaxDepth \in Nat /\ MaxDepth >= 4
  BY TopFrame, BoundsAssumption
<1>2. /\ Rank(Top(t).at) + depth[t] <= 5
      /\ Rank(f.at) \in 1..4 /\ Rank(Top(t).at) \in 1..4 /\ Rank(callee) \in 1..4
  BY <1>1, Ranks DEF Descending, Top
<1>3. depth[t] < MaxDepth
  BY <1>1, <1>2
<1>4. New(callee).at = callee
  BY NewFrame
<1>5. died' = died
  BY <1>3, CallEffect
<1> SUFFICES ASSUME NEW u \in Threads, NEW i \in 1..MaxDepth, i <= depth'[u]
             PROVE  Rank(frames'[u][i].at) + i <= 5
  BY <1>3, <1>5, SameRanks DEF Descending
<1>6. CASE u # t
  BY <1>3, <1>6, CallEffect DEF Descending
<1>7. CASE u = t /\ i = depth[t] + 1
  <2>1. frames'[u][i].at = callee
    BY <1>1, <1>3, <1>4, <1>7, CallEffect
  <2> QED BY <1>1, <1>2, <1>7, <2>1
<1>8. CASE u = t /\ i = depth[t]
  <2>1. frames'[u][i] = f
    BY <1>1, <1>3, <1>8, CallEffect
  <2> QED BY <1>1, <1>2, <1>8, <2>1
<1>9. CASE u = t /\ i < depth[t]
  <2>1. frames'[u][i] = frames[u][i]
    BY <1>1, <1>3, <1>9, CallEffect
  <2> QED BY <1>1, <1>9, <2>1 DEF Descending
<1>10. u = t => i <= depth[t] + 1
  BY <1>3, CallEffect
<1> QED BY <1>1, <1>6, <1>7, <1>8, <1>9, <1>10

LEMMA ReturnDescends ==
  ASSUME StackTypes, Descending, mode' = mode, NEW t \in Threads, depth[t] > 0, NEW v,
         Return(t, v)
  PROVE  Descending' /\ died' = died
<1>1. depth[t] \in 1..MaxDepth
  BY TopFrame
<1> SUFFICES ASSUME NEW u \in Threads, NEW i \in 1..MaxDepth, i <= depth'[u]
             PROVE  Rank(frames'[u][i].at) + i <= 5
  BY ReturnEffect, SameRanks DEF Descending
<1>2. i <= depth[u] /\ frames' = frames
  BY <1>1, ReturnEffect
<1> QED BY <1>2 DEF Descending

LEMMA ExitDescends ==
  ASSUME Descending, mode' = mode, UNCHANGED stacks PROVE Descending'
<1>1. depth' = depth /\ frames' = frames
  BY DEF stacks
<1> QED BY <1>1, SameRanks DEF Descending

LEMMA BeginDescends ==
  ASSUME StackTypes, Descending, mode' = mode, NEW t \in Threads, depth[t] > 0,
         NEW label \in {"publish", "init", "adapt", "poll"},
         NEW d \in {depth, [depth EXCEPT ![t] = @ - 1]}, Begin(label, d)
  PROVE  Descending' /\ (died' = died \/ died' = "threads")
<1>0. \/ UNCHANGED stacks /\ died' = "threads"
      \/ (result' = result /\ died' = died /\ \E u \in ModeThreads \ begun : Begun(u, label, d))
  BY BeginEffect
<1>1. CASE UNCHANGED stacks /\ died' = "threads"
  BY <1>1, ExitDescends
<1>2. CASE result' = result /\ died' = died /\ \E u \in ModeThreads \ begun : Begun(u, label, d)
  <2>1. died' = died
    BY <1>2
  <2>2. PICK u \in ModeThreads \ begun : Begun(u, label, d)
    BY <1>2
  <2>3. New(label).at = label /\ depth[t] \in 1..MaxDepth
    BY NewFrame, TopFrame DEF Labels
  <2>4. \A w \in Threads : d[w] \in Int /\ d[w] <= depth[w]
    <3>1. CASE d = depth
      BY <3>1 DEF StackTypes
    <3>2. CASE d = [depth EXCEPT ![t] = @ - 1]
      BY <2>3, <3>2 DEF StackTypes
    <3> QED BY <3>1, <3>2
  <2> SUFFICES ASSUME NEW w \in Threads, NEW i \in 1..MaxDepth, i <= depth'[w]
               PROVE  Rank(frames'[w][i].at) + i <= 5
    BY <2>1, SameRanks DEF Descending
  <2>5. CASE w = u
    <3>1. i = 1 /\ frames'[w][i].at = label
      BY <2>2, <2>3, <2>5 DEF Begun
    <3> QED BY <3>1, Ranks
  <2>6. CASE w # u
    <3>1. d[w] \in Int /\ depth[w] \in Int
      BY <2>4 DEF StackTypes
    <3>2. frames'[w] = frames[w] /\ i <= depth[w]
      BY <2>2, <2>4, <2>6, <3>1 DEF Begun
    <3> QED BY <3>2 DEF Descending
  <2> QED BY <2>5, <2>6
<1> QED BY <1>0, <1>1, <1>2


\* Nothing changes the configuration.
LEMMA ConfigStays == ASSUME [Next]_vars PROVE UNCHANGED config
<1> USE DEF config
<1>1. CASE Load
  BY <1>1 DEF Load, ReadConfig, GotMemory, GotRuntime
<1>2. CASE Application
  BY <1>2 DEF Application, UnstickymemStart, UnstickymemInitialize
<1>3. ASSUME NEW t \in Threads, GetInstances(t) PROVE UNCHANGED config
  BY <1>3 DEF GetInstances, MapAsk, MapLine, MapStore, RunAsk, RunLoad, RunStore, ConstructorFails
<1>4. ASSUME NEW t \in Threads, StepOfMode(t) PROVE UNCHANGED config
  BY <1>4 DEF StepOfMode, Start, Walk, ThreadAsks, ThreadUses
<1> QED BY <1>1, <1>2, <1>3, <1>4 DEF Next, Rest, vars

LEMMA StackKept == ASSUME Inv, StackInv, [Next]_vars PROVE StackInv'
<1>1. mode' = mode /\ autostart' = autostart
  BY ConfigStays DEF config
<1> SUFFICES ASSUME ~ScanAutostart PROVE Descending' /\ died' # "stack"
  BY <1>1 DEF StackInv, ScanAutostart
<1>2. StackTypes /\ Descending /\ died # "stack" /\ Loader \in Threads
  BY DEF StackInv, Inv, Stacks, Threads
<1>3. \A label \in Labels : New(label).at = label
  BY NewFrame
<1>4. ASSUME Exit PROVE Descending' /\ died' # "stack"
  BY <1>1, <1>2, <1>4, ExitDescends DEF Exit
<1>5. CASE ReadConfig
  <2>1. depth[Loader] > 0 /\ Top(Loader).at = "config"
    BY <1>5 DEF ReadConfig, At
  <2>2. CASE Call(Loader, New("gotMemory"), "mapAsk")
    <3>1. Rank(New("gotMemory").at) <= Rank(Top(Loader).at) /\ Rank("mapAsk") < Rank(Top(Loader).at)
      BY <1>3, <2>1, Ranks DEF Labels, MapFrames
    <3> QED BY <1>1, <1>2, <2>1, <2>2, <3>1, CallDescends DEF Labels
  <2> QED BY <1>4, <1>5, <2>2 DEF ReadConfig
<1>6. CASE GotMemory
  <2>1. depth[Loader] > 0 /\ Top(Loader).at = "gotMemory"
    BY <1>6 DEF GotMemory, At
  <2>2. Call(Loader, New("gotRuntime"), "runAsk")
    BY <1>6 DEF GotMemory
  <2>3. Rank(New("gotRuntime").at) <= Rank(Top(Loader).at) /\ Rank("runAsk") < Rank(Top(Loader).at)
    BY <1>3, <2>1, Ranks DEF Labels, RunFrames
  <2> QED BY <1>1, <1>2, <2>1, <2>2, <2>3, CallDescends DEF Labels
<1>7. CASE GotRuntime
  <2>1. depth[Loader] > 0 /\ Top(Loader).at = "gotRuntime" /\ Goto(Loader, New("main"))
    BY <1>7 DEF GotRuntime, At
  <2>2. Rank(New("main").at) <= Rank(Top(Loader).at)
    BY <1>3, <2>1, Ranks DEF Labels
  <2> QED BY <1>1, <1>2, <2>1, <2>2, GotoDescends
<1>8. CASE UnstickymemStart
  <2>1. depth[Loader] > 0 /\ Top(Loader).at = "main"
    BY <1>8 DEF UnstickymemStart, At
  <2>2. Call(Loader, New("main"), "start")
    BY <1>8 DEF UnstickymemStart
  <2>3. Rank(New("main").at) <= Rank(Top(Loader).at) /\ Rank("start") < Rank(Top(Loader).at)
    BY <1>3, <2>1, Ranks DEF Labels
  <2> QED BY <1>1, <1>2, <2>1, <2>2, <2>3, CallDescends DEF Labels
<1>9. CASE UnstickymemInitialize
  <2>1. depth[Loader] > 0 /\ Begin("init", depth)
    BY <1>9 DEF UnstickymemInitialize, At
  <2> QED BY <1>1, <1>2, <2>1, BeginDescends
<1>10. ASSUME NEW t \in Threads, MapAsk(t) PROVE Descending' /\ died' # "stack"
  <2> DEFINE f == [at |-> "mapLine", id |-> mapsMade', lines |-> Lines]
  <2>1. depth[t] > 0 /\ Top(t).at = "mapAsk" /\ (Return(t, mapObject) \/ Goto(t, f))
    BY <1>10 DEF MapAsk, At
  <2>2. Rank(f.at) <= Rank(Top(t).at)
    BY <2>1, Ranks DEF MapFrames
  <2> HIDE DEF f
  <2> QED BY <1>1, <1>2, <2>1, <2>2, GotoDescends, ReturnDescends
<1>11. ASSUME NEW t \in Threads, MapLine(t) PROVE Descending' /\ died' # "stack"
  <2> DEFINE f == [Top(t) EXCEPT !.lines = @ - 1]
             g == [Top(t) EXCEPT !.at = "mapStore"]
  <2>1. depth[t] > 0 /\ Top(t).at = "mapLine" /\ (Call(t, f, "runAsk") \/ Goto(t, g))
    BY <1>11 DEF MapLine, At
  <2>2. Top(t) \in Frame
    BY <1>2, <2>1, TopFrame
  <2>3. f.at = "mapLine" /\ g.at = "mapStore"
    BY <2>1, <2>2 DEF Frame
  <2>4. /\ Rank(f.at) <= Rank(Top(t).at) /\ Rank(g.at) <= Rank(Top(t).at)
        /\ Rank("runAsk") < Rank(Top(t).at)
    BY <2>1, <2>3, Ranks DEF MapFrames, RunFrames
  <2> HIDE DEF f, g
  <2>5. CASE Call(t, f, "runAsk")
    BY <1>1, <1>2, <2>1, <2>4, <2>5, CallDescends DEF Labels
  <2>6. CASE Goto(t, g)
    BY <1>1, <1>2, <2>1, <2>4, <2>6, GotoDescends
  <2> QED BY <2>1, <2>5, <2>6
<1>12. ASSUME NEW t \in Threads, MapStore(t) \/ RunStore(t) PROVE Descending' /\ died' # "stack"
  <2>1. depth[t] > 0 /\ Return(t, Top(t).id)
    BY <1>12 DEF MapStore, RunStore, At
  <2> QED BY <1>1, <1>2, <2>1, ReturnDescends
<1>13. ASSUME NEW t \in Threads, RunAsk(t) PROVE Descending' /\ died' # "stack"
  <2> DEFINE f == [at |-> "runLoad", id |-> runtimesMade', lines |-> 0]
  <2>1. depth[t] > 0 /\ Top(t).at = "runAsk" /\ (Return(t, runtimeObject) \/ Goto(t, f))
    BY <1>13 DEF RunAsk, At
  <2>2. Rank(f.at) <= Rank(Top(t).at)
    BY <2>1, Ranks DEF RunFrames
  <2> HIDE DEF f
  <2> QED BY <1>1, <1>2, <2>1, <2>2, GotoDescends, ReturnDescends
<1>14. ASSUME NEW t \in Threads, RunLoad(t) PROVE Descending' /\ died' # "stack"
  <2> DEFINE f == [Top(t) EXCEPT !.at = "runStore"]
  <2>1. /\ depth[t] > 0 /\ Top(t).at = "runLoad"
        /\ Exit \/ (autostart /\ Call(t, f, "start")) \/ Goto(t, f)
    BY <1>14 DEF RunLoad, At
  <2>2. Top(t) \in Frame
    BY <1>2, <2>1, TopFrame
  <2>3. f.at = "runStore"
    BY <2>2 DEF Frame
  <2>4. Rank(f.at) <= Rank(Top(t).at) /\ (autostart => Rank("start") < Rank(Top(t).at))
    BY <2>1, <2>3, Ranks DEF RunFrames, ScanAutostart
  <2> HIDE DEF f
  <2>5. CASE autostart /\ Call(t, f, "start")
    BY <1>1, <1>2, <2>1, <2>4, <2>5, CallDescends DEF Labels
  <2>6. CASE Goto(t, f)
    BY <1>1, <1>2, <2>1, <2>4, <2>6, GotoDescends
  <2> QED BY <1>4, <2>1, <2>5, <2>6
<1>15. ASSUME NEW t \in Threads, ConstructorFails(t) PROVE Descending' /\ died' # "stack"
  BY <1>4, <1>15 DEF ConstructorFails
<1>16. ASSUME NEW t \in Threads, Start(t) PROVE Descending' /\ died' # "stack"
  <2>1. depth[t] > 0 /\ Top(t).at = "start"
    BY <1>16 DEF Start, At
  <2>2. CASE StartScan(t)
    <3>1. mode = "scan" /\ Call(t, New("walk"), "mapAsk")
      BY <2>2 DEF StartScan
    <3>2. Rank(New("walk").at) <= Rank(Top(t).at) /\ Rank("mapAsk") < Rank(Top(t).at)
      BY <1>3, <2>1, <3>1, Ranks DEF Labels, MapFrames
    <3> QED BY <1>1, <1>2, <2>1, <3>1, <3>2, CallDescends DEF Labels
  <2>3. CASE StartDisabled(t)
    BY <1>1, <1>2, <2>1, <2>3, ReturnDescends DEF StartDisabled
  <2>4. CASE StartAdaptive(t) \/ StartFixedRatio(t) \/ StartWeightedAdaptive(t)
    <3>1. PICK label \in {"publish", "adapt", "poll"} : Begin(label, Returned(t))
      BY <2>4 DEF StartAdaptive, StartFixedRatio, StartWeightedAdaptive
    <3> QED BY <1>1, <1>2, <2>1, <3>1, BeginDescends DEF Returned
  <2> QED BY <1>16, <2>2, <2>3, <2>4 DEF Start
<1>17. ASSUME NEW t \in Threads, Walk(t) \/ ThreadUses(t) PROVE Descending' /\ died' # "stack"
  <2>1. depth[t] > 0 /\ (Return(t, 0) \/ Exit)
    BY <1>17 DEF Walk, ThreadUses, At
  <2> QED BY <1>1, <1>2, <1>4, <2>1, ReturnDescends
<1>18. ASSUME NEW t \in Threads, ThreadAsks(t) PROVE Descending' /\ died' # "stack"
  <2>1. /\ depth[t] > 0 /\ Top(t).at \in {"publish", "init", "adapt", "poll"}
        /\ Call(t, New("use"), "mapAsk") \/ Exit
    BY <1>18 DEF ThreadAsks, WeightedAdaptiveThread, MemInitThread, PollerThread, AdaptiveThread, At
  <2>2. Rank(New("use").at) <= Rank(Top(t).at) /\ Rank("mapAsk") < Rank(Top(t).at)
    BY <1>3, <2>1, Ranks DEF Labels, MapFrames
  <2>3. CASE Call(t, New("use"), "mapAsk")
    BY <1>1, <1>2, <2>1, <2>2, <2>3, CallDescends DEF Labels
  <2> QED BY <1>4, <2>1, <2>3
<1>19. CASE UNCHANGED vars
  BY <1>1, <1>2, <1>19, ExitDescends DEF vars
<1> QED BY <1>5, <1>6, <1>7, <1>8, <1>9, <1>10, <1>11, <1>12, <1>13, <1>14, <1>15, <1>16, <1>17,
          <1>18, <1>19 DEF Next, Rest, Load, Application, GetInstances, StepOfMode


LEMMA LoopKept == ASSUME Inv, LoopInv, [Next]_vars PROVE LoopInv'
<1>1. mode' = mode /\ autostart' = autostart
  BY ConfigStays DEF config
<1> SUFFICES ASSUME ScanAutostart PROVE LoopInv'
  BY <1>1 DEF LoopInv, ScanAutostart
<1> DEFINE Alone(d, f) ==
       /\ \A t \in ModeThreads : d[t] = 0
       /\ d[Loader] > 0
       /\ LET top == f[Loader][d[Loader]]
          IN  top.at \in LoopLabels /\ (top.at = "mapLine" => top.lines > 0)
<1>2. /\ ~initialized /\ mapObject = 0 /\ runtimeObject = 0 /\ Alone(depth, frames)
      /\ StackTypes /\ Loader \in Threads /\ \A t \in ModeThreads : t \in Threads /\ t # Loader
  BY ThreadsAssumption DEF LoopInv, Inv, Stacks, Threads, Top
<1>3. ASSUME UNCHANGED <<mapObject, runtimeObject, initialized>>, Alone(depth', frames')
      PROVE  LoopInv'
  BY <1>2, <1>3 DEF LoopInv, Top
<1>4. \A t \in Threads : depth[t] > 0 => t = Loader
  BY <1>2 DEF Threads
<1>5. depth[Loader] \in 1..MaxDepth /\ Top(Loader) \in Frame /\ Top(Loader).at \in LoopLabels
  BY <1>2, TopFrame DEF Top
<1>6. ASSUME UNCHANGED stacks PROVE Alone(depth', frames')
  BY <1>2, <1>6 DEF stacks
<1>7. ASSUME NEW f, NEW callee \in LoopLabels \ {"mapLine"}, Call(Loader, f, callee)
      PROVE  Alone(depth', frames')
  <2>1. CASE depth[Loader] < MaxDepth
    <3>1. New(callee).at = callee
      BY NewFrame DEF LoopLabels, Labels
    <3>2. frames'[Loader][depth'[Loader]] = New(callee) /\ depth'[Loader] = depth[Loader] + 1
      BY <1>2, <1>5, <1>7, <2>1, CallEffect
    <3>3. \A t \in ModeThreads : depth'[t] = 0
      BY <1>2, <1>5, <1>7, <2>1, CallEffect
    <3> QED BY <1>5, <3>1, <3>2, <3>3
  <2> QED BY <1>2, <1>5, <1>6, <1>7, <2>1, CallFails
<1> HIDE DEF Alone
<1>8. CASE ReadConfig
  BY <1>3, <1>6, <1>7, <1>8 DEF ReadConfig, Exit, LoopLabels, objects, library
<1>9. ~GotMemory /\ ~GotRuntime /\ ~Application
  BY <1>5 DEF GotMemory, GotRuntime, Application, UnstickymemStart, UnstickymemInitialize, At, LoopLabels
<1>10. ASSUME NEW t \in Threads, GetInstances(t) \/ StepOfMode(t) PROVE LoopInv'
  <2>1. t = Loader
    BY <1>4, <1>10 DEF GetInstances, StepOfMode, MapAsk, MapLine, MapStore, RunAsk, RunLoad, RunStore,
      ConstructorFails, Start, Walk, ThreadAsks, ThreadUses, WeightedAdaptiveThread, MemInitThread,
      PollerThread, AdaptiveThread, At
  <2>2. CASE MapAsk(Loader)
    <3> DEFINE f == [at |-> "mapLine", id |-> mapsMade', lines |-> Lines]
    <3>1. Goto(Loader, f)
      BY <1>2, <2>2 DEF MapAsk
    <3>2. f.at = "mapLine" /\ f.lines > 0
      BY BoundsAssumption
    <3> HIDE DEF f
    <3>3. depth' = depth /\ frames'[Loader][depth[Loader]] = f
      BY <1>2, <1>5, <3>1, GotoEffect
    <3>4. Alone(depth', frames')
      BY <1>2, <3>2, <3>3 DEF Alone, LoopLabels
    <3> QED BY <1>3, <2>2, <3>4 DEF MapAsk, library
  <2>3. CASE MapLine(Loader)
    <3> DEFINE f == [Top(Loader) EXCEPT !.lines = @ - 1]
    <3>1. Top(Loader).lines > 0
      BY <1>2, <2>3 DEF MapLine, At, Alone, Top
    <3>2. Call(Loader, f, "runAsk")
      BY <2>3, <3>1 DEF MapLine
    <3> HIDE DEF f
    <3>3. Alone(depth', frames')
      BY <1>7, <3>2 DEF LoopLabels
    <3> QED BY <1>3, <2>3, <3>3 DEF MapLine, library, objects
  <2>4. CASE RunAsk(Loader)
    <3> DEFINE f == [at |-> "runLoad", id |-> runtimesMade', lines |-> 0]
    <3>1. Goto(Loader, f)
      BY <1>2, <2>4 DEF RunAsk
    <3>2. f.at = "runLoad"
      OBVIOUS
    <3> HIDE DEF f
    <3>3. depth' = depth /\ frames'[Loader][depth[Loader]] = f
      BY <1>2, <1>5, <3>1, GotoEffect
    <3>4. Alone(depth', frames')
      BY <1>2, <3>2, <3>3 DEF Alone, LoopLabels
    <3> QED BY <1>3, <2>4, <3>4 DEF RunAsk, library
  <2>5. CASE RunLoad(Loader)
    <3>1. Exit \/ Call(Loader, [Top(Loader) EXCEPT !.at = "runStore"], "start")
      BY <2>5 DEF RunLoad, ScanAutostart
    <3>2. Alone(depth', frames')
      BY <1>6, <1>7, <3>1 DEF Exit, LoopLabels
    <3> QED BY <1>3, <2>5, <3>2 DEF RunLoad, library, objects
  <2>6. CASE Start(Loader)
    <3>1. Call(Loader, New("walk"), "mapAsk")
      BY <2>6 DEF Start, StartScan, StartDisabled, StartAdaptive, StartFixedRatio,
        StartWeightedAdaptive, ScanAutostart
    <3>2. Alone(depth', frames')
      BY <1>7, <3>1 DEF LoopLabels
    <3> QED BY <1>3, <2>6, <3>2 DEF Start, library, objects
  <2>7. CASE ConstructorFails(Loader)
    BY <1>3, <1>6, <2>7 DEF ConstructorFails, Exit, library, objects
  <2>8. ~MapStore(Loader) /\ ~RunStore(Loader) /\ ~Walk(Loader) /\ ~ThreadAsks(Loader) /\ ~ThreadUses(Loader)
    BY <1>5 DEF MapStore, RunStore, Walk, ThreadAsks, ThreadUses, WeightedAdaptiveThread,
      MemInitThread, PollerThread, AdaptiveThread, At, LoopLabels
  <2> QED BY <1>10, <2>1, <2>2, <2>3, <2>4, <2>5, <2>6, <2>7, <2>8 DEF GetInstances, StepOfMode
<1>11. CASE UNCHANGED vars
  BY <1>3, <1>6, <1>11 DEF vars, library, objects
<1> QED BY <1>8, <1>9, <1>10, <1>11 DEF Next, Rest, Load

LEMMA StackInitially == Init => StackInv /\ LoopInv
<1> SUFFICES ASSUME Init PROVE StackInv /\ LoopInv
  OBVIOUS
<1>1. New("config").at = "config" /\ MaxDepth \in Nat /\ MaxDepth >= 4 /\ 1 \in 1..MaxDepth
  BY NewFrame, BoundsAssumption DEF Labels
<1>2. \A t \in Threads : /\ depth[t] = IF t = Loader THEN 1 ELSE 0
                         /\ \A i \in 1..MaxDepth : frames[t][i].at = "config"
  BY <1>1 DEF Init
<1>3. Descending
  BY <1>1, <1>2, Ranks DEF Descending
<1>4. /\ \A t \in ModeThreads : depth[t] = 0
      /\ depth[Loader] = 1 /\ Top(Loader).at = "config"
  BY <1>1, <1>2, ThreadsAssumption DEF Threads, Top
<1>5. ~initialized /\ mapObject = 0 /\ runtimeObject = 0 /\ died # "stack"
  BY DEF Init
<1>6. LoopInv
  BY <1>4, <1>5 DEF LoopInv, LoopLabels
<1> QED BY <1>3, <1>5, <1>6 DEF StackInv

\* Four frames are enough for every stack, for any number of threads, lines and
\* calls of the application, except in scan mode with UNSTICKYMEM_AUTOSTART; and
\* there no number of frames is enough for the library to come up.
THEOREM OnlyScanExhaustsTheStack == Spec => []StackExhaustedOnlyByScan
<1>1. StackInv /\ LoopInv => StackExhaustedOnlyByScan
  BY DEF StackInv, LoopInv, ScanAutostart, StackExhaustedOnlyByScan
<1>2. Init => Inv /\ StackInv /\ LoopInv
  BY Initially, StackInitially
<1>3. Inv /\ StackInv /\ LoopInv /\ [Next]_vars => (Inv /\ StackInv /\ LoopInv)'
  BY StepsKeep, StackKept, LoopKept
<1> QED BY <1>1, <1>2, <1>3, PTL DEF Spec


(***************************************************************************)
(* While the library is loading.                                           *)
(***************************************************************************)
\* Only the loader runs, at most three frames deep.
LEMMA LoaderOnly ==
  ASSUME Inv, Loading
  PROVE  /\ Loader \in Threads /\ \A t \in Threads : depth[t] > 0 => t = Loader
         /\ depth[Loader] \in 1..3 /\ MaxDepth \in Nat /\ MaxDepth >= 4
         /\ \A i \in 1..4 : i \in 1..MaxDepth
  BY BoundsAssumption DEF Loading, LoadsMap, LoadsRuntime, AsksRuntime, Threads

\* What is under the frame of Runtime::getInstance.
UnderRuntime ==
  \/ depth[Loader] = 2 /\ frames[Loader][1].at = "gotRuntime" /\ memory = 1 /\ MapMade
  \/ /\ depth[Loader] = 3 /\ frames[Loader][1].at = "gotMemory"
     /\ frames[Loader][2].at = "mapLine" /\ frames[Loader][2].id = 1 /\ MapUnderWay

\* What the loader is about to do says what it has done.
LEMMA LoadingTop ==
  ASSUME Inv, Loading
  PROVE  /\ Top(Loader).at \in {"config", "gotMemory", "gotRuntime", "mapAsk", "mapLine", "mapStore",
                                "runAsk", "runLoad", "runStore"}
         /\ Top(Loader).at = "config" => depth[Loader] = 1 /\ NoMap /\ Quiet
         /\ Top(Loader).at = "mapAsk" =>
              depth[Loader] = 2 /\ frames[Loader][1].at = "gotMemory" /\ NoMap /\ Quiet
         /\ Top(Loader).at \in {"mapLine", "mapStore"} =>
              /\ depth[Loader] = 2 /\ frames[Loader][1].at = "gotMemory"
              /\ frames[Loader][2].id = 1 /\ MapUnderWay /\ Quiet
         /\ Top(Loader).at = "gotMemory" =>
              depth[Loader] = 1 /\ result[Loader] = 1 /\ MapMade /\ Quiet
         /\ Top(Loader).at = "gotRuntime" => depth[Loader] = 1 /\ memory = 1 /\ MapMade /\ Quiet
         /\ Top(Loader).at \in {"runAsk", "runLoad", "runStore"} => UnderRuntime
         /\ Top(Loader).at = "runAsk" => Quiet
         /\ Top(Loader).at \in {"runLoad", "runStore"} =>
              Top(Loader).id = 1 /\ runtimeObject = 0 /\ runtimesMade = 1
<1>1. Top(Loader) = frames[Loader][depth[Loader]]
  BY DEF Top
<1>2. CASE LoadsMap
  BY <1>1, <1>2 DEF LoadsMap, AsksRuntime, UnderRuntime
<1>3. CASE LoadsRuntime
  BY <1>1, <1>3 DEF LoadsRuntime, AsksRuntime, UnderRuntime
<1> QED BY <1>2, <1>3 DEF Loading

\* What a step of the loader leaves alone while it is loading.
Alone ==
  /\ UNCHANGED <<initialized, using>>
  /\ \A t \in ModeThreads : depth'[t] = depth[t]

LEMMA StillLoading ==
  ASSUME Inv, Loading, Alone, LoadsMap' \/ LoadsRuntime'
  PROVE  Loading'
  BY DEF Loading, Alone

LEMMA LoadingGoto ==
  ASSUME Inv, Loading, NEW f, Goto(Loader, f)
  PROVE  /\ depth' = depth /\ result' = result
         /\ \A i \in 1..4 : frames'[Loader][i] = IF i = depth[Loader] THEN f ELSE frames[Loader][i]
<1>1. StackTypes /\ depth[Loader] > 0
  BY LoaderOnly DEF Inv, Stacks
<1> QED BY <1>1, LoaderOnly, GotoEffect

LEMMA LoadingCall ==
  ASSUME Inv, Loading, NEW f, NEW callee \in Labels, Call(Loader, f, callee)
  PROVE  /\ depth'[Loader] = depth[Loader] + 1 /\ result' = result
         /\ \A t \in ModeThreads : depth'[t] = depth[t]
         /\ \A i \in 1..4 : i < depth[Loader] => frames'[Loader][i] = frames[Loader][i]
         /\ frames'[Loader][depth[Loader]] = f
         /\ frames'[Loader][depth[Loader] + 1].at = callee
<1>1. /\ StackTypes /\ depth[Loader] > 0 /\ depth[Loader] < MaxDepth
      /\ New(callee).at = callee /\ \A t \in ModeThreads : t \in Threads /\ t # Loader
  BY LoaderOnly, NewFrame, ThreadsAssumption DEF Inv, Stacks, Threads
<1>2. /\ \A u \in Threads : u # Loader => depth'[u] = depth[u]
      /\ \A i \in 1..MaxDepth :
           frames'[Loader][i] = IF i = depth[Loader] THEN f
                                ELSE IF i = depth[Loader] + 1 THEN New(callee) ELSE frames[Loader][i]
      /\ depth'[Loader] = depth[Loader] + 1 /\ result' = result
  BY <1>1, LoaderOnly, CallEffect
<1> QED BY <1>1, <1>2, LoaderOnly

LEMMA LoadingReturn ==
  ASSUME Inv, Loading, NEW v, Return(Loader, v)
  PROVE  /\ depth'[Loader] = depth[Loader] - 1 /\ result'[Loader] = v /\ frames' = frames
         /\ \A t \in ModeThreads : depth'[t] = depth[t]
<1>1. /\ StackTypes /\ depth[Loader] > 0 /\ \A t \in ModeThreads : t \in Threads /\ t # Loader
  BY LoaderOnly, ThreadsAssumption DEF Inv, Stacks, Threads
<1> QED BY <1>1, LoaderOnly, ReturnEffect

LEMMA LoadingExit ==
  ASSUME Inv, Loading, UNCHANGED <<mapObject, runtimeObject, mapsMade, runtimesMade, memory,
                                   initialized, using>>, UNCHANGED stacks
  PROVE  Loading'
<1>1. depth' = depth /\ frames' = frames /\ result' = result
  BY DEF stacks
<1>2. LoadsMap' \/ LoadsRuntime'
  BY <1>1 DEF Loading, LoadsMap, LoadsRuntime, AsksRuntime, Quiet, NoMap, MapUnderWay, MapMade
<1> QED BY <1>1, <1>2, StillLoading DEF Alone


LEMMA LoadingKept ==
  ASSUME Inv, Loading, ~autostart, [Next]_vars
  PROVE  (Loading \/ Up)'
<1>1. /\ Loader \in Threads /\ depth[Loader] \in 1..3 /\ \A t \in Threads : depth[t] > 0 => t = Loader
      /\ Top(Loader) = frames[Loader][depth[Loader]] /\ Top(Loader) \in Frame
  BY LoaderOnly, TopFrame DEF Top, Inv, Stacks
<1>2. CASE ReadConfig
  <2>1. depth[Loader] = 1 /\ NoMap /\ Quiet
    BY <1>2, LoadingTop DEF ReadConfig, At
  <2>2. UNCHANGED <<objects, library, using>>
    BY <1>2 DEF ReadConfig
  <2>3. CASE Call(Loader, New("gotMemory"), "mapAsk")
    <3>1. /\ depth'[Loader] = 2 /\ frames'[Loader][1].at = "gotMemory"
          /\ frames'[Loader][2].at = "mapAsk" /\ Alone
      BY <2>1, <2>2, <2>3, LoadingCall, NewFrame DEF Labels, Alone, library
    <3>2. LoadsMap'
      BY <2>1, <2>2, <3>1 DEF LoadsMap, NoMap, Quiet, objects
    <3> QED BY <3>1, <3>2, StillLoading
  <2>4. CASE Exit
    BY <2>2, <2>4, LoadingExit DEF Exit, objects, library
  <2> QED BY <1>2, <2>3, <2>4 DEF ReadConfig
<1>3. CASE GotMemory
  <2>1. depth[Loader] = 1 /\ result[Loader] = 1 /\ MapMade /\ Quiet
    BY <1>3, LoadingTop DEF GotMemory, At
  <2>2. /\ Call(Loader, New("gotRuntime"), "runAsk") /\ memory' = result[Loader]
        /\ UNCHANGED <<objects, initialized, using>>
    BY <1>3 DEF GotMemory
  <2>3. /\ depth'[Loader] = 2 /\ frames'[Loader][1].at = "gotRuntime"
        /\ frames'[Loader][2].at = "runAsk" /\ Alone
    BY <2>1, <2>2, LoadingCall, NewFrame DEF Labels, Alone
  <2>4. LoadsRuntime'
    BY <2>1, <2>2, <2>3 DEF LoadsRuntime, AsksRuntime, MapMade, Quiet, objects
  <2> QED BY <2>3, <2>4, StillLoading
<1>4. CASE GotRuntime
  <2>1. depth[Loader] = 1 /\ memory = 1 /\ MapMade /\ Quiet
    BY <1>4, LoadingTop DEF GotRuntime, At
  <2>2. Goto(Loader, New("main")) /\ UNCHANGED <<objects, memory, using>>
    BY <1>4 DEF GotRuntime
  <2>3. depth' = depth /\ frames'[Loader][1].at = "main" /\ Top(Loader)'.at = "main"
    BY <2>1, <2>2, LoadingGoto, NewFrame DEF Labels, Top
  <2>4. \A t \in Threads : depth[t] > 0 => t = Loader /\ depth[t] = 1
    BY <1>1, <2>1
  <2>5. /\ \A t \in Threads, i \in 1..MaxDepth : i <= depth'[t] => frames'[t][i].at \in UpLabels
        /\ \A t \in Threads : depth'[t] > 0 /\ Top(t)'.at \in {"walk", "use"} => result'[t] = 1
    <3>1. \A t \in Threads : depth[t] \in Nat
      BY DEF Inv, TypeOK
    <3>2. \A t \in Threads, i \in 1..MaxDepth : i <= depth'[t] => t = Loader /\ i = 1
      BY <2>3, <2>4, <3>1
    <3> QED BY <2>3, <2>4, <3>2 DEF UpLabels
  <2>6. \A t \in Threads : using'[t] \in {0, 1}
    BY <2>2 DEF Loading
  <2> QED BY <2>1, <2>2, <2>5, <2>6 DEF Up, UpStacks, MapMade, Quiet, objects
<1>5. CASE MapAsk(Loader)
  <2>1. depth[Loader] = 2 /\ frames[Loader][1].at = "gotMemory" /\ NoMap /\ Quiet
    BY <1>5, LoadingTop DEF MapAsk, At
  <2> DEFINE f == [at |-> "mapLine", id |-> mapsMade', lines |-> Lines]
  <2>2. /\ Goto(Loader, f) /\ mapsMade' = mapsMade + 1
        /\ UNCHANGED <<mapObject, runtimeObject, runtimesMade, initialized, using>>
    BY <1>5, <2>1 DEF MapAsk, NoMap, library
  <2>3. f.at = "mapLine" /\ f.id = 1
    BY <2>1, <2>2 DEF NoMap
  <2> HIDE DEF f
  <2>4. depth' = depth /\ frames'[Loader][1].at = "gotMemory" /\ frames'[Loader][2] = f
    BY <2>1, <2>2, LoadingGoto
  <2>5. LoadsMap'
    BY <2>1, <2>2, <2>3, <2>4 DEF LoadsMap, NoMap, MapUnderWay, Quiet
  <2> QED BY <2>2, <2>4, <2>5, StillLoading DEF Alone
<1>6. CASE MapLine(Loader)
  <2>1. /\ depth[Loader] = 2 /\ frames[Loader][1].at = "gotMemory" /\ frames[Loader][2].id = 1
        /\ Top(Loader).at = "mapLine" /\ MapUnderWay /\ Quiet
    BY <1>6, LoadingTop DEF MapLine, At
  <2> DEFINE f == [Top(Loader) EXCEPT !.lines = @ - 1]
             g == [Top(Loader) EXCEPT !.at = "mapStore"]
  <2>2. (Call(Loader, f, "runAsk") \/ Goto(Loader, g)) /\ UNCHANGED <<objects, library, using>>
    BY <1>6 DEF MapLine
  <2>3. f.at = "mapLine" /\ f.id = 1 /\ g.at = "mapStore" /\ g.id = 1
    BY <1>1, <2>1 DEF Frame
  <2> HIDE DEF f, g
  <2>4. CASE Call(Loader, f, "runAsk")
    <3>1. /\ depth'[Loader] = 3 /\ frames'[Loader][1] = frames[Loader][1]
          /\ frames'[Loader][2] = f /\ frames'[Loader][3].at = "runAsk" /\ Alone
      BY <2>1, <2>2, <2>4, LoadingCall DEF Labels, Alone, library
    <3>2. LoadsMap'
      BY <2>1, <2>2, <2>3, <3>1 DEF LoadsMap, AsksRuntime, MapUnderWay, Quiet, objects
    <3> QED BY <3>1, <3>2, StillLoading
  <2>5. CASE Goto(Loader, g)
    <3>1. depth' = depth /\ frames'[Loader][1] = frames[Loader][1] /\ frames'[Loader][2] = g
      BY <2>1, <2>5, LoadingGoto
    <3>2. LoadsMap'
      BY <2>1, <2>2, <2>3, <3>1 DEF LoadsMap, MapUnderWay, Quiet, objects
    <3> QED BY <2>2, <3>1, <3>2, StillLoading DEF Alone, library
  <2> QED BY <2>2, <2>4, <2>5
<1>7. CASE MapStore(Loader)
  <2>1. /\ depth[Loader] = 2 /\ frames[Loader][1].at = "gotMemory" /\ frames[Loader][2].id = 1
        /\ MapUnderWay /\ Quiet
    BY <1>7, LoadingTop DEF MapStore, At
  <2>2. /\ Return(Loader, Top(Loader).id) /\ mapObject' = Top(Loader).id
        /\ UNCHANGED <<runtimeObject, mapsMade, runtimesMade, initialized, using>>
    BY <1>7 DEF MapStore, library
  <2>3. depth'[Loader] = 1 /\ result'[Loader] = 1 /\ mapObject' = 1 /\ frames' = frames /\ Alone
    BY <1>1, <2>1, <2>2, LoadingReturn DEF Alone
  <2>4. LoadsRuntime'
    BY <2>1, <2>2, <2>3 DEF LoadsRuntime, MapUnderWay, MapMade, Quiet
  <2> QED BY <2>3, <2>4, StillLoading
<1>8. CASE RunAsk(Loader)
  <2>1. UnderRuntime /\ Quiet /\ Top(Loader).at = "runAsk"
    BY <1>8, LoadingTop DEF RunAsk, At
  <2>2. UNCHANGED <<mapObject, runtimeObject, mapsMade, memory, initialized, using>>
    BY <1>8 DEF RunAsk, library
  <2>3. CASE runtimeObject # 0
    <3>1. Return(Loader, runtimeObject) /\ runtimesMade' = runtimesMade
      BY <1>8, <2>3 DEF RunAsk
    <3>2. depth'[Loader] = depth[Loader] - 1 /\ frames' = frames /\ Alone
      BY <2>2, <3>1, LoadingReturn DEF Alone
    <3>3. LoadsMap' \/ LoadsRuntime'
      BY <2>1, <2>2, <3>1, <3>2 DEF UnderRuntime, LoadsMap, LoadsRuntime, MapUnderWay, MapMade, Quiet
    <3> QED BY <3>2, <3>3, StillLoading
  <2>4. CASE runtimeObject = 0
    <3> DEFINE f == [at |-> "runLoad", id |-> runtimesMade', lines |-> 0]
    <3>0. runtimesMade = 0
      BY <2>1, <2>4 DEF Quiet
    <3>1. Goto(Loader, f) /\ runtimesMade' = 1
      BY <1>8, <2>4, <3>0 DEF RunAsk
    <3>2. f.at = "runLoad" /\ f.id = 1
      BY <3>1
    <3> HIDE DEF f
    <3>3. /\ depth' = depth /\ frames'[Loader][depth[Loader]] = f
          /\ \A i \in 1..4 : i < depth[Loader] => frames'[Loader][i] = frames[Loader][i]
      BY <1>1, <3>1, LoadingGoto
    <3>4. LoadsMap' \/ LoadsRuntime'
      BY <2>1, <2>2, <2>4, <3>1, <3>2, <3>3
         DEF UnderRuntime, LoadsMap, LoadsRuntime, AsksRuntime, MapUnderWay, MapMade, Quiet
    <3> QED BY <2>2, <3>3, <3>4, StillLoading DEF Alone
  <2> QED BY <2>3, <2>4
<1>9. CASE RunLoad(Loader)
  <2>1. UnderRuntime /\ Top(Loader).id = 1 /\ runtimeObject = 0 /\ runtimesMade = 1
    BY <1>9, LoadingTop DEF RunLoad, At
  <2> DEFINE f == [Top(Loader) EXCEPT !.at = "runStore"]
  <2>2. (Exit \/ Goto(Loader, f)) /\ UNCHANGED <<objects, library, using>>
    BY <1>9 DEF RunLoad
  <2>3. CASE Exit
    BY <2>2, <2>3, LoadingExit DEF Exit, objects, library
  <2>4. CASE Goto(Loader, f)
    <3>1. f.at = "runStore" /\ f.id = 1
      BY <1>1, <2>1 DEF Frame
    <3> HIDE DEF f
    <3>2. /\ depth' = depth /\ frames'[Loader][depth[Loader]] = f
          /\ \A i \in 1..4 : i < depth[Loader] => frames'[Loader][i] = frames[Loader][i]
      BY <1>1, <2>4, LoadingGoto
    <3>3. LoadsMap' \/ LoadsRuntime'
      BY <2>1, <2>2, <3>1, <3>2
         DEF UnderRuntime, LoadsMap, LoadsRuntime, AsksRuntime, MapUnderWay, MapMade, objects, library
    <3> QED BY <2>2, <3>2, <3>3, StillLoading DEF Alone, library
  <2> QED BY <2>2, <2>3, <2>4
<1>10. CASE RunStore(Loader)
  <2>1. UnderRuntime /\ Top(Loader).id = 1 /\ runtimesMade = 1
    BY <1>10, LoadingTop DEF RunStore, At
  <2>2. /\ Return(Loader, Top(Loader).id) /\ runtimeObject' = Top(Loader).id
        /\ UNCHANGED <<mapObject, mapsMade, runtimesMade, memory, initialized, using>>
    BY <1>10 DEF RunStore, library
  <2>3. depth'[Loader] = depth[Loader] - 1 /\ frames' = frames /\ Alone
    BY <2>2, LoadingReturn DEF Alone
  <2>4. LoadsMap' \/ LoadsRuntime'
    BY <2>1, <2>2, <2>3 DEF UnderRuntime, LoadsMap, LoadsRuntime, MapUnderWay, MapMade, Quiet
  <2> QED BY <2>3, <2>4, StillLoading
<1>11. CASE ConstructorFails(Loader)
  BY <1>11, LoadingExit DEF ConstructorFails, Exit, objects, library
<1>12. CASE UNCHANGED vars
  BY <1>12, LoadingExit DEF vars, objects, library
<1>13. ~Application
  BY LoadingTop DEF Application, UnstickymemStart, UnstickymemInitialize, At
<1>14. ~Start(Loader) /\ ~Walk(Loader) /\ ~ThreadAsks(Loader) /\ ~ThreadUses(Loader)
  BY LoadingTop DEF Start, Walk, ThreadAsks, ThreadUses, WeightedAdaptiveThread,
     MemInitThread, PollerThread, AdaptiveThread, At
<1>15. ASSUME NEW t \in Threads, GetInstances(t) \/ StepOfMode(t) PROVE t = Loader
  BY <1>1, <1>15 DEF GetInstances, StepOfMode, MapAsk, MapLine, MapStore, RunAsk, RunLoad, RunStore,
    ConstructorFails, Start, Walk, ThreadAsks, ThreadUses, WeightedAdaptiveThread, MemInitThread,
    PollerThread, AdaptiveThread, At
<1>16. ASSUME NEW t \in Threads, GetInstances(t) \/ StepOfMode(t) PROVE (Loading \/ Up)'
  <2>1. t = Loader
    BY <1>15, <1>16
  <2>2. ~StepOfMode(Loader)
    BY <1>14 DEF StepOfMode
  <2>3. GetInstances(Loader)
    BY <1>16, <2>1, <2>2
  <2> QED BY <1>5, <1>6, <1>7, <1>8, <1>9, <1>10, <1>11, <2>3 DEF GetInstances
<1> QED BY <1>2, <1>3, <1>4, <1>12, <1>13, <1>16 DEF Next, Rest, Load


(***************************************************************************)
(* Once the library is up.                                                 *)
(***************************************************************************)
LEMMA UpCall ==
  ASSUME Inv, UpStacks, NEW t \in Threads, depth[t] > 0, NEW f, f.at \in UpLabels,
         NEW callee \in {"start", "mapAsk"}, Call(t, f, callee)
  PROVE  UpStacks'
<1>1. StackTypes /\ depth[t] \in 1..MaxDepth /\ New(callee).at = callee
  BY TopFrame, NewFrame DEF Inv, Stacks, Labels
<1>2. CASE depth[t] < MaxDepth
  <2>1. /\ \A u \in Threads : u # t => frames'[u] = frames[u] /\ depth'[u] = depth[u]
        /\ \A i \in 1..MaxDepth :
              frames'[t][i] = IF i = depth[t] THEN f
                              ELSE IF i = depth[t] + 1 THEN New(callee) ELSE frames[t][i]
        /\ depth'[t] = depth[t] + 1 /\ depth[t] + 1 \in 1..MaxDepth /\ result' = result
    BY <1>1, <1>2, CallEffect
  <2>2. \A u \in Threads, i \in 1..MaxDepth : i <= depth'[u] => frames'[u][i].at \in UpLabels
    BY <1>1, <2>1 DEF UpStacks, UpLabels
  <2>3. ASSUME NEW u \in Threads, depth'[u] > 0, Top(u)'.at \in {"walk", "use"}
        PROVE  result'[u] = 1
    <3>1. u # t
      BY <1>1, <2>1, <2>3 DEF Top
    <3> QED BY <2>1, <2>3, <3>1 DEF Top, UpStacks
  <2> QED BY <2>2, <2>3 DEF UpStacks
<1>3. CASE ~(depth[t] < MaxDepth)
  BY <1>1, <1>3, CallFails DEF UpStacks, Top, stacks
<1> QED BY <1>2, <1>3

\* What a function returns to is not waiting for a map unless it gets the one map.
LEMMA UpReturn ==
  ASSUME Inv, UpStacks, NEW t \in Threads, depth[t] > 0, NEW v, Return(t, v),
         Top(t).at \in MapFrames => v = 1
  PROVE  UpStacks'
<1>1. StackTypes /\ depth[t] \in 1..MaxDepth
  BY TopFrame DEF Inv, Stacks
<1>2. /\ \A u \in Threads : u # t => depth'[u] = depth[u] /\ result'[u] = result[u]
      /\ depth'[t] = depth[t] - 1 /\ result'[t] = v /\ frames' = frames
  BY <1>1, ReturnEffect
<1>3. \A u \in Threads, i \in 1..MaxDepth : i <= depth'[u] => frames'[u][i].at \in UpLabels
  BY <1>1, <1>2 DEF UpStacks
<1>4. ASSUME NEW u \in Threads, depth'[u] > 0, Top(u)'.at \in {"walk", "use"}
      PROVE  result'[u] = 1
  <2>1. CASE u # t
    BY <1>2, <1>4, <2>1 DEF UpStacks, Top
  <2>2. CASE u = t
    <3>1. depth[t] - 1 \in 1..MaxDepth /\ frames[t][depth[t] - 1].at \in {"walk", "use"}
      BY <1>1, <1>2, <1>4, <2>2, BoundsAssumption DEF Top
    <3>2. frames[t][(depth[t] - 1) + 1].at \in MapFrames
      BY <1>1, <3>1 DEF Inv, Stacks, AskedAbove, MapUsers
    <3>3. Top(t).at \in MapFrames
      BY <1>1, <3>2 DEF Top
    <3> QED BY <1>2, <2>2, <3>3
  <2> QED BY <2>1, <2>2
<1> QED BY <1>3, <1>4 DEF UpStacks

LEMMA UpExit == ASSUME UpStacks, UNCHANGED stacks PROVE UpStacks'
  BY DEF UpStacks, Top, stacks

LEMMA UpBegin ==
  ASSUME Inv, UpStacks, NEW t \in Threads, depth[t] > 0,
         NEW label \in {"publish", "init", "adapt", "poll"},
         NEW d \in {depth, [depth EXCEPT ![t] = @ - 1]},
         d = depth \/ Top(t).at = "start", Begin(label, d)
  PROVE  UpStacks'
<1>1. StackTypes /\ depth[t] \in 1..MaxDepth /\ New(label).at = label
  BY TopFrame, NewFrame DEF Inv, Stacks, Labels
<1>2. \/ UNCHANGED stacks /\ died' = "threads"
      \/ (result' = result /\ died' = died /\ \E u \in ModeThreads \ begun : Begun(u, label, d))
  BY <1>1, BeginEffect
<1>3. CASE result' = result /\ died' = died /\ \E u \in ModeThreads \ begun : Begun(u, label, d)
  <2>1. PICK u \in ModeThreads \ begun : Begun(u, label, d)
    BY <1>3
  <2>2. \A w \in Threads : d[w] = depth[w] \/ (w = t /\ Top(t).at = "start" /\ d[w] = depth[t] - 1)
    BY <1>1 DEF StackTypes
  <2>3. /\ \A w \in Threads : w # u => frames'[w] = frames[w] /\ depth'[w] = d[w]
        /\ \A i \in 1..MaxDepth : frames'[u][i] = IF i = 1 THEN New(label) ELSE frames[u][i]
        /\ depth'[u] = 1 /\ u \in Threads
    BY <2>1 DEF Begun, Threads
  <2>4. ASSUME NEW w \in Threads, NEW i \in 1..MaxDepth, i <= depth'[w]
        PROVE  frames'[w][i].at \in UpLabels
    <3>1. CASE w = u
      <4>1. i = 1
        BY <2>3, <2>4, <3>1
      <4> QED BY <1>1, <2>3, <3>1, <4>1 DEF UpLabels
    <3>2. CASE w # u
      <4>1. i <= depth[w] /\ frames'[w] = frames[w]
        BY <1>1, <2>2, <2>3, <2>4, <3>2 DEF StackTypes
      <4> QED BY <4>1 DEF UpStacks
    <3> QED BY <3>1, <3>2
  <2>5. ASSUME NEW w \in Threads, depth'[w] > 0, Top(w)'.at \in {"walk", "use"}
        PROVE  result'[w] = 1
    <3>1. w # u
      <4>1. 1 \in 1..MaxDepth
        BY BoundsAssumption
      <4> QED BY <1>1, <2>3, <2>5, <4>1 DEF Top
    <3>2. frames'[w] = frames[w] /\ depth'[w] = d[w] /\ result'[w] = result[w]
      BY <1>3, <2>3, <3>1
    <3>3. CASE d[w] = depth[w]
      BY <2>5, <3>2, <3>3 DEF UpStacks, Top
    <3>4. CASE w = t /\ Top(t).at = "start" /\ d[w] = depth[t] - 1
      <4>1. depth[t] - 1 \in 1..MaxDepth /\ frames[t][depth[t] - 1].at \in {"walk", "use"}
        BY <1>1, <2>5, <3>2, <3>4, BoundsAssumption DEF Top
      <4>2. frames[t][(depth[t] - 1) + 1].at \in MapFrames
        BY <1>1, <4>1 DEF Inv, Stacks, AskedAbove, MapUsers
      <4>3. Top(t).at \in MapFrames
        BY <1>1, <4>2 DEF Top
      <4> QED BY <3>4, <4>3 DEF MapFrames
    <3> QED BY <2>2, <3>3, <3>4
  <2> QED BY <2>4, <2>5 DEF UpStacks
<1> QED BY <1>2, <1>3, UpExit

LEMMA UpKept == ASSUME Inv, Up, [Next]_vars PROVE Up'
<1>1. /\ UpStacks /\ mapObject = 1 /\ Loader \in Threads
      /\ \A t \in Threads : depth[t] > 0 => Top(t).at \in UpLabels
  <2>1. \A t \in Threads : depth[t] > 0 => depth[t] \in 1..MaxDepth
    BY TopFrame DEF Inv, Stacks
  <2> QED BY <2>1 DEF Up, UpStacks, MapMade, Top, Threads
<1>2. ASSUME UNCHANGED <<mapObject, mapsMade, memory, runtimesMade, using>>, UpStacks' PROVE Up'
  BY <1>2 DEF Up, MapMade
<1>3. \A label \in {"walk", "use", "main"} : New(label).at \in UpLabels
  BY NewFrame DEF Labels, UpLabels
<1>4. ~ReadConfig /\ ~GotMemory /\ ~GotRuntime
  BY <1>1 DEF ReadConfig, GotMemory, GotRuntime, At, UpLabels
<1>5. CASE UnstickymemStart
  <2>1. /\ depth[Loader] > 0 /\ Call(Loader, New("main"), "start")
        /\ UNCHANGED <<objects, library, using>>
    BY <1>5 DEF UnstickymemStart, At
  <2>2. UpStacks'
    BY <1>1, <1>3, <2>1, UpCall
  <2> QED BY <1>2, <2>1, <2>2 DEF objects, library
<1>6. CASE UnstickymemInitialize
  <2>1. /\ depth[Loader] > 0 /\ Begin("init", depth)
        /\ UNCHANGED <<objects, library, using>>
    BY <1>6 DEF UnstickymemInitialize, At
  <2>2. UpStacks'
    BY <1>1, <2>1, UpBegin
  <2> QED BY <1>2, <2>1, <2>2 DEF objects, library
<1>7. ASSUME NEW t \in Threads, GetInstances(t) PROVE Up'
  <2>1. MapAsk(t)
    BY <1>1, <1>7 DEF GetInstances, MapLine, MapStore, RunAsk, RunLoad, RunStore, ConstructorFails,
      At, UpLabels
  <2>2. /\ depth[t] > 0 /\ Return(t, 1)
        /\ UNCHANGED <<mapObject, mapsMade, memory, runtimesMade, using>>
    BY <1>1, <2>1 DEF MapAsk, At, library
  <2>3. UpStacks'
    BY <1>1, <2>2, UpReturn
  <2> QED BY <1>2, <2>2, <2>3
<1>8. ASSUME NEW t \in Threads, Start(t) PROVE Up'
  <2>1. depth[t] > 0 /\ Top(t).at = "start" /\ UNCHANGED <<objects, library, using>>
    BY <1>8 DEF Start, At
  <2>2. CASE StartScan(t)
    <3>1. Call(t, New("walk"), "mapAsk")
      BY <2>2 DEF StartScan
    <3>2. UpStacks'
      BY <1>1, <1>3, <2>1, <3>1, UpCall
    <3> QED BY <1>2, <2>1, <3>2 DEF objects, library
  <2>3. CASE StartDisabled(t)
    <3>1. UpStacks'
      BY <1>1, <2>1, <2>3, UpReturn DEF StartDisabled, MapFrames
    <3> QED BY <1>2, <2>1, <3>1 DEF objects, library
  <2>4. CASE StartAdaptive(t) \/ StartFixedRatio(t) \/ StartWeightedAdaptive(t)
    <3>1. PICK label \in {"publish", "adapt", "poll"} : Begin(label, Returned(t))
      BY <2>4 DEF StartAdaptive, StartFixedRatio, StartWeightedAdaptive
    <3>2. UpStacks'
      BY <1>1, <2>1, <3>1, UpBegin DEF Returned
    <3> QED BY <1>2, <2>1, <3>2 DEF objects, library
  <2> QED BY <1>8, <2>2, <2>3, <2>4 DEF Start
<1>9. ASSUME NEW t \in Threads, Walk(t) \/ ThreadUses(t) PROVE Up'
  <2>1. /\ depth[t] > 0 /\ Top(t).at \in {"walk", "use"} /\ (Return(t, 0) \/ Exit)
        /\ using' = [using EXCEPT ![t] = result[t]] /\ UNCHANGED <<objects, library>>
    BY <1>9 DEF Walk, ThreadUses, At
  <2>2. UpStacks'
    BY <1>1, <2>1, UpReturn, UpExit DEF MapFrames, Exit
  <2>3. result[t] = 1
    BY <1>1, <2>1 DEF UpStacks
  <2>4. \A u \in Threads : using'[u] \in {0, 1}
    BY <2>1, <2>3 DEF Up, Inv, TypeOK
  <2> QED BY <2>1, <2>2, <2>4 DEF Up, MapMade, objects, library
<1>10. ASSUME NEW t \in Threads, ThreadAsks(t) PROVE Up'
  <2>1. /\ depth[t] > 0 /\ (Call(t, New("use"), "mapAsk") \/ Exit)
        /\ UNCHANGED <<objects, library, using>>
    BY <1>10 DEF ThreadAsks, WeightedAdaptiveThread, MemInitThread, PollerThread, AdaptiveThread, At
  <2>2. UpStacks'
    BY <1>1, <1>3, <2>1, UpCall, UpExit DEF Exit
  <2> QED BY <1>2, <2>1, <2>2 DEF objects, library
<1>11. CASE UNCHANGED vars
  BY <1>1, <1>2, <1>11, UpExit DEF vars, objects, library
<1> QED BY <1>4, <1>5, <1>6, <1>7, <1>8, <1>9, <1>10, <1>11 DEF Next, Rest, Load, Application, StepOfMode

LEMMA OnceKept == ASSUME Inv, OnceInv, [Next]_vars PROVE OnceInv'
<1>1. autostart' = autostart
  BY ConfigStays DEF config
<1> QED BY <1>1, LoadingKept, UpKept DEF OnceInv

LEMMA OnceInitially == Init => OnceInv
<1> SUFFICES ASSUME Init PROVE Loading
  BY DEF OnceInv
<1>1. New("config").at = "config" /\ 1 \in 1..MaxDepth /\ Loader \in Threads
  BY NewFrame, BoundsAssumption DEF Labels, Threads
<1>2. frames[Loader][1].at = "config" /\ depth[Loader] = 1
  BY <1>1 DEF Init
<1>3. LoadsMap
  BY <1>2 DEF Init, LoadsMap, NoMap, Quiet
<1>4. /\ ~initialized /\ \A t \in ModeThreads : depth[t] = 0
      /\ \A t \in Threads : using[t] = 0
  BY ThreadsAssumption DEF Init, Threads
<1> QED BY <1>3, <1>4 DEF Loading

\* Without UNSTICKYMEM_AUTOSTART there is one map and one runtime, for any number
\* of threads, lines and calls of the application, and every thread works on the
\* map that the library keeps.
THEOREM OneMapWithoutAutostart == Spec => []OneMapUnlessAutostart
<1>1. Inv /\ OnceInv => OneMapUnlessAutostart
  <2> SUFFICES ASSUME Inv, OnceInv, ~autostart
               PROVE  OneMap /\ \A t \in Threads : using[t] \in {0, memory}
    BY DEF OneMapUnlessAutostart
  <2>1. CASE Loading
    BY <2>1 DEF Loading, LoadsMap, LoadsRuntime, AsksRuntime, Quiet, NoMap, MapUnderWay, MapMade, OneMap
  <2>2. CASE Up
    BY <2>2 DEF Up, MapMade, OneMap
  <2> QED BY <2>1, <2>2 DEF OnceInv
<1>2. Init => Inv /\ OnceInv
  BY Initially, OnceInitially
<1>3. Inv /\ OnceInv /\ [Next]_vars => (Inv /\ OnceInv)'
  BY StepsKeep, OnceKept
<1> QED BY <1>1, <1>2, <1>3, PTL DEF Spec
=============================================================================
