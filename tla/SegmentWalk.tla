----------------------------- MODULE SegmentWalk -----------------------------
(***************************************************************************)
(* The threads that walk the list of segments while the handlers of malloc *)
(* and free change it: memInitThread, which places segments until start    *)
(* has set MEM_INIT, adaptiveThread, which publishes the long ones in a    *)
(* shared memory object (both mode/WeightedAdaptiveMode.cpp), and the      *)
(* single passes of ScanMode::start and place_all_pages.  A walker takes   *)
(* no lock.                                                                *)
(*                                                                         *)
(* Nodes of the list are numbered in the order in which they are added, at *)
(* the back, so the list is a set of numbers; _segments_lock makes the     *)
(* addition and the removal of a node one step each.  Handlers give memory *)
(* back first and remove the node after that.                              *)
(*                                                                         *)
(* A variant with a plausible mistake stands just before the operator it   *)
(* varies; nothing uses the variants.                                      *)
(***************************************************************************)
EXTENDS Integers, Sequences, FiniteSets

CONSTANTS
  Walkers,       \* threads that walk the list
  MaxSegments,   \* nodes there are in all
  InitSizes,     \* sizes of the segments listed when the walkers begin
  Capacity       \* records that fit in the shared memory object

ASSUME BoundsAssumption ==
  MaxSegments \in Nat /\ InitSizes \in Seq({0, 1, 2}) /\ Len(InitSizes) <= MaxSegments
  /\ Capacity \in Nat

Ids == 1..MaxSegments
End == MaxSegments + 1           \* end() of the list
None == "none"                   \* no shared memory object of that name
Leftover == "leftover"           \* the one of a process that ran before
Foreign == "foreign"             \* the one of another user, which cannot be removed

ASSUME NamesAssumption == Walkers \cap {None, Leftover, Foreign} = {}
ASSUME WalkersAssumption == IsFiniteSet(Walkers)

\* adaptiveThread publishes, memInitThread is init; scan is ScanMode::start and
\* place is place_all_pages or place_all_pages_adaptive.
Roles == {"publish", "init", "scan", "place"}

VARIABLES
  role,       \* role[w]: what walker w does; it never changes
  made,       \* nodes 1..made have been added so far
  listed,     \* those in the list
  mapped,     \* those whose memory has not been given back
  size,       \* size[i]: 0 up to 16 KB, 1 up to 1 MB, 2 longer
  at,         \* at[w]: where walker w is
  cursor,     \* cursor[w]: the node its iterator points to
  seen,       \* seen[w]: the segments it has dealt with in this pass
  stray,      \* stray[w]: it has used an iterator to a node that was erased
  vector,     \* vector[w]: what publisher w has put in its object
  madeBy,     \* madeBy[w]: nodes added when the pass of publisher w ended
  object,     \* whose object has the name MySharedMemory
  memInit,    \* MEM_INIT
  died        \* why the process has ended, or "no"

list == <<made, listed, mapped, size>>
walks == <<at, cursor, seen, stray, madeBy>>
vars == <<role, list, walks, vector, object, memInit, died>>

Init ==
  /\ role \in [Walkers -> Roles]
  /\ made = Len(InitSizes)
  /\ listed = 1..made
  /\ mapped = 1..made
  /\ size = [i \in Ids |-> IF i <= made THEN InitSizes[i] ELSE 0]
  /\ at = [w \in Walkers |-> "idle"]
  /\ cursor = [w \in Walkers |-> End]
  /\ seen = [w \in Walkers |-> {}]
  /\ stray = [w \in Walkers |-> FALSE]
  /\ vector = [w \in Walkers |-> <<>>]
  /\ madeBy = [w \in Walkers |-> 0]
  /\ object \in {None, Leftover, Foreign}
  /\ memInit = 0
  /\ died = "no"

(***************************************************************************)
(* The handlers.                                                           *)
(***************************************************************************)
\* Memory is allocated, and its segment added at the back of the list.
AddSegment ==
  /\ made < MaxSegments
  /\ made' = made + 1
  /\ listed' = listed \cup {made'}
  /\ mapped' = mapped \cup {made'}
  /\ \E n \in {0, 1, 2} : size' = [size EXCEPT ![made'] = n]
  /\ UNCHANGED <<role, walks, vector, object, memInit, died>>

\* free, realloc or munmap gives the memory back ...
GiveBack ==
  /\ \E i \in listed \cap mapped : mapped' = mapped \ {i}
  /\ UNCHANGED <<role, made, listed, size, walks, vector, object, memInit, died>>

\* ... and the handler then erases the node.
Erase ==
  /\ \E i \in listed \ mapped : listed' = listed \ {i}
  /\ UNCHANGED <<role, made, mapped, size, walks, vector, object, memInit, died>>

(***************************************************************************)
(* Iterators.                                                              *)
(***************************************************************************)
IsNext(c, n) == n > c /\ \A m \in listed : m > c => n <= m

\* What an iterator to node c reads: the node, or, once it is erased, what is
\* left of it or a node added since in the same memory.
Reads(c) == {c} \cup (IF c \in listed THEN {} ELSE {m \in listed : m > c})

\* Where a walker goes when its iterator is at n: into the body, or out of the loop.
ToNode(w, n, s) ==
  /\ cursor' = [cursor EXCEPT ![w] = n]
  /\ seen' = [seen EXCEPT ![w] = IF n = End THEN {} ELSE s]
  /\ at' = [at EXCEPT ![w] = IF n # End THEN "visit"
                             ELSE IF role[w] = "init" THEN "sleep" ELSE "done"]
  /\ madeBy' = [madeBy EXCEPT ![w] = IF n = End /\ role[w] = "publish" THEN made ELSE @]

BeginPass(w) ==
  /\ \E n \in listed \cup {End} : IsNext(0, n) /\ ToNode(w, n, {})
  /\ stray' = [stray EXCEPT ![w] = FALSE]

\* ++it and the comparison with end().  The link of an erased node is not there
\* any more, free has overwritten it: the iterator is wild or reaches a node that
\* was added in the same memory.
Advance(w) ==
  /\ at[w] = "advance"
  /\ IF cursor[w] \in listed
     THEN /\ \E n \in listed \cup {End} : IsNext(cursor[w], n) /\ ToNode(w, n, seen[w])
          /\ UNCHANGED <<stray, died>>
     ELSE /\ stray' = [stray EXCEPT ![w] = TRUE]
          /\ \/ died' = "iterator" /\ UNCHANGED <<cursor, at, seen, madeBy>>
             \/ /\ \E m \in Reads(cursor[w]) \ {cursor[w]}, n \in listed \cup {End} :
                     IsNext(m, n) /\ ToNode(w, n, seen[w])
                /\ UNCHANGED died
  /\ UNCHANGED <<role, list, vector, object, memInit>>

(***************************************************************************)
(* The body of the loop, on the segment m that the iterator reads.         *)
(***************************************************************************)
\* ScanMode::start and memInitThread take segments longer than 16 KB, the
\* publisher and place_all_pages those longer than 1 MB.
Threshold(w) == IF role[w] \in {"init", "scan"} THEN 0 ELSE 1

\* place_pages_weighted_initial leaves segments up to 1 MB alone.  mbind fails on
\* memory that has been given back, unless the addresses have been handed out again,
\* and may fail on any, as when a page cannot be moved.
PlaceSegment(m) ==
  /\ \/ size[m] < 2 \/ m \in mapped \/ \E i \in mapped : i > m
  /\ UNCHANGED <<died, vector, object>>

PlaceSegmentFails(m) ==
  /\ size[m] = 2
  /\ died' = IF m \in mapped THEN "kernel" ELSE "mbind"
  /\ UNCHANGED <<vector, object>>

\* push_back throws when the object is full; the handler of the exception
\* removes the object and throws again, which ends the process.
PublishWhatFits(w, m) ==
  /\ vector' = [vector EXCEPT ![w] = IF Len(@) < Capacity THEN Append(@, m) ELSE @]
  /\ UNCHANGED <<object, died>>
Publish(w, m) ==
  IF Len(vector[w]) < Capacity
  THEN vector' = [vector EXCEPT ![w] = Append(@, m)] /\ UNCHANGED <<object, died>>
  ELSE died' = "full" /\ object' = None /\ UNCHANGED vector

VisitLongest(w) ==
  /\ at[w] = "visit"
  /\ \E m \in Reads(cursor[w]) :
       IF size[m] > 1
       THEN /\ seen' = [seen EXCEPT ![w] = @ \cup {m}]
            /\ IF role[w] = "publish" THEN Publish(w, m)
               ELSE PlaceSegment(m) \/ PlaceSegmentFails(m)
       ELSE UNCHANGED <<seen, vector, object, died>>
  /\ stray' = [stray EXCEPT ![w] = @ \/ cursor[w] \notin listed]
  /\ at' = [at EXCEPT ![w] = "advance"]
  /\ UNCHANGED <<role, list, cursor, madeBy, memInit>>
Visit(w) ==
  /\ at[w] = "visit"
  /\ \E m \in Reads(cursor[w]) :
       IF size[m] > Threshold(w)
       THEN /\ seen' = [seen EXCEPT ![w] = @ \cup {m}]
            /\ IF role[w] = "publish" THEN Publish(w, m)
               ELSE PlaceSegment(m) \/ PlaceSegmentFails(m)
       ELSE UNCHANGED <<seen, vector, object, died>>
  /\ stray' = [stray EXCEPT ![w] = @ \/ cursor[w] \notin listed]
  /\ at' = [at EXCEPT ![w] = "advance"]
  /\ UNCHANGED <<role, list, cursor, madeBy, memInit>>

(***************************************************************************)
(* start sets MEM_INIT and begins adaptiveThread; the application may call *)
(* it again.  adaptiveThread removes the object and creates its own, which *)
(* throws if there is one again.                                           *)
(***************************************************************************)
Start(w) ==
  /\ role[w] = "publish" /\ at[w] = "idle"
  /\ memInit' = 1
  /\ at' = [at EXCEPT ![w] = "remove"]
  /\ UNCHANGED <<role, list, cursor, seen, stray, madeBy, vector, object, died>>

RemoveObjectOwn(w) ==
  /\ at[w] = "remove"
  /\ object' = IF object = w THEN None ELSE object
  /\ at' = [at EXCEPT ![w] = "create"]
  /\ UNCHANGED <<role, list, cursor, seen, stray, madeBy, vector, memInit, died>>
RemoveObject(w) ==
  /\ at[w] = "remove"
  /\ object' = IF object = Foreign THEN Foreign ELSE None
  /\ at' = [at EXCEPT ![w] = "create"]
  /\ UNCHANGED <<role, list, cursor, seen, stray, madeBy, vector, memInit, died>>

CreateObject(w) ==
  /\ at[w] = "create"
  /\ IF object = None
     THEN object' = w /\ BeginPass(w) /\ UNCHANGED died
     ELSE /\ died' = "exists"
          /\ object' = IF object = Foreign THEN Foreign ELSE None
          /\ UNCHANGED walks
  /\ UNCHANGED <<role, list, vector, memInit>>

(***************************************************************************)
(* startMemInit begins memInitThread, which passes over the list once a    *)
(* second while MEM_INIT is 0.                                             *)
(***************************************************************************)
StartMemInit(w) ==
  /\ role[w] = "init" /\ at[w] = "idle"
  /\ at' = [at EXCEPT ![w] = "test"]
  /\ UNCHANGED <<role, list, cursor, seen, stray, madeBy, vector, object, memInit, died>>

TestMemInitOnce(w) ==
  /\ at[w] = "test"
  /\ BeginPass(w)
  /\ UNCHANGED <<role, list, vector, object, memInit, died>>
TestMemInit(w) ==
  /\ at[w] = "test"
  /\ IF memInit = 0 THEN BeginPass(w)
     ELSE at' = [at EXCEPT ![w] = "done"] /\ UNCHANGED <<cursor, seen, stray, madeBy>>
  /\ UNCHANGED <<role, list, vector, object, memInit, died>>

Sleep(w) ==
  /\ at[w] = "sleep"
  /\ at' = [at EXCEPT ![w] = "test"]
  /\ UNCHANGED <<role, list, cursor, seen, stray, madeBy, vector, object, memInit, died>>

\* One pass: ScanMode::start, place_all_pages, place_all_pages_adaptive.
StartPass(w) ==
  /\ role[w] \in {"scan", "place"} /\ at[w] = "idle"
  /\ BeginPass(w)
  /\ UNCHANGED <<role, list, vector, object, memInit, died>>

Handlers == AddSegment \/ GiveBack \/ Erase
Begin(w) == Start(w) \/ StartMemInit(w) \/ StartPass(w)
Step(w) ==
  RemoveObject(w) \/ CreateObject(w) \/ TestMemInit(w) \/ Sleep(w) \/ Visit(w) \/ Advance(w)

\* The process has ended, or no thread has anything to do.
Rest ==
  /\ died # "no" \/ \A w \in Walkers : at[w] \in {"idle", "done"}
  /\ UNCHANGED vars

Next ==
  \/ died = "no" /\ (Handlers \/ \E w \in Walkers : Begin(w) \/ Step(w))
  \/ Rest

Spec == Init /\ [][Next]_vars

\* The kernel runs every thread.
FairSpec == Spec /\ \A w \in Walkers : WF_vars(died = "no" /\ Step(w))

(***************************************************************************)
(* Properties.                                                             *)
(***************************************************************************)
\* The types of the variables.
TypeOK ==
  /\ role \in [Walkers -> Roles]
  /\ made \in 0..MaxSegments
  /\ listed \subseteq 1..made /\ mapped \subseteq 1..made
  /\ size \in [Ids -> {0, 1, 2}]
  /\ at \in [Walkers -> {"idle", "test", "remove", "create", "visit", "advance",
                         "sleep", "done"}]
  /\ cursor \in [Walkers -> 1..End]
  /\ seen \in [Walkers -> SUBSET Ids]
  /\ stray \in [Walkers -> BOOLEAN]
  /\ vector \in [Walkers -> Seq(Ids)]
  /\ madeBy \in [Walkers -> 0..MaxSegments]
  /\ object \in Walkers \cup {None, Leftover, Foreign}
  /\ memInit \in {0, 1}
  /\ died \in {"no", "iterator", "mbind", "kernel", "full", "exists"}

\* A walker that has met no erased node has dealt with every long segment that is
\* in the list before its iterator, also with those added while it walks.
SeenBehind ==
  \A w \in Walkers : at[w] \in {"visit", "advance"} /\ ~stray[w] =>
    \A i \in listed :
      size[i] > Threshold(w) /\ (i < cursor[w] \/ (i = cursor[w] /\ at[w] = "advance"))
        => i \in seen[w]

\* An iterator in the loop points to a node that has been added.
CursorAdded ==
  \A w \in Walkers : at[w] \in {"visit", "advance"} => cursor[w] \in 1..made

IInv == TypeOK /\ CursorAdded /\ SeenBehind

\* When a pass that met no erased node ends, every long segment then in the list
\* has been dealt with: none of those the handlers add meanwhile is overlooked.
PassComplete ==
  [][\A w \in Walkers :
       at[w] = "advance" /\ cursor'[w] = End /\ ~stray'[w] =>
         \A i \in listed : size[i] > Threshold(w) => i \in seen[w]]_vars

Publishing == {w \in Walkers : role[w] = "publish" /\ at[w] # "idle"}

\* Unless mbind fails on memory that is there, the walkers end the process only when
\* a handler has given memory back or erased a node, when there are more long
\* segments than the object holds, when two publishers meet, or when an object of
\* another user has the name.  One left by an earlier process is no reason.
DiesOnlyOf ==
  CASE died = "iterator" -> listed # 1..made
    [] died = "mbind" -> mapped # 1..made
    [] died = "full" -> \/ listed # 1..made
                        \/ Cardinality({i \in 1..made : size[i] = 2}) > Capacity
    [] died = "exists" -> Cardinality(Publishing) > 1 \/ object = Foreign
    [] OTHER -> TRUE

\* The object of w lists long segments, each once and in the order of the list, and
\* of those in the list all that were added before its pass ended.
InOrder(w) == \A j, k \in 1..Len(vector[w]) : j < k => vector[w][j] < vector[w][k]
LongOnly(w) ==
  \A j \in 1..Len(vector[w]) : vector[w][j] \in 1..made /\ size[vector[w][j]] = 2
HasAll(w) ==
  \A i \in listed :
    i <= madeBy[w] /\ size[i] = 2 => \E j \in 1..Len(vector[w]) : vector[w][j] = i
Lists(w) == InOrder(w) /\ LongOnly(w) /\ HasAll(w)

\* Once the publishers are through, the name leads to the object of one of them,
\* not to the one an earlier process has left; unless its pass met an erased node,
\* it is a whole listing, also of the segments added while it was made.
ListingAvailable ==
  /\ died = "no"
  /\ Publishing # {}
  /\ \A w \in Publishing : at[w] = "done"
  => object \in Publishing /\ (~stray[object] => Lists(object))

\* memInitThread ends once start has set MEM_INIT, whatever the handlers do to the
\* list it walks over.
MemInitEnds ==
  memInit = 1 ~> (died # "no" \/ \A w \in Walkers : role[w] = "init" => at[w] \in {"idle", "done"})
=============================================================================
