-------------------------- MODULE SegmentWalkProofs --------------------------
(***************************************************************************)
(* Proofs about SegmentWalk: whatever the handlers add, give back and      *)
(* erase while walkers pass over the list, a walker that has met no erased *)
(* node has dealt with every long segment behind it, and so with all of    *)
(* them when its pass ends; walkers end the process for the reasons named  *)
(* only; and the publishers leave a listing behind.                        *)
(***************************************************************************)
EXTENDS SegmentWalk, SequenceTheorems, FiniteSetTheorems, TLAPS

InLoop(w) == at[w] \in {"visit", "advance"}

\* The part of the invariant that is about one walker.
WalkerOK(w) ==
  /\ InLoop(w) => cursor[w] \in 1..made
  /\ InLoop(w) /\ ~stray[w] =>
       \A i \in listed :
         size[i] > Threshold(w) /\ (i < cursor[w] \/ (i = cursor[w] /\ at[w] = "advance"))
           => i \in seen[w]

\* The invariant is the types and this part for each walker.
LEMMA InvariantByWalker == IInv <=> TypeOK /\ \A w \in Walkers : WalkerOK(w)
  BY DEF IInv, CursorAdded, SeenBehind, WalkerOK, InLoop

LEMMA InvariantByWalkerNext == IInv' <=> TypeOK' /\ \A w \in Walkers : WalkerOK(w)'
  BY DEF IInv, CursorAdded, SeenBehind, WalkerOK, InLoop

\* Nothing is dealt with before the first segments are listed.
LEMMA Initially == Init => IInv
<1> SUFFICES ASSUME Init PROVE IInv
  OBVIOUS
<1>1. TypeOK
  BY BoundsAssumption DEF Init, TypeOK, Ids, End
<1>2. ASSUME NEW w \in Walkers PROVE WalkerOK(w)
  BY DEF Init, WalkerOK, InLoop
<1> QED BY <1>1, <1>2, InvariantByWalker

\* A walker that a step leaves alone keeps its part while the list stays.
LEMMA OtherWalker ==
  ASSUME IInv, NEW w \in Walkers, UNCHANGED <<role, list>>,
         at'[w] = at[w], cursor'[w] = cursor[w], seen'[w] = seen[w], stray'[w] = stray[w]
  PROVE  WalkerOK(w)'
  BY InvariantByWalker DEF WalkerOK, InLoop, Threshold, list

\* A walker outside its loop has nothing to keep.
LEMMA OutsideLoop ==
  ASSUME NEW w \in Walkers, at'[w] \notin {"visit", "advance"}
  PROVE  WalkerOK(w)'
  BY DEF WalkerOK, InLoop

\* The first iterator of a pass has no listed node before it.
LEMMA PassBegins ==
  ASSUME IInv, NEW w \in Walkers, BeginPass(w), UNCHANGED <<role, list>>
  PROVE  /\ at' \in [Walkers -> {"idle", "test", "remove", "create", "visit",
                                 "advance", "sleep", "done"}]
         /\ cursor' \in [Walkers -> 1..End]
         /\ seen' \in [Walkers -> SUBSET Ids]
         /\ stray' \in [Walkers -> BOOLEAN]
         /\ madeBy' \in [Walkers -> 0..MaxSegments]
         /\ \A u \in Walkers : WalkerOK(u)'
<1>1. PICK n \in listed \cup {End} : IsNext(0, n) /\ ToNode(w, n, {})
  BY DEF BeginPass
<1>2. n \in 1..End /\ (n # End => n \in 1..made)
  BY BoundsAssumption DEF IInv, TypeOK, End
<1>3. WalkerOK(w)'
  BY <1>1, <1>2, BoundsAssumption DEF IInv, TypeOK, ToNode, IsNext, WalkerOK, InLoop, list, End
<1>4. ASSUME NEW u \in Walkers, u # w PROVE WalkerOK(u)'
  <2>1. at'[u] = at[u] /\ cursor'[u] = cursor[u] /\ seen'[u] = seen[u] /\ stray'[u] = stray[u]
    BY <1>1, <1>4 DEF IInv, TypeOK, ToNode, BeginPass
  <2> QED BY <2>1, OtherWalker
<1>5. at' \in [Walkers -> {"idle", "test", "remove", "create", "visit",
                           "advance", "sleep", "done"}]
  BY <1>1 DEF IInv, TypeOK, ToNode
<1>6. /\ cursor' \in [Walkers -> 1..End]
      /\ seen' \in [Walkers -> SUBSET Ids]
      /\ stray' \in [Walkers -> BOOLEAN]
      /\ madeBy' \in [Walkers -> 0..MaxSegments]
  BY <1>1, <1>2 DEF IInv, TypeOK, ToNode, BeginPass
<1> QED BY <1>3, <1>4, <1>5, <1>6

\* The handlers add at the back, behind no iterator, and otherwise only take away.
LEMMA HandlersKeep == IInv /\ Handlers => IInv'
<1> SUFFICES ASSUME IInv, Handlers PROVE IInv'
  OBVIOUS
<1> USE InvariantByWalker, InvariantByWalkerNext
<1>1. CASE AddSegment
  <2>1. made' \in Ids /\ made' = made + 1 /\ made' \notin listed
    BY <1>1, BoundsAssumption DEF AddSegment, IInv, TypeOK, Ids
  <2>2. TypeOK'
    <3>1. made' \in 0..MaxSegments
      BY <2>1, BoundsAssumption DEF Ids
    <3>2. listed' \subseteq 1..made' /\ mapped' \subseteq 1..made'
      <4>1. listed \subseteq 1..made /\ mapped \subseteq 1..made /\ made \in Nat
        BY DEF IInv, TypeOK
      <4>2. listed' = listed \cup {made'} /\ mapped' = mapped \cup {made'}
        BY <1>1 DEF AddSegment
      <4> QED BY <2>1, <4>1, <4>2
    <3>3. size' \in [Ids -> {0, 1, 2}]
      BY <1>1, <2>1 DEF AddSegment, IInv, TypeOK
    <3> QED BY <1>1, <3>1, <3>2, <3>3 DEF AddSegment, IInv, TypeOK, walks
  <2>3. ASSUME NEW w \in Walkers PROVE WalkerOK(w)'
    <3>1. InLoop(w)' => cursor'[w] \in 1..made'
      <4>1. made' = made + 1 /\ made \in Nat /\ UNCHANGED <<at, cursor>> /\ WalkerOK(w)
        BY <1>1, <2>3 DEF AddSegment, walks, IInv, TypeOK
      <4> QED BY <4>1 DEF WalkerOK, InLoop
    <3>2. \A i \in listed' : i # made' => i \in listed /\ size'[i] = size[i]
      BY <1>1, <2>1 DEF AddSegment, IInv, TypeOK, Ids
    <3>3. Threshold(w)' = Threshold(w)
      BY <1>1 DEF AddSegment, Threshold
    <3>4. UNCHANGED <<at, cursor, seen, stray>> /\ WalkerOK(w) /\ made \in Nat
      BY <1>1 DEF AddSegment, walks, IInv, TypeOK
    <3>5. ASSUME InLoop(w), ~stray[w], NEW i \in listed', size'[i] > Threshold(w),
                 i < cursor[w] \/ (i = cursor[w] /\ at[w] = "advance")
          PROVE  i \in seen[w]
      <4>1. cursor[w] \in 1..made
        BY <3>4, <3>5 DEF WalkerOK
      <4>2. i # made'
        BY <2>1, <3>4, <3>5, <4>1
      <4> QED BY <3>2, <3>4, <3>5, <4>2 DEF WalkerOK
    <3>6. InLoop(w) /\ ~stray[w] =>
            \A i \in listed' :
              size'[i] > Threshold(w) /\ (i < cursor[w] \/ (i = cursor[w] /\ at[w] = "advance"))
                => i \in seen[w]
      BY <3>5
    <3> QED BY <3>1, <3>3, <3>4, <3>6 DEF WalkerOK, InLoop
  <2> QED BY <2>2, <2>3
<1>2. CASE GiveBack
  <2>1. TypeOK'
    BY <1>2 DEF GiveBack, IInv, TypeOK, walks
  <2>2. ASSUME NEW w \in Walkers PROVE WalkerOK(w)'
    BY <1>2, <2>2 DEF GiveBack, WalkerOK, InLoop, Threshold, walks
  <2> QED BY <2>1, <2>2
<1>3. CASE Erase
  <2>1. TypeOK'
    BY <1>3 DEF Erase, IInv, TypeOK, walks
  <2>2. ASSUME NEW w \in Walkers PROVE WalkerOK(w)'
    BY <1>3, <2>2 DEF Erase, WalkerOK, InLoop, Threshold, walks
  <2> QED BY <2>1, <2>2
<1> QED BY <1>1, <1>2, <1>3 DEF Handlers

\* Steps of w that move it to another place outside its loop.
LEMMA Elsewhere ==
  ASSUME IInv, NEW w \in Walkers, NEW label \in {"test", "remove", "create", "done"},
         at' = [at EXCEPT ![w] = label], UNCHANGED <<role, list, cursor, seen, stray, madeBy>>
  PROVE  \A u \in Walkers : WalkerOK(u)'
<1> SUFFICES ASSUME NEW u \in Walkers PROVE WalkerOK(u)'
  OBVIOUS
<1>1. CASE u = w
  BY <1>1, OutsideLoop DEF IInv, TypeOK
<1>2. CASE u # w
  <2>1. at'[u] = at[u]
    BY <1>2 DEF IInv, TypeOK
  <2> QED BY <2>1, OtherWalker
<1> QED BY <1>1, <1>2

\* The beginnings of the walks.
LEMMA BeginKeeps == ASSUME IInv, NEW w \in Walkers, Begin(w) PROVE IInv'
<1> USE InvariantByWalkerNext
<1>1. CASE Start(w)
  <2>1. TypeOK'
    BY <1>1 DEF Start, IInv, TypeOK, list
  <2> QED BY <1>1, <2>1, Elsewhere DEF Start
<1>2. CASE StartMemInit(w)
  <2>1. TypeOK'
    BY <1>2 DEF StartMemInit, IInv, TypeOK, list
  <2> QED BY <1>2, <2>1, Elsewhere DEF StartMemInit
<1>3. CASE StartPass(w)
  <2>1. BeginPass(w) /\ UNCHANGED <<role, list, vector, object, memInit, died>>
    BY <1>3 DEF StartPass
  <2>2. TypeOK'
    BY <2>1, PassBegins DEF IInv, TypeOK, list
  <2> QED BY <2>1, <2>2, PassBegins
<1> QED BY <1>1, <1>2, <1>3 DEF Begin

\* The shared memory object, and the test of MEM_INIT between two passes.
LEMMA BetweenPassesKeep ==
  ASSUME IInv, NEW w \in Walkers,
         RemoveObject(w) \/ CreateObject(w) \/ TestMemInit(w) \/ Sleep(w)
  PROVE  IInv'
<1> USE InvariantByWalkerNext
<1>1. CASE RemoveObject(w)
  <2>1. TypeOK'
    BY <1>1 DEF RemoveObject, IInv, TypeOK, list
  <2> QED BY <1>1, <2>1, Elsewhere DEF RemoveObject
<1>2. CASE CreateObject(w)
  <2>1. UNCHANGED <<role, list, vector, memInit>>
    BY <1>2 DEF CreateObject
  <2>2. CASE object = None
    <3>1. BeginPass(w) /\ object' = w /\ UNCHANGED died
      BY <1>2, <2>2 DEF CreateObject
    <3>2. TypeOK'
      BY <2>1, <3>1, PassBegins DEF IInv, TypeOK, list
    <3> QED BY <2>1, <3>1, <3>2, PassBegins
  <2>3. CASE object # None
    <3>1. died' = "exists" /\ object' \in {None, Foreign} /\ UNCHANGED walks
      BY <1>2, <2>3 DEF CreateObject
    <3>2. TypeOK'
      BY <2>1, <3>1 DEF IInv, TypeOK, list, walks
    <3>3. ASSUME NEW u \in Walkers PROVE WalkerOK(u)'
      BY <2>1, <3>1, OtherWalker DEF walks
    <3> QED BY <3>2, <3>3
  <2> QED BY <2>2, <2>3
<1>3. CASE TestMemInit(w)
  <2>1. UNCHANGED <<role, list, vector, object, memInit, died>>
    BY <1>3 DEF TestMemInit
  <2>2. CASE memInit = 0
    <3>1. BeginPass(w)
      BY <1>3, <2>2 DEF TestMemInit
    <3>2. TypeOK'
      BY <2>1, <3>1, PassBegins DEF IInv, TypeOK, list
    <3> QED BY <2>1, <3>1, <3>2, PassBegins
  <2>3. CASE memInit # 0
    <3>1. at' = [at EXCEPT ![w] = "done"] /\ UNCHANGED <<cursor, seen, stray, madeBy>>
      BY <1>3, <2>3 DEF TestMemInit
    <3>2. TypeOK'
      BY <2>1, <3>1 DEF IInv, TypeOK, list
    <3> QED BY <2>1, <3>1, <3>2, Elsewhere
  <2> QED BY <2>2, <2>3
<1>4. CASE Sleep(w)
  <2>1. TypeOK'
    BY <1>4 DEF Sleep, IInv, TypeOK, list
  <2> QED BY <1>4, <2>1, Elsewhere DEF Sleep
<1> QED BY <1>1, <1>2, <1>3, <1>4

\* The body of the loop deals with the node of an iterator that is still good.
LEMMA VisitKeeps == ASSUME IInv, NEW w \in Walkers, Visit(w) PROVE IInv'
<1> USE InvariantByWalker, InvariantByWalkerNext
<1>1. /\ at[w] = "visit" /\ at' = [at EXCEPT ![w] = "advance"]
      /\ stray' = [stray EXCEPT ![w] = @ \/ cursor[w] \notin listed]
      /\ UNCHANGED <<role, list, cursor, madeBy, memInit>>
  BY DEF Visit
<1>2. cursor[w] \in 1..made
  BY <1>1 DEF WalkerOK, InLoop
<1>3. PICK m \in Reads(cursor[w]) :
        IF size[m] > Threshold(w)
        THEN /\ seen' = [seen EXCEPT ![w] = @ \cup {m}]
             /\ IF role[w] = "publish" THEN Publish(w, m)
                ELSE PlaceSegment(m) \/ PlaceSegmentFails(m)
        ELSE UNCHANGED <<seen, vector, object, died>>
  BY DEF Visit
<1>4. m \in Ids /\ (cursor[w] \in listed => m = cursor[w])
  BY <1>2, <1>3, BoundsAssumption DEF Reads, IInv, TypeOK, Ids
<1>5. \/ seen' = [seen EXCEPT ![w] = @ \cup {m}]
      \/ seen' = seen /\ ~(size[m] > Threshold(w))
  BY <1>3
<1>6. vector' \in [Walkers -> Seq(Ids)] /\ object' \in Walkers \cup {None, Leftover, Foreign}
      /\ died' \in {"no", "iterator", "mbind", "kernel", "full", "exists"}
  <2>1. CASE vector' = vector
    BY <1>3, <2>1 DEF Publish, PlaceSegment, PlaceSegmentFails, IInv, TypeOK
  <2>2. CASE vector' # vector
    <3>1. vector' = [vector EXCEPT ![w] = Append(@, m)] /\ UNCHANGED <<object, died>>
      BY <1>3, <2>2 DEF Publish, PlaceSegment, PlaceSegmentFails
    <3>2. Append(vector[w], m) \in Seq(Ids)
      BY <1>4, AppendProperties DEF IInv, TypeOK
    <3> QED BY <3>1, <3>2 DEF IInv, TypeOK
  <2> QED BY <2>1, <2>2
<1>7. TypeOK'
  <2>1. stray' \in [Walkers -> BOOLEAN]
    <3>1. stray \in [Walkers -> BOOLEAN]
      BY DEF IInv, TypeOK
    <3>2. (stray[w] \/ cursor[w] \notin listed) \in BOOLEAN
      OBVIOUS
    <3> QED BY <1>1, <3>1, <3>2
  <2>2. seen' \in [Walkers -> SUBSET Ids]
    <3>1. seen \in [Walkers -> SUBSET Ids]
      BY DEF IInv, TypeOK
    <3> QED BY <1>4, <1>5, <3>1
  <2> QED BY <1>1, <1>6, <2>1, <2>2 DEF IInv, TypeOK, list
<1>8. WalkerOK(w)'
  <2>1. Threshold(w)' = Threshold(w) /\ at'[w] = "advance" /\ cursor'[w] = cursor[w]
    BY <1>1 DEF Threshold, IInv, TypeOK
  <2>2. stray'[w] = (stray[w] \/ cursor[w] \notin listed)
    BY <1>1 DEF IInv, TypeOK
  <2>3. seen[w] \subseteq seen'[w] /\ (size[m] > Threshold(w) => m \in seen'[w])
    <3>1. seen \in [Walkers -> SUBSET Ids]
      BY DEF IInv, TypeOK
    <3>2. CASE seen' = [seen EXCEPT ![w] = @ \cup {m}]
      <4>1. seen'[w] = seen[w] \cup {m}
        BY <3>1, <3>2
      <4> QED BY <4>1
    <3>3. CASE seen' = seen /\ ~(size[m] > Threshold(w))
      BY <3>3
    <3> QED BY <1>5, <3>2, <3>3
  <2> QED BY <1>1, <1>2, <1>4, <2>1, <2>2, <2>3 DEF WalkerOK, InLoop, IInv, TypeOK, list
<1>9. ASSUME NEW u \in Walkers, u # w PROVE WalkerOK(u)'
  BY <1>1, <1>5, <1>9, OtherWalker DEF IInv, TypeOK
<1> QED BY <1>7, <1>8, <1>9

\* The next node: the segments in between are behind the iterator already.
LEMMA AdvanceKeeps == ASSUME IInv, NEW w \in Walkers, Advance(w) PROVE IInv'
<1> USE InvariantByWalker, InvariantByWalkerNext
<1>1. at[w] = "advance" /\ UNCHANGED <<role, list, vector, object, memInit>>
  BY DEF Advance
<1>2. cursor[w] \in 1..made
  BY <1>1 DEF WalkerOK, InLoop
<1>3. CASE cursor[w] \in listed
  <2>1. PICK n \in listed \cup {End} : IsNext(cursor[w], n) /\ ToNode(w, n, seen[w])
    BY <1>3 DEF Advance
  <2>2. UNCHANGED <<stray, died>>
    BY <1>3 DEF Advance
  <2>3. n \in 1..End /\ (n # End => n \in 1..made)
    BY BoundsAssumption DEF IInv, TypeOK, End
  <2>4. TypeOK'
    BY <1>1, <2>1, <2>2, <2>3 DEF IInv, TypeOK, list, ToNode
  <2>5. WalkerOK(w)'
    <3>1. CASE n = End
      BY <2>1, <3>1, OutsideLoop DEF ToNode, IInv, TypeOK
    <3>2. CASE n # End
      <4>1. at'[w] = "visit" /\ cursor'[w] = n /\ seen'[w] = seen[w] /\ stray'[w] = stray[w]
        BY <2>1, <2>2, <3>2 DEF ToNode, IInv, TypeOK
      <4>2. Threshold(w)' = Threshold(w) /\ listed' = listed /\ size' = size /\ made' = made
        BY <1>1 DEF Threshold, list
      <4>3. \A i \in listed : i < n => i <= cursor[w]
        BY <1>2, <2>1, <2>3 DEF IsNext, IInv, TypeOK, End
      <4>4. WalkerOK(w)
        OBVIOUS
      <4>5. InLoop(w)' => cursor'[w] \in 1..made'
        BY <2>3, <3>2, <4>1, <4>2
      <4>6. ASSUME ~stray[w], NEW i \in listed, size[i] > Threshold(w), i < n
            PROVE  i \in seen[w]
        <5>1. i <= cursor[w] /\ i \in Nat /\ cursor[w] \in Nat
          BY <1>2, <4>3, <4>6 DEF IInv, TypeOK
        <5>2. i < cursor[w] \/ i = cursor[w]
          BY <5>1
        <5> QED BY <1>1, <4>4, <4>6, <5>2 DEF WalkerOK, InLoop
      <4> QED BY <4>1, <4>2, <4>5, <4>6 DEF WalkerOK, InLoop
    <3> QED BY <3>1, <3>2
  <2>6. ASSUME NEW u \in Walkers, u # w PROVE WalkerOK(u)'
    BY <1>1, <2>1, <2>2, <2>6, OtherWalker DEF IInv, TypeOK, ToNode
  <2> QED BY <2>4, <2>5, <2>6
<1>4. CASE cursor[w] \notin listed
  <2>1. stray' = [stray EXCEPT ![w] = TRUE]
    BY <1>4 DEF Advance
  <2>2. CASE died' = "iterator" /\ UNCHANGED <<cursor, at, seen, madeBy>>
    <3>1. TypeOK'
      BY <1>1, <2>1, <2>2 DEF IInv, TypeOK, list
    <3>2. WalkerOK(w)'
      BY <1>1, <1>2, <2>1, <2>2 DEF WalkerOK, InLoop, IInv, TypeOK, list
    <3>3. ASSUME NEW u \in Walkers, u # w PROVE WalkerOK(u)'
      BY <1>1, <2>1, <2>2, <3>3, OtherWalker DEF IInv, TypeOK
    <3> QED BY <3>1, <3>2, <3>3
  <2>3. CASE \E m \in Reads(cursor[w]) \ {cursor[w]}, n \in listed \cup {End} :
               IsNext(m, n) /\ ToNode(w, n, seen[w]) /\ UNCHANGED died
    <3>1. PICK n \in listed \cup {End} : ToNode(w, n, seen[w]) /\ UNCHANGED died
      BY <2>3
    <3>2. n \in 1..End /\ (n # End => n \in 1..made)
      BY BoundsAssumption DEF IInv, TypeOK, End
    <3>3. TypeOK'
      BY <1>1, <2>1, <3>1, <3>2 DEF IInv, TypeOK, list, ToNode
    <3>4. WalkerOK(w)'
      BY <1>1, <2>1, <3>1, <3>2 DEF WalkerOK, InLoop, IInv, TypeOK, list, ToNode
    <3>5. ASSUME NEW u \in Walkers, u # w PROVE WalkerOK(u)'
      BY <1>1, <2>1, <3>1, <3>5, OtherWalker DEF IInv, TypeOK, ToNode
    <3> QED BY <3>3, <3>4, <3>5
  <2> QED BY <1>4, <2>2, <2>3 DEF Advance
<1> QED BY <1>3, <1>4

\* A step that changes nothing.
LEMMA StutteringKeeps == IInv /\ UNCHANGED vars => IInv'
  BY DEF IInv, TypeOK, CursorAdded, SeenBehind, Threshold, vars, list, walks

LEMMA StepsKeep == IInv /\ [Next]_vars => IInv'
<1> SUFFICES ASSUME IInv, [Next]_vars PROVE IInv'
  OBVIOUS
<1>1. CASE Handlers
  BY <1>1, HandlersKeep
<1>2. ASSUME NEW w \in Walkers, Begin(w) PROVE IInv'
  BY <1>2, BeginKeeps
<1>3. ASSUME NEW w \in Walkers, Step(w) PROVE IInv'
  BY <1>3, BetweenPassesKeep, VisitKeeps, AdvanceKeeps DEF Step
<1>4. CASE UNCHANGED vars
  BY <1>4, StutteringKeeps
<1> QED BY <1>1, <1>2, <1>3, <1>4 DEF Next, Rest

\* The inductive invariant: the types, and for each walker that has met no erased
\* node, that it has dealt with every long segment before its iterator.
THEOREM Invariance == Spec => []IInv
<1> QED BY Initially, StepsKeep, PTL DEF Spec

\* A pass that met no erased node has dealt with every long segment in the list
\* when it ends, for any number of walkers, segments and handlers.
THEOREM PassesAreComplete == Spec => PassComplete
<1>1. IInv /\ [Next]_vars =>
        [\A w \in Walkers :
           at[w] = "advance" /\ cursor'[w] = End /\ ~stray'[w] =>
             \A i \in listed : size[i] > Threshold(w) => i \in seen[w]]_vars
  <2> SUFFICES ASSUME IInv, [Next]_vars, NEW w \in Walkers,
                      at[w] = "advance", cursor'[w] = End, ~stray'[w],
                      NEW i \in listed, size[i] > Threshold(w)
               PROVE  i \in seen[w]
    OBVIOUS
  <2>1. WalkerOK(w) /\ cursor[w] \in 1..made /\ cursor[w] # End
    <3>1. WalkerOK(w)
      BY InvariantByWalker
    <3>2. cursor[w] \in 1..made
      BY <3>1 DEF WalkerOK, InLoop
    <3>3. made < End
      BY BoundsAssumption DEF IInv, TypeOK, End
    <3> QED BY <3>1, <3>2, <3>3 DEF IInv, TypeOK
  <2>2. Advance(w)
    <3>1. ASSUME NEW u \in Walkers, Begin(u) \/ Step(u), u # w PROVE FALSE
      <4>1. cursor'[w] = cursor[w]
        BY <3>1 DEF Begin, Step, Start, StartMemInit, StartPass, RemoveObject, CreateObject,
             TestMemInit, Sleep, Visit, Advance, BeginPass, ToNode, walks, IInv, TypeOK
      <4> QED BY <2>1, <4>1
    <3>2. ~(Handlers \/ UNCHANGED vars)
      BY <2>1 DEF Handlers, AddSegment, GiveBack, Erase, vars, walks
    <3>3. ~Begin(w)
      BY DEF Begin, Start, StartMemInit, StartPass
    <3>4. Step(w) => Advance(w)
      BY DEF Step, RemoveObject, CreateObject, TestMemInit, Sleep, Visit
    <3> QED BY <3>1, <3>2, <3>3, <3>4 DEF Next, Rest
  <2>3. cursor[w] \in listed
    BY <2>2 DEF Advance, IInv, TypeOK
  <2>4. PICK n \in listed \cup {End} : IsNext(cursor[w], n) /\ ToNode(w, n, seen[w])
    BY <2>2, <2>3 DEF Advance
  <2>5. n = End
    BY <2>4 DEF ToNode, IInv, TypeOK
  <2>6. i <= cursor[w]
    <3>0. i \in 1..made /\ made \in 0..MaxSegments
      BY DEF IInv, TypeOK
    <3>1. i \in Int /\ i < End /\ cursor[w] \in Int
      BY <2>1, <3>0, BoundsAssumption DEF End
    <3>2. i > cursor[w] => End <= i
      BY <2>4, <2>5 DEF IsNext
    <3> QED BY <3>1, <3>2, BoundsAssumption DEF End
  <2>7. ~stray[w]
    BY <2>2, <2>3 DEF Advance
  <2>8. i < cursor[w] \/ i = cursor[w]
    <3>1. i \in Nat /\ cursor[w] \in Nat
      BY <2>1 DEF IInv, TypeOK
    <3> QED BY <2>6, <3>1
  <2> QED BY <2>1, <2>7, <2>8 DEF WalkerOK, InLoop
<1> QED BY <1>1, Invariance, PTL DEF Spec, PassComplete

(***************************************************************************)
(* What ends the process, and what the object holds when the publishers    *)
(* are through.                                                            *)
(***************************************************************************)

\* Who is where, and whose the object is: it is a publisher's once that has
\* created it, and the one of an earlier process only until the first removes it.
ObjectInv ==
  /\ \A w \in Walkers : at[w] \in {"remove", "create"} => role[w] = "publish"
  /\ \A w \in Walkers : at[w] \in {"test", "sleep"} => role[w] = "init"
  /\ object = Leftover => \A w \in Publishing : at[w] = "remove"
  /\ object = Foreign => \A w \in Publishing : at[w] \in {"remove", "create"}
  /\ object \in Walkers =>
       role[object] = "publish" /\ at[object] \in {"visit", "advance", "done"}
  /\ died = "no" =>
       \/ object \in Walkers
       \/ \E w \in Publishing : at[w] = "create"
       \/ \A w \in Publishing : at[w] = "remove"

\* What publisher w has put in its object: if it has met no erased node, long segments
\* in the order of the list; in its loop, just those it has dealt with, which are behind
\* its iterator; after it, all those in the list that were added before the end.
VectorOK(w) ==
  role[w] = "publish" =>
    /\ madeBy[w] <= made
    /\ at[w] \in {"idle", "remove", "create"} => vector[w] = <<>>
    /\ ~stray[w] => InOrder(w) /\ LongOnly(w)
    /\ InLoop(w) /\ ~stray[w] /\ died = "no" =>
         /\ seen[w] = {vector[w][j] : j \in 1..Len(vector[w])}
         /\ \A i \in seen[w] : i < cursor[w] \/ (i = cursor[w] /\ at[w] = "advance")
    /\ at[w] = "done" /\ ~stray[w] /\ died = "no" => HasAll(w)

\* Without an erased node there is nothing to stray to.
StrayInv == listed = 1..made => \A w \in Walkers : ~stray[w]

DeathInv == ObjectInv /\ (\A w \in Walkers : VectorOK(w)) /\ StrayInv /\ DiesOnlyOf

Unless(w) == \A u \in Walkers \ {w} :
  /\ at'[u] = at[u] /\ cursor'[u] = cursor[u] /\ seen'[u] = seen[u]
  /\ stray'[u] = stray[u] /\ vector'[u] = vector[u] /\ madeBy'[u] = madeBy[u]

\* A step of one walker leaves the vectors of the others alone.
LEMMA OtherVectors ==
  ASSUME \A u \in Walkers : VectorOK(u), NEW w \in Walkers, Unless(w), VectorOK(w)',
         UNCHANGED <<role, list>>, died = "no"
  PROVE  \A u \in Walkers : VectorOK(u)'
<1> SUFFICES ASSUME NEW u \in Walkers, u # w PROVE VectorOK(u)'
  OBVIOUS
<1>1. VectorOK(u) /\ u \in Walkers \ {w}
  OBVIOUS
<1> QED BY <1>1 DEF Unless, VectorOK, InOrder, LongOnly, HasAll, InLoop, list

LEMMA DeathInvHandlers ==
  ASSUME IInv, DeathInv, died = "no", Handlers
  PROVE  DeathInv'
<1>1. UNCHANGED <<role, at, cursor, seen, stray, madeBy, vector, object, died>>
  BY DEF Handlers, AddSegment, GiveBack, Erase, walks
<1>2. ObjectInv'
  BY <1>1 DEF DeathInv, ObjectInv, Publishing
<1>3. /\ made' \in Nat /\ made \in Nat /\ made <= made' /\ listed \subseteq 1..made
      /\ \A i \in 1..made : size'[i] = size[i]
      /\ \A i \in listed' : i \in listed \/ i > made
  <2>1. made \in 0..MaxSegments /\ size \in [Ids -> {0, 1, 2}] /\ listed \subseteq 1..made
    BY DEF IInv, TypeOK
  <2>2. CASE AddSegment
    <3>1. made' = made + 1 /\ made' \in Ids
      BY <2>1, <2>2, BoundsAssumption DEF AddSegment, Ids
    <3>2. \A i \in 1..made : i \in Ids /\ i # made'
      BY <2>1, <3>1, BoundsAssumption DEF Ids
    <3>3. \A i \in listed' : i \in listed \/ i > made
      BY <2>1, <2>2, <3>1, BoundsAssumption DEF AddSegment
    <3> QED BY <2>1, <2>2, <3>1, <3>2, <3>3, BoundsAssumption DEF AddSegment
  <2>3. CASE GiveBack \/ Erase
    BY <2>1, <2>3, BoundsAssumption DEF GiveBack, Erase
  <2> QED BY <2>2, <2>3 DEF Handlers
<1>4. \A w \in Walkers : VectorOK(w)'
  <2> SUFFICES ASSUME NEW w \in Walkers, VectorOK(w) PROVE VectorOK(w)'
    BY DEF DeathInv
  <2>1. \A i \in 1..made : i \in 1..made'
    BY <1>3
  <2>2. madeBy[w] \in Nat
    BY DEF IInv, TypeOK
  <2>3. LongOnly(w) => LongOnly(w)'
    BY <1>1, <1>3, <2>1 DEF LongOnly
  <2>4. madeBy[w] <= made /\ HasAll(w) => HasAll(w)'
    <3> SUFFICES ASSUME madeBy[w] <= made, HasAll(w), NEW i \in listed', i <= madeBy[w], size'[i] = 2
                 PROVE  \E j \in 1..Len(vector[w]) : vector[w][j] = i
      BY <1>1 DEF HasAll
    <3>1. i \in listed /\ i \in 1..made
      <4>1. CASE i \in listed
        BY <1>3, <4>1
      <4>2. CASE i \notin listed
        <5>1. i = made + 1
          BY <4>2 DEF Handlers, AddSegment, GiveBack, Erase
        <5> QED BY <1>3, <2>2, <5>1
      <4> QED BY <4>1, <4>2
    <3> QED BY <1>3, <3>1 DEF HasAll
  <2>5. InOrder(w) => InOrder(w)'
    BY <1>1 DEF InOrder
  <2> QED BY <1>1, <1>3, <2>2, <2>3, <2>4, <2>5 DEF VectorOK, InLoop
<1>5. StrayInv'
  <2>1. listed' = 1..made' => listed = 1..made
    <3>1. CASE AddSegment
      <4>1. listed' = listed \cup {made + 1} /\ made' = made + 1
        BY <3>1 DEF AddSegment
      <4>2. \A i \in 1..made : i \in 1..made' /\ i # made + 1
        BY <1>3, <4>1
      <4> QED BY <1>3, <4>1, <4>2
    <3>2. CASE GiveBack
      BY <3>2 DEF GiveBack
    <3>3. CASE Erase
      BY <1>3, <3>3 DEF Erase
    <3> QED BY <3>1, <3>2, <3>3 DEF Handlers
  <2> QED BY <1>1, <2>1 DEF DeathInv, StrayInv
<1>6. DiesOnlyOf'
  BY <1>1 DEF DiesOnlyOf
<1> QED BY <1>2, <1>4, <1>5, <1>6 DEF DeathInv

\* Steps of w outside its loop, to another place outside it.
LEMMA DeathInvElsewhere ==
  ASSUME IInv, DeathInv, died = "no", NEW w \in Walkers,
         Start(w) \/ StartMemInit(w) \/ RemoveObject(w) \/ Sleep(w)
           \/ (TestMemInit(w) /\ memInit # 0)
  PROVE  DeathInv'
<1>1. UNCHANGED <<role, list, cursor, seen, stray, madeBy, vector, died>>
  BY DEF Start, StartMemInit, RemoveObject, Sleep, TestMemInit
<1>2. PICK label : at' = [at EXCEPT ![w] = label] /\ label \in {"test", "remove", "create", "done"}
  BY DEF Start, StartMemInit, RemoveObject, Sleep, TestMemInit
<1>3. /\ at'[w] = label /\ \A u \in Walkers \ {w} : at'[u] = at[u]
      /\ at[w] \notin {"visit", "advance"}
  BY <1>2 DEF IInv, TypeOK, Start, StartMemInit, RemoveObject, Sleep, TestMemInit
<1>4. ObjectInv'
  <2>0. ObjectInv /\ Walkers \cap {None, Leftover, Foreign} = {}
    BY NamesAssumption DEF DeathInv
  <2>1. CASE Start(w)
    <3>1. at[w] = "idle" /\ at'[w] = "remove" /\ role[w] = "publish" /\ UNCHANGED object
      BY <2>1 DEF Start, IInv, TypeOK
    <3> QED BY <1>1, <1>3, <2>0, <3>1 DEF ObjectInv, Publishing
  <2>2. CASE StartMemInit(w)
    <3>1. at[w] = "idle" /\ at'[w] = "test" /\ role[w] = "init" /\ UNCHANGED object
      BY <2>2 DEF StartMemInit, IInv, TypeOK
    <3> QED BY <1>1, <1>3, <2>0, <3>1 DEF ObjectInv, Publishing
  <2>3. CASE RemoveObject(w)
    <3>1. at[w] = "remove" /\ at'[w] = "create" /\ role[w] = "publish"
      BY <2>0, <2>3 DEF RemoveObject, IInv, TypeOK, ObjectInv
    <3>2. object' = IF object = Foreign THEN Foreign ELSE None
      BY <2>3 DEF RemoveObject
    <3>3. CASE object = Foreign
      BY <1>1, <1>3, <2>0, <3>1, <3>2, <3>3 DEF ObjectInv, Publishing, None, Leftover, Foreign
    <3>4. CASE object # Foreign
      BY <1>1, <1>3, <2>0, <3>1, <3>2, <3>4 DEF ObjectInv, Publishing, None, Leftover, Foreign
    <3> QED BY <3>3, <3>4
  <2>4. CASE Sleep(w)
    <3>1. at[w] = "sleep" /\ at'[w] = "test" /\ UNCHANGED object
      BY <2>4 DEF Sleep, IInv, TypeOK
    <3> QED BY <1>1, <1>3, <2>0, <3>1 DEF ObjectInv, Publishing
  <2>5. CASE TestMemInit(w) /\ memInit # 0
    <3>1. at[w] = "test" /\ at'[w] = "done" /\ UNCHANGED object
      BY <2>5 DEF TestMemInit, IInv, TypeOK
    <3> QED BY <1>1, <1>3, <2>0, <3>1 DEF ObjectInv, Publishing
  <2> QED BY <2>1, <2>2, <2>3, <2>4, <2>5
<1>5. VectorOK(w)'
  <2>1. VectorOK(w) /\ (at[w] = "test" => role[w] = "init") /\ (at[w] = "sleep" => role[w] = "init")
    BY DEF DeathInv, ObjectInv
  <2>2. at[w] \in {"idle", "remove", "test", "sleep"}
    BY DEF Start, StartMemInit, RemoveObject, Sleep, TestMemInit
  <2>3. role[w] = "publish" => vector[w] = <<>>
    BY <2>1, <2>2 DEF VectorOK
  <2>4. Len(<<>>) = 0 /\ 1..0 = {}
    OBVIOUS
  <2>5. role[w] = "publish" => at'[w] \in {"remove", "create"}
    BY <1>3, <2>1 DEF Start, StartMemInit, RemoveObject, Sleep, TestMemInit, IInv, TypeOK
  <2> QED BY <1>1, <2>1, <2>3, <2>4, <2>5 DEF VectorOK, InOrder, LongOnly, InLoop, list
<1>6. \A u \in Walkers : VectorOK(u)'
  BY <1>1, <1>3, <1>5, OtherVectors DEF DeathInv, Unless
<1>7. StrayInv' /\ DiesOnlyOf'
  BY <1>1 DEF DeathInv, StrayInv, DiesOnlyOf, list
<1> QED BY <1>4, <1>6, <1>7 DEF DeathInv

\* The beginning of a pass, the publisher's with the creation of its object.
LEMMA DeathInvBegins ==
  ASSUME IInv, DeathInv, died = "no", NEW w \in Walkers, BeginPass(w),
         UNCHANGED <<role, list, vector, died>>,
         \/ at[w] = "create" /\ object' = w
         \/ at[w] \in {"idle", "test"} /\ role[w] # "publish" /\ UNCHANGED object
  PROVE  DeathInv'
<1>1. PICK n \in listed \cup {End} : IsNext(0, n) /\ ToNode(w, n, {})
  BY DEF BeginPass
<1>2. Unless(w) /\ stray'[w] = FALSE
  BY <1>1 DEF ToNode, BeginPass, Unless, IInv, TypeOK
<1>3. at'[w] \in {"visit", "done", "sleep"} /\ seen'[w] = {}
      /\ (at'[w] = "sleep" => role[w] = "init")
  BY <1>1 DEF ToNode, IInv, TypeOK
<1>4. ObjectInv /\ Walkers \cap {None, Leftover, Foreign} = {}
  BY NamesAssumption DEF DeathInv
<1>5. \A u \in Walkers \ {w} : at'[u] = at[u]
  BY <1>2 DEF Unless
<1>6. ObjectInv'
  <2>1. CASE at[w] = "create" /\ object' = w
    <3>1. role[w] = "publish" /\ w # Leftover /\ at'[w] \in {"visit", "done"}
      BY <1>3, <1>4, <2>1 DEF ObjectInv
    <3> QED BY <1>4, <1>5, <2>1, <3>1 DEF ObjectInv, Publishing
  <2>2. CASE at[w] \in {"idle", "test"} /\ role[w] # "publish" /\ UNCHANGED object
    BY <1>3, <1>4, <1>5, <2>2 DEF ObjectInv, Publishing
  <2> QED BY <2>1, <2>2
<1>7. VectorOK(w)'
  <2>1. VectorOK(w)
    BY DEF DeathInv
  <2>2. role[w] = "publish" => vector[w] = <<>>
    BY <2>1 DEF VectorOK
  <2>3. Len(<<>>) = 0 /\ 1..0 = {}
    OBVIOUS
  <2>4. madeBy'[w] \in {made, madeBy[w]} /\ (at'[w] = "done" => n = End)
    BY <1>1 DEF ToNode, IInv, TypeOK
  <2>5. n = End => listed = {}
    <3>1. \A i \in listed : i > 0 /\ i < End /\ End \in Int /\ i \in Int
      BY BoundsAssumption DEF IInv, TypeOK, End
    <3> QED BY <1>1, <3>1 DEF IsNext
  <2>6. made \in Nat
    BY BoundsAssumption DEF IInv, TypeOK
  <2>7. role[w] = "publish" => madeBy'[w] <= made'
    BY <2>1, <2>4, <2>6 DEF VectorOK, list
  <2>8. role[w] = "publish" => InOrder(w)' /\ LongOnly(w)' /\ (at'[w] = "done" => HasAll(w)')
    BY <2>2, <2>3, <2>4, <2>5 DEF InOrder, LongOnly, HasAll, list
  <2> QED BY <1>3, <2>2, <2>3, <2>7, <2>8 DEF VectorOK, InLoop
<1>8. \A u \in Walkers : VectorOK(u)'
  BY <1>2, <1>7, OtherVectors DEF DeathInv
<1>9. StrayInv' /\ DiesOnlyOf'
  BY <1>2 DEF DeathInv, StrayInv, DiesOnlyOf, list, Unless
<1> QED BY <1>6, <1>8, <1>9 DEF DeathInv

\* The entries of a vector without repetition are as many as it is long.
LEMMA DistinctEntries ==
  ASSUME NEW T, NEW v \in Seq(T), \A j, k \in 1..Len(v) : j # k => v[j] # v[k]
  PROVE  /\ IsFiniteSet({v[j] : j \in 1..Len(v)})
         /\ Cardinality({v[j] : j \in 1..Len(v)}) = Len(v)
<1> DEFINE S == {v[j] : j \in 1..Len(v)}
<1>1. Len(v) \in Nat /\ v \in [1..Len(v) -> S]
  OBVIOUS
<1>2. IsFiniteSet(1..Len(v)) /\ Cardinality(1..Len(v)) = Len(v)
  <2>1. \A n \in Nat : IsFiniteSet(1..n) /\ Cardinality(1..n) = n
    BY FS_Interval
  <2> QED BY <1>1, <2>1
<1>3. v \in Bijection(1..Len(v), S)
  BY <1>1 DEF Bijection, Injection, Surjection, IsInjective
<1>4. ExistsBijection(1..Len(v), S)
  BY <1>3 DEF ExistsBijection
<1> HIDE DEF S
<1>5. IsFiniteSet(S) /\ Cardinality(S) = Cardinality(1..Len(v))
  BY <1>2, <1>4, FS_Bijection
<1> QED BY <1>2, <1>5 DEF S

\* A publisher that finds its object full has met an erased node, or there are more
\* long segments than the object holds.
LEMMA FullForAReason ==
  ASSUME IInv, DeathInv, died = "no", NEW w \in Walkers, role[w] = "publish", at[w] = "visit",
         NEW m \in Reads(cursor[w]), size[m] > 1, ~(Len(vector[w]) < Capacity),
         listed = 1..made
  PROVE  Cardinality({i \in 1..made : size[i] = 2}) > Capacity
<1> DEFINE long == {i \in 1..made : size[i] = 2}
<1>1. /\ TypeOK /\ WalkerOK(w) /\ VectorOK(w) /\ ~stray[w]
  BY InvariantByWalker DEF IInv, DeathInv, StrayInv
<1>2. cursor[w] \in 1..made /\ m = cursor[w] /\ made \in Nat /\ made <= MaxSegments
  BY <1>1, BoundsAssumption DEF WalkerOK, InLoop, Reads, TypeOK
<1>3. m \in long
  <2>1. m \in Ids
    BY <1>2, BoundsAssumption DEF Ids
  <2>2. size[m] \in {0, 1, 2}
    BY <1>1, <2>1 DEF TypeOK
  <2> QED BY <1>2, <2>2
<1>4. /\ seen[w] = {vector[w][j] : j \in 1..Len(vector[w])}
      /\ \A i \in seen[w] : i \in 1..made /\ size[i] = 2 /\ i < cursor[w]
      /\ \A j, k \in 1..Len(vector[w]) : j # k => vector[w][j] # vector[w][k]
  <2>1. /\ seen[w] = {vector[w][j] : j \in 1..Len(vector[w])}
        /\ \A i \in seen[w] : i < cursor[w]
        /\ InOrder(w) /\ LongOnly(w)
    BY <1>1 DEF VectorOK, InLoop
  <2>2. \A j, k \in 1..Len(vector[w]) : j # k => vector[w][j] # vector[w][k]
    <3>1. Len(vector[w]) \in Nat /\ \A j \in 1..Len(vector[w]) : vector[w][j] \in Int
      BY <1>1, <2>1 DEF TypeOK, LongOnly
    <3>2. \A j, k \in 1..Len(vector[w]) : j # k => j < k \/ k < j
      BY <3>1
    <3> QED BY <2>1, <3>1, <3>2 DEF InOrder
  <2> QED BY <2>1, <2>2 DEF LongOnly
<1>5. vector[w] \in Seq(Ids) /\ Len(vector[w]) \in Nat
  BY <1>1 DEF TypeOK
<1>6. IsFiniteSet(seen[w]) /\ Cardinality(seen[w]) = Len(vector[w])
  <2> DEFINE v == vector[w]
  <2>1. v \in Seq(Ids) /\ \A j, k \in 1..Len(v) : j # k => v[j] # v[k]
    BY <1>4, <1>5
  <2>2. seen[w] = {v[j] : j \in 1..Len(v)}
    BY <1>4
  <2> HIDE DEF v
  <2>3. IsFiniteSet({v[j] : j \in 1..Len(v)}) /\ Cardinality({v[j] : j \in 1..Len(v)}) = Len(v)
    BY <2>1, DistinctEntries
  <2>4. IsFiniteSet(seen[w]) /\ Cardinality(seen[w]) = Len(v)
    BY <2>2, <2>3
  <2> QED BY <2>4 DEF v
<1>7. m \notin seen[w] /\ seen[w] \cup {m} \in SUBSET long
  BY <1>2, <1>3, <1>4
<1>8. IsFiniteSet(1..made)
  BY <1>2, FS_Interval
<1>9. long \in SUBSET (1..made)
  OBVIOUS
<1> HIDE DEF long
<1>10. IsFiniteSet(long)
  BY <1>8, <1>9, FS_Subset
<1>11. Cardinality(seen[w] \cup {m}) = Len(vector[w]) + 1
  BY <1>6, <1>7, FS_AddElement
<1>12. Cardinality(seen[w] \cup {m}) <= Cardinality(long) /\ Cardinality(long) \in Nat
  BY <1>7, <1>10, FS_Subset, FS_CardinalityType
<1>13. Cardinality(long) > Capacity
  BY <1>5, <1>11, <1>12, BoundsAssumption
<1> QED BY <1>13 DEF long

LEMMA DeathInvVisit ==
  ASSUME IInv, DeathInv, died = "no", NEW w \in Walkers, Visit(w)
  PROVE  DeathInv'
<1>1. /\ at[w] = "visit" /\ at' = [at EXCEPT ![w] = "advance"]
      /\ stray' = [stray EXCEPT ![w] = @ \/ cursor[w] \notin listed]
      /\ UNCHANGED <<role, list, cursor, madeBy, memInit>>
  BY DEF Visit
<1>2. PICK m \in Reads(cursor[w]) :
        IF size[m] > Threshold(w)
        THEN /\ seen' = [seen EXCEPT ![w] = @ \cup {m}]
             /\ IF role[w] = "publish" THEN Publish(w, m)
                ELSE PlaceSegment(m) \/ PlaceSegmentFails(m)
        ELSE UNCHANGED <<seen, vector, object, died>>
  BY DEF Visit
<1>3. TypeOK /\ WalkerOK(w) /\ VectorOK(w) /\ ObjectInv /\ StrayInv
      /\ Walkers \cap {None, Leftover, Foreign} = {}
  BY InvariantByWalker, NamesAssumption DEF IInv, DeathInv
<1>4. cursor[w] \in 1..made /\ made \in Nat /\ made <= MaxSegments
      /\ (cursor[w] \in listed => m = cursor[w]) /\ m \in 1..made /\ m \in Ids
  BY <1>1, <1>2, <1>3, BoundsAssumption DEF WalkerOK, InLoop, Reads, TypeOK, Ids
<1>5. /\ at'[w] = "advance" /\ stray'[w] = (stray[w] \/ cursor[w] \notin listed)
      /\ \A u \in Walkers \ {w} : at'[u] = at[u] /\ stray'[u] = stray[u]
  BY <1>1, <1>3 DEF TypeOK
<1>6. StrayInv'
  BY <1>1, <1>3, <1>4, <1>5 DEF StrayInv, list
<1> DEFINE Appends == /\ role[w] = "publish" /\ size[m] = 2
                      /\ seen' = [seen EXCEPT ![w] = @ \cup {m}]
                      /\ vector' = [vector EXCEPT ![w] = Append(@, m)]
                      /\ UNCHANGED <<object, died>>
           Fills == /\ role[w] = "publish" /\ size[m] > 1 /\ ~(Len(vector[w]) < Capacity)
                    /\ seen' = [seen EXCEPT ![w] = @ \cup {m}]
                    /\ died' = "full" /\ object' = None /\ UNCHANGED vector
           Places == /\ role[w] # "publish"
                     /\ seen' = [seen EXCEPT ![w] = @ \cup {m}] \/ UNCHANGED seen
                     /\ \/ died' = "mbind" /\ m \notin mapped
                        \/ died' = "kernel"
                        \/ UNCHANGED died
                     /\ UNCHANGED <<vector, object>>
           Skips == UNCHANGED <<seen, vector, object, died>>
<1>7. Appends \/ Fills \/ Places \/ Skips
  <2>1. CASE ~(size[m] > Threshold(w))
    BY <1>2, <2>1
  <2>2. CASE size[m] > Threshold(w) /\ role[w] = "publish"
    <3>1. size[m] > 1 /\ Publish(w, m) /\ seen' = [seen EXCEPT ![w] = @ \cup {m}]
      BY <1>2, <2>2 DEF Threshold
    <3>2. size[m] \in {0, 1, 2}
      BY <1>3, <1>4 DEF TypeOK
    <3>3. size[m] = 2
      BY <3>1, <3>2
    <3> QED BY <2>2, <3>1, <3>3 DEF Publish
  <2>3. CASE size[m] > Threshold(w) /\ role[w] # "publish"
    <3>1. (PlaceSegment(m) \/ PlaceSegmentFails(m)) /\ seen' = [seen EXCEPT ![w] = @ \cup {m}]
      BY <1>2, <2>3
    <3>2. CASE PlaceSegment(m)
      BY <2>3, <3>1, <3>2 DEF PlaceSegment
    <3>3. CASE PlaceSegmentFails(m)
      BY <2>3, <3>1, <3>3 DEF PlaceSegmentFails
    <3> QED BY <3>1, <3>2, <3>3
  <2> QED BY <2>1, <2>2, <2>3
<1>8. ObjectInv'
  <2>1. CASE UNCHANGED object /\ (UNCHANGED died \/ died' # "no")
    BY <1>1, <1>3, <1>5, <2>1 DEF ObjectInv, Publishing
  <2>2. CASE object' = None /\ died' = "full"
    BY <1>1, <1>3, <1>5, <2>2 DEF ObjectInv, Publishing, None, Leftover, Foreign
  <2> QED BY <1>7, <2>1, <2>2
<1>9. VectorOK(w)'
  <2>0. ~stray'[w] => ~stray[w]
    BY <1>5, Zenon
  <2>1. CASE Appends
    <3> DEFINE v == vector[w]
    <3>1. v \in Seq(Ids) /\ Len(v) \in Nat /\ vector'[w] = Append(v, m) /\ seen'[w] = seen[w] \cup {m}
      BY <1>3, <2>1 DEF TypeOK
    <3>2. /\ Len(Append(v, m)) = Len(v) + 1 /\ Append(v, m)[Len(v) + 1] = m
          /\ \A j \in 1..Len(v) : Append(v, m)[j] = v[j]
      BY <1>4, <3>1, AppendProperties
    <3>3. \A j \in 1..(Len(v) + 1) : j \in 1..Len(v) \/ j = Len(v) + 1
      BY <3>1
    <3>4. \A j \in 1..Len(v) : j \in 1..(Len(v) + 1) /\ j # Len(v) + 1
      BY <3>1
    <3>5. Len(v) + 1 \in 1..(Len(v) + 1)
      BY <3>1
    <3>6. ASSUME ~stray'[w]
          PROVE  /\ m = cursor[w] /\ seen[w] = {v[j] : j \in 1..Len(v)}
                 /\ \A j \in 1..Len(v) : v[j] \in 1..made /\ size[v[j]] = 2 /\ v[j] < m
                 /\ \A j, k \in 1..Len(v) : j < k => v[j] < v[k]
      <4>1. ~stray[w] /\ m = cursor[w]
        BY <1>4, <1>5, <3>6
      <4>2. /\ seen[w] = {v[j] : j \in 1..Len(v)}
            /\ InOrder(w) /\ LongOnly(w)
            /\ \A i \in seen[w] : i < cursor[w]
        BY <1>1, <1>3, <2>1, <4>1 DEF VectorOK, InLoop
      <4> QED BY <4>1, <4>2 DEF InOrder, LongOnly
    <3> HIDE DEF v
    <3>7. ~stray'[w] => InOrder(w)'
      <4> SUFFICES ASSUME ~stray'[w], NEW j \in 1..(Len(v) + 1), NEW k \in 1..(Len(v) + 1), j < k
                   PROVE  Append(v, m)[j] < Append(v, m)[k]
        BY <3>1, <3>2 DEF InOrder
      <4>1. j \in 1..Len(v)
        BY <3>1
      <4>2. Append(v, m)[j] = v[j]
        BY <3>2, <4>1
      <4>3. CASE k \in 1..Len(v)
        BY <3>2, <3>6, <4>1, <4>2, <4>3
      <4>4. CASE k = Len(v) + 1
        BY <3>2, <3>6, <4>1, <4>2, <4>4
      <4> QED BY <3>3, <4>3, <4>4
    <3>8. ~stray'[w] => LongOnly(w)'
      <4> SUFFICES ASSUME ~stray'[w], NEW j \in 1..(Len(v) + 1)
                   PROVE  Append(v, m)[j] \in 1..made /\ size[Append(v, m)[j]] = 2
        BY <1>1, <3>1, <3>2 DEF LongOnly, list
      <4>1. CASE j \in 1..Len(v)
        BY <3>2, <3>6, <4>1
      <4>2. CASE j = Len(v) + 1
        BY <1>4, <2>1, <3>2, <4>2
      <4> QED BY <3>3, <4>1, <4>2
    <3>9. ~stray'[w] => seen'[w] = {vector'[w][j] : j \in 1..Len(vector'[w])}
      BY <3>1, <3>2, <3>3, <3>4, <3>5, <3>6
    <3>10. ~stray'[w] => \A i \in seen'[w] :
             i < cursor'[w] \/ (i = cursor'[w] /\ at'[w] = "advance")
      BY <1>1, <1>5, <3>1, <3>6
    <3>11. madeBy'[w] <= made' /\ at'[w] = "advance"
      BY <1>1, <1>3, <1>5, <2>1 DEF VectorOK, list
    <3> QED BY <3>7, <3>8, <3>9, <3>10, <3>11 DEF VectorOK
  <2>2. CASE Fills \/ Skips
    <3>1. UNCHANGED vector /\ (died' = "no" => UNCHANGED seen)
      BY <2>2
    <3>2. role[w] = "publish" => madeBy'[w] <= made'
      BY <1>1, <1>3 DEF VectorOK, list
    <3>3. role[w] = "publish" /\ ~stray'[w] => InOrder(w)' /\ LongOnly(w)'
      BY <1>1, <1>3, <2>0, <3>1 DEF VectorOK, InOrder, LongOnly, list
    <3>4. role[w] = "publish" /\ ~stray'[w] /\ died' = "no" =>
            /\ seen'[w] = {vector'[w][j] : j \in 1..Len(vector'[w])}
            /\ \A i \in seen'[w] : i < cursor'[w] \/ (i = cursor'[w] /\ at'[w] = "advance")
      BY <1>1, <1>3, <1>5, <2>0, <3>1 DEF VectorOK, InLoop
    <3> QED BY <1>1, <1>5, <3>2, <3>3, <3>4 DEF VectorOK
  <2>3. CASE Places
    BY <1>1, <2>3 DEF VectorOK
  <2> QED BY <1>7, <2>1, <2>2, <2>3
<1>10. Unless(w)
  BY <1>1, <1>3, <1>5, <1>7 DEF Unless, TypeOK
<1>11. \A u \in Walkers : VectorOK(u)'
  BY <1>1, <1>9, <1>10, OtherVectors DEF DeathInv
<1>12. DiesOnlyOf'
  <2>1. CASE UNCHANGED died
    BY <2>1 DEF DiesOnlyOf
  <2>2. CASE (died' = "mbind" /\ m \notin mapped) \/ died' = "kernel"
    BY <1>1, <1>4, <2>2 DEF DiesOnlyOf, list
  <2>3. CASE Fills
    <3>1. listed = 1..made => Cardinality({i \in 1..made : size[i] = 2}) > Capacity
      BY <1>1, <2>3, FullForAReason
    <3> QED BY <1>1, <2>3, <3>1 DEF DiesOnlyOf, list
  <2> QED BY <1>7, <2>1, <2>2, <2>3
<1> QED BY <1>6, <1>8, <1>11, <1>12 DEF DeathInv

LEMMA DeathInvAdvance ==
  ASSUME IInv, DeathInv, died = "no", NEW w \in Walkers, Advance(w)
  PROVE  DeathInv'
<1>1. at[w] = "advance" /\ UNCHANGED <<role, list, vector, object, memInit>>
  BY DEF Advance
<1>2. TypeOK /\ WalkerOK(w) /\ VectorOK(w) /\ ObjectInv /\ StrayInv
  BY InvariantByWalker DEF IInv, DeathInv
<1>3. cursor[w] \in 1..made /\ made \in Nat /\ made <= MaxSegments /\ listed \subseteq 1..made
  BY <1>1, <1>2, BoundsAssumption DEF WalkerOK, InLoop, TypeOK
<1>4. CASE cursor[w] \notin listed
  <2>1. stray' = [stray EXCEPT ![w] = TRUE] /\ listed # 1..made
    BY <1>3, <1>4 DEF Advance
  <2>2. Unless(w) /\ stray'[w] = TRUE
    BY <1>1, <1>2, <1>4, <2>1 DEF Advance, ToNode, Unless, TypeOK
  <2>3. /\ died' \in {"no", "iterator"}
        /\ at'[w] \in {"advance", "visit", "done", "sleep"} /\ (at'[w] = "sleep" => role[w] = "init")
    BY <1>1, <1>2, <1>4 DEF Advance, ToNode, TypeOK
  <2>4. ObjectInv'
    <3>1. \A u \in Walkers \ {w} : at'[u] = at[u]
      BY <2>2 DEF Unless
    <3> QED BY <1>1, <1>2, <2>3, <3>1 DEF ObjectInv, Publishing
  <2>5. VectorOK(w)'
    <3>1. madeBy'[w] \in {made, madeBy[w]}
      BY <1>2, <1>4 DEF Advance, ToNode, TypeOK
    <3>2. role[w] = "publish" => madeBy'[w] <= made'
      BY <1>1, <1>2, <1>3, <3>1 DEF VectorOK, list
    <3> QED BY <1>1, <2>2, <2>3, <3>2 DEF VectorOK
  <2>6. \A u \in Walkers : VectorOK(u)'
    BY <1>1, <2>2, <2>5, OtherVectors DEF DeathInv
  <2>7. StrayInv' /\ DiesOnlyOf'
    BY <1>1, <2>1, <2>3 DEF StrayInv, DiesOnlyOf, list
  <2> QED BY <2>4, <2>6, <2>7 DEF DeathInv
<1>5. CASE cursor[w] \in listed
  <2>1. PICK n \in listed \cup {End} : IsNext(cursor[w], n) /\ ToNode(w, n, seen[w])
    BY <1>5 DEF Advance
  <2>2. UNCHANGED <<stray, died>>
    BY <1>5 DEF Advance
  <2>3. Unless(w)
    BY <1>1, <1>2, <2>1, <2>2 DEF ToNode, Unless, TypeOK
  <2>4. at'[w] \in {"visit", "done", "sleep"} /\ (at'[w] = "sleep" => role[w] = "init")
        /\ cursor'[w] = n /\ (at'[w] = "visit" => seen'[w] = seen[w])
    BY <1>2, <2>1 DEF ToNode, TypeOK
  <2>5. n \in Int /\ n > cursor[w]
    BY <1>3, <2>1, BoundsAssumption DEF IsNext, End
  <2>6. ObjectInv'
    <3>1. \A u \in Walkers \ {w} : at'[u] = at[u]
      BY <2>3 DEF Unless
    <3> QED BY <1>1, <1>2, <2>2, <2>4, <3>1 DEF ObjectInv, Publishing
  <2>7. VectorOK(w)'
    <3> SUFFICES ASSUME role[w] = "publish" PROVE VectorOK(w)'
      BY <1>1 DEF VectorOK
    <3>1. madeBy'[w] <= made' /\ (at'[w] = "done" => n = End)
      BY <1>1, <1>2, <1>3, <2>1 DEF ToNode, VectorOK, TypeOK, list
    <3>2. ~stray[w] => InOrder(w)' /\ LongOnly(w)'
      BY <1>1, <1>2 DEF VectorOK, InOrder, LongOnly, list
    <3>3. ~stray[w] =>
            /\ seen[w] = {vector[w][j] : j \in 1..Len(vector[w])}
            /\ \A i \in seen[w] : i < cursor[w] \/ i = cursor[w]
      BY <1>1, <1>2 DEF VectorOK, InLoop
    <3>4. ASSUME ~stray[w], NEW i \in seen[w] PROVE i < n
      <4>1. i \in Nat
        BY <1>2 DEF TypeOK, Ids
      <4> QED BY <1>3, <2>5, <3>3, <3>4, <4>1
    <3>5. at'[w] = "done" /\ ~stray[w] => HasAll(w)'
      <4> SUFFICES ASSUME n = End, ~stray[w], NEW i \in listed, size[i] = 2
                   PROVE  \E j \in 1..Len(vector[w]) : vector[w][j] = i
        BY <1>1, <3>1 DEF HasAll, list
      <4>1. i \in 1..made /\ i < End
        BY <1>3, BoundsAssumption DEF End
      <4>2. ~(i > cursor[w])
        BY <1>3, <2>1, <2>5, <4>1 DEF IsNext
      <4>3. i < cursor[w] \/ i = cursor[w]
        BY <1>3, <4>1, <4>2
      <4>4. i \in seen[w]
        BY <1>1, <1>2, <4>3 DEF WalkerOK, InLoop, Threshold
      <4> QED BY <3>3, <4>4
    <3> QED BY <1>1, <2>2, <2>4, <3>1, <3>2, <3>3, <3>4, <3>5 DEF VectorOK, InLoop
  <2>8. \A u \in Walkers : VectorOK(u)'
    BY <1>1, <2>3, <2>7, OtherVectors DEF DeathInv
  <2>9. StrayInv' /\ DiesOnlyOf'
    BY <1>1, <1>2, <2>2 DEF StrayInv, DiesOnlyOf, list
  <2> QED BY <2>6, <2>8, <2>9 DEF DeathInv
<1> QED BY <1>4, <1>5

\* Two publishers are more than one.
LEMMA TwoOfThem ==
  ASSUME NEW S, IsFiniteSet(S), NEW a \in S, NEW b \in S, a # b
  PROVE  Cardinality(S) > 1
<1>1. IsFiniteSet({a}) /\ Cardinality({a}) = 1
  BY FS_Singleton
<1>2. Cardinality({a} \cup {b}) = 2
  BY <1>1, FS_AddElement
<1>3. {a} \cup {b} \in SUBSET S
  OBVIOUS
<1>4. Cardinality({a} \cup {b}) <= Cardinality(S) /\ Cardinality(S) \in Nat
  BY <1>3, FS_Subset, FS_CardinalityType
<1> QED BY <1>2, <1>4

\* A publisher that finds an object is not alone, since it removed the one left by an
\* earlier process itself, or the object is one it cannot remove.
LEMMA DeathInvExists ==
  ASSUME IInv, DeathInv, died = "no", NEW w \in Walkers, CreateObject(w), object # None
  PROVE  DeathInv'
<1>1. /\ at[w] = "create" /\ died' = "exists"
      /\ object' = IF object = Foreign THEN Foreign ELSE None
      /\ UNCHANGED <<role, list, vector, memInit>> /\ UNCHANGED walks
  BY DEF CreateObject
<1>2. ObjectInv /\ TypeOK /\ Walkers \cap {None, Leftover, Foreign} = {}
  BY NamesAssumption DEF DeathInv, IInv
<1>3. w \in Publishing /\ IsFiniteSet(Publishing)
  BY <1>1, <1>2, WalkersAssumption, FS_Subset DEF ObjectInv, Publishing
<1>4. Publishing' = Publishing
  BY <1>1 DEF Publishing, walks
<1>5. Cardinality(Publishing) > 1 \/ object' = Foreign
  <2>1. CASE object = Foreign
    BY <1>1, <2>1
  <2>2. CASE object # Foreign
    <3>1. object \in Publishing /\ object # w
      BY <1>1, <1>2, <1>3, <2>2 DEF ObjectInv, TypeOK, Publishing
    <3> QED BY <1>3, <3>1, TwoOfThem
  <2> QED BY <2>1, <2>2
<1>6. object' \in {None, Foreign} /\ (object' = Foreign => object = Foreign)
  BY <1>1 DEF None, Foreign
<1>7. ObjectInv'
  BY <1>1, <1>2, <1>4, <1>6 DEF ObjectInv, walks, None, Leftover, Foreign
<1>8. \A u \in Walkers : VectorOK(u)'
  <2> SUFFICES ASSUME NEW u \in Walkers PROVE VectorOK(u)'
    OBVIOUS
  <2>1. VectorOK(u)
    BY DEF DeathInv
  <2> QED BY <1>1, <2>1 DEF VectorOK, InOrder, LongOnly, walks, list
<1>9. StrayInv' /\ DiesOnlyOf'
  BY <1>1, <1>4, <1>5 DEF DeathInv, StrayInv, DiesOnlyOf, walks, list
<1> QED BY <1>7, <1>8, <1>9 DEF DeathInv

LEMMA DeathInvNext == IInv /\ DeathInv /\ [Next]_vars => DeathInv'
<1> SUFFICES ASSUME IInv, DeathInv, [Next]_vars PROVE DeathInv'
  OBVIOUS
<1>1. CASE UNCHANGED vars
  <2>1. UNCHANGED <<role, made, listed, mapped, size, at, cursor, seen, stray, madeBy, vector,
                    object, died>>
    BY <1>1 DEF vars, list, walks
  <2>2. ObjectInv' /\ StrayInv' /\ DiesOnlyOf'
    BY <2>1 DEF DeathInv, ObjectInv, Publishing, StrayInv, DiesOnlyOf
  <2>3. \A w \in Walkers : VectorOK(w)'
    BY <2>1 DEF DeathInv, VectorOK, InOrder, LongOnly, HasAll, InLoop
  <2> QED BY <2>2, <2>3 DEF DeathInv
<1>2. CASE died = "no" /\ Handlers
  BY <1>2, DeathInvHandlers
<1>3. ASSUME died = "no", NEW w \in Walkers, Begin(w) \/ Step(w) PROVE DeathInv'
  <2>1. CASE Start(w) \/ StartMemInit(w) \/ RemoveObject(w) \/ Sleep(w)
               \/ (TestMemInit(w) /\ memInit # 0)
    BY <1>3, <2>1, DeathInvElsewhere
  <2>2. CASE StartPass(w) \/ (TestMemInit(w) /\ memInit = 0)
    <3>1. BeginPass(w) /\ UNCHANGED <<role, list, vector, object, died>>
          /\ at[w] \in {"idle", "test"}
      BY <2>2 DEF StartPass, TestMemInit
    <3>2. role[w] # "publish"
      BY <2>2 DEF StartPass, TestMemInit, DeathInv, ObjectInv
    <3> QED BY <1>3, <3>1, <3>2, DeathInvBegins
  <2>3. CASE CreateObject(w) /\ object = None
    BY <1>3, <2>3, DeathInvBegins DEF CreateObject
  <2>4. CASE CreateObject(w) /\ object # None
    BY <1>3, <2>4, DeathInvExists
  <2>5. CASE Visit(w)
    BY <1>3, <2>5, DeathInvVisit
  <2>6. CASE Advance(w)
    BY <1>3, <2>6, DeathInvAdvance
  <2> QED BY <1>3, <2>1, <2>2, <2>3, <2>4, <2>5, <2>6 DEF Begin, Step
<1> QED BY <1>1, <1>2, <1>3 DEF Next, Rest

LEMMA DeathInvInit == Init => DeathInv
<1> SUFFICES ASSUME Init PROVE DeathInv
  OBVIOUS
<1>1. ObjectInv /\ StrayInv /\ DiesOnlyOf
  BY NamesAssumption DEF Init, ObjectInv, Publishing, StrayInv, DiesOnlyOf
<1>2. Len(<<>>) = 0 /\ 1..0 = {}
  OBVIOUS
<1>3. \A w \in Walkers : VectorOK(w)
  <2> SUFFICES ASSUME NEW w \in Walkers PROVE VectorOK(w)
    OBVIOUS
  <2>1. at[w] = "idle" /\ vector[w] = <<>> /\ madeBy[w] = 0 /\ made \in Nat
    BY BoundsAssumption DEF Init
  <2>2. InOrder(w) /\ LongOnly(w)
    BY <1>2, <2>1 DEF InOrder, LongOnly
  <2> QED BY <2>1, <2>2 DEF VectorOK, InLoop
<1> QED BY <1>1, <1>3 DEF DeathInv

LEMMA DeathInvariance == Spec => [](IInv /\ DeathInv)
  BY Initially, StepsKeep, DeathInvInit, DeathInvNext, PTL DEF Spec

\* The walkers end the process for the reasons DiesOnlyOf names and no other, for any
\* number of walkers and segments and any capacity of the object.
THEOREM DiesForAReason == Spec => []DiesOnlyOf
<1>1. DeathInv => DiesOnlyOf
  BY DEF DeathInv
<1> QED BY <1>1, DeathInvariance, PTL

\* Once the publishers are through, the name leads to the object of one of them, and
\* unless its pass met an erased node it lists long segments in order and once each,
\* with all of those listed that were added before the pass ended.
THEOREM ListingIsAvailable == Spec => []ListingAvailable
<1>1. IInv /\ DeathInv => ListingAvailable
  <2> SUFFICES ASSUME IInv, DeathInv, died = "no", Publishing # {},
                      \A w \in Publishing : at[w] = "done"
               PROVE  object \in Publishing /\ (~stray[object] => Lists(object))
    BY DEF ListingAvailable
  <2>1. object \in Walkers
    <3>1. PICK w \in Publishing : at[w] = "done"
      OBVIOUS
    <3>2. /\ ~(\E u \in Publishing : at[u] = "create")
          /\ ~(\A u \in Publishing : at[u] = "remove")
      BY <3>1
    <3> QED BY <3>2 DEF DeathInv, ObjectInv
  <2>2. role[object] = "publish" /\ object \in Publishing /\ at[object] = "done"
    BY <2>1 DEF DeathInv, ObjectInv, Publishing
  <2> QED BY <2>1, <2>2 DEF DeathInv, VectorOK, Lists
<1> QED BY <1>1, DeathInvariance, PTL
=============================================================================
