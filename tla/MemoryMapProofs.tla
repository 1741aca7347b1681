--------------------------- MODULE MemoryMapProofs ---------------------------
(***************************************************************************)
(* Proofs about MemoryMap, for any zones, sizes and number of calls: its   *)
(* type invariant; that no stale segment outlives the call that made it    *)
(* stale, that long blocks are placed and why a placement fails, for any   *)
(* number of threads; that heap blocks stay out of the list, for one       *)
(* thread; and for one thread whose calls succeed, that a call removes its *)
(* own segment and that the handlers implement RegionList.                 *)
(***************************************************************************)
EXTENDS MemoryMap, InductionFacts, TLAPS

\* The functions for which the second theorem speaks: reallocarray, which keeps
\* no record, is not called, and posix_memalign does not fail (it would leave an
\* arbitrary pointer in *memptr).
TrackedCalls == "reallocarray" \notin Ops /\ "posix_memalign" \notin MayFail

(***************************************************************************)
(* Segments.                                                               *)
(***************************************************************************)

\* Arithmetic on addresses stays among the addresses.
LEMMA WrapType == \A a \in Int : Wrap(a) \in 0..(AddrSpace - 1)
  BY ZonesAssumption DEF Wrap

\* It is exact for the last address of a block.
LEMMA WrapExact == \A a \in 0..(AddrSpace - 1) : Wrap(a) = a
  BY ZonesAssumption DEF Wrap

\* The segment of a block that is not empty covers the addresses of the block.
LEMMA SegmentOfBlock ==
  ASSUME NEW b \in Block, Span(b) \subseteq MmapZone
  PROVE  /\ b.size > 0 => Addresses(Segment(b.start, b.size)) = Span(b)
         /\ b.size = 0 => Addresses(Segment(b.start, b.size)) = {}
<1>1. b.start \in Nat /\ b.size \in Nat
  BY DEF Block
<1>2. b.start \in Span(b) /\ Last(b) \in Span(b)
  BY <1>1 DEF Span, Last
<1>3. b.start \in MmapZone /\ Last(b) \in MmapZone
  BY <1>2
<1>4. b.start + b.size - 1 \in 0..(AddrSpace - 1)
  BY <1>1, <1>3, ZonesAssumption DEF Last, MmapZone
<1>5. LastAddress(b.start, b.size) = b.start + b.size - 1
  BY <1>4, WrapExact DEF LastAddress
<1> QED
  BY <1>1, <1>5 DEF Segment, Addresses, Span, Last

(***************************************************************************)
(* The part of the invariant that needs no assumption on the calls.        *)
(***************************************************************************)
BaseInv ==
  /\ TypeOK
  /\ BlocksApart
  /\ \A t \in Threads : ReleasesItsBlock(t)

LEMMA SpanFacts ==
  \A b \in Block : /\ b.start \in Nat /\ b.size \in Nat /\ Last(b) \in Nat
                   /\ b.start \in Span(b) /\ Last(b) \in Span(b)
                   /\ b.start <= Last(b) /\ Span(b) \subseteq Nat
  BY DEF Block, Span, Last

LEMMA BaseInvInit == Init => BaseInv
<1> SUFFICES ASSUME Init PROVE BaseInv
  OBVIOUS
<1> USE DEF Init
<1>1. OutsideHeap(InitBlocks) \subseteq MmapZone
  BY DEF OutsideHeap
<1>2. segments \subseteq [start : Nat, end : Nat]
  BY <1>1, ZonesAssumption DEF Mappings, MmapZone
<1>3. placed \subseteq Nat
  BY <1>2 DEF Addresses
<1>4. call \in [Threads -> Calls]
  BY ZonesAssumption DEF Calls, Idle, Null
<1>5. brk \in InitBrk..(HeapMax + 1) /\ heapEnd \in 0..(HeapMax + 1) /\ calls \in 0..MaxCalls
  BY ZonesAssumption, CallsAssumption
<1>6. live \subseteq Block /\ hand \in [Threads -> SUBSET live]
  BY InitBlocksAssumption
<1>7. pc \in [Threads -> Labels]
  BY DEF Labels
<1>8. TypeOK
  BY <1>2, <1>3, <1>4, <1>5, <1>6, <1>7 DEF TypeOK
<1>9. BlocksApart
  BY InitBlocksAssumption, ZonesAssumption DEF BlocksApart, HeapZone
<1>10. ASSUME NEW t \in Threads PROVE ReleasesItsBlock(t)
  BY ZonesAssumption DEF ReleasesItsBlock, At, Idle, Null, MmapZone
<1> QED
  BY <1>8, <1>9, <1>10 DEF BaseInv

\* A step of t that leaves memory and hands alone, and keeps what t was called
\* with, disturbs nothing but types.
LEMMA BaseInvLocal ==
  ASSUME BaseInv, TypeOK', NEW t \in Threads,
         UNCHANGED <<live, hand>>,
         \A u \in Threads \ {t} : pc'[u] = pc[u] /\ call'[u] = call[u],
         pc'[t] \notin {"idle", "real"},
         call'[t].op = call[t].op, call'[t].ptr = call[t].ptr,
         call'[t].size = call[t].size, call'[t].wasIn = call[t].wasIn
  PROVE  BaseInv'
<1>1. BlocksApart'
  BY DEF BaseInv, BlocksApart
<1>2. ASSUME NEW u \in Threads PROVE ReleasesItsBlock(u)'
  BY DEF BaseInv, ReleasesItsBlock, At
<1> QED
  BY <1>1, <1>2 DEF BaseInv

\* What a call record keeps its type under.
LEMMA CallTypes ==
  ASSUME TypeOK, NEW t \in Threads
  PROVE  /\ call[t] \in Calls
         /\ call[t].op \in Ops \cup {"none"} /\ call[t].ptr \in Nat
         /\ call[t].size \in Nat /\ call[t].ret \in Nat
         /\ call[t].wasIn \in BOOLEAN /\ call[t].isIn \in BOOLEAN
         /\ call[t].seen \in 0..(HeapMax + 1)
         /\ \A n \in 0..(HeapMax + 1) : [call[t] EXCEPT !.seen = n] \in Calls
         /\ \A p \in Nat : [call[t] EXCEPT !.ret = p] \in Calls
         /\ \A b \in BOOLEAN : [call[t] EXCEPT !.isIn = b] \in Calls
  BY DEF TypeOK, Calls

\* A real call, whichever it is, exchanges some blocks, sets the result and moves on.
LEMMA RealIsReal ==
  ASSUME NEW t \in Threads, RealCall(t)
  PROVE  /\ At(t, "real")
         /\ call[t].op # "none" /\ call[t].op # "unsupported"
         /\ \E taken, given, fresh, p : Real(t, taken, given, fresh, p)
<1>1. ASSUME NEW taken, NEW by, Obtain(t, taken, by)
      PROVE  \E gone, given, fresh, p : Real(t, gone, given, fresh, p)
  BY <1>1 DEF Obtain
<1>2. ASSUME NEW q, Fail(t, q)
      PROVE  \E gone, given, fresh, p : Real(t, gone, given, fresh, p)
  BY <1>2 DEF Fail
<1>3. CASE RealAlloc(t)
  BY <1>1, <1>2, <1>3 DEF RealAlloc
<1>4. CASE RealMmap(t)
  BY <1>1, <1>2, <1>4 DEF RealMmap
<1>5. CASE RealFree(t)
  BY <1>5 DEF RealFree
<1>6. CASE RealRealloc(t)
  BY <1>1, <1>2, <1>6 DEF RealRealloc
<1>7. CASE RealMunmap(t)
  BY <1>2, <1>7 DEF RealMunmap
<1> QED
  BY <1>3, <1>4, <1>5, <1>6, <1>7 DEF RealCall

\* Its thread goes where AfterReal says, with nothing but the result changed.
LEMMA RealMoves ==
  ASSUME TypeOK, NEW t \in Threads, RealCall(t)
  PROVE  /\ pc[t] = "real" /\ pc'[t] = AfterReal(t)
         /\ \E p : call'[t] = [call[t] EXCEPT !.ret = p]
<1>1. /\ At(t, "real")
      /\ \E taken, given, fresh, p : Real(t, taken, given, fresh, p)
  BY RealIsReal
<1>2. PICK taken, given, fresh, p : Real(t, taken, given, fresh, p)
  BY <1>1
<1>3. pc'[t] = AfterReal(t) /\ call'[t] = [call[t] EXCEPT !.ret = p]
  BY <1>2 DEF Real, Goto, Set, TypeOK
<1> QED
  BY <1>1, <1>3 DEF At

\* updateHeap reads and stores the break, which is within bounds.
LEMMA BaseInvUpdateHeap ==
  ASSUME BaseInv, NEW t \in Threads, UpdateHeap(t)
  PROVE  BaseInv'
<1> USE CallTypes, ZonesAssumption DEF BaseInv, At, Goto, Set, Null
<1> DEFINE Same == /\ UNCHANGED <<live, hand>>
                   /\ \A u \in Threads \ {t} : pc'[u] = pc[u] /\ call'[u] = call[u]
                   /\ pc'[t] \notin {"idle", "real"}
                   /\ call'[t].op = call[t].op /\ call'[t].ptr = call[t].ptr
                   /\ call'[t].size = call[t].size /\ call'[t].wasIn = call[t].wasIn
<1> DEFINE cleared == [call[t] EXCEPT !.seen = Null]
<1>1. /\ cleared \in Calls
      /\ cleared.op = call[t].op /\ cleared.ptr = call[t].ptr
      /\ cleared.size = call[t].size /\ cleared.wasIn = call[t].wasIn
  <2>1. 0 \in 0..(HeapMax + 1)
    OBVIOUS
  <2> QED
    BY <2>1 DEF Calls
<1>2. CASE ReadBreak(t)
  <2>1. brk \in 0..(HeapMax + 1)
    BY DEF TypeOK
  <2>2. TypeOK' /\ Same
    BY <1>2, <2>1 DEF ReadBreak, TypeOK, Labels, Calls
  <2> QED
    BY <2>2, BaseInvLocal
<1>3. CASE CompareHeapEnd(t)
  <2>1. call' = [call EXCEPT ![t] = cleared]
    BY <1>3 DEF CompareHeapEnd
  <2>2. pc' \in [Threads -> Labels] /\ pc'[t] \notin {"idle", "real"}
    BY <1>3 DEF CompareHeapEnd, AfterUpdate, TypeOK, Labels
  <2> HIDE DEF cleared
  <2>3. TypeOK'
    BY <1>3, <1>1, <2>1, <2>2 DEF CompareHeapEnd, TypeOK
  <2>4. Same
    BY <1>3, <1>1, <2>1, <2>2 DEF CompareHeapEnd, TypeOK
  <2> QED
    BY <2>3, <2>4, BaseInvLocal
<1>4. CASE ReadBreakAgain(t)
  <2>1. brk \in 0..(HeapMax + 1)
    BY DEF TypeOK
  <2>2. TypeOK' /\ Same
    BY <1>4, <2>1 DEF ReadBreakAgain, TypeOK, Labels, Calls
  <2> QED
    BY <2>2, BaseInvLocal
<1>5. CASE StoreHeapEnd(t)
  <2>1. call' = [call EXCEPT ![t] = cleared]
    BY <1>5 DEF StoreHeapEnd
  <2>2. pc' \in [Threads -> Labels] /\ pc'[t] \notin {"idle", "real"}
    BY <1>5 DEF StoreHeapEnd, AfterUpdate, TypeOK, Labels
  <2>3. heapEnd' \in 0..(HeapMax + 1)
    BY <1>5 DEF StoreHeapEnd
  <2> HIDE DEF cleared
  <2>4. TypeOK'
    BY <1>5, <1>1, <2>1, <2>2, <2>3 DEF StoreHeapEnd, TypeOK
  <2>5. Same
    BY <1>5, <1>1, <2>1, <2>2 DEF StoreHeapEnd, TypeOK
  <2> QED
    BY <2>4, <2>5, BaseInvLocal
<1> QED
  BY <1>2, <1>3, <1>4, <1>5 DEF UpdateHeap

\* The classification writes a local variable of the call.
LEMMA BaseInvClassify ==
  ASSUME BaseInv, NEW t \in Threads, Classify(t)
  PROVE  BaseInv'
<1> USE CallTypes DEF BaseInv, At, Goto, Set
<1>1. InHeap(call[t].ret) \in BOOLEAN
  BY DEF InHeap, Contains
<1>2. TypeOK'
  BY <1>1 DEF Classify, AfterClassify, TypeOK, Labels
<1>3. /\ \A u \in Threads \ {t} : pc'[u] = pc[u] /\ call'[u] = call[u]
      /\ pc'[t] \notin {"idle", "real"}
      /\ call'[t].op = call[t].op /\ call'[t].ptr = call[t].ptr
      /\ call'[t].size = call[t].size /\ call'[t].wasIn = call[t].wasIn
  BY DEF Classify, AfterClassify, TypeOK, Calls
<1> QED
  BY <1>2, <1>3, BaseInvLocal DEF Classify

\* The steps on the list change no block; the segments they add have their type.
LEMMA BaseInvUpdateList ==
  ASSUME BaseInv, NEW t \in Threads, UpdateList(t)
  PROVE  BaseInv'
<1> USE CallTypes DEF BaseInv, At, Goto
<1>1. Segment(call[t].ret, call[t].size) \in [start : Nat, end : Nat]
  <2>1. call[t].ret + call[t].size - 1 \in Int
    OBVIOUS
  <2> QED
    BY <2>1, WrapType, ZonesAssumption DEF Segment, LastAddress
<1>2. NestedCalls(t) => brk' \in InitBrk..(HeapMax + 1)
  BY ZonesAssumption DEF NestedCalls, Breaks, TypeOK
<1>3. CASE AcquireLock(t)
  <2>1. TypeOK'
    BY <1>3 DEF AcquireLock, TypeOK, Labels
  <2> QED
    BY <1>3, <2>1, BaseInvLocal DEF AcquireLock, TypeOK
<1>4. CASE RemoveSegments(t)
  <2>1. TypeOK'
    BY <1>4, <1>2 DEF RemoveSegments, Kept, AfterRemove, TypeOK, Labels
  <2> QED
    BY <1>4, <2>1, BaseInvLocal DEF RemoveSegments, AfterRemove, TypeOK
<1>5. CASE InsertSegment(t)
  <2>1. segments' \subseteq [start : Nat, end : Nat] /\ skipped' \subseteq segments'
    BY <1>5, <1>1 DEF InsertSegment, TypeOK
  <2>2. TypeOK'
    BY <1>5, <1>2, <2>1 DEF InsertSegment, TypeOK, Labels
  <2> QED
    BY <1>5, <2>2, BaseInvLocal DEF InsertSegment, TypeOK
<1>6. CASE PlaceSegment(t)
  <2>1. placed' \subseteq Nat
    BY <1>6, <1>1 DEF PlaceSegment, Addresses, TypeOK
  <2>2. died' \in BOOLEAN
    BY <1>6 DEF PlaceSegment, IsLong
  <2>3. TypeOK'
    BY <1>6, <2>1, <2>2 DEF PlaceSegment, TypeOK, Labels
  <2> QED
    BY <1>6, <2>3, BaseInvLocal DEF PlaceSegment, TypeOK
<1> QED
  BY <1>3, <1>4, <1>5, <1>6 DEF UpdateList

\* A call that returns lets go of its blocks.
LEMMA BaseInvReturn ==
  ASSUME BaseInv, NEW t \in Threads, Return(t)
  PROVE  BaseInv'
<1> USE DEF BaseInv, Return, At, Goto, Set
<1>1. Idle \in Calls
  BY ZonesAssumption DEF Idle, Calls, Null
<1>2. TypeOK'
  BY <1>1 DEF TypeOK, Labels
<1>3. BlocksApart'
  BY DEF BlocksApart, TypeOK
<1>4. ASSUME NEW u \in Threads PROVE ReleasesItsBlock(u)'
  <2>1. CASE u = t
    BY <2>1, ZonesAssumption DEF ReleasesItsBlock, Idle, Null, MmapZone, TypeOK
  <2>2. CASE u # t
    BY <2>2 DEF ReleasesItsBlock, TypeOK
  <2> QED
    BY <2>1, <2>2
<1> QED
  BY <1>2, <1>3, <1>4

\* The pointer of a call that releases b is that of b, or starts a range that meets it.
PointsTo(op, ptr, size, b) ==
  /\ op \in {"free", "realloc"} => b.start = ptr
  /\ op = "munmap" => Span(b) \cap Range(ptr, size) # {}

\* A call begins with the blocks H that the application gives it.
LEMMA BaseInvEnter ==
  ASSUME BaseInv, NEW t \in Threads, NEW op \in AllOps, NEW ptr \in Nat, NEW size \in Nat,
         Enter(t, op, ptr, size), NEW H \in SUBSET Held,
         hand' \in [Threads -> SUBSET live],
         hand'[t] = H, \A u \in Threads \ {t} : hand'[u] = hand[u],
         \A b \in H : PointsTo(op, ptr, size, b),
         op = "munmap" => ptr \in MmapZone /\ size > 0
  PROVE  BaseInv'
<1> USE DEF BaseInv, Enter, At, Goto, Set
<1>1. InHeap(ptr) \in BOOLEAN
  BY DEF InHeap, Contains
<1>2. ptr \in MmapZone => ~InHeap(ptr)
  BY ZonesAssumption DEF InHeap, Contains, MmapZone, TypeOK
<1> DEFINE c == [op |-> op, ptr |-> ptr, size |-> size, wasIn |-> InHeap(ptr),
                 isIn |-> FALSE, seen |-> Null, ret |-> Null]
<1>3. c \in Calls
  BY <1>1, ZonesAssumption DEF Calls, Null
<1>4. call' = [call EXCEPT ![t] = c]
  OBVIOUS
<1> HIDE DEF c
<1>5. calls' \in 0..MaxCalls
  BY CallsAssumption DEF TypeOK
<1>6. TypeOK'
  <2>2. call' \in [Threads -> Calls]
    BY <1>3, <1>4 DEF TypeOK
  <2>3. inside' \in [Threads -> BOOLEAN] /\ pc' \in [Threads -> Labels]
    BY DEF TypeOK, Labels
  <2> QED
    BY <1>5, <2>2, <2>3 DEF TypeOK
<1>7. BlocksApart'
  <2>1. ASSUME NEW u \in Threads, NEW v \in Threads, u # v PROVE hand'[u] \cap hand'[v] = {}
    <3>1. \A w \in Threads : hand[w] \cap H = {}
      BY DEF Held
    <3>2. hand[u] \cap hand[v] = {}
      BY <2>1 DEF BlocksApart
    <3> QED
      BY <3>1, <3>2, <2>1 DEF TypeOK
  <2> QED
    BY <2>1 DEF BlocksApart
<1>8. ASSUME NEW u \in Threads PROVE ReleasesItsBlock(u)'
  <2>1. CASE u = t
    <3>1. call'[u] = c /\ pc'[u] = "real" /\ hand'[u] = H
      BY <2>1, <1>4 DEF TypeOK
    <3> QED
      BY <3>1, <1>2 DEF ReleasesItsBlock, PointsTo, c
  <2>2. CASE u # t
    BY <2>2, <1>4 DEF ReleasesItsBlock, TypeOK
  <2> QED
    BY <2>1, <2>2
<1> QED
  BY <1>6, <1>7, <1>8

\* A call that is given no block.
LEMMA BaseInvEnterBare ==
  ASSUME BaseInv, NEW t \in Threads, NEW op \in AllOps \ {"munmap"}, NEW size \in Nat,
         Enter(t, op, Null, size), UNCHANGED hand
  PROVE  BaseInv'
<1>1. hand[t] = {}
  BY DEF BaseInv, Enter, ReleasesItsBlock
<1>2. /\ hand' \in [Threads -> SUBSET live]
      /\ hand'[t] = {} /\ \A u \in Threads \ {t} : hand'[u] = hand[u]
  BY <1>1 DEF BaseInv, TypeOK
<1>3. {} \in SUBSET Held /\ \A b \in {} : PointsTo(op, Null, size, b)
  OBVIOUS
<1>4. Null \in Nat /\ op \in AllOps /\ op # "munmap"
  BY DEF Null
<1> QED
  BY <1>2, <1>3, <1>4, BaseInvEnter

\* A call that is given one block.
LEMMA BaseInvEnterBlock ==
  ASSUME BaseInv, NEW t \in Threads, NEW op \in AllOps, NEW ptr \in Nat, NEW size \in Nat,
         Enter(t, op, ptr, size), NEW b \in Held, hand' = [hand EXCEPT ![t] = {b}],
         PointsTo(op, ptr, size, b),
         op = "munmap" => ptr \in MmapZone /\ size > 0
  PROVE  BaseInv'
<1>1. {b} \in SUBSET Held /\ \A c \in {b} : PointsTo(op, ptr, size, c)
  OBVIOUS
<1>2. /\ hand' \in [Threads -> SUBSET live]
      /\ hand'[t] = {b} /\ \A u \in Threads \ {t} : hand'[u] = hand[u]
  BY DEF BaseInv, TypeOK, Held
<1> QED
  BY <1>1, <1>2, BaseInvEnter

\* Every way the application calls an interposed function.
LEMMA BaseInvCall ==
  ASSUME BaseInv, NEW t \in Threads, Call(t)
  PROVE  BaseInv'
<1>1. Sizes \subseteq Nat
  BY CallsAssumption
<1>2. Held \subseteq live /\ live \subseteq Block
  BY DEF BaseInv, Held, TypeOK
<1>3. CASE CallAlloc(t)
  <2>1. PICK op \in {"malloc", "posix_memalign"}, n \in Sizes : Enter(t, op, Null, n)
    BY <1>3 DEF CallAlloc
  <2>2. op \in AllOps \ {"munmap"} /\ UNCHANGED hand /\ n \in Nat
    BY <1>3, <1>1 DEF CallAlloc, AllOps
  <2> QED
    BY <2>1, <2>2, BaseInvEnterBare
<1>4. CASE CallMmap(t)
  <2>1. PICK n \in Sizes : Enter(t, "mmap", Null, n)
    BY <1>4 DEF CallMmap
  <2>2. "mmap" \in AllOps \ {"munmap"} /\ UNCHANGED hand /\ n \in Nat
    BY <1>4, <1>1 DEF CallMmap, AllOps
  <2> QED
    BY <2>1, <2>2, BaseInvEnterBare
<1>5. CASE CallFree(t)
  <2>1. "free" \in AllOps \ {"munmap"} /\ 0 \in Nat
    BY DEF AllOps
  <2>2. CASE Enter(t, "free", Null, 0) /\ UNCHANGED hand
    BY <2>1, <2>2, BaseInvEnterBare
  <2>3. ASSUME NEW b \in Held, Enter(t, "free", b.start, 0), hand' = [hand EXCEPT ![t] = {b}]
        PROVE  BaseInv'
    <3>1. b.start \in Nat /\ PointsTo("free", b.start, 0, b)
      BY <1>2 DEF Block, PointsTo
    <3> QED
      BY <2>1, <2>3, <3>1, BaseInvEnterBlock
  <2> QED
    BY <1>5, <2>2, <2>3 DEF CallFree, HeldBy
<1>6. CASE CallRealloc(t)
  <2>1. PICK op \in {"realloc", "reallocarray"}, n \in Sizes :
          \/ \E b \in HeldBy({"libc", "reallocarray"}) :
               Enter(t, op, b.start, n) /\ hand' = [hand EXCEPT ![t] = {b}]
          \/ Enter(t, op, Null, n) /\ UNCHANGED hand
    BY <1>6 DEF CallRealloc
  <2>2. op \in AllOps \ {"munmap"} /\ n \in Nat
    BY <1>1 DEF AllOps
  <2>3. CASE Enter(t, op, Null, n) /\ UNCHANGED hand
    BY <2>2, <2>3, BaseInvEnterBare
  <2>4. ASSUME NEW b \in Held, Enter(t, op, b.start, n), hand' = [hand EXCEPT ![t] = {b}]
        PROVE  BaseInv'
    <3>1. b.start \in Nat /\ PointsTo(op, b.start, n, b)
      BY <1>2, <2>2 DEF Block, PointsTo
    <3> QED
      BY <2>2, <2>4, <3>1, BaseInvEnterBlock
  <2> QED
    BY <2>1, <2>3, <2>4 DEF HeldBy
<1>7. CASE CallMunmap(t)
  <2>1. PICK a \in MmapZone, n \in 1..(MmapMax - MmapMin + 1) :
          /\ {b \in live : Span(b) \cap Range(a, n) # {}} \subseteq HeldBy({"mmap"})
          /\ Enter(t, "munmap", a, n)
          /\ hand' = [hand EXCEPT ![t] = {b \in live : Span(b) \cap Range(a, n) # {}}]
    BY <1>7 DEF CallMunmap
  <2> DEFINE H == {b \in live : Span(b) \cap Range(a, n) # {}}
  <2>2. H \in SUBSET Held
    BY <2>1 DEF HeldBy
  <2>3. \A b \in H : PointsTo("munmap", a, n, b)
    BY DEF PointsTo
  <2>4. a \in Nat /\ n \in Nat /\ n > 0 /\ "munmap" \in AllOps
    BY ZonesAssumption DEF MmapZone, AllOps
  <2>5. /\ hand' \in [Threads -> SUBSET live]
        /\ hand'[t] = H /\ \A u \in Threads \ {t} : hand'[u] = hand[u]
    BY <2>1 DEF BaseInv, TypeOK
  <2>6. Enter(t, "munmap", a, n)
    BY <2>1
  <2> HIDE DEF H
  <2> QED
    BY <2>2, <2>3, <2>4, <2>5, <2>6, BaseInvEnter
<1>8. CASE CallUnsupported(t)
  <2>1. TypeOK'
    BY <1>8, CallsAssumption DEF BaseInv, CallUnsupported, TypeOK
  <2>2. BlocksApart' /\ \A u \in Threads : ReleasesItsBlock(u)'
    BY <1>8 DEF BaseInv, CallUnsupported, BlocksApart, ReleasesItsBlock, At
  <2> QED
    BY <2>1, <2>2 DEF BaseInv
<1> QED
  BY <1>3, <1>4, <1>5, <1>6, <1>7, <1>8 DEF Call

\* The blocks a real call may give: in one zone, apart from one another and from
\* the blocks that stay.
Fits(given, others) ==
  /\ given \subseteq Block
  /\ \A b \in given : \/ Span(b) \subseteq MmapZone
                      \/ Span(b) \subseteq HeapZone /\ b.by # "mmap"
  /\ \A b, c \in given : b # c => Span(b) \cap Span(c) = {}
  /\ \A b \in given : \A c \in others : Span(b) \cap Span(c) = {}

\* A real call takes blocks from the hand of its thread only.
LEMMA BaseInvReal ==
  ASSUME BaseInv, NEW t \in Threads, At(t, "real"),
         NEW taken \in SUBSET hand[t], NEW given, NEW fresh, NEW p \in Nat,
         Fits(given, live \ taken), Real(t, taken, given, fresh, p),
         brk' \in InitBrk..(HeapMax + 1)
  PROVE  BaseInv'
<1> USE DEF BaseInv, Real, At, Goto, Set
<1>1. \A b \in given : \A c \in live \ taken : b # c
  BY SpanFacts DEF Fits, TypeOK
<1>2. \A u \in Threads \ {t} : hand[u] \subseteq live \ taken
  BY DEF TypeOK, BlocksApart
<1>3. hand' \in [Threads -> SUBSET live']
  BY <1>2 DEF TypeOK
<1>4. call' \in [Threads -> Calls]
  BY CallTypes DEF TypeOK
<1>5. pc' \in [Threads -> Labels] /\ pc'[t] \notin {"idle", "real"}
  BY DEF TypeOK, Labels, AfterReal
<1>6. live' \subseteq Block /\ placed' \subseteq Nat /\ skipped' \subseteq segments
  BY DEF TypeOK, Fits, SkippedBy
<1>7. TypeOK'
  BY <1>3, <1>4, <1>5, <1>6 DEF TypeOK
<1>8. BlocksApart'
  <2>1. \A b \in live' : \/ Span(b) \subseteq MmapZone
                         \/ Span(b) \subseteq HeapZone /\ b.by # "mmap"
    BY DEF BlocksApart, Fits
  <2>2. \A b, c \in live' : b # c => Span(b) \cap Span(c) = {}
    BY DEF BlocksApart, Fits
  <2>3. \A u, v \in Threads : u # v => hand'[u] \cap hand'[v] = {}
    BY <1>1, <1>2 DEF BlocksApart, TypeOK
  <2> QED
    BY <2>1, <2>2, <2>3 DEF BlocksApart
<1>9. ASSUME NEW u \in Threads PROVE ReleasesItsBlock(u)'
  <2>1. CASE u = t
    <3>1. call'[t] = [call[t] EXCEPT !.ret = p]
      BY DEF TypeOK
    <3>2. call'[t].op = call[t].op /\ call'[t].ptr = call[t].ptr
          /\ call'[t].size = call[t].size /\ call'[t].wasIn = call[t].wasIn
      BY <3>1, CallTypes DEF Calls
    <3> QED
      BY <2>1, <1>5, <3>2 DEF ReleasesItsBlock
  <2>2. CASE u # t
    BY <2>2 DEF ReleasesItsBlock, TypeOK
  <2> QED
    BY <2>1, <2>2
<1> QED
  BY <1>7, <1>8, <1>9

\* What Obtain adds fits.
LEMMA VacantFits ==
  ASSUME BaseInv, NEW t \in Threads, NEW taken \in SUBSET live,
         NEW by \in {"libc", "mmap", "reallocarray"},
         NEW b \in Vacant(live \ taken, call[t].size, by)
  PROVE  /\ Fits({b}, live \ taken) /\ b.start \in Nat
         /\ b.size = call[t].size /\ b.by = by
         /\ BreakFor(b) \in InitBrk..(HeapMax + 1)
<1> USE DEF BaseInv
<1>1. call[t].size \in Nat
  BY CallTypes
<1>2. b \in Block /\ b.size = call[t].size /\ b.by = by
  BY <1>1, ZonesAssumption DEF Vacant, Block, HeapZone, MmapZone
<1>3. \/ Span(b) \subseteq MmapZone
      \/ Span(b) \subseteq HeapZone /\ b.by # "mmap"
  BY <1>2 DEF Vacant
<1>4. \A c \in live \ taken : Span(b) \cap Span(c) = {}
  BY DEF Vacant, Spans
<1>5. BreakFor(b) \in InitBrk..(HeapMax + 1)
  <2>1. brk \in InitBrk..(HeapMax + 1)
    BY DEF TypeOK
  <2>2. CASE Span(b) \subseteq 1..(brk - 1) \cup MmapZone
    BY <2>1, <2>2 DEF BreakFor
  <2>3. CASE ~(Span(b) \subseteq 1..(brk - 1) \cup MmapZone)
    <3>1. Span(b) \subseteq HeapZone
      BY <1>3, <2>3
    <3>2. PICK a \in Span(b) : a \notin 1..(brk - 1)
      BY <2>3
    <3>3. a <= Last(b) /\ Last(b) \in HeapZone /\ a \in HeapZone /\ a >= brk
      BY <1>2, <3>1, <3>2, <2>1, SpanFacts, ZonesAssumption DEF Span, HeapZone
    <3>4. BreakFor(b) = Last(b) + 1
      BY <2>3 DEF BreakFor
    <3> QED
      BY <3>3, <3>4, <2>1, ZonesAssumption DEF HeapZone
  <2> QED
    BY <2>2, <2>3
<1> QED
  BY <1>2, <1>3, <1>4, <1>5, SpanFacts DEF Fits

LEMMA BaseInvObtain ==
  ASSUME BaseInv, NEW t \in Threads, At(t, "real"), NEW taken \in SUBSET hand[t],
         NEW by \in {"libc", "mmap", "reallocarray"}, Obtain(t, taken, by)
  PROVE  BaseInv'
<1>1. PICK b \in Vacant(live \ taken, call[t].size, by) :
        Real(t, taken, {b}, Spans(taken \cup {b}), b.start) /\ brk' = BreakFor(b)
  BY DEF Obtain
<1>2. taken \in SUBSET live
  BY DEF BaseInv, TypeOK
<1>3. Fits({b}, live \ taken) /\ b.start \in Nat /\ BreakFor(b) \in InitBrk..(HeapMax + 1)
  BY <1>2, VacantFits
<1> QED
  BY <1>1, <1>3, BaseInvReal

LEMMA BaseInvFail ==
  ASSUME BaseInv, NEW t \in Threads, At(t, "real"), NEW p \in Nat, Fail(t, p)
  PROVE  BaseInv'
<1>1. Fits({}, live \ {}) /\ {} \in SUBSET hand[t]
  BY DEF Fits
<1>2. brk' \in InitBrk..(HeapMax + 1) /\ Real(t, {}, {}, {}, p)
  BY DEF Fail, BaseInv, TypeOK
<1> QED
  BY <1>1, <1>2, BaseInvReal

\* Freeing all the call holds.
LEMMA BaseInvFreed ==
  ASSUME BaseInv, NEW t \in Threads, At(t, "real"),
         Real(t, hand[t], {}, Spans(hand[t]), Null), brk' \in Breaks(live \ hand[t], brk)
  PROVE  BaseInv'
<1>1. Fits({}, live \ hand[t]) /\ hand[t] \in SUBSET hand[t] /\ Null \in Nat
  BY DEF Fits, Null
<1>2. brk' \in InitBrk..(HeapMax + 1)
  BY ZonesAssumption DEF Breaks, BaseInv, TypeOK
<1> QED
  BY <1>1, <1>2, BaseInvReal

\* munmap leaves of a block what lies before and after its range, and leaves all
\* that does.
LEMMA RemainderSpans ==
  ASSUME NEW b \in Block, NEW a \in Nat, NEW n \in Nat, n > 0,
         Span(b) \cap Range(a, n) # {}
  PROVE  /\ \A r \in Remainder(b, a, n) :
               /\ r \in Block /\ r.by = b.by /\ r.size <= b.size
               /\ Span(r) \subseteq Span(b) \ Range(a, n)
         /\ \A r, s \in Remainder(b, a, n) : r # s => Span(r) \cap Span(s) = {}
         /\ \A x \in Span(b) \ Range(a, n) : \E r \in Remainder(b, a, n) : x \in Span(r)
<1>1. b.start \in Nat /\ b.size \in Nat /\ b.by \in {"libc", "mmap", "reallocarray"}
  BY DEF Block
<1>2. a <= Last(b) /\ b.start < a + n
  <2>1. PICK x \in Nat : b.start <= x /\ x <= Last(b) /\ a <= x /\ x <= a + n - 1
    BY <1>1 DEF Span, Range, Last
  <2> QED
    BY <1>1, <2>1 DEF Last
<1>3. /\ Last(b) \in Nat
      /\ b.size > 0 => Last(b) = b.start + b.size - 1
      /\ b.size = 0 => Last(b) = b.start
      /\ \A y : y \in Span(b) <=> y \in Int /\ b.start <= y /\ y <= Last(b)
      /\ \A y : y \in Range(a, n) <=> y \in Int /\ a <= y /\ y <= a + n - 1
  BY <1>1 DEF Span, Range, Last
<1> DEFINE before == [start |-> b.start, size |-> a - b.start, by |-> b.by]
           after == [start |-> a + n, size |-> b.start + b.size - (a + n), by |-> b.by]
<1>4. /\ before.start = b.start /\ before.size = a - b.start /\ before.by = b.by
      /\ after.start = a + n /\ after.size = b.start + b.size - (a + n) /\ after.by = b.by
  OBVIOUS
<1>5. before.size > 0 => before \in Block
  BY <1>1 DEF Block
<1>6. after.size > 0 => after \in Block
  BY <1>1 DEF Block
<1>7. \A r : r \in Remainder(b, a, n) <=> r \in {before, after} /\ r.size > 0
  BY DEF Remainder
<1> HIDE DEF before, after
<1>8. before.size > 0 =>
        \A y : y \in Span(before) <=> y \in Int /\ b.start <= y /\ y <= a - 1
  BY <1>1, <1>4 DEF Span, Last
<1>9. after.size > 0 =>
        \A y : y \in Span(after) <=> y \in Int /\ a + n <= y /\ y <= b.start + b.size - 1
  BY <1>1, <1>4 DEF Span, Last
<1>10. before.size > 0 => Span(before) \subseteq Span(b) \ Range(a, n)
  BY <1>1, <1>2, <1>3, <1>4, <1>8
<1>11. after.size > 0 => Span(after) \subseteq Span(b) \ Range(a, n)
  BY <1>1, <1>2, <1>3, <1>4, <1>9
<1>12. before.size > 0 /\ after.size > 0 => Span(before) \cap Span(after) = {}
  BY <1>1, <1>8, <1>9
<1>13. /\ before.size > 0 => before.size <= b.size
       /\ after.size > 0 => after.size <= b.size
  BY <1>1, <1>2, <1>3, <1>4
<1>14. ASSUME NEW y \in Span(b) \ Range(a, n)
       PROVE  \E r \in Remainder(b, a, n) : y \in Span(r)
  <2>1. y \in Int /\ b.start <= y /\ y <= Last(b) /\ (y < a \/ y > a + n - 1)
    BY <1>1, <1>3
  <2>2. CASE y < a
    <3>1. before.size > 0 /\ y \in Span(before)
      BY <1>1, <1>4, <1>8, <2>1, <2>2
    <3> QED
      BY <1>7, <3>1
  <2>3. CASE y > a + n - 1
    <3>1. b.size > 0
      BY <1>1, <1>2, <1>3, <2>1, <2>3
    <3>2. after.size > 0 /\ y \in Span(after)
      BY <1>1, <1>3, <1>4, <1>9, <2>1, <2>3, <3>1
    <3> QED
      BY <1>7, <3>2
  <2> QED
    BY <2>1, <2>2, <2>3
<1>15. ASSUME NEW r \in Remainder(b, a, n)
       PROVE  /\ r \in Block /\ r.by = b.by /\ r.size <= b.size
              /\ Span(r) \subseteq Span(b) \ Range(a, n)
  <2>1. r \in {before, after} /\ r.size > 0
    BY <1>7
  <2> QED
    BY <2>1, <1>4, <1>5, <1>6, <1>10, <1>11, <1>13
<1>16. ASSUME NEW r \in Remainder(b, a, n), NEW s \in Remainder(b, a, n), r # s
       PROVE  Span(r) \cap Span(s) = {}
  <2>1. r \in {before, after} /\ s \in {before, after} /\ r.size > 0 /\ s.size > 0
    BY <1>7
  <2> QED
    BY <2>1, <1>12, <1>16
<1> QED
  BY <1>14, <1>15, <1>16

\* The same of all the blocks a munmap takes memory of.
LEMMA RemainderFits ==
  ASSUME BaseInv, NEW t \in Threads, At(t, "real"), call[t].op = "munmap"
  PROVE  LET a == call[t].ptr
             n == call[t].size
             rest == Remainders(hand[t], a, n)
         IN  /\ Fits(rest, live \ hand[t])
             /\ \A r \in rest : \E b \in hand[t] :
                  /\ r.by = b.by /\ r.size <= b.size
                  /\ Span(r) \subseteq Span(b) \ Range(a, n)
             /\ \A b \in hand[t] : \A x \in Span(b) \ Range(a, n) : x \in Spans(rest)
<1> DEFINE a == call[t].ptr
           n == call[t].size
           rest == Remainders(hand[t], a, n)
<1>1. a \in Nat /\ n \in Nat /\ n > 0 /\ hand[t] \subseteq live /\ live \subseteq Block
  BY CallTypes DEF BaseInv, TypeOK, ReleasesItsBlock
<1>2. \A b \in hand[t] : Span(b) \cap Range(a, n) # {}
  BY DEF BaseInv, ReleasesItsBlock
<1> HIDE DEF a, n
<1>3. ASSUME NEW b \in hand[t]
      PROVE  /\ \A r \in Remainder(b, a, n) :
                  /\ r \in Block /\ r.by = b.by /\ r.size <= b.size
                  /\ Span(r) \subseteq Span(b) \ Range(a, n)
             /\ \A r, s \in Remainder(b, a, n) : r # s => Span(r) \cap Span(s) = {}
             /\ \A x \in Span(b) \ Range(a, n) : \E r \in Remainder(b, a, n) : x \in Span(r)
  BY <1>1, <1>2, RemainderSpans
<1>4. \A r : r \in rest <=> \E b \in hand[t] : r \in Remainder(b, a, n)
  BY DEF Remainders
<1> HIDE DEF rest
<1>5. \A b, c \in live : b # c => Span(b) \cap Span(c) = {}
  BY DEF BaseInv, BlocksApart
<1>6. \A r \in rest : \E b \in hand[t] :
        /\ r \in Block /\ r.by = b.by /\ r.size <= b.size
        /\ Span(r) \subseteq Span(b) \ Range(a, n)
  BY <1>3, <1>4
<1>7. ASSUME NEW r \in rest, NEW c \in live \ hand[t] PROVE Span(r) \cap Span(c) = {}
  <2>1. PICK b \in hand[t] : Span(r) \subseteq Span(b)
    BY <1>6
  <2> QED
    BY <1>1, <1>5, <2>1
<1>8. ASSUME NEW r \in rest
      PROVE  \/ Span(r) \subseteq MmapZone
             \/ Span(r) \subseteq HeapZone /\ r.by # "mmap"
  <2>1. PICK b \in hand[t] : r.by = b.by /\ Span(r) \subseteq Span(b)
    BY <1>6
  <2> QED
    BY <1>1, <2>1 DEF BaseInv, BlocksApart
<1>9. ASSUME NEW r \in rest, NEW s \in rest, r # s PROVE Span(r) \cap Span(s) = {}
  <2>1. PICK b \in hand[t] : r \in Remainder(b, a, n)
    BY <1>4
  <2>2. PICK c \in hand[t] : s \in Remainder(c, a, n)
    BY <1>4
  <2>3. Span(r) \subseteq Span(b) /\ Span(s) \subseteq Span(c)
    BY <1>3, <2>1, <2>2
  <2> QED
    BY <1>1, <1>3, <1>5, <1>9, <2>1, <2>2, <2>3
<1>10. Fits(rest, live \ hand[t])
  BY <1>6, <1>7, <1>8, <1>9 DEF Fits
<1>11. ASSUME NEW b \in hand[t], NEW x \in Span(b) \ Range(a, n) PROVE x \in Spans(rest)
  BY <1>3, <1>4 DEF Spans
<1> QED
  BY <1>6, <1>10, <1>11 DEF rest, a, n

\* Every real call.
LEMMA BaseInvRealCall ==
  ASSUME BaseInv, NEW t \in Threads, RealCall(t)
  PROVE  BaseInv'
<1>1. hand[t] \in SUBSET live /\ {} \in SUBSET hand[t] /\ live \subseteq Block
  BY DEF BaseInv, TypeOK
<1>2. Null \in Nat /\ AddrSpace - 1 \in Nat
  BY ZonesAssumption DEF Null
<1>3. CASE RealAlloc(t)
  <2>1. \A p \in {Null} \cup {b.start : b \in Held} : p \in Nat
    BY <1>1, <1>2 DEF Held, Block
  <2> QED
    BY <1>1, <1>2, <1>3, <2>1, BaseInvObtain, BaseInvFail DEF RealAlloc
<1>4. CASE RealMmap(t)
  BY <1>1, <1>2, <1>4, BaseInvObtain, BaseInvFail DEF RealMmap
<1>5. CASE RealFree(t)
  BY <1>5, BaseInvFreed DEF RealFree
<1>6. CASE RealRealloc(t)
  BY <1>2, <1>6, BaseInvFreed, BaseInvObtain, BaseInvFail DEF RealRealloc
<1>7. CASE RealMunmap(t)
  <2>1. CASE Fail(t, Null)
    BY <1>2, <1>7, <2>1, BaseInvFail DEF RealMunmap
  <2>2. ASSUME UNCHANGED brk,
               Real(t, hand[t], Remainders(hand[t], call[t].ptr, call[t].size),
                    Range(call[t].ptr, call[t].size), Null)
        PROVE  BaseInv'
    <3>1. Fits(Remainders(hand[t], call[t].ptr, call[t].size), live \ hand[t])
      BY <1>7, <2>2, RemainderFits DEF RealMunmap
    <3>2. hand[t] \in SUBSET hand[t] /\ brk' \in InitBrk..(HeapMax + 1)
      BY <2>2 DEF BaseInv, TypeOK
    <3> QED
      BY <1>2, <1>7, <2>2, <3>1, <3>2, BaseInvReal DEF RealMunmap
  <2> QED
    BY <1>7, <2>1, <2>2 DEF RealMunmap
<1> QED
  BY <1>3, <1>4, <1>5, <1>6, <1>7 DEF RealCall

LEMMA BaseInvNext == BaseInv /\ [Next]_vars => BaseInv'
<1> SUFFICES ASSUME BaseInv, [Next]_vars PROVE BaseInv'
  OBVIOUS
<1>1. ASSUME NEW t \in Threads, Call(t) \/ Handle(t) PROVE BaseInv'
  BY <1>1, BaseInvCall, BaseInvRealCall, BaseInvUpdateHeap, BaseInvClassify,
     BaseInvUpdateList, BaseInvReturn DEF Handle
<1>2. CASE UNCHANGED vars
  BY <1>2 DEF vars, BaseInv, TypeOK, BlocksApart, ReleasesItsBlock, At
<1> QED
  BY <1>1, <1>2 DEF Next, Rest

\* The variables keep their types in every run, whatever the calls do and however
\* they fail; blocks never overlap and no block is in two hands.
THEOREM TypeCorrect == Spec => []TypeOK
<1>1. BaseInv => TypeOK
  BY DEF BaseInv
<1> QED
  BY <1>1, BaseInvInit, BaseInvNext, PTL DEF Spec

(***************************************************************************)
(* Ranges being unmapped.  Only the blocks in the hand of the munmap meet  *)
(* its range, since no new block is put there before it is done.           *)
(***************************************************************************)
LEMMA RangesApartInit == Init => RangesApart
BY DEF Init, RangesApart, At

\* The blocks a real call gives lie outside every range being unmapped, or are parts
\* of those its thread has.
LEMMA RealGives ==
  ASSUME BaseInv, NEW t \in Threads, RealCall(t), NEW b \in live' \ live
  PROVE  Span(b) \cap Unmapping = {} \/ \E c \in hand[t] : Span(b) \subseteq Span(c)
<1>1. ASSUME NEW taken, NEW by, Obtain(t, taken, by)
      PROVE  Span(b) \cap Unmapping = {}
  <2>1. PICK c \in Vacant(live \ taken, call[t].size, by) :
          Real(t, taken, {c}, Spans(taken \cup {c}), c.start)
    BY <1>1 DEF Obtain
  <2>2. b = c
    BY <2>1 DEF Real
  <2> QED
    BY <2>2 DEF Vacant
<1>2. ASSUME NEW taken, NEW fresh, NEW p, Real(t, taken, {}, fresh, p) PROVE FALSE
  BY <1>2 DEF Real
<1>3. ASSUME NEW p, Fail(t, p) PROVE FALSE
  BY <1>2, <1>3 DEF Fail
<1>4. CASE RealAlloc(t)
  BY <1>1, <1>3, <1>4 DEF RealAlloc
<1>5. CASE RealMmap(t)
  BY <1>1, <1>3, <1>5 DEF RealMmap
<1>6. CASE RealFree(t)
  BY <1>2, <1>6 DEF RealFree
<1>7. CASE RealRealloc(t)
  BY <1>1, <1>2, <1>3, <1>7 DEF RealRealloc
<1>8. CASE RealMunmap(t)
  <2> DEFINE rest == Remainders(hand[t], call[t].ptr, call[t].size)
             range == Range(call[t].ptr, call[t].size)
  <2>1. Real(t, hand[t], rest, range, Null)
    BY <1>3, <1>8 DEF RealMunmap
  <2>2. \A r \in rest : \E c \in hand[t] : Span(r) \subseteq Span(c)
    BY <1>8, RemainderFits DEF RealMunmap
  <2> HIDE DEF rest, range
  <2>3. b \in rest
    BY <2>1 DEF Real
  <2> QED
    BY <2>2, <2>3
<1> QED
  BY <1>4, <1>5, <1>6, <1>7, <1>8 DEF RealCall

LEMMA RangesApartRealCall ==
  ASSUME BaseInv, RangesApart, NEW t \in Threads, RealCall(t)
  PROVE  RangesApart'
<1> USE DEF At, Goto, Set
<1> DEFINE Own(u) == Range(call[u].ptr, call[u].size)
<1>1. TypeOK /\ pc'[t] # "real"
  BY RealMoves DEF BaseInv, AfterReal
<1>2. \A u \in Threads \ {t} : pc'[u] = pc[u] /\ call'[u] = call[u] /\ hand'[u] = hand[u]
  BY <1>1, RealIsReal DEF Real, TypeOK
<1> SUFFICES ASSUME NEW u \in Threads, pc'[u] = "real", call'[u].op = "munmap",
                    NEW b \in live' \ hand'[u]
             PROVE  Span(b) \cap Range(call'[u].ptr, call'[u].size) = {}
  BY DEF RangesApart, Spans
<1>3. u # t /\ pc[u] = "real" /\ call[u].op = "munmap"
      /\ Range(call'[u].ptr, call'[u].size) = Own(u)
  BY <1>1, <1>2
<1>4. \A c \in live \ hand[u] : Span(c) \cap Own(u) = {}
  BY <1>3 DEF RangesApart, Spans
<1>5. CASE b \in live
  BY <1>2, <1>3, <1>4, <1>5
<1>6. CASE b \notin live
  <2>1. Own(u) \subseteq Unmapping
    BY <1>3 DEF Unmapping
  <2>2. \A c \in hand[t] : c \in live \ hand[u]
    BY <1>1, <1>3 DEF TypeOK, BaseInv, BlocksApart
  <2>3. Span(b) \cap Unmapping = {} \/ \E c \in hand[t] : Span(b) \subseteq Span(c)
    BY <1>6, RealGives
  <2> HIDE DEF Own
  <2> QED
    BY <1>3, <1>4, <2>1, <2>2, <2>3
<1> QED
  BY <1>5, <1>6

LEMMA RangesApartNext == BaseInv /\ RangesApart /\ [Next]_vars => RangesApart'
<1> SUFFICES ASSUME BaseInv, RangesApart, [Next]_vars PROVE RangesApart'
  OBVIOUS
<1> USE DEF At, Goto, Set
<1>1. TypeOK
  BY DEF BaseInv
<1>2. ASSUME UNCHANGED live, NEW t \in Threads, pc'[t] # "real",
             \A u \in Threads \ {t} : pc'[u] = pc[u] /\ call'[u] = call[u] /\ hand'[u] = hand[u]
      PROVE  RangesApart'
  BY <1>2 DEF RangesApart
<1>3. ASSUME NEW t \in Threads, CallMunmap(t) PROVE RangesApart'
  <2>1. PICK a \in MmapZone, n \in 1..(MmapMax - MmapMin + 1) :
          /\ Enter(t, "munmap", a, n)
          /\ hand' = [hand EXCEPT ![t] = {b \in live : Span(b) \cap Range(a, n) # {}}]
    BY <1>3 DEF CallMunmap
  <2>2. /\ UNCHANGED live
        /\ \A u \in Threads \ {t} : pc'[u] = pc[u] /\ call'[u] = call[u] /\ hand'[u] = hand[u]
        /\ call'[t].ptr = a /\ call'[t].size = n
        /\ hand'[t] = {b \in live : Span(b) \cap Range(a, n) # {}}
    BY <1>1, <2>1 DEF Enter, TypeOK
  <2>3. Spans(live' \ hand'[t]) \cap Range(call'[t].ptr, call'[t].size) = {}
    BY <2>2 DEF Spans
  <2> QED
    BY <2>2, <2>3 DEF RangesApart
<1>4. ASSUME NEW t \in Threads, Call(t), ~CallMunmap(t), ~CallUnsupported(t)
      PROVE  RangesApart'
  <2>1. PICK op \in AllOps \ {"munmap"} : \E ptr, size : Enter(t, op, ptr, size)
    BY <1>4 DEF Call, CallAlloc, CallMmap, CallFree, CallRealloc, AllOps
  <2>2. UNCHANGED hand \/ \E H : hand' = [hand EXCEPT ![t] = H]
    BY <1>4 DEF Call, CallAlloc, CallMmap, CallFree, CallRealloc
  <2>3. /\ UNCHANGED live /\ call'[t].op # "munmap"
        /\ \A u \in Threads \ {t} : pc'[u] = pc[u] /\ call'[u] = call[u] /\ hand'[u] = hand[u]
    BY <1>1, <2>1, <2>2 DEF Enter, TypeOK
  <2> QED
    BY <2>3 DEF RangesApart
<1>5. ASSUME NEW t \in Threads, CallUnsupported(t) PROVE RangesApart'
  BY <1>5 DEF CallUnsupported, RangesApart
<1>6. ASSUME NEW t \in Threads, UpdateHeap(t) \/ Classify(t) PROVE RangesApart'
  BY <1>1, <1>2, <1>6 DEF TypeOK, UpdateHeap, ReadBreak, CompareHeapEnd, ReadBreakAgain,
     StoreHeapEnd, AfterUpdate, Classify, AfterClassify
<1>7. ASSUME NEW t \in Threads, UpdateList(t) \/ Return(t) PROVE RangesApart'
  BY <1>1, <1>2, <1>7 DEF TypeOK, UpdateList, AcquireLock, RemoveSegments, AfterRemove,
     InsertSegment, PlaceSegment, Return
<1>8. CASE UNCHANGED vars
  BY <1>8 DEF vars, RangesApart
<1>9. ASSUME NEW t \in Threads, Call(t) \/ Handle(t) PROVE RangesApart'
  BY <1>3, <1>4, <1>5, <1>6, <1>7, <1>9, RangesApartRealCall DEF Handle
<1> QED
  BY <1>8, <1>9, Zenon DEF Next, Rest

(***************************************************************************)
(* The list.  A live block is covered by a segment wholly or not at all,   *)
(* so a call that releases a block finds its pointer in every segment that *)
(* the release makes stale.                                                *)
(***************************************************************************)
ListInv ==
  /\ \A t \in Threads : AddsItsBlock(t)
  /\ SegmentsWhole
  /\ SegmentsLive

\* A contiguous block that meets a mapping is inside it.
LEMMA ListInvInit == Init => ListInv
<1> SUFFICES ASSUME Init PROVE ListInv
  OBVIOUS
<1> USE DEF Init
<1>1. ASSUME NEW t \in Threads PROVE AddsItsBlock(t)
  BY DEF AddsItsBlock
<1> DEFINE outside == OutsideHeap(InitBlocks)
<1>2. outside \subseteq MmapZone /\ outside \subseteq Spans(InitBlocks)
  BY DEF OutsideHeap
<1>3. \A s \in segments : /\ s.start \in outside /\ s.end \in outside
                          /\ Addresses(s) \subseteq outside
                          /\ s.start - 1 \notin outside /\ s.end + 1 \notin outside
  BY DEF Mappings
<1>4. SegmentsLive
  BY <1>2, <1>3 DEF SegmentsLive
<1>5. ASSUME NEW s \in segments, NEW b \in live, Span(b) \cap Addresses(s) # {}
      PROVE  Span(b) \subseteq Addresses(s)
  <2>1. b \in Block /\ b.start \in Nat /\ Last(b) \in Nat
    BY InitBlocksAssumption, SpanFacts
  <2>2. PICK x \in Span(b) : x \in Addresses(s)
    BY <1>5
  <2>3. x \in MmapZone
    BY <1>2, <1>3, <2>2
  <2>4. Span(b) \subseteq outside
    <3>1. Span(b) \subseteq MmapZone
      BY <2>2, <2>3, InitBlocksAssumption, ZonesAssumption DEF MmapZone
    <3> QED
      BY <3>1 DEF OutsideHeap, Spans
  <2>5. s.start \in Int /\ s.end \in Int
    BY <1>2, <1>3, ZonesAssumption DEF MmapZone
  <2>6. s.start - 1 \notin Span(b) /\ s.end + 1 \notin Span(b)
    BY <1>3, <2>4
  <2> HIDE DEF Init, outside
  <2> QED
    BY <2>1, <2>2, <2>5, <2>6 DEF Span, Addresses
<1>6. SegmentsWhole
  BY <1>5 DEF SegmentsWhole
<1> QED
  BY <1>1, <1>4, <1>6 DEF ListInv

\* A step that leaves the blocks alone, adds no segment and calls off no removal.
LEMMA ListInvQuiet ==
  ASSUME ListInv, UNCHANGED live, segments' \ skipped' \subseteq segments \ skipped,
         \A s \in segments' : Doomed(s) => Doomed(s)',
         \A u \in Threads : AddsItsBlock(u)'
  PROVE  ListInv'
BY DEF ListInv, SegmentsWhole, SegmentsLive

\* The other threads neither lose their place nor their block.
LEMMA OthersStay ==
  ASSUME NEW t \in Threads, NEW u \in Threads, u # t,
         pc'[u] = pc[u], call'[u] = call[u], hand'[u] = hand[u]
  PROVE  /\ RemovalAhead(u) => RemovalAhead(u)'
         /\ AddsItsBlock(u) => AddsItsBlock(u)'
BY DEF RemovalAhead, AddsItsBlock

\* A step of t keeps every removal ahead if it keeps its own.
LEMMA DoomedStays ==
  ASSUME NEW t \in Threads,
         \A u \in Threads \ {t} : pc'[u] = pc[u] /\ call'[u] = call[u],
         RemovalAhead(t) => RemovalAhead(t)' /\ call'[t].ptr = call[t].ptr
  PROVE  \A s : Doomed(s) => Doomed(s)'
BY DEF Doomed, RemovalAhead, Contains

\* Steps that change no block and no segment: the removal that is ahead stays
\* ahead until it is done.
LEMMA ListInvUpdateHeap ==
  ASSUME BaseInv, ListInv, NEW t \in Threads, UpdateHeap(t) \/ Classify(t)
  PROVE  ListInv'
<1> USE DEF At, Goto, Set
<1>1. TypeOK /\ call[t] \in Calls
  BY CallTypes DEF BaseInv
<1>2. UNCHANGED <<live, hand, segments, skipped>>
  BY DEF UpdateHeap, ReadBreak, CompareHeapEnd, ReadBreakAgain, StoreHeapEnd, Classify
<1>3. \A u \in Threads \ {t} : pc'[u] = pc[u] /\ call'[u] = call[u]
  BY <1>1 DEF TypeOK, UpdateHeap, ReadBreak, CompareHeapEnd, ReadBreakAgain, StoreHeapEnd, Classify
<1>4. /\ call'[t].op = call[t].op /\ call'[t].ptr = call[t].ptr /\ call'[t].ret = call[t].ret
      /\ call'[t].size = call[t].size /\ call'[t].wasIn = call[t].wasIn
  BY <1>1 DEF TypeOK, Calls, UpdateHeap, ReadBreak, CompareHeapEnd, ReadBreakAgain, StoreHeapEnd,
     Classify
<1>5. RemovalAhead(t) => RemovalAhead(t)'
  <2>1. CASE UpdateHeap(t)
    BY <1>1, <1>4, <2>1 DEF ListInv, AddsItsBlock, Adders, RemovalAhead, TypeOK, UpdateHeap, ReadBreak, CompareHeapEnd,
       ReadBreakAgain, StoreHeapEnd, AfterUpdate
  <2>2. CASE Classify(t)
    BY <1>1, <1>4, <2>2 DEF ListInv, AddsItsBlock, Adders, RemovalAhead, TypeOK, Classify, AfterClassify
  <2> QED
    BY <2>1, <2>2
<1>6. AddsItsBlock(t)'
  <2>1. CASE UpdateHeap(t)
    BY <1>1, <1>2, <1>4, <2>1 DEF ListInv, AddsItsBlock, Adders, TypeOK, UpdateHeap, ReadBreak,
       CompareHeapEnd, ReadBreakAgain, StoreHeapEnd, AfterUpdate
  <2>2. CASE Classify(t)
    BY <1>1, <1>2, <1>4, <2>2 DEF ListInv, AddsItsBlock, Adders, TypeOK, Classify, AfterClassify
  <2> QED
    BY <2>1, <2>2
<1>7. \A u \in Threads : AddsItsBlock(u)'
  BY <1>2, <1>3, <1>6, OthersStay DEF ListInv
<1> QED
  BY <1>2, <1>3, <1>4, <1>5, <1>7, DoomedStays, ListInvQuiet

\* The removal is called off only by removing what it is ahead of.
LEMMA ListInvUpdateList ==
  ASSUME BaseInv, ListInv, NEW t \in Threads, UpdateList(t)
  PROVE  ListInv'
<1> USE DEF At, Goto
<1>1. TypeOK /\ call[t] \in Calls
  BY CallTypes DEF BaseInv
<1>2. UNCHANGED <<live, hand, call>>
  BY DEF UpdateList, AcquireLock, RemoveSegments, InsertSegment, PlaceSegment
<1>3. \A u \in Threads \ {t} : pc'[u] = pc[u] /\ call'[u] = call[u]
  BY <1>1, <1>2 DEF TypeOK, UpdateList, AcquireLock, RemoveSegments, InsertSegment, PlaceSegment
<1>4. AddsItsBlock(t)'
  BY <1>1, <1>2 DEF ListInv, AddsItsBlock, Adders, TypeOK, UpdateList, AcquireLock,
     RemoveSegments, AfterRemove, InsertSegment, PlaceSegment
<1>5. \A u \in Threads : AddsItsBlock(u)'
  BY <1>2, <1>3, <1>4, OthersStay DEF ListInv
<1>6. CASE AcquireLock(t) \/ PlaceSegment(t)
  <2>1. RemovalAhead(t) => RemovalAhead(t)'
    BY <1>1, <1>2, <1>6 DEF RemovalAhead, TypeOK, AcquireLock, PlaceSegment
  <2>2. \A s : Doomed(s) => Doomed(s)'
    BY <1>2, <1>3, <2>1, DoomedStays
  <2>3. UNCHANGED <<segments, skipped>>
    BY <1>6 DEF AcquireLock, PlaceSegment
  <2> QED
    BY <1>2, <1>5, <2>2, <2>3, ListInvQuiet
<1>7. CASE RemoveSegments(t)
  <2>1. segments' \subseteq segments /\ \A s \in segments' : ~Contains(s, call[t].ptr)
    BY <1>7 DEF RemoveSegments, Kept
  <2>2. \A s \in segments' : Doomed(s) => Doomed(s)'
    BY <1>2, <1>3, <2>1 DEF Doomed, RemovalAhead, Contains
  <2>3. segments' \ skipped' \subseteq segments \ skipped
    BY <1>7 DEF RemoveSegments, Kept
  <2> QED
    BY <1>2, <1>5, <2>2, <2>3, ListInvQuiet
<1>8. CASE InsertSegment(t)
  <2> DEFINE new == Segment(call[t].ret, call[t].size)
  <2>1. segments' \ skipped' \subseteq (segments \ skipped) \cup {new}
    BY <1>8 DEF InsertSegment
  <2>2. \A s : Doomed(s) => Doomed(s)'
    <3>1. ~RemovalAhead(t)
      BY <1>8 DEF InsertSegment, RemovalAhead
    <3> QED
      BY <1>3, <3>1, DoomedStays
  <2>3. ASSUME new.start \in MmapZone
        PROVE  /\ Addresses(new) \subseteq Spans(live)
               /\ \A c \in live : Span(c) \cap Addresses(new) = {} \/ Span(c) \subseteq Addresses(new)
    <3>1. new.start = call[t].ret
      BY DEF Segment
    <3>2. PICK b \in hand[t] : b.start = call[t].ret /\ b.size = call[t].size
      BY <1>8, <2>3, <3>1 DEF ListInv, AddsItsBlock, InsertSegment
    <3>3. b \in live /\ b \in Block
      BY <1>1 DEF TypeOK
    <3>4. b.start \in Span(b)
      BY <3>3, SpanFacts
    <3>5. Span(b) \subseteq MmapZone
      BY <2>3, <3>1, <3>2, <3>3, <3>4, ZonesAssumption DEF BaseInv, BlocksApart, HeapZone, MmapZone
    <3>6. Addresses(new) = Span(b) \/ Addresses(new) = {}
      <4>1. b.size \in Nat
        BY <3>3 DEF Block
      <4> QED
        BY <3>2, <3>3, <3>5, <4>1, SegmentOfBlock
    <3>7. \A c \in live : c # b => Span(c) \cap Span(b) = {}
      BY <3>3 DEF BaseInv, BlocksApart
    <3> HIDE DEF new
    <3> QED
      BY <3>3, <3>6, <3>7 DEF Spans
  <2> HIDE DEF new
  <2>4. SegmentsLive' /\ SegmentsWhole'
    BY <1>2, <2>1, <2>2, <2>3 DEF ListInv, SegmentsLive, SegmentsWhole
  <2> QED
    BY <1>5, <2>4 DEF ListInv
<1> QED
  BY <1>6, <1>7, <1>8 DEF UpdateList

\* Entering and leaving a call: no removal is ahead before, none after.
LEMMA ListInvCall ==
  ASSUME BaseInv, ListInv, NEW t \in Threads, Call(t) \/ Return(t)
  PROVE  ListInv'
<1> USE DEF At, Goto, Set
<1>1. TypeOK
  BY DEF BaseInv
<1>2. CASE CallUnsupported(t)
  <2>1. UNCHANGED <<live, hand, segments, skipped, pc, call>>
    BY <1>2 DEF CallUnsupported
  <2> QED
    BY <2>1 DEF ListInv, AddsItsBlock, SegmentsLive, SegmentsWhole, Doomed, RemovalAhead, Contains
<1>3. ASSUME UNCHANGED <<live, segments, skipped>>, pc[t] \in {"idle", "return"},
             pc' = [pc EXCEPT ![t] = pc'[t]], pc'[t] \in {"real", "idle"},
             \A u \in Threads \ {t} : call'[u] = call[u] /\ hand'[u] = hand[u]
      PROVE  ListInv'
  <2>1. \A u \in Threads \ {t} : pc'[u] = pc[u]
    BY <1>1, <1>3 DEF TypeOK
  <2>2. AddsItsBlock(t)'
    BY <1>3 DEF AddsItsBlock
  <2>3. \A u \in Threads : AddsItsBlock(u)'
    BY <1>3, <2>1, <2>2, OthersStay DEF ListInv
  <2>4. ~RemovalAhead(t)
    BY <1>3 DEF RemovalAhead
  <2>5. \A s : Doomed(s) => Doomed(s)'
    BY <1>3, <2>1, <2>4, DoomedStays
  <2> QED
    BY <1>3, <2>3, <2>5, ListInvQuiet
<1>4. CASE Return(t)
  <2>1. /\ pc' = [pc EXCEPT ![t] = pc'[t]] /\ pc'[t] = "idle"
        /\ \A u \in Threads \ {t} : call'[u] = call[u] /\ hand'[u] = hand[u]
    BY <1>1, <1>4 DEF Return, TypeOK
  <2> QED
    BY <1>3, <1>4, <2>1 DEF Return
<1>5. CASE Call(t) /\ ~CallUnsupported(t)
  <2>1. /\ \E op, ptr, size : Enter(t, op, ptr, size)
        /\ UNCHANGED hand \/ \E H : hand' = [hand EXCEPT ![t] = H]
    BY <1>5 DEF Call, CallAlloc, CallMmap, CallFree, CallRealloc, CallMunmap
  <2>2. \A u \in Threads \ {t} : hand'[u] = hand[u]
    BY <1>1, <2>1 DEF TypeOK
  <2>3. /\ pc' = [pc EXCEPT ![t] = pc'[t]] /\ pc'[t] = "real" /\ pc[t] = "idle"
        /\ \A u \in Threads \ {t} : call'[u] = call[u]
        /\ UNCHANGED <<live, segments, skipped>>
    BY <1>1, <2>1 DEF Enter, TypeOK
  <2> QED
    BY <1>3, <2>2, <2>3
<1> QED
  BY <1>2, <1>4, <1>5

(***************************************************************************)
(* The real calls.  The segments that cover a block they take are doomed.  *)
(***************************************************************************)
LEMMA ListInvReal ==
  ASSUME BaseInv, ListInv, NEW t \in Threads, At(t, "real"),
         NEW taken \in SUBSET hand[t], NEW given, NEW fresh, NEW p,
         Fits(given, live \ taken), Real(t, taken, given, fresh, p),
         AddsItsBlock(t)',
         \A b \in taken : \A s \in segments \ skipped' :
           s.start \in MmapZone /\ Span(b) \subseteq Addresses(s) => Doomed(s)'
  PROVE  ListInv'
<1> USE DEF At, Goto, Set
<1>1. TypeOK
  BY DEF BaseInv
<1>2. live' = (live \ taken) \cup given /\ segments' = segments /\ skipped \subseteq skipped'
  BY DEF Real
<1>3. \A u \in Threads \ {t} : pc'[u] = pc[u] /\ call'[u] = call[u] /\ hand'[u] = hand[u]
  BY <1>1 DEF Real, TypeOK
<1>4. \A u \in Threads : AddsItsBlock(u)'
  BY <1>3, OthersStay DEF ListInv
<1>5. ~RemovalAhead(t)
  BY DEF RemovalAhead
<1>6. \A s : Doomed(s) => Doomed(s)'
  BY <1>3, <1>5, DoomedStays
<1>7. taken \subseteq live
  BY <1>1 DEF TypeOK
<1>8. ASSUME NEW s \in segments \ skipped', s.start \in MmapZone, ~Doomed(s)'
      PROVE  /\ Addresses(s) \subseteq Spans(live \ taken)
             /\ \A b \in live \ taken : Span(b) \cap Addresses(s) = {} \/ Span(b) \subseteq Addresses(s)
  <2>1. ~Doomed(s)
    BY <1>6, <1>8
  <2>2. \A b \in live : Span(b) \cap Addresses(s) = {} \/ Span(b) \subseteq Addresses(s)
    BY <1>2, <1>8, <2>1 DEF ListInv, SegmentsWhole
  <2>3. \A b \in taken : Span(b) \cap Addresses(s) = {}
    BY <1>7, <1>8, <2>2
  <2>4. Addresses(s) \subseteq Spans(live)
    BY <1>2, <1>8, <2>1 DEF ListInv, SegmentsLive
  <2> QED
    BY <2>2, <2>3, <2>4 DEF Spans
<1>9. SegmentsLive'
  BY <1>2, <1>8 DEF SegmentsLive, Spans
<1>10. SegmentsWhole'
  <2>1. ASSUME NEW s \in segments \ skipped', s.start \in MmapZone, ~Doomed(s)', NEW b \in given
        PROVE  Span(b) \cap Addresses(s) = {}
    BY <1>8, <2>1 DEF Fits, Spans
  <2> QED
    BY <1>2, <1>8, <2>1 DEF SegmentsWhole
<1> QED
  BY <1>4, <1>9, <1>10 DEF ListInv

\* The pointer of a call that releases b is in every segment that covers b, unless a
\* munmap skips it.
LEMMA ReleaseDooms ==
  ASSUME BaseInv, NEW t \in Threads, At(t, "real"),
         call[t].op \in {"free", "realloc", "munmap"},
         NEW taken, NEW given, NEW fresh, NEW p, Real(t, taken, given, fresh, p),
         call[t].op = "munmap" => fresh = Range(call[t].ptr, call[t].size),
         NEW b \in hand[t], NEW s \in segments \ skipped',
         s.start \in MmapZone, Span(b) \subseteq Addresses(s)
  PROVE  Doomed(s)'
<1> USE DEF At, Goto, Set
<1>1. TypeOK /\ call[t] \in Calls /\ b \in live /\ b \in Block
  BY CallTypes DEF BaseInv, TypeOK
<1>2. ReleasesItsBlock(t)
  BY DEF BaseInv
<1>3. s.start \in Nat /\ s.end \in Nat
  BY <1>1 DEF TypeOK
<1>4. ASSUME call[t].op = "munmap"
      PROVE  Contains(s, call[t].ptr) /\ call[t].ptr \in MmapZone
  <2>1. Addresses(s) \cap fresh # {}
    BY <1>1, <1>2, <1>4 DEF ReleasesItsBlock
  <2>2. s \notin SkippedBy(t, fresh)
    BY DEF Real
  <2>3. Contains(s, call[t].ptr)
    BY <1>4, <2>1, <2>2 DEF SkippedBy
  <2>4. call[t].ptr \in MmapZone
    BY <1>2, <1>4 DEF ReleasesItsBlock
  <2> QED
    BY <2>3, <2>4
<1>5. ASSUME call[t].op # "munmap"
      PROVE  Contains(s, call[t].ptr) /\ call[t].ptr \in MmapZone
  <2>1. call[t].ptr \in Span(b)
    BY <1>1, <1>2, <1>5, SpanFacts DEF ReleasesItsBlock
  <2>2. Contains(s, call[t].ptr)
    BY <1>3, <2>1 DEF Contains, Addresses
  <2>3. call[t].ptr \in MmapZone
    BY <1>1, <1>3, <2>1, <2>2, ZonesAssumption
       DEF BaseInv, BlocksApart, Contains, HeapZone, MmapZone
  <2> QED
    BY <2>2, <2>3
<1>6. Contains(s, call[t].ptr) /\ call[t].ptr \in MmapZone
  BY <1>4, <1>5
<1>7. ~call[t].wasIn
  BY <1>2, <1>6 DEF ReleasesItsBlock
<1>8. /\ call'[t].op = call[t].op /\ call'[t].ptr = call[t].ptr
      /\ call'[t].wasIn = call[t].wasIn
  BY <1>1 DEF Real, TypeOK, Calls
<1>9. pc'[t] \in {"lockRemove", "readBreak"}
  BY <1>1, <1>7 DEF Real, TypeOK, AfterReal
<1>10. RemovalAhead(t)'
  BY <1>7, <1>8, <1>9 DEF RemovalAhead
<1> QED
  BY <1>6, <1>8, <1>10 DEF Doomed, Contains

\* What a real call leaves its thread with.
LEMMA RealAdds ==
  ASSUME BaseInv, NEW t \in Threads, At(t, "real"),
         call[t].op \in Ops \ {"reallocarray", "unsupported"},
         NEW taken, NEW given, NEW fresh, NEW p, Real(t, taken, given, fresh, p),
         call[t].op \in Adders /\ p \in MmapZone =>
           \E b \in given : b.start = p /\ b.size = call[t].size
  PROVE  AddsItsBlock(t)'
<1> USE DEF At, Goto, Set
<1>1. TypeOK /\ call[t] \in Calls
  BY CallTypes DEF BaseInv
<1>2. /\ call'[t].op = call[t].op /\ call'[t].ret = p /\ call'[t].wasIn = call[t].wasIn
      /\ call'[t].size = call[t].size
  BY <1>1 DEF Real, TypeOK, Calls
<1>3. pc'[t] = AfterReal(t) /\ given \subseteq hand'[t]
  BY <1>1 DEF Real, TypeOK
<1>4. call[t].op \in Adders \cup {"free", "munmap"}
  BY CallsAssumption DEF AllOps, Adders
<1> QED
  BY <1>2, <1>3, <1>4 DEF AddsItsBlock, AfterReal, Adders

LEMMA ListInvObtain ==
  ASSUME BaseInv, ListInv, NEW t \in Threads, At(t, "real"),
         call[t].op \in Ops \ {"reallocarray", "unsupported"},
         NEW taken \in SUBSET hand[t],
         taken # {} => call[t].op = "realloc",
         NEW by \in {"libc", "mmap", "reallocarray"}, Obtain(t, taken, by)
  PROVE  ListInv'
<1>1. PICK b \in Vacant(live \ taken, call[t].size, by) :
        Real(t, taken, {b}, Spans(taken \cup {b}), b.start)
  BY DEF Obtain
<1>2. taken \in SUBSET live
  BY DEF BaseInv, TypeOK
<1>3. Fits({b}, live \ taken) /\ b.size = call[t].size
  BY <1>2, VacantFits
<1>4. AddsItsBlock(t)'
  BY <1>1, <1>3, RealAdds
<1>5. ASSUME NEW c \in taken, NEW s \in segments \ skipped', s.start \in MmapZone,
             Span(c) \subseteq Addresses(s)
      PROVE  Doomed(s)'
  BY <1>1, <1>5, ReleaseDooms
<1> QED
  BY <1>1, <1>3, <1>4, <1>5, ListInvReal

\* A call that takes the blocks it was given and gives none, or fails.
LEMMA ListInvTake ==
  ASSUME BaseInv, ListInv, NEW t \in Threads, At(t, "real"),
         call[t].op \in Ops \ {"reallocarray", "unsupported"},
         NEW taken \in SUBSET hand[t],
         taken # {} => call[t].op \in {"free", "realloc"},
         NEW fresh, NEW p, p \notin MmapZone, Real(t, taken, {}, fresh, p)
  PROVE  ListInv'
<1>1. Fits({}, live \ taken)
  BY DEF Fits
<1>2. AddsItsBlock(t)'
  BY RealAdds
<1>3. ASSUME NEW b \in taken, NEW s \in segments \ skipped', s.start \in MmapZone,
             Span(b) \subseteq Addresses(s)
      PROVE  Doomed(s)'
  BY <1>3, ReleaseDooms
<1> QED
  BY <1>1, <1>2, <1>3, ListInvReal

LEMMA ListInvRealCall ==
  ASSUME TrackedCalls, BaseInv, ListInv, NEW t \in Threads, RealCall(t)
  PROVE  ListInv'
<1>1. At(t, "real") /\ {} \in SUBSET hand[t] /\ hand[t] \in SUBSET hand[t]
  BY DEF RealCall, RealAlloc, RealMmap, RealFree, RealRealloc, RealMunmap
<1>2. call[t].op \in Ops \ {"reallocarray", "unsupported"}
  BY CallTypes DEF BaseInv, TrackedCalls, RealCall, RealAlloc, RealMmap, RealFree, RealRealloc,
     RealMunmap
<1>3. Null \notin MmapZone /\ AddrSpace - 1 \notin MmapZone
  BY ZonesAssumption DEF Null, MmapZone
<1>4. ASSUME NEW p, p \notin MmapZone, Fail(t, p) PROVE ListInv'
  BY <1>1, <1>2, <1>4, ListInvTake DEF Fail
<1>5. CASE RealAlloc(t)
  <2>1. call[t].op = "posix_memalign" => \A p : ~Fail(t, p)
    BY DEF Fail, TrackedCalls
  <2>2. CASE Obtain(t, {}, "libc")
    BY <1>1, <1>2, <2>2, ListInvObtain
  <2> QED
    BY <1>3, <1>4, <1>5, <2>1, <2>2 DEF RealAlloc
<1>6. CASE RealMmap(t)
  <2>1. CASE Obtain(t, {}, "mmap")
    BY <1>1, <1>2, <2>1, ListInvObtain
  <2> QED
    BY <1>3, <1>4, <1>6, <2>1 DEF RealMmap
<1>7. CASE RealFree(t)
  BY <1>1, <1>2, <1>3, <1>7, ListInvTake DEF RealFree
<1>8. CASE RealRealloc(t)
  <2>1. call[t].op = "realloc"
    BY <1>2, <1>8 DEF RealRealloc
  <2>2. CASE Obtain(t, hand[t], "libc")
    BY <1>1, <1>2, <2>1, <2>2, ListInvObtain
  <2>3. CASE Real(t, hand[t], {}, Spans(hand[t]), Null)
    BY <1>1, <1>2, <1>3, <2>1, <2>3, ListInvTake
  <2> QED
    BY <1>3, <1>4, <1>8, <2>1, <2>2, <2>3 DEF RealRealloc
<1>9. CASE RealMunmap(t)
  <2>1. call[t].op = "munmap"
    BY <1>9 DEF RealMunmap
  <2> DEFINE rest == Remainders(hand[t], call[t].ptr, call[t].size)
             range == Range(call[t].ptr, call[t].size)
  <2>2. ASSUME Real(t, hand[t], rest, range, Null)
        PROVE  ListInv'
    <3>1. Fits(rest, live \ hand[t])
      BY <1>1, <2>1, RemainderFits
    <3> HIDE DEF rest
    <3>2. AddsItsBlock(t)'
      BY <1>1, <1>2, <2>1, <2>2, RealAdds DEF Adders
    <3>3. ASSUME NEW b \in hand[t], NEW s \in segments \ skipped', s.start \in MmapZone,
                 Span(b) \subseteq Addresses(s)
          PROVE  Doomed(s)'
      BY <1>1, <2>1, <2>2, <3>3, ReleaseDooms
    <3> QED
      BY <1>1, <2>2, <3>1, <3>2, <3>3, ListInvReal
  <2> QED
    BY <1>3, <1>4, <1>9, <2>2 DEF RealMunmap
<1> QED
  BY <1>5, <1>6, <1>7, <1>8, <1>9 DEF RealCall

LEMMA IInvInit == Init => IInv
  BY BaseInvInit, RangesApartInit, ListInvInit DEF IInv, BaseInv, ListInv

LEMMA IInvNext == TrackedCalls /\ IInv /\ [Next]_vars => IInv'
<1> SUFFICES ASSUME TrackedCalls, IInv, [Next]_vars PROVE IInv'
  OBVIOUS
<1>1. BaseInv /\ RangesApart /\ ListInv
  BY DEF IInv, BaseInv, ListInv
<1>2. BaseInv' /\ RangesApart'
  BY <1>1, BaseInvNext, RangesApartNext
<1>3. ASSUME NEW t \in Threads, Call(t) \/ Handle(t) PROVE ListInv'
  BY <1>1, <1>3, ListInvCall, ListInvRealCall, ListInvUpdateHeap, ListInvUpdateList DEF Handle
<1>4. ASSUME UNCHANGED vars PROVE ListInv'
  <2>1. UNCHANGED <<live, hand, segments, skipped, pc, call>>
    BY <1>4 DEF vars
  <2>2. \A t \in Threads : AddsItsBlock(t)'
    BY <1>1, <2>1 DEF ListInv, AddsItsBlock
  <2>3. \A s : Doomed(s) => Doomed(s)'
    BY <2>1 DEF Doomed, RemovalAhead, Contains
  <2> QED
    BY <1>1, <2>1, <2>2, <2>3, ListInvQuiet
<1>5. ListInv'
  BY <1>3, <1>4, Zenon DEF Next, Rest
<1>6. TypeOK' /\ BlocksApart' /\ \A t \in Threads : ReleasesItsBlock(t)'
  BY <1>2 DEF BaseInv
<1>7. (\A t \in Threads : AddsItsBlock(t)') /\ SegmentsWhole' /\ SegmentsLive'
  BY <1>5 DEF ListInv
<1> QED
  BY <1>2, <1>6, <1>7 DEF IInv

\* The invariant that the runs check holds of every instance.
THEOREM Invariance ==
  ASSUME TrackedCalls
  PROVE  Spec => []IInv
<1>1. IInv /\ [Next]_vars => IInv'
  BY IInvNext
<1> QED
  BY <1>1, IInvInit, PTL DEF Spec

\* No segment stays stale longer than the call that made it so: whatever the
\* threads do, and though no handler holds the lock over its real call, a segment
\* outside the heap covers live memory or some call is about to remove it.
THEOREM NoStaleSegments ==
  ASSUME TrackedCalls
  PROVE  Spec => []SegmentsLive
<1>1. IInv => SegmentsLive
  BY DEF IInv
<1>2. Spec => []IInv
  BY Invariance
<1> QED
  BY <1>1, <1>2, PTL

(***************************************************************************)
(* Placement.  A long block outside the heap that is not placed yet is the *)
(* one its call is about to add to the list and to place, and only that    *)
(* call has it.                                                            *)
(***************************************************************************)
ToBePlaced(b) == b.by \in {"libc", "mmap"} /\ b.size > PlaceMin /\ b.start \in MmapZone

PlacementAhead(t, b) ==
  /\ b \in hand[t] /\ call[t].op \in Adders
  /\ call[t].ret = b.start /\ call[t].size = b.size
  /\ \/ pc[t] \in {"readBreak", "compare", "readAgain", "storeEnd", "classify",
                   "lockInsert", "insert", "place"}
     \/ pc[t] \in {"lockRemove", "remove"} /\ call[t].op = "realloc" /\ ~call[t].isIn

PlacedInv ==
  \A b \in live : ToBePlaced(b) =>
    Span(b) \subseteq placed \/ \E t \in Threads : PlacementAhead(t, b)

\* The addresses of a set of addresses outside the heap that are reached from a
\* block of it without a gap are one of its mappings.
LEMMA BlockInMapping ==
  ASSUME NEW addrs \in SUBSET MmapZone, NEW b \in Block, Span(b) \subseteq addrs
  PROVE  \E s \in Mappings(addrs) :
           s.start \in Nat /\ s.end \in Nat /\ s.start <= b.start /\ Last(b) <= s.end
<1> DEFINE lows == {x \in addrs : x <= b.start /\ x .. b.start \subseteq addrs}
           highs == {x \in addrs : Last(b) <= x /\ Last(b) .. x \subseteq addrs}
<1>1. /\ addrs \subseteq Nat /\ \A x \in addrs : x <= MmapMax
      /\ MmapMax \in Nat /\ MmapMin \in Nat
  BY ZonesAssumption DEF MmapZone
<1>2. /\ b.start \in Nat /\ Last(b) \in Nat /\ b.start <= Last(b)
      /\ b.start \in addrs /\ Last(b) \in addrs /\ b.start .. Last(b) \subseteq addrs
  BY SpanFacts DEF Span
<1>3. b.start \in lows /\ Last(b) \in highs
  BY <1>2
<1>4. PICK low \in lows : \A x \in lows : low <= x
  BY <1>1, <1>3, LeastNatural
<1>5. PICK high \in highs : \A x \in highs : x <= high
  BY <1>1, <1>3, GreatestNatural
<1>6. low \in addrs /\ low <= b.start /\ low .. b.start \subseteq addrs /\ low \in Nat
  BY <1>1
<1>7. high \in addrs /\ Last(b) <= high /\ Last(b) .. high \subseteq addrs /\ high \in Nat
  BY <1>1
<1>8. low - 1 \notin addrs
  <2> SUFFICES ASSUME low - 1 \in addrs PROVE low - 1 \in lows
    BY <1>4, <1>6
  <2> QED
    BY <1>1, <1>2, <1>6
<1>9. high + 1 \notin addrs
  <2> SUFFICES ASSUME high + 1 \in addrs PROVE high + 1 \in highs
    BY <1>5, <1>7
  <2> QED
    BY <1>1, <1>2, <1>7
<1> DEFINE s == [start |-> low, end |-> high]
<1>10. Addresses(s) \subseteq addrs
  <2>1. \A x \in low .. high : x \in low .. b.start \/ x \in b.start .. Last(b) \/ x \in Last(b) .. high
    BY <1>2, <1>6, <1>7
  <2> QED
    BY <1>2, <1>6, <1>7, <2>1 DEF Addresses
<1> HIDE DEF lows, highs
<1>11. s \in Mappings(addrs)
  BY <1>2, <1>6, <1>7, <1>8, <1>9, <1>10 DEF Mappings
<1> QED
  BY <1>2, <1>6, <1>7, <1>11

LEMMA PlacedInvInit == Init => PlacedInv
<1> SUFFICES ASSUME Init, NEW b \in live, ToBePlaced(b) PROVE Span(b) \subseteq placed
  BY DEF PlacedInv
<1> USE DEF Init
<1> DEFINE outside == OutsideHeap(InitBlocks)
<1>1. b \in InitBlocks /\ b \in Block /\ b.start \in Nat /\ b.size \in Nat
  BY InitBlocksAssumption DEF Block
<1>2. Span(b) \subseteq MmapZone
  BY <1>1, InitBlocksAssumption, SpanFacts, ZonesAssumption DEF ToBePlaced, MmapZone
<1>3. Span(b) \subseteq outside /\ outside \in SUBSET MmapZone
  BY <1>1, <1>2 DEF OutsideHeap, Spans
<1>4. PICK s \in Mappings(outside) :
        s.start \in Nat /\ s.end \in Nat /\ s.start <= b.start /\ Last(b) <= s.end
  BY <1>1, <1>3, BlockInMapping
<1>5. s \in segments /\ s.end \in MmapZone
  BY <1>3, <1>4 DEF Mappings
<1>6. s.end - s.start + 1 >= b.size /\ s.end - s.start + 1 \in 0..(AddrSpace - 1)
  BY <1>1, <1>4, <1>5, ZonesAssumption, SpanFacts DEF Last, MmapZone
<1>7. IsLong(s)
  BY <1>1, <1>6, WrapExact, CallsAssumption DEF IsLong, Length, ToBePlaced
<1>8. Span(b) \subseteq Addresses(s)
  BY <1>1, <1>4, SpanFacts DEF Span, Addresses
<1> QED
  BY <1>5, <1>7, <1>8

\* A step of t that changes no block and unplaces nothing, and after which t has
\* placed its block or is about to.
LEMMA PlacedInvLocal ==
  ASSUME PlacedInv, NEW t \in Threads, UNCHANGED <<live, hand>>, placed \subseteq placed',
         \A u \in Threads \ {t} : pc'[u] = pc[u] /\ call'[u] = call[u],
         \A b \in live :
           ToBePlaced(b) /\ PlacementAhead(t, b) => Span(b) \subseteq placed' \/ PlacementAhead(t, b)'
  PROVE  PlacedInv'
<1> SUFFICES ASSUME NEW b \in live, ToBePlaced(b), ~(Span(b) \subseteq placed')
             PROVE  \E u \in Threads : PlacementAhead(u, b)'
  BY DEF PlacedInv, ToBePlaced
<1>1. PICK u \in Threads : PlacementAhead(u, b)
  BY DEF PlacedInv
<1>2. CASE u = t
  BY <1>1, <1>2
<1>3. CASE u # t
  BY <1>1, <1>3 DEF PlacementAhead
<1> QED
  BY <1>2, <1>3

LEMMA PlacedInvUpdateHeap ==
  ASSUME BaseInv, PlacedInv, NEW t \in Threads, UpdateHeap(t)
  PROVE  PlacedInv'
<1> USE DEF At, Goto, Set
<1>1. TypeOK /\ call[t] \in Calls
  BY CallTypes DEF BaseInv
<1>2. UNCHANGED <<live, hand, placed>>
  BY DEF UpdateHeap, ReadBreak, CompareHeapEnd, ReadBreakAgain, StoreHeapEnd
<1>3. \A u \in Threads \ {t} : pc'[u] = pc[u] /\ call'[u] = call[u]
  BY <1>1 DEF TypeOK, UpdateHeap, ReadBreak, CompareHeapEnd, ReadBreakAgain, StoreHeapEnd
<1>4. /\ call'[t].op = call[t].op /\ call'[t].ret = call[t].ret /\ call'[t].size = call[t].size
  BY <1>1 DEF TypeOK, Calls, UpdateHeap, ReadBreak, CompareHeapEnd, ReadBreakAgain, StoreHeapEnd
<1>5. call[t].op \in Adders => pc'[t] \in {"compare", "readAgain", "storeEnd", "classify"}
  BY <1>1 DEF TypeOK, Adders, UpdateHeap, ReadBreak, CompareHeapEnd, ReadBreakAgain, StoreHeapEnd,
     AfterUpdate
<1>6. \A b \in live : PlacementAhead(t, b) => PlacementAhead(t, b)'
  BY <1>2, <1>4, <1>5 DEF PlacementAhead
<1> QED
  BY <1>2, <1>3, <1>6, PlacedInvLocal

\* No address outside the heap is taken for one of the heap.
LEMMA OutsideNotInHeap ==
  ASSUME TypeOK, NEW a \in MmapZone
  PROVE  ~InHeap(a)
  BY ZonesAssumption DEF InHeap, Contains, MmapZone, TypeOK

LEMMA PlacedInvClassify ==
  ASSUME BaseInv, PlacedInv, NEW t \in Threads, Classify(t)
  PROVE  PlacedInv'
<1> USE DEF At, Goto, Set, Classify
<1>1. TypeOK /\ call[t] \in Calls
  BY CallTypes DEF BaseInv
<1>2. \A u \in Threads \ {t} : pc'[u] = pc[u] /\ call'[u] = call[u]
  BY <1>1 DEF TypeOK
<1>3. /\ call'[t].op = call[t].op /\ call'[t].ret = call[t].ret /\ call'[t].size = call[t].size
      /\ call'[t].isIn = InHeap(call[t].ret) /\ pc'[t] = AfterClassify(t)
  BY <1>1 DEF TypeOK, Calls
<1>4. ASSUME NEW b \in live, ToBePlaced(b), PlacementAhead(t, b) PROVE PlacementAhead(t, b)'
  <2>1. ~InHeap(call[t].ret)
    BY <1>1, <1>4, OutsideNotInHeap DEF ToBePlaced, PlacementAhead
  <2> QED
    BY <1>3, <1>4, <2>1 DEF PlacementAhead, AfterClassify
<1> QED
  BY <1>2, <1>4, PlacedInvLocal

\* The block that is about to be placed is mapped, and longer than the bound.
LEMMA PlacedInvUpdateList ==
  ASSUME BaseInv, PlacedInv, NEW t \in Threads, UpdateList(t)
  PROVE  PlacedInv'
<1> USE DEF At, Goto
<1>1. TypeOK /\ call[t] \in Calls
  BY CallTypes DEF BaseInv
<1>2. UNCHANGED <<live, hand, call>>
  BY DEF UpdateList, AcquireLock, RemoveSegments, InsertSegment, PlaceSegment
<1>3. \A u \in Threads \ {t} : pc'[u] = pc[u] /\ call'[u] = call[u]
  BY <1>1, <1>2 DEF TypeOK, UpdateList, AcquireLock, RemoveSegments, InsertSegment, PlaceSegment
<1>4. placed \subseteq placed'
  BY DEF UpdateList, AcquireLock, RemoveSegments, InsertSegment, PlaceSegment
<1>5. CASE AcquireLock(t) \/ RemoveSegments(t) \/ InsertSegment(t)
  <2>1. \A b \in live : PlacementAhead(t, b) => PlacementAhead(t, b)'
    BY <1>1, <1>2, <1>5 DEF PlacementAhead, TypeOK, AcquireLock, RemoveSegments, AfterRemove,
       InsertSegment
  <2> QED
    BY <1>2, <1>3, <1>4, <2>1, PlacedInvLocal
<1>6. CASE PlaceSegment(t)
  <2>1. ASSUME NEW b \in live, ToBePlaced(b), PlacementAhead(t, b) PROVE Span(b) \subseteq placed'
    <3> DEFINE s == Segment(call[t].ret, call[t].size)
    <3>1. b \in Block /\ b.start \in Nat /\ b.size \in Nat /\ PlaceMin \in Nat /\ b.size > 0
      BY <1>1, <2>1, CallsAssumption DEF TypeOK, Block, ToBePlaced
    <3>2. Span(b) \subseteq MmapZone
      BY <2>1, <3>1, SpanFacts, ZonesAssumption DEF BaseInv, BlocksApart, ToBePlaced, HeapZone, MmapZone
    <3>3. s = Segment(b.start, b.size)
      BY <2>1 DEF PlacementAhead
    <3>4. Addresses(s) = Span(b)
      BY <3>1, <3>2, <3>3, SegmentOfBlock
    <3>5. b.start + b.size - 1 \in 0..(AddrSpace - 1)
      <4>1. Last(b) \in MmapZone /\ Last(b) = b.start + b.size - 1
        BY <3>1, <3>2, SpanFacts DEF Last
      <4> QED
        BY <4>1, ZonesAssumption DEF MmapZone
    <3>6. s.start = b.start /\ s.end = b.start + b.size - 1
      BY <3>3, <3>5, WrapExact DEF Segment, LastAddress
    <3>7. s.start <= s.end /\ s.end - s.start + 1 = b.size /\ b.size \in 0..(AddrSpace - 1)
      <4>1. b.start >= 1
        BY <2>1, ZonesAssumption DEF ToBePlaced, MmapZone
      <4> HIDE DEF s
      <4> QED
        BY <3>1, <3>5, <3>6, <4>1, ZonesAssumption
    <3>8. IsLong(s)
      BY <2>1, <3>7, WrapExact DEF IsLong, Length, ToBePlaced
    <3>9. Addresses(s) \subseteq Spans(live) \cup 1..(brk - 1)
      BY <3>4 DEF Spans
    <3>10. placed' = placed \cup Addresses(s)
      BY <1>6, <3>7, <3>8, <3>9 DEF PlaceSegment
    <3> QED
      BY <3>4, <3>10
  <2> QED
    BY <1>2, <1>3, <1>4, <2>1, PlacedInvLocal
<1> QED
  BY <1>5, <1>6 DEF UpdateList

\* Entering a call takes a block into the hand of a thread that has none, and
\* leaving it lets go of blocks that are placed by then.
LEMMA PlacedInvCall ==
  ASSUME BaseInv, PlacedInv, NEW t \in Threads, Call(t) \/ Return(t)
  PROVE  PlacedInv'
<1> USE DEF At, Goto, Set
<1>1. TypeOK
  BY DEF BaseInv
<1>2. CASE CallUnsupported(t)
  BY <1>2 DEF CallUnsupported, PlacedInv, PlacementAhead, ToBePlaced
<1>3. ASSUME UNCHANGED <<live, placed>>, pc[t] \in {"idle", "return"},
             \A u \in Threads \ {t} : pc'[u] = pc[u] /\ call'[u] = call[u] /\ hand'[u] = hand[u]
      PROVE  PlacedInv'
  <2> SUFFICES ASSUME NEW b \in live, ToBePlaced(b), ~(Span(b) \subseteq placed)
               PROVE  \E u \in Threads : PlacementAhead(u, b)'
    BY <1>3 DEF PlacedInv, ToBePlaced
  <2>1. PICK u \in Threads : PlacementAhead(u, b)
    BY DEF PlacedInv
  <2>2. u # t
    BY <1>3, <2>1 DEF PlacementAhead
  <2> QED
    BY <1>3, <2>1, <2>2 DEF PlacementAhead
<1>4. CASE Return(t)
  BY <1>1, <1>3, <1>4 DEF Return, TypeOK
<1>5. CASE Call(t) /\ ~CallUnsupported(t)
  <2>1. /\ \E op, ptr, size : Enter(t, op, ptr, size)
        /\ UNCHANGED hand \/ \E H : hand' = [hand EXCEPT ![t] = H]
    BY <1>5 DEF Call, CallAlloc, CallMmap, CallFree, CallRealloc, CallMunmap
  <2>2. \A u \in Threads \ {t} : hand'[u] = hand[u]
    BY <1>1, <2>1 DEF TypeOK
  <2>3. /\ pc[t] = "idle" /\ UNCHANGED <<live, placed>>
        /\ \A u \in Threads \ {t} : call'[u] = call[u] /\ pc'[u] = pc[u]
    BY <1>1, <2>1 DEF Enter, TypeOK
  <2> QED
    BY <1>3, <2>2, <2>3
<1> QED
  BY <1>2, <1>4, <1>5

\* A real call takes the policy from its own blocks only, and what it gives is
\* placed or about to be.
LEMMA PlacedInvReal ==
  ASSUME BaseInv, PlacedInv, NEW t \in Threads, At(t, "real"),
         NEW taken \in SUBSET hand[t], NEW given, NEW fresh, NEW p,
         Real(t, taken, given, fresh, p),
         \A b \in live \ taken : Span(b) \cap fresh = {},
         \A b \in given : ToBePlaced(b) => Span(b) \subseteq placed' \/ PlacementAhead(t, b)'
  PROVE  PlacedInv'
<1> USE DEF At, Goto, Set
<1>1. TypeOK
  BY DEF BaseInv
<1>2. live' = (live \ taken) \cup given /\ placed' = placed \ fresh
  BY DEF Real
<1>3. \A u \in Threads \ {t} : pc'[u] = pc[u] /\ call'[u] = call[u] /\ hand'[u] = hand[u]
  BY <1>1 DEF Real, TypeOK
<1>4. ASSUME NEW b \in live \ taken, ToBePlaced(b), ~(Span(b) \subseteq placed')
      PROVE  \E u \in Threads : PlacementAhead(u, b)'
  <2>1. ~(Span(b) \subseteq placed)
    BY <1>2, <1>4
  <2>2. PICK u \in Threads : PlacementAhead(u, b)
    BY <1>4, <2>1 DEF PlacedInv
  <2>3. u # t
    BY <2>2 DEF PlacementAhead
  <2> QED
    BY <1>3, <2>2, <2>3 DEF PlacementAhead
<1>5. \A b \in live' : ToBePlaced(b) =>
        Span(b) \subseteq placed' \/ \E u \in Threads : PlacementAhead(u, b)'
  BY <1>2, <1>4
<1> QED
  BY <1>5 DEF PlacedInv, ToBePlaced

LEMMA PlacedInvObtain ==
  ASSUME BaseInv, PlacedInv, NEW t \in Threads, At(t, "real"), NEW taken \in SUBSET hand[t],
         NEW by \in {"libc", "mmap", "reallocarray"}, Obtain(t, taken, by),
         call[t].op \in Adders \/ by = "reallocarray"
  PROVE  PlacedInv'
<1>1. PICK b \in Vacant(live \ taken, call[t].size, by) :
        Real(t, taken, {b}, Spans(taken \cup {b}), b.start)
  BY DEF Obtain
<1>2. TypeOK /\ call[t] \in Calls /\ taken \in SUBSET live
  BY CallTypes DEF BaseInv, TypeOK
<1>3. Fits({b}, live \ taken) /\ b.size = call[t].size /\ b.by = by
  BY <1>2, VacantFits DEF Vacant
<1>4. \A c \in live \ taken : Span(c) \cap Spans(taken \cup {b}) = {}
  BY <1>2, <1>3 DEF BaseInv, BlocksApart, Fits, Spans
<1>5. ToBePlaced(b) => PlacementAhead(t, b)'
  <2>1. /\ call'[t].op = call[t].op /\ call'[t].ret = b.start /\ call'[t].size = call[t].size
        /\ b \in hand'[t] /\ pc'[t] = AfterReal(t)
    BY <1>1, <1>2 DEF Real, TypeOK, Calls, Goto, Set
  <2>2. call[t].op \in Adders => pc'[t] \in {"readBreak", "lockInsert"}
    BY <2>1 DEF AfterReal, Adders
  <2>3. ToBePlaced(b) => call[t].op \in Adders
    BY <1>3 DEF ToBePlaced
  <2> QED
    BY <1>3, <2>1, <2>2, <2>3 DEF PlacementAhead
<1>6. \A c \in {b} : ToBePlaced(c) => Span(c) \subseteq placed' \/ PlacementAhead(t, c)'
  BY <1>5
<1> QED
  BY <1>1, <1>4, <1>6, PlacedInvReal

\* A call that only releases, or fails.
LEMMA PlacedInvTake ==
  ASSUME BaseInv, PlacedInv, NEW t \in Threads, At(t, "real"), NEW taken \in SUBSET hand[t],
         NEW p, Real(t, taken, {}, Spans(taken), p)
  PROVE  PlacedInv'
<1>1. \A b \in live \ taken : Span(b) \cap Spans(taken) = {}
  BY DEF BaseInv, TypeOK, BlocksApart, Spans
<1> QED
  BY <1>1, PlacedInvReal

LEMMA PlacedInvFail ==
  ASSUME BaseInv, PlacedInv, NEW t \in Threads, At(t, "real"), NEW p, Fail(t, p)
  PROVE  PlacedInv'
<1>1. Spans({}) = {} /\ {} \in SUBSET hand[t]
  BY DEF Spans
<1> QED
  BY <1>1, PlacedInvTake DEF Fail

\* What munmap leaves of a mapping has kept its policy.
LEMMA PlacedInvMunmap ==
  ASSUME BaseInv, RangesApart, PlacedInv, NEW t \in Threads,
         At(t, "real"), call[t].op = "munmap",
         Real(t, hand[t], Remainders(hand[t], call[t].ptr, call[t].size),
              Range(call[t].ptr, call[t].size), Null)
  PROVE  PlacedInv'
<1> DEFINE range == Range(call[t].ptr, call[t].size)
           rest == Remainders(hand[t], call[t].ptr, call[t].size)
<1>1. hand[t] \subseteq live /\ live \subseteq Block
  BY DEF BaseInv, TypeOK
<1>2. \A b \in live \ hand[t] : Span(b) \cap range = {}
  BY DEF RangesApart, Spans
<1>3. /\ Fits(rest, live \ hand[t])
      /\ \A r \in rest : \E b \in hand[t] :
           r.by = b.by /\ r.size <= b.size /\ Span(r) \subseteq Span(b) \ range
  BY RemainderFits
<1>4. Real(t, hand[t], rest, range, Null)
  OBVIOUS
<1> HIDE DEF range, rest
<1>5. ASSUME NEW r \in rest, ToBePlaced(r) PROVE Span(r) \subseteq placed'
  <2>1. PICK b \in hand[t] :
          r.by = b.by /\ r.size <= b.size /\ Span(r) \subseteq Span(b) \ range
    BY <1>3
  <2>2. b \in live /\ b \in Block /\ r \in Block
    BY <1>1, <1>3 DEF Fits
  <2>3. r.start \in Span(b) /\ r.start \in MmapZone
    BY <1>5, <2>1, <2>2, SpanFacts DEF ToBePlaced
  <2>4. Span(b) \subseteq MmapZone
    BY <2>2, <2>3, ZonesAssumption DEF BaseInv, BlocksApart, HeapZone, MmapZone
  <2>5. ToBePlaced(b)
    <3>1. b.size > PlaceMin
      BY <1>5, <2>1, <2>2, CallsAssumption DEF ToBePlaced, Block
    <3> QED
      BY <1>5, <2>1, <2>2, <2>4, <3>1, SpanFacts DEF ToBePlaced
  <2>6. ASSUME NEW u \in Threads PROVE ~PlacementAhead(u, b)
    <3>1. CASE u = t
      BY <3>1 DEF PlacementAhead, At
    <3>2. CASE u # t
      BY <3>2 DEF PlacementAhead, BaseInv, BlocksApart
    <3> QED
      BY <3>1, <3>2
  <2>7. Span(b) \subseteq placed
    BY <2>2, <2>5, <2>6 DEF PlacedInv
  <2> QED
    BY <1>4, <2>1, <2>7 DEF Real
<1> QED
  BY <1>2, <1>4, <1>5, PlacedInvReal

LEMMA PlacedInvRealCall ==
  ASSUME BaseInv, RangesApart, PlacedInv, NEW t \in Threads, RealCall(t)
  PROVE  PlacedInv'
<1>1. At(t, "real") /\ {} \in SUBSET hand[t] /\ hand[t] \in SUBSET hand[t]
  BY DEF RealCall, RealAlloc, RealMmap, RealFree, RealRealloc, RealMunmap
<1>2. CASE RealAlloc(t)
  BY <1>1, <1>2, PlacedInvObtain, PlacedInvFail DEF RealAlloc, Adders
<1>3. CASE RealMmap(t)
  BY <1>1, <1>3, PlacedInvObtain, PlacedInvFail DEF RealMmap, Adders
<1>4. CASE RealFree(t)
  BY <1>1, <1>4, PlacedInvTake DEF RealFree
<1>5. CASE RealRealloc(t)
  <2>1. CASE Real(t, hand[t], {}, Spans(hand[t]), Null)
    BY <1>1, <2>1, PlacedInvTake
  <2>2. CASE Obtain(t, hand[t], IF call[t].op = "realloc" THEN "libc" ELSE "reallocarray")
    BY <1>1, <2>2, PlacedInvObtain DEF Adders
  <2> QED
    BY <1>1, <1>5, <2>1, <2>2, PlacedInvFail DEF RealRealloc
<1>6. CASE RealMunmap(t)
  BY <1>1, <1>6, PlacedInvMunmap, PlacedInvFail DEF RealMunmap
<1> QED
  BY <1>2, <1>3, <1>4, <1>5, <1>6 DEF RealCall

LEMMA PlacedInvNext == BaseInv /\ RangesApart /\ PlacedInv /\ [Next]_vars => PlacedInv'
<1> SUFFICES ASSUME BaseInv, RangesApart, PlacedInv, [Next]_vars PROVE PlacedInv'
  OBVIOUS
<1>1. ASSUME NEW t \in Threads, Call(t) \/ Handle(t) PROVE PlacedInv'
  BY <1>1, PlacedInvCall, PlacedInvRealCall, PlacedInvUpdateHeap, PlacedInvClassify,
     PlacedInvUpdateList DEF Handle
<1>2. CASE UNCHANGED vars
  BY <1>2 DEF vars, PlacedInv, PlacementAhead, ToBePlaced
<1> QED
  BY <1>1, <1>2, Zenon DEF Next, Rest

\* Whatever the threads do, whatever fails and whatever part of a mapping is
\* unmapped, the application never holds a long block outside the heap that has
\* not been given the weighted policy over all its length.
THEOREM LongBlocksArePlaced == Spec => []LongBlocksPlaced
<1>1. BaseInv /\ PlacedInv => LongBlocksPlaced
  BY DEF PlacedInv, LongBlocksPlaced, HeldBy, Held, ToBePlaced, PlacementAhead
<1>2. Init => BaseInv /\ RangesApart /\ PlacedInv
  BY BaseInvInit, RangesApartInit, PlacedInvInit
<1>3. BaseInv /\ RangesApart /\ PlacedInv /\ [Next]_vars => (BaseInv /\ RangesApart /\ PlacedInv)'
  BY BaseInvNext, RangesApartNext, PlacedInvNext
<1> QED
  BY <1>1, <1>2, <1>3, PTL DEF Spec

(***************************************************************************)
(* The death of the process over a placement.  A call that adds a segment  *)
(* has the block it describes, or a result that stands for failure.        *)
(***************************************************************************)
NoBlock == {Null, AddrSpace - 1}

DescribesItsBlock(t) ==
  /\ pc[t] \in {"classify", "lockInsert", "insert", "place"} => call[t].op \in Adders
  /\ pc[t] \in {"readBreak", "compare", "readAgain", "storeEnd"} =>
       call[t].op \in Adders \cup {"free"}
  /\ pc[t] \notin {"idle", "real", "return"} /\ call[t].op \in Adders =>
       \/ call[t].ret \in NoBlock
       \/ \E b \in hand[t] : b.start = call[t].ret /\ b.size = call[t].size

Describing == \A t \in Threads : DescribesItsBlock(t)

LEMMA DescribingLocal ==
  ASSUME Describing, NEW t \in Threads,
         \A u \in Threads \ {t} : pc'[u] = pc[u] /\ call'[u] = call[u] /\ hand'[u] = hand[u],
         DescribesItsBlock(t)'
  PROVE  Describing'
<1> SUFFICES ASSUME NEW u \in Threads, u # t PROVE DescribesItsBlock(u)'
  BY DEF Describing
<1> QED
  BY DEF Describing, DescribesItsBlock

LEMMA DescribingUpdate ==
  ASSUME BaseInv, Describing, NEW t \in Threads, UpdateHeap(t) \/ Classify(t) \/ UpdateList(t)
  PROVE  Describing'
<1> USE DEF At, Goto, Set
<1>1. TypeOK /\ call[t] \in Calls /\ DescribesItsBlock(t)
  BY CallTypes DEF BaseInv, Describing
<1>2. UNCHANGED hand
  BY DEF UpdateHeap, ReadBreak, CompareHeapEnd, ReadBreakAgain, StoreHeapEnd, Classify,
     UpdateList, AcquireLock, RemoveSegments, InsertSegment, PlaceSegment
<1>3. CASE UpdateHeap(t)
  <2>1. /\ \A u \in Threads \ {t} : pc'[u] = pc[u] /\ call'[u] = call[u]
        /\ call'[t].op = call[t].op /\ call'[t].ret = call[t].ret /\ call'[t].size = call[t].size
    BY <1>1, <1>3 DEF TypeOK, Calls, UpdateHeap, ReadBreak, CompareHeapEnd, ReadBreakAgain, StoreHeapEnd
  <2>2. /\ pc'[t] \in {"compare", "readAgain", "storeEnd", "classify", "return"}
        /\ pc'[t] = "classify" => call[t].op # "free"
        /\ pc[t] \in {"readBreak", "compare", "readAgain", "storeEnd"}
    BY <1>1, <1>3 DEF TypeOK, UpdateHeap, ReadBreak, CompareHeapEnd, ReadBreakAgain, StoreHeapEnd,
       AfterUpdate
  <2>3. DescribesItsBlock(t)'
    BY <1>1, <1>2, <2>1, <2>2 DEF DescribesItsBlock
  <2> QED
    BY <1>2, <2>1, <2>3, DescribingLocal
<1>4. CASE Classify(t)
  <2>1. /\ \A u \in Threads \ {t} : pc'[u] = pc[u] /\ call'[u] = call[u]
        /\ call'[t].op = call[t].op /\ call'[t].ret = call[t].ret /\ call'[t].size = call[t].size
        /\ pc[t] = "classify" /\ pc'[t] \in {"lockRemove", "lockInsert", "return"}
    BY <1>1, <1>4 DEF TypeOK, Calls, Classify, AfterClassify
  <2>2. DescribesItsBlock(t)'
    BY <1>1, <1>2, <2>1 DEF DescribesItsBlock
  <2> QED
    BY <1>2, <2>1, <2>2, DescribingLocal
<1>5. CASE UpdateList(t)
  <2>1. /\ \A u \in Threads \ {t} : pc'[u] = pc[u]
        /\ UNCHANGED call
    BY <1>1, <1>5 DEF TypeOK, UpdateList, AcquireLock, RemoveSegments, InsertSegment, PlaceSegment
  <2>2. DescribesItsBlock(t)'
    BY <1>1, <1>2, <1>5, <2>1 DEF DescribesItsBlock, TypeOK, UpdateList, AcquireLock, RemoveSegments,
       AfterRemove, InsertSegment, PlaceSegment, Adders
  <2> QED
    BY <1>2, <2>1, <2>2, DescribingLocal
<1> QED
  BY <1>3, <1>4, <1>5

LEMMA DescribingCall ==
  ASSUME BaseInv, Describing, NEW t \in Threads, Call(t) \/ Return(t)
  PROVE  Describing'
<1> USE DEF At, Goto, Set
<1>1. TypeOK
  BY DEF BaseInv
<1>2. CASE CallUnsupported(t)
  BY <1>2 DEF CallUnsupported, Describing, DescribesItsBlock
<1>3. CASE Return(t)
  <2>1. /\ \A u \in Threads \ {t} : pc'[u] = pc[u] /\ call'[u] = call[u] /\ hand'[u] = hand[u]
        /\ pc'[t] = "idle"
    BY <1>1, <1>3 DEF Return, TypeOK
  <2> QED
    BY <2>1, DescribingLocal DEF DescribesItsBlock
<1>4. CASE Call(t) /\ ~CallUnsupported(t)
  <2>1. /\ \E op, ptr, size : Enter(t, op, ptr, size)
        /\ UNCHANGED hand \/ \E H : hand' = [hand EXCEPT ![t] = H]
    BY <1>4 DEF Call, CallAlloc, CallMmap, CallFree, CallRealloc, CallMunmap
  <2>2. /\ \A u \in Threads \ {t} : pc'[u] = pc[u] /\ call'[u] = call[u] /\ hand'[u] = hand[u]
        /\ pc'[t] = "real"
    BY <1>1, <2>1 DEF Enter, TypeOK
  <2> QED
    BY <2>2, DescribingLocal DEF DescribesItsBlock
<1> QED
  BY <1>2, <1>3, <1>4

\* What a real call leaves its thread with.
LEMMA DescribingReal ==
  ASSUME BaseInv, Describing, NEW t \in Threads, At(t, "real"),
         NEW taken, NEW given, NEW fresh, NEW p, Real(t, taken, given, fresh, p),
         call[t].op # "none", call[t].op # "unsupported",
         call[t].op \in Adders =>
           p \in NoBlock \/ \E b \in given : b.start = p /\ b.size = call[t].size
  PROVE  Describing'
<1> USE DEF At, Goto, Set
<1>1. TypeOK /\ call[t] \in Calls
  BY CallTypes DEF BaseInv
<1>2. \A u \in Threads \ {t} : pc'[u] = pc[u] /\ call'[u] = call[u] /\ hand'[u] = hand[u]
  BY <1>1 DEF Real, TypeOK
<1>3. call'[t].op = call[t].op /\ call'[t].ret = p /\ call'[t].size = call[t].size
  BY <1>1 DEF Real, TypeOK, Calls
<1>4. pc'[t] = AfterReal(t) /\ given \subseteq hand'[t]
  BY <1>1 DEF Real, TypeOK
<1>5. call[t].op \in Adders \cup {"free", "munmap", "reallocarray"}
  BY <1>1, CallTypes, CallsAssumption DEF AllOps, Adders
<1>6. DescribesItsBlock(t)'
  BY <1>3, <1>4, <1>5 DEF DescribesItsBlock, AfterReal, Adders
<1> QED
  BY <1>2, <1>6, DescribingLocal

LEMMA DescribingRealCall ==
  ASSUME "posix_memalign" \notin MayFail, BaseInv, Describing, NEW t \in Threads, RealCall(t)
  PROVE  Describing'
<1>1. At(t, "real") /\ call[t].op # "none" /\ call[t].op # "unsupported"
  BY RealIsReal
<1>2. ASSUME NEW p \in NoBlock, Fail(t, p) PROVE Describing'
  BY <1>1, <1>2, DescribingReal DEF Fail
<1>3. ASSUME NEW taken \in SUBSET hand[t], NEW by \in {"libc", "mmap", "reallocarray"},
             Obtain(t, taken, by)
      PROVE  Describing'
  <2>1. PICK b \in Vacant(live \ taken, call[t].size, by) :
          Real(t, taken, {b}, Spans(taken \cup {b}), b.start)
    BY <1>3 DEF Obtain
  <2>2. b.size = call[t].size
    BY DEF Vacant
  <2> QED
    BY <1>1, <2>1, <2>2, DescribingReal
<1>4. Null \in NoBlock /\ AddrSpace - 1 \in NoBlock /\ {} \in SUBSET hand[t] /\ hand[t] \in SUBSET hand[t]
  BY DEF NoBlock
<1>5. CASE RealAlloc(t)
  BY <1>2, <1>3, <1>4, <1>5 DEF RealAlloc, Fail
<1>6. CASE RealMmap(t)
  BY <1>2, <1>3, <1>4, <1>6 DEF RealMmap
<1>7. CASE RealFree(t)
  BY <1>1, <1>4, <1>7, DescribingReal DEF RealFree
<1>8. CASE RealRealloc(t)
  BY <1>1, <1>2, <1>3, <1>4, <1>8, DescribingReal DEF RealRealloc
<1>9. CASE RealMunmap(t)
  <2>1. call[t].op \notin Adders
    BY <1>9 DEF RealMunmap, Adders
  <2> QED
    BY <1>1, <1>2, <1>4, <1>9, <2>1, DescribingReal DEF RealMunmap
<1> QED
  BY <1>5, <1>6, <1>7, <1>8, <1>9 DEF RealCall

LEMMA DescribingNext ==
  "posix_memalign" \notin MayFail /\ BaseInv /\ Describing /\ [Next]_vars => Describing'
<1> SUFFICES ASSUME "posix_memalign" \notin MayFail, BaseInv, Describing, [Next]_vars
             PROVE  Describing'
  OBVIOUS
<1>1. ASSUME NEW t \in Threads, Call(t) \/ Handle(t) PROVE Describing'
  BY <1>1, DescribingCall, DescribingRealCall, DescribingUpdate DEF Handle
<1>2. CASE UNCHANGED vars
  BY <1>2 DEF vars, Describing, DescribesItsBlock
<1> QED
  BY <1>1, <1>2, Zenon DEF Next, Rest

\* The segment of a live block is mapped, or too short to be placed.
LEMMA BlockPlaceable ==
  ASSUME TypeOK, BlocksApart, NEW b \in live
  PROVE  LET s == Segment(b.start, b.size)
         IN  IsLong(s) => s.start <= s.end /\ Addresses(s) \subseteq Spans(live)
<1> DEFINE s == Segment(b.start, b.size)
<1>1. b \in Block /\ b.start \in Nat /\ b.size \in Nat
  BY DEF TypeOK, Block
<1>2. b.start >= 1 /\ Last(b) <= AddrSpace - 1
  <2>1. b.start \in Span(b) /\ Last(b) \in Span(b)
    BY <1>1, SpanFacts
  <2>2. Span(b) \subseteq MmapZone \/ Span(b) \subseteq HeapZone
    BY DEF BlocksApart
  <2>3. b.start \in MmapZone \cup HeapZone /\ Last(b) \in MmapZone \cup HeapZone
    BY <2>1, <2>2
  <2>4. \A a \in MmapZone \cup HeapZone : a >= 1 /\ a <= AddrSpace - 1
    BY ZonesAssumption DEF HeapZone, MmapZone
  <2> QED
    BY <2>3, <2>4
<1>3. b.start + b.size - 1 \in 0..(AddrSpace - 1) /\ AddrSpace \in Nat
  BY <1>1, <1>2, ZonesAssumption DEF Last
<1>4. s.start = b.start /\ s.end = b.start + b.size - 1
  BY <1>3, WrapExact DEF Segment, LastAddress
<1> HIDE DEF s
<1>5. s.end - s.start + 1 = b.size /\ b.size \in 0..(AddrSpace - 1)
  BY <1>1, <1>2, <1>3, <1>4
<1>6. Length(s) = b.size
  BY <1>5, WrapExact DEF Length
<1>7. IsLong(s) => b.size > 0
  BY <1>1, <1>6, CallsAssumption DEF IsLong
<1>8. b.size > 0 => s.start <= s.end /\ Addresses(s) = Span(b)
  BY <1>1, <1>4 DEF Addresses, Span, Last
<1>9. IsLong(s) => s.start <= s.end /\ Addresses(s) \subseteq Spans(live)
  BY <1>7, <1>8 DEF Spans
<1> QED
  BY <1>9 DEF s

\* The segment that stands for no block of size 0 is short: both ends wrap.
LEMMA EmptySegmentIsShort ==
  ASSUME NEW p \in NoBlock
  PROVE  ~IsLong(Segment(p, 0))
<1> DEFINE N == AddrSpace
           s == Segment(p, 0)
<1>1. N \in Nat /\ N > 1 /\ PlaceMin \in Nat
  BY ZonesAssumption, CallsAssumption
<1>2. (-1) % N = N - 1 /\ N % N = 0 /\ (N - 2) % N = N - 2 /\ 0 % N = 0
  <2> HIDE DEF N
  <2> QED
    BY <1>1
<1>3. s.start = p /\ s.end = (p + 0 - 1) % N
  BY DEF Segment, LastAddress, Wrap
<1>4. Length(s) = (s.end - s.start + 1) % N
  BY DEF Length, Wrap
<1>5. p = 0 \/ p = N - 1
  BY DEF NoBlock, Null
<1> HIDE DEF s, N
<1>6. Length(s) = 0
  <2>1. CASE p = 0
    <3>1. p + 0 - 1 = -1
      BY <2>1
    <3>2. s.end - s.start + 1 = N
      BY <1>1, <1>2, <1>3, <2>1, <3>1
    <3> QED
      BY <1>2, <1>4, <3>2
  <2>2. CASE p = N - 1
    <3>1. p + 0 - 1 = N - 2
      BY <1>1, <2>2
    <3>2. s.end - s.start + 1 = 0
      BY <1>1, <1>2, <1>3, <2>2, <3>1
    <3> QED
      BY <1>2, <1>4, <3>2
  <2> QED
    BY <1>5, <2>1, <2>2
<1> QED
  BY <1>1, <1>6 DEF IsLong, s

LEMMA PlacementFailsNext ==
  BaseInv /\ Describing /\ PlacementFailsOnlyWithoutBlock /\ [Next]_vars =>
    PlacementFailsOnlyWithoutBlock'
<1> SUFFICES ASSUME BaseInv, Describing, PlacementFailsOnlyWithoutBlock, [Next]_vars,
                    died', "unsupported" \notin Ops
             PROVE  \E t \in Threads :
                      At(t, "return")' /\ call'[t].ret \in NoBlock /\ call'[t].size > 0
  BY DEF PlacementFailsOnlyWithoutBlock, NoBlock
<1>1. CASE UNCHANGED vars
  BY <1>1 DEF vars, PlacementFailsOnlyWithoutBlock, NoBlock, At
<1>2. ASSUME ~died, NEW t \in Threads, Call(t) \/ Handle(t)
      PROVE  At(t, "return")' /\ call'[t].ret \in NoBlock /\ call'[t].size > 0
  <2>1. PlaceSegment(t)
    <3>1. ~Call(t)
      BY <1>2 DEF Call, CallAlloc, CallMmap, CallFree, CallRealloc, CallMunmap, CallUnsupported, Enter
    <3>2. ~RealCall(t)
      BY <1>2, RealIsReal DEF Real
    <3>3. ~UpdateHeap(t) /\ ~Classify(t) /\ ~Return(t) /\ ~AcquireLock(t) /\ ~RemoveSegments(t)
          /\ ~InsertSegment(t)
      BY <1>2 DEF UpdateHeap, ReadBreak, CompareHeapEnd, ReadBreakAgain, StoreHeapEnd, Classify, Return,
         AcquireLock, RemoveSegments, InsertSegment
    <3> QED
      BY <1>2, <3>1, <3>2, <3>3 DEF Handle, UpdateList
  <2>2. TypeOK /\ BlocksApart /\ DescribesItsBlock(t)
    BY DEF BaseInv, Describing
  <2>3. pc[t] = "place" /\ call' = call /\ pc'[t] = "return"
    BY <2>1, <2>2 DEF PlaceSegment, At, Goto, TypeOK
  <2>4. ASSUME NEW b \in hand[t], b.start = call[t].ret, b.size = call[t].size PROVE FALSE
    <3>1. b \in live
      BY <2>2 DEF TypeOK
    <3> DEFINE s == Segment(b.start, b.size)
    <3>2. IsLong(s) => s.start <= s.end /\ Addresses(s) \subseteq Spans(live)
      BY <2>2, <3>1, BlockPlaceable
    <3>3. s = Segment(call[t].ret, call[t].size)
      BY <2>4
    <3> HIDE DEF s
    <3> QED
      BY <2>1, <3>2, <3>3 DEF PlaceSegment
  <2>5. call[t].op \in Adders
    BY <2>2, <2>3 DEF DescribesItsBlock
  <2>6. call[t].ret \in NoBlock
    BY <2>2, <2>3, <2>4, <2>5 DEF DescribesItsBlock
  <2>7. call[t].size # 0
    BY <2>1, <2>6, <1>2, EmptySegmentIsShort DEF PlaceSegment
  <2>8. call[t].size \in Nat
    BY <2>2, CallTypes
  <2> QED
    BY <2>3, <2>6, <2>7, <2>8 DEF At
<1> QED
  BY <1>1, <1>2 DEF Next, Rest

\* A failing mbind ends the process only after a real call that gave no block and
\* whose failure the handler did not look at.  posix_memalign does not fail here:
\* it leaves an arbitrary pointer in *memptr.
THEOREM PlacementFailsForLackOfBlock ==
  ASSUME "posix_memalign" \notin MayFail
  PROVE  Spec => []PlacementFailsOnlyWithoutBlock
<1> DEFINE I == BaseInv /\ Describing /\ PlacementFailsOnlyWithoutBlock
<1>1. Init => I
  BY BaseInvInit DEF Init, Describing, DescribesItsBlock, PlacementFailsOnlyWithoutBlock
<1>2. I /\ [Next]_vars => I'
  BY BaseInvNext, DescribingNext, PlacementFailsNext
<1> QED
  BY <1>1, <1>2, PTL DEF Spec

(***************************************************************************)
(* One thread.  With nobody else to move the break, the end of the heap    *)
(* that updateHeap stores is the break when the result is looked up in it. *)
(***************************************************************************)
OneThread == \A t, u \in Threads : t = u

\* The live blocks of the heap are below the break.
HeapBelowBreak == \A b \in live : Span(b) \cap HeapZone \subseteq 1..(brk - 1)

Updating == {"readBreak", "compare", "readAgain", "storeEnd", "classify"}

SeesBreak(t) ==
  /\ pc[t] \in {"compare", "storeEnd"} => call[t].seen = brk
  /\ pc[t] = "classify" => heapEnd = brk
  /\ pc[t] \in Updating /\ call[t].ret \in HeapZone => call[t].ret < brk
  /\ pc[t] \in {"lockInsert", "insert"} => call[t].ret \notin HeapZone
  /\ pc[t] \in {"lockRemove", "remove"} /\ call[t].op = "realloc" /\ ~call[t].isIn =>
       call[t].ret \notin HeapZone

BreakInv == HeapBelowBreak /\ \A t \in Threads : SeesBreak(t)

\* The break makes room for what is obtained.
LEMMA BreakMakesRoom ==
  ASSUME BaseInv, HeapBelowBreak, NEW t \in Threads, NEW taken \in SUBSET live,
         NEW by \in {"libc", "mmap", "reallocarray"},
         NEW b \in Vacant(live \ taken, call[t].size, by)
  PROVE  /\ brk <= BreakFor(b)
         /\ Span(b) \cap HeapZone \subseteq 1..(BreakFor(b) - 1)
         /\ b.start \in HeapZone => b.start < BreakFor(b)
         /\ by = "mmap" => b.start \notin HeapZone
<1>1. b \in Block /\ b.start \in Nat /\ Last(b) \in Nat /\ b.start \in Span(b) /\ Last(b) \in Span(b)
  <2>1. Fits({b}, live \ taken)
    BY VacantFits
  <2>2. b \in Block
    BY <2>1 DEF Fits
  <2> QED
    BY <2>2, SpanFacts
<1>2. brk \in Nat /\ brk >= 1 /\ MmapZone \cap HeapZone = {}
  <2>1. brk \in Nat /\ brk >= 1
    BY ZonesAssumption DEF BaseInv, TypeOK
  <2>2. \A a \in MmapZone : a \notin HeapZone
    BY ZonesAssumption DEF MmapZone, HeapZone
  <2> QED
    BY <2>1, <2>2
<1>3. Span(b) \subseteq MmapZone \/ (Span(b) \subseteq HeapZone /\ by # "mmap")
  <2>1. Fits({b}, live \ taken) /\ b.by = by
    BY VacantFits
  <2> QED
    BY <2>1 DEF Fits
<1>4. CASE Span(b) \subseteq 1..(brk - 1) \cup MmapZone
  <2>1. BreakFor(b) = brk
    BY <1>4 DEF BreakFor
  <2>2. Span(b) \cap HeapZone \subseteq 1..(brk - 1)
    BY <1>2, <1>4
  <2>3. b.start \in HeapZone => b.start < brk
    BY <1>1, <1>2, <2>2
  <2>4. brk <= brk
    BY <1>2
  <2> QED
    BY <1>1, <1>2, <1>3, <2>1, <2>2, <2>3, <2>4
<1>5. CASE ~(Span(b) \subseteq 1..(brk - 1) \cup MmapZone)
  <2>1. BreakFor(b) = Last(b) + 1
    BY <1>5 DEF BreakFor
  <2>2. PICK a \in Span(b) : a \notin 1..(brk - 1) \cup MmapZone
    BY <1>5
  <2>3. Span(b) \subseteq HeapZone /\ by # "mmap"
    BY <1>3, <2>2
  <2>4. a \in Nat /\ a >= 1 /\ a >= brk /\ a <= Last(b)
    BY <1>1, <1>2, <2>2, <2>3 DEF HeapZone, Span
  <2>5. Span(b) \subseteq 1..Last(b)
    BY <1>1, <2>3 DEF HeapZone, Span
  <2> QED
    BY <1>1, <1>2, <2>1, <2>3, <2>4, <2>5
<1> QED
  BY <1>4, <1>5

\* It comes down only as far as the blocks that stay allow.
LEMMA BreakStaysAbove ==
  ASSUME NEW blocks, NEW top, NEW b \in blocks, brk' \in Breaks(blocks, top)
  PROVE  Span(b) \cap HeapZone \subseteq 1..(brk' - 1)
  BY DEF Breaks, Spans

\* What a real call leaves: the break above the blocks of the heap, and above its
\* result if that is in the heap.
LEMMA RealKeepsBreak ==
  ASSUME BaseInv, HeapBelowBreak, NEW t \in Threads, RealCall(t)
  PROVE  /\ HeapBelowBreak'
         /\ call'[t].ret \in HeapZone => call'[t].ret < brk'
         /\ call[t].op = "mmap" => call'[t].ret \notin HeapZone
<1> DEFINE Above == /\ HeapBelowBreak'
                    /\ call'[t].ret \in HeapZone => call'[t].ret < brk'
                    /\ call[t].op = "mmap" => call'[t].ret \notin HeapZone
<1> SUFFICES Above
  OBVIOUS
<1>1. TypeOK /\ live \subseteq Block /\ hand[t] \subseteq live /\ brk \in Nat
  BY ZonesAssumption DEF BaseInv, TypeOK
<1>2. ASSUME NEW taken, NEW given, NEW fresh, NEW p, Real(t, taken, given, fresh, p)
      PROVE  call'[t].ret = p /\ live' = (live \ taken) \cup given
  BY <1>1, <1>2, CallTypes DEF Real, Set, TypeOK, Calls
<1>3. ASSUME NEW taken \in SUBSET hand[t], NEW by \in {"libc", "mmap", "reallocarray"},
             Obtain(t, taken, by), call[t].op = "mmap" => by = "mmap"
      PROVE  Above
  <2>1. PICK b \in Vacant(live \ taken, call[t].size, by) :
          Real(t, taken, {b}, Spans(taken \cup {b}), b.start) /\ brk' = BreakFor(b)
    BY <1>3 DEF Obtain
  <2>2. taken \in SUBSET live
    BY <1>1
  <2>3. /\ brk <= BreakFor(b)
        /\ Span(b) \cap HeapZone \subseteq 1..(BreakFor(b) - 1)
        /\ b.start \in HeapZone => b.start < BreakFor(b)
        /\ by = "mmap" => b.start \notin HeapZone
    BY <1>3, <2>1, <2>2, BreakMakesRoom
  <2>4. brk' \in Nat /\ call'[t].ret = b.start /\ live' = (live \ taken) \cup {b}
    <3>1. BreakFor(b) \in InitBrk..(HeapMax + 1)
      BY <1>3, <2>1, <2>2, VacantFits
    <3> QED
      BY <1>2, <2>1, <3>1, ZonesAssumption
  <2>5. \A c \in live : Span(c) \cap HeapZone \subseteq 1..(brk' - 1)
    BY <1>1, <2>1, <2>3, <2>4 DEF HeapBelowBreak
  <2> QED
    BY <1>3, <2>1, <2>3, <2>4, <2>5 DEF HeapBelowBreak
<1>4. ASSUME NEW p, Fail(t, p), p \in HeapZone => p < brk,
             call[t].op = "mmap" => p \notin HeapZone
      PROVE  Above
  <2>1. brk' = brk /\ live' = live /\ call'[t].ret = p
    BY <1>2, <1>4 DEF Fail
  <2> QED
    BY <1>4, <2>1 DEF HeapBelowBreak
<1>5. Null \notin HeapZone /\ AddrSpace - 1 \notin HeapZone
  BY ZonesAssumption DEF Null, HeapZone
<1>6. ASSUME Real(t, hand[t], {}, Spans(hand[t]), Null), brk' \in Breaks(live \ hand[t], brk)
      PROVE  Above
  <2>1. live' = live \ hand[t] /\ call'[t].ret = Null
    BY <1>2, <1>6
  <2> QED
    BY <1>5, <1>6, <2>1, BreakStaysAbove DEF HeapBelowBreak
<1>7. CASE RealAlloc(t)
  <2>1. ASSUME NEW b \in Held PROVE b.start \in HeapZone => b.start < brk
    <3>1. b \in live /\ b.start \in Span(b) /\ b.start \in Nat
      BY <1>1, SpanFacts DEF Held
    <3> QED
      BY <1>1, <3>1 DEF HeapBelowBreak
  <2> HIDE DEF Above
  <2>2. ASSUME NEW p \in {Null} \cup {b.start : b \in Held}, Fail(t, p) PROVE Above
    BY <1>4, <1>5, <1>7, <2>1, <2>2 DEF RealAlloc
  <2>3. ASSUME Obtain(t, {}, "libc") PROVE Above
    BY <1>3, <1>7, <2>3 DEF RealAlloc
  <2> QED
    BY <1>7, <2>2, <2>3 DEF RealAlloc
<1>8. CASE RealMmap(t)
  <2> HIDE DEF Above
  <2> QED
    BY <1>3, <1>4, <1>5, <1>8, ZonesAssumption DEF RealMmap
<1>9. CASE RealFree(t)
  BY <1>6, <1>9 DEF RealFree
<1>10. CASE RealRealloc(t)
  <2> HIDE DEF Above
  <2> QED
    BY <1>3, <1>4, <1>5, <1>6, <1>10 DEF RealRealloc
<1>11. CASE RealMunmap(t)
  <2> DEFINE rest == Remainders(hand[t], call[t].ptr, call[t].size)
             range == Range(call[t].ptr, call[t].size)
  <2>1. ASSUME UNCHANGED brk, Real(t, hand[t], rest, range, Null)
        PROVE  Above
    <3>1. At(t, "real") /\ call[t].op = "munmap"
      BY <1>11 DEF RealMunmap
    <3>2. \A r \in rest : \E b \in hand[t] : Span(r) \subseteq Span(b)
      BY <3>1, RemainderFits
    <3> HIDE DEF rest, range
    <3>3. live' = (live \ hand[t]) \cup rest /\ call'[t].ret = Null
      BY <1>2, <2>1
    <3>4. \A r \in rest : Span(r) \cap HeapZone \subseteq 1..(brk - 1)
      BY <1>1, <2>1, <3>2 DEF HeapBelowBreak
    <3>5. HeapBelowBreak'
      BY <2>1, <3>3, <3>4 DEF HeapBelowBreak
    <3> QED
      BY <1>5, <3>3, <3>5
  <2> HIDE DEF Above
  <2> QED
    BY <1>4, <1>5, <1>11, <2>1 DEF RealMunmap
<1> QED
  BY <1>7, <1>8, <1>9, <1>10, <1>11 DEF RealCall

LEMMA BreakInvUpdate ==
  ASSUME BaseInv, BreakInv, OneThread, NEW t \in Threads, UpdateHeap(t) \/ Classify(t)
  PROVE  BreakInv'
<1> USE DEF At, Goto, Set
<1>1. TypeOK /\ call[t] \in Calls /\ SeesBreak(t) /\ HeapBelowBreak /\ brk \in Nat
  BY CallTypes, ZonesAssumption DEF BaseInv, BreakInv, TypeOK
<1>2. HeapBelowBreak' /\ UNCHANGED brk
  BY <1>1 DEF HeapBelowBreak, UpdateHeap, ReadBreak, CompareHeapEnd, ReadBreakAgain, StoreHeapEnd,
     Classify
<1>3. SeesBreak(t)'
  <2>1. CASE ReadBreak(t)
    BY <1>1, <1>2, <2>1 DEF ReadBreak, SeesBreak, Updating, TypeOK, Calls
  <2>2. CASE CompareHeapEnd(t)
    BY <1>1, <1>2, <2>2 DEF CompareHeapEnd, SeesBreak, Updating, TypeOK, Calls, AfterUpdate
  <2>3. CASE ReadBreakAgain(t)
    BY <1>1, <1>2, <2>3 DEF ReadBreakAgain, SeesBreak, Updating, TypeOK, Calls
  <2>4. CASE StoreHeapEnd(t)
    BY <1>1, <1>2, <2>4 DEF StoreHeapEnd, SeesBreak, Updating, TypeOK, Calls, AfterUpdate
  <2>5. CASE Classify(t)
    <3>1. call[t].ret \in HeapZone => InHeap(call[t].ret)
      BY <1>1, <2>5 DEF Classify, SeesBreak, Updating, InHeap, Contains, HeapZone
    <3> QED
      BY <1>1, <1>2, <2>5, <3>1 DEF Classify, SeesBreak, Updating, TypeOK, Calls, AfterClassify
  <2> QED
    BY <2>1, <2>2, <2>3, <2>4, <2>5 DEF UpdateHeap
<1> QED
  BY <1>2, <1>3 DEF BreakInv, OneThread

LEMMA BreakInvUpdateList ==
  ASSUME BaseInv, BreakInv, OneThread, NEW t \in Threads, UpdateList(t) \/ Return(t)
  PROVE  BreakInv'
<1> USE DEF At, Goto, Set
<1>1. TypeOK /\ call[t] \in Calls /\ SeesBreak(t) /\ HeapBelowBreak /\ UNCHANGED live
  BY CallTypes DEF BaseInv, BreakInv, UpdateList, AcquireLock, RemoveSegments, InsertSegment,
     PlaceSegment, Return
<1>2. HeapBelowBreak'
  <2>1. UNCHANGED brk \/ NestedCalls(t)
    BY DEF UpdateList, AcquireLock, RemoveSegments, InsertSegment, PlaceSegment, Return
  <2> QED
    BY <1>1, <2>1, BreakStaysAbove DEF NestedCalls, HeapBelowBreak
<1>3. SeesBreak(t)'
  <2>1. CASE Return(t)
    BY <1>1, <2>1 DEF Return, SeesBreak, Updating, TypeOK
  <2>2. CASE UpdateList(t)
    BY <1>1, <2>2 DEF UpdateList, AcquireLock, RemoveSegments, AfterRemove, InsertSegment,
       PlaceSegment, SeesBreak, Updating, TypeOK
  <2> QED
    BY <2>1, <2>2
<1> QED
  BY <1>2, <1>3 DEF BreakInv, OneThread

LEMMA BreakInvCall ==
  ASSUME BaseInv, BreakInv, OneThread, NEW t \in Threads, Call(t)
  PROVE  BreakInv'
<1> USE DEF At, Goto, Set
<1>1. UNCHANGED <<brk, live>>
  BY DEF Call, CallAlloc, CallMmap, CallFree, CallRealloc, CallMunmap, CallUnsupported, Enter
<1>2. CASE CallUnsupported(t)
  BY <1>2 DEF CallUnsupported, BreakInv, HeapBelowBreak, SeesBreak
<1>3. CASE ~CallUnsupported(t)
  <2>1. \E op, ptr, size : Enter(t, op, ptr, size)
    BY <1>3 DEF Call, CallAlloc, CallMmap, CallFree, CallRealloc, CallMunmap
  <2>2. pc'[t] = "real"
    BY <2>1 DEF Enter, BaseInv, TypeOK
  <2> QED
    BY <1>1, <2>2 DEF BreakInv, HeapBelowBreak, SeesBreak, Updating, OneThread
<1> QED
  BY <1>2, <1>3

LEMMA BreakInvRealCall ==
  ASSUME BaseInv, BreakInv, OneThread, NEW t \in Threads, RealCall(t)
  PROVE  BreakInv'
<1>1. /\ HeapBelowBreak'
      /\ call'[t].ret \in HeapZone => call'[t].ret < brk'
      /\ call[t].op = "mmap" => call'[t].ret \notin HeapZone
  BY RealKeepsBreak DEF BreakInv
<1>2. /\ pc'[t] = AfterReal(t)
      /\ \E p : call'[t] = [call[t] EXCEPT !.ret = p]
  BY RealMoves DEF BaseInv
<1>3. call'[t].op = call[t].op
  BY <1>2, CallTypes DEF BaseInv, Calls
<1>4. SeesBreak(t)'
  BY <1>1, <1>2, <1>3 DEF AfterReal, SeesBreak, Updating
<1> QED
  BY <1>1, <1>4 DEF BreakInv, OneThread

LEMMA BreakInvNext == OneThread /\ BaseInv /\ BreakInv /\ [Next]_vars => BreakInv'
<1> SUFFICES ASSUME OneThread, BaseInv, BreakInv, [Next]_vars PROVE BreakInv'
  OBVIOUS
<1>1. ASSUME NEW t \in Threads, Call(t) \/ Handle(t) PROVE BreakInv'
  BY <1>1, BreakInvCall, BreakInvRealCall, BreakInvUpdate, BreakInvUpdateList DEF Handle
<1>2. CASE UNCHANGED vars
  BY <1>2 DEF vars, BreakInv, HeapBelowBreak, SeesBreak
<1> QED
  BY <1>1, <1>2, Zenon DEF Next, Rest

LEMMA BreakInvInit == Init => BreakInv
<1> SUFFICES ASSUME Init PROVE BreakInv
  OBVIOUS
<1>1. ASSUME NEW b \in live PROVE Span(b) \cap HeapZone \subseteq 1..(brk - 1)
  <2>1. Span(b) \subseteq MmapZone \/ Span(b) \subseteq 1..(InitBrk - 1)
    BY InitBlocksAssumption DEF Init
  <2>2. \A a \in MmapZone : a \notin HeapZone
    BY ZonesAssumption DEF MmapZone, HeapZone
  <2> QED
    BY <2>1, <2>2 DEF Init
<1> QED
  BY <1>1 DEF Init, BreakInv, HeapBelowBreak, SeesBreak, Updating

\* With one thread, what a handler adds to the list is never a heap block: the end
\* of the heap it compares with is the break of that moment.  (With two threads the
\* break may move between the two: the run tracker_heap_race shows it.)
THEOREM NewRegionsAreOutsideHeap ==
  ASSUME OneThread
  PROVE  Spec => []NewRegionsOutsideHeap
<1>1. BreakInv => NewRegionsOutsideHeap
  BY DEF BreakInv, SeesBreak, NewRegionsOutsideHeap, At
<1>2. Init => BaseInv /\ BreakInv
  BY BaseInvInit, BreakInvInit
<1>3. BaseInv /\ BreakInv /\ [Next]_vars => (BaseInv /\ BreakInv)'
  BY BaseInvNext, BreakInvNext
<1> QED
  BY <1>1, <1>2, <1>3, PTL DEF Spec

(***************************************************************************)
(* The refinement of RegionList: one thread whose calls succeed.  Then the *)
(* list is exact at every step, up to the segment the call under way is    *)
(* going to add and those it is going to remove.                           *)
(***************************************************************************)

\* The mappings of /proc/self/maps are one block each when the library is loaded.
SeparateMappings ==
  \A b, c \in InitBlocks :
    b.start \in MmapZone /\ c.start \in MmapZone =>
      b.size > 0 /\ (b # c => Last(b) + 1 \notin Span(c))

Alone ==
  /\ OneThread
  /\ MayFail = {}
  /\ ~PartialUnmap /\ ~AnyUnmap
  /\ 0 \notin Sizes
  /\ "reallocarray" \notin Ops
  /\ SeparateMappings

\* The segment that call t is going to add.
Mine(t) ==
  IF /\ pc[t] \notin {"idle", "real", "place", "return"}
     /\ call[t].op \in Adders
     /\ call[t].ret \in MmapZone
  THEN {Segment(call[t].ret, call[t].size)}
  ELSE {}

\* The list, without the segments that call t is going to remove.
ListAfterRemoval(t) == IF RemovalAhead(t) THEN Kept(t) ELSE segments

ListExact == \A t \in Threads : ListAfterRemoval(t) = Regions \ Mine(t)

SegmentsApart ==
  \A s, q \in segments : s # q => Addresses(s) \cap Addresses(q) = {}

BlocksFilled == \A b \in live : b.start \in MmapZone => b.size > 0

\* What the only call under way knows.
Acts(t) ==
  /\ pc[t] \in {"remove", "insert", "place"} => lock = t
  /\ pc[t] \in {"lockRemove", "remove"} => RemovalAhead(t)
  /\ At(t, "real") =>
       /\ call[t].op \in {"free", "realloc"} /\ hand[t] = {} => call[t].ptr = Null
       /\ call[t].op = "munmap" =>
            \E b : hand[t] = {b} /\ b.start = call[t].ptr /\ b.size = call[t].size
       /\ call[t].op \in Adders => call[t].size > 0
  /\ pc[t] \notin {"idle", "real"} /\ call[t].op \in Adders =>
       call[t].ret \in HeapZone \cup MmapZone
  /\ pc[t] \in {"lockRemove", "remove"} /\ call[t].op = "realloc" /\ call[t].isIn =>
       call[t].ret \notin MmapZone

AloneInv ==
  /\ ListExact
  /\ SegmentsApart
  /\ BlocksFilled
  /\ \A t \in Threads : Acts(t)

\* Blocks as libc and the kernel lay them out, none of them empty outside the heap.
Laid(blocks) ==
  /\ blocks \subseteq Block
  /\ \A b \in blocks : b.start \in MmapZone => Span(b) \subseteq MmapZone /\ b.size > 0
  /\ \A b, c \in blocks : b # c => Span(b) \cap Span(c) = {}

LEMMA LiveLaid == BaseInv /\ BlocksFilled => Laid(live)
<1> SUFFICES ASSUME BaseInv, BlocksFilled, NEW b \in live, b.start \in MmapZone
             PROVE  Span(b) \subseteq MmapZone
  BY DEF Laid, BaseInv, TypeOK, BlocksApart, BlocksFilled
<1>1. b.start \in Span(b)
  BY SpanFacts DEF BaseInv, TypeOK
<1>2. b.start \notin HeapZone
  BY ZonesAssumption DEF HeapZone, MmapZone
<1> QED
  BY <1>1, <1>2 DEF BaseInv, BlocksApart

\* The segment of a block outside the heap.
LEMMA RegionOfBlock ==
  ASSUME NEW b \in Block, Span(b) \subseteq MmapZone, b.size > 0
  PROVE  LET s == Segment(b.start, b.size)
         IN  /\ s \in RegionSet /\ Addresses(s) = Span(b)
             /\ s.start = b.start /\ s.end = Last(b)
             /\ \A a \in Nat : Contains(s, a) <=> a \in Span(b)
<1>1. b.start \in Nat /\ b.size \in Nat /\ b.start \in MmapZone /\ Last(b) \in MmapZone
  BY SpanFacts
<1>2. Last(b) = b.start + b.size - 1
  BY DEF Last
<1>3. b.start + b.size - 1 \in 0..(AddrSpace - 1) /\ b.start <= Last(b)
  BY <1>1, <1>2, ZonesAssumption DEF MmapZone
<1>4. LastAddress(b.start, b.size) = Last(b)
  BY <1>2, <1>3, WrapExact DEF LastAddress
<1> DEFINE s == Segment(b.start, b.size)
<1>5. s = [start |-> b.start, end |-> Last(b)]
  BY <1>4 DEF Segment
<1>6. s.start = b.start /\ s.end = Last(b) /\ s \in [start : MmapZone, end : MmapZone]
  BY <1>1, <1>5
<1> HIDE DEF s
<1>7. s \in RegionSet /\ Addresses(s) = Span(b)
  BY <1>3, <1>6 DEF RegionSet, Addresses, Span
<1>8. Last(b) \in Nat
  BY <1>1, SpanFacts
<1>9. \A a \in Nat : Contains(s, a) <=> a \in Span(b)
  BY <1>1, <1>6, <1>8 DEF Contains, Span
<1> QED
  BY <1>6, <1>7, <1>9 DEF s

\* Different blocks are different regions.
LEMMA RegionsDiffer ==
  ASSUME NEW blocks, Laid(blocks), NEW b \in blocks, NEW c \in blocks,
         b.start \in MmapZone, c.start \in MmapZone,
         Segment(b.start, b.size) = Segment(c.start, c.size)
  PROVE  b = c
<1>1. Span(b) = Addresses(Segment(b.start, b.size)) /\ Span(c) = Addresses(Segment(c.start, c.size))
  BY RegionOfBlock DEF Laid
<1>2. b.start \in Span(b)
  BY SpanFacts DEF Laid
<1> QED
  BY <1>1, <1>2 DEF Laid

LEMMA RegionsMinus ==
  ASSUME NEW blocks, Laid(blocks), NEW some \in SUBSET blocks
  PROVE  RegionsOf(blocks \ some) = RegionsOf(blocks) \ RegionsOf(some)
  BY RegionsDiffer DEF RegionsOf

LEMMA RegionsWithout ==
  ASSUME NEW blocks, Laid(blocks), NEW a \in Nat
  PROVE  {s \in RegionsOf(blocks) : ~Contains(s, a)} = RegionsOf({b \in blocks : a \notin Span(b)})
<1>1. \A b \in blocks : b.start \in MmapZone =>
        (Contains(Segment(b.start, b.size), a) <=> a \in Span(b))
  BY RegionOfBlock DEF Laid
<1> QED
  BY <1>1 DEF RegionsOf

LEMMA RegionsAreApart ==
  ASSUME NEW blocks, Laid(blocks), NEW s \in RegionsOf(blocks), NEW q \in RegionsOf(blocks), s # q
  PROVE  Addresses(s) \cap Addresses(q) = {}
<1>1. PICK b \in blocks : b.start \in MmapZone /\ s = Segment(b.start, b.size)
  BY DEF RegionsOf
<1>2. PICK c \in blocks : c.start \in MmapZone /\ q = Segment(c.start, c.size)
  BY DEF RegionsOf
<1>3. Addresses(s) = Span(b) /\ Addresses(q) = Span(c)
  BY <1>1, <1>2, RegionOfBlock DEF Laid
<1> QED
  BY <1>1, <1>2, <1>3 DEF Laid

LEMMA RegionsInSet ==
  ASSUME NEW blocks, Laid(blocks) PROVE RegionsOf(blocks) \subseteq RegionSet
  BY RegionOfBlock DEF RegionsOf, Laid

\* No block has the address 0.
LEMMA NullInNoSpan ==
  ASSUME BaseInv, NEW b \in live PROVE Null \notin Span(b)
  BY ZonesAssumption DEF BaseInv, BlocksApart, Null, HeapZone, MmapZone

(***************************************************************************)
(* The real call of a program that is alone.                               *)
(***************************************************************************)
Releasers == {"free", "realloc", "munmap"}

\* It takes the block it was given, if it was, and gives one block, if it is to.
TakesAndGives(t, taken, given) ==
  /\ taken = IF call[t].op \in Releasers THEN hand[t] ELSE {}
  /\ \A b, c \in taken : b = c
  /\ IF call[t].op \in Adders
     THEN \E b : given = {b} /\ b.start = call'[t].ret /\ b.size = call[t].size
     ELSE given = {}
  /\ \A b \in given : \A c \in live \ taken : b # c
  /\ live' = (live \ taken) \cup given
  /\ call[t].op \in Releasers => {b \in live : call[t].ptr \notin Span(b)} = live \ taken

\* The blocks a releasing call holds are those at its pointer.
LEMMA HandIsBlockAtPointer ==
  ASSUME BaseInv, NEW t \in Threads, Acts(t), At(t, "real"), call[t].op \in Releasers
  PROVE  /\ \A b, c \in hand[t] : b = c
         /\ {b \in live : call[t].ptr \notin Span(b)} = live \ hand[t]
<1>1. \A b \in hand[t] : call[t].ptr \in Span(b) /\ b \in live
  <2> SUFFICES ASSUME NEW b \in hand[t] PROVE call[t].ptr \in Span(b) /\ b \in live
    OBVIOUS
  <2>1. b \in live /\ b.start \in Span(b)
    BY SpanFacts DEF BaseInv, TypeOK
  <2>2. CASE call[t].op = "munmap"
    BY <2>1, <2>2 DEF Acts
  <2>3. CASE call[t].op # "munmap"
    BY <2>1, <2>3 DEF BaseInv, ReleasesItsBlock, Releasers
  <2> QED
    BY <2>2, <2>3
<1>2. \A b, c \in live : call[t].ptr \in Span(b) /\ call[t].ptr \in Span(c) => b = c
  BY DEF BaseInv, BlocksApart
<1>3. hand[t] = {} => call[t].ptr = Null
  BY DEF Acts, Releasers
<1>4. hand[t] = {} => \A b \in live : call[t].ptr \notin Span(b)
  BY <1>3, NullInNoSpan
<1> QED
  BY <1>1, <1>2, <1>4

LEMMA RealTakesAndGives ==
  ASSUME Alone, BaseInv, NEW t \in Threads, Acts(t), RealCall(t)
  PROVE  \E taken \in SUBSET hand[t] : \E given : TakesAndGives(t, taken, given)
<1>1. /\ At(t, "real") /\ {} \in SUBSET hand[t] /\ hand[t] \in SUBSET hand[t] /\ TypeOK
      /\ hand[t] \in SUBSET live
  BY DEF RealCall, RealAlloc, RealMmap, RealFree, RealRealloc, RealMunmap, BaseInv, TypeOK
<1>2. ASSUME NEW p PROVE ~Fail(t, p)
  BY DEF Alone, Fail
<1>3. ASSUME NEW taken, NEW given, NEW fresh, NEW p, Real(t, taken, given, fresh, p)
      PROVE  call'[t].ret = p /\ live' = (live \ taken) \cup given
  BY <1>1, <1>3, CallTypes DEF Real, Set, TypeOK, Calls
<1>4. ASSUME NEW taken \in SUBSET hand[t], NEW by \in {"libc", "mmap", "reallocarray"},
             Obtain(t, taken, by), call[t].op \in Adders,
             taken = IF call[t].op \in Releasers THEN hand[t] ELSE {}
      PROVE  \E given : TakesAndGives(t, taken, given)
  <2>1. PICK b \in Vacant(live \ taken, call[t].size, by) :
          Real(t, taken, {b}, Spans(taken \cup {b}), b.start)
    BY <1>4 DEF Obtain
  <2>2. Fits({b}, live \ taken) /\ b.size = call[t].size
    BY <1>1, <1>4, <2>1, VacantFits
  <2>3. b \in Block /\ \A c \in live \ taken : b # c
    BY <2>2, SpanFacts DEF Fits
  <2>4. call'[t].ret = b.start /\ live' = (live \ taken) \cup {b}
    BY <1>3, <2>1
  <2>5. /\ \A c, d \in taken : c = d
        /\ call[t].op \in Releasers => {c \in live : call[t].ptr \notin Span(c)} = live \ taken
    BY <1>1, <1>4, HandIsBlockAtPointer
  <2>6. TakesAndGives(t, taken, {b})
    BY <1>4, <2>2, <2>3, <2>4, <2>5 DEF TakesAndGives
  <2> QED
    BY <2>6
<1>5. ASSUME live' = live \ hand[t], call[t].op \in {"free", "munmap"}
      PROVE  TakesAndGives(t, hand[t], {})
  BY <1>1, <1>5, HandIsBlockAtPointer DEF TakesAndGives, Releasers, Adders
<1>6. CASE RealAlloc(t)
  BY <1>1, <1>2, <1>4, <1>6 DEF RealAlloc, Adders, Releasers
<1>7. CASE RealMmap(t)
  BY <1>1, <1>2, <1>4, <1>7 DEF RealMmap, Adders, Releasers
<1>8. CASE RealFree(t)
  <2>1. live' = live \ hand[t] /\ call[t].op = "free"
    BY <1>3, <1>8 DEF RealFree
  <2> QED
    BY <1>1, <1>5, <2>1
<1>9. CASE RealRealloc(t)
  <2>1. call[t].op = "realloc"
    BY <1>1, <1>9, CallTypes DEF RealRealloc, Alone
  <2>2. call[t].size # 0
    BY <1>1, <2>1, CallTypes DEF Acts, Adders
  <2>3. Obtain(t, hand[t], "libc")
    BY <1>2, <1>9, <2>1, <2>2 DEF RealRealloc
  <2> QED
    BY <1>1, <1>4, <2>1, <2>3 DEF Adders, Releasers
<1>10. CASE RealMunmap(t)
  <2>1. /\ call[t].op = "munmap"
        /\ Real(t, hand[t], Remainders(hand[t], call[t].ptr, call[t].size),
                Range(call[t].ptr, call[t].size), Null)
    BY <1>2, <1>10 DEF RealMunmap
  <2>2. PICK b : hand[t] = {b} /\ b.start = call[t].ptr /\ b.size = call[t].size
    BY <1>1, <2>1 DEF Acts
  <2>3. b.start \in Nat /\ b.size \in Nat
    BY <1>1, <2>2, CallTypes
  <2>4. Remainders(hand[t], call[t].ptr, call[t].size) = {}
    <3>1. call[t].ptr - b.start = 0 /\ b.start + b.size - (call[t].ptr + call[t].size) = 0
      BY <2>2, <2>3
    <3>2. Remainder(b, call[t].ptr, call[t].size) = {}
      BY <3>1 DEF Remainder
    <3> QED
      BY <2>2, <3>2 DEF Remainders
  <2>5. live' = live \ hand[t]
    BY <1>3, <2>1, <2>4
  <2> QED
    BY <1>1, <1>5, <2>1, <2>5
<1> QED
  BY <1>6, <1>7, <1>8, <1>9, <1>10 DEF RealCall

\* What the real call does to the regions, and to the list the call will leave.
LEMMA RealRegions ==
  ASSUME Alone, IInv, IInv', AloneInv, NEW t \in Threads, RealCall(t)
  PROVE  /\ segments = Regions /\ UNCHANGED segments
         /\ \A s, q \in Regions \ Regions' : s = q
         /\ \A s, q \in Regions' \ Regions : s = q
         /\ Regions' \subseteq RegionSet
         /\ BlocksFilled'
         /\ ListAfterRemoval(t)' = Regions' \ Mine(t)'
<1>1. /\ TypeOK /\ BaseInv /\ BaseInv' /\ Acts(t) /\ BlocksFilled /\ ReleasesItsBlock(t)
      /\ AddsItsBlock(t)'
  BY DEF IInv, BaseInv, AloneInv
<1>2. At(t, "real") /\ call[t].op # "none" /\ call[t].op # "unsupported" /\ UNCHANGED segments
  BY RealIsReal DEF Real
<1>3. segments = Regions
  BY <1>2 DEF AloneInv, ListExact, ListAfterRemoval, RemovalAhead, Mine, At
<1>4. /\ pc'[t] = AfterReal(t)
      /\ \E p : call'[t] = [call[t] EXCEPT !.ret = p]
  BY <1>1, RealMoves
<1>5. /\ call'[t].op = call[t].op /\ call'[t].ptr = call[t].ptr
      /\ call'[t].wasIn = call[t].wasIn /\ call'[t].size = call[t].size
  BY <1>1, <1>4, CallTypes DEF Calls
<1>6. PICK taken, given : taken \in SUBSET hand[t] /\ TakesAndGives(t, taken, given)
  BY <1>1, RealTakesAndGives
<1>7. BlocksFilled'
  <2> SUFFICES ASSUME NEW b \in live', b.start \in MmapZone PROVE b.size > 0
    BY DEF BlocksFilled
  <2>1. CASE b \in live
    BY <1>1, <2>1 DEF BlocksFilled
  <2>2. CASE b \in given
    BY <1>1, <1>2, <1>6, <2>2 DEF TakesAndGives, Acts
  <2> QED
    BY <1>6, <2>1, <2>2 DEF TakesAndGives
<1>8. Laid(live) /\ Laid(live')
  <2>1. Laid(live)
    BY <1>1, LiveLaid
  <2>2. (BaseInv /\ BlocksFilled => Laid(live))'
    BY LiveLaid, PTL
  <2> QED
    BY <1>1, <1>7, <2>1, <2>2 DEF Laid
<1> DEFINE rest == RegionsOf(live \ taken)
<1>9. rest = Regions \ RegionsOf(taken)
  <2>1. taken \in SUBSET live
    BY <1>1, <1>6 DEF TypeOK
  <2> QED
    BY <1>8, <2>1, RegionsMinus DEF Regions
<1>10. rest = Regions' \ RegionsOf(given)
  <2>1. given \in SUBSET live' /\ live' \ given = live \ taken
    BY <1>6 DEF TakesAndGives
  <2>2. RegionsOf(live' \ given) = RegionsOf(live') \ RegionsOf(given)
    BY <1>8, <2>1, RegionsMinus
  <2> QED
    BY <2>1, <2>2 DEF Regions, RegionsOf
<1>11. /\ \A s, q \in RegionsOf(taken) : s = q
       /\ \A s, q \in RegionsOf(given) : s = q
  <2>1. \A b, c \in given : b = c
    BY <1>6 DEF TakesAndGives
  <2>2. \A b, c \in taken : b = c
    BY <1>6 DEF TakesAndGives
  <2> QED
    BY <2>1, <2>2 DEF RegionsOf
<1>12. Regions' \subseteq RegionSet
  <2>1. RegionsOf(live') \subseteq RegionSet
    BY <1>8, RegionsInSet
  <2> QED
    BY <2>1 DEF Regions, RegionsOf
<1>13. Regions' \ Mine(t)' = rest
  <2>1. CASE call[t].op \in Adders
    <3>1. PICK b : given = {b} /\ b.start = call'[t].ret /\ b.size = call[t].size
      BY <1>6, <2>1 DEF TakesAndGives
    <3>2. pc'[t] \notin {"idle", "real", "place", "return"}
      BY <1>4, <2>1 DEF AfterReal, Adders
    <3>3. Mine(t)' = RegionsOf(given)
      BY <1>5, <2>1, <3>1, <3>2 DEF Mine, RegionsOf
    <3> QED
      BY <1>10, <3>3
  <2>2. CASE call[t].op \notin Adders
    <3>1. given = {}
      BY <1>6, <2>2 DEF TakesAndGives
    <3>2. Mine(t)' = {} /\ RegionsOf(given) = {}
      BY <1>5, <2>2, <3>1 DEF Mine, RegionsOf
    <3> QED
      BY <1>10, <3>2
  <2> QED
    BY <2>1, <2>2
<1>14. ListAfterRemoval(t)' = rest
  <2>1. CASE RemovalAhead(t)'
    <3>1. call[t].op \in Releasers /\ call[t].ptr \in Nat
      BY <1>1, <1>5, <2>1, CallTypes DEF RemovalAhead, Releasers
    <3>2. {s \in Regions : ~Contains(s, call[t].ptr)} =
            RegionsOf({b \in live : call[t].ptr \notin Span(b)})
      BY <1>8, <3>1, RegionsWithout DEF Regions
    <3>3. {b \in live : call[t].ptr \notin Span(b)} = live \ taken
      BY <1>6, <3>1 DEF TakesAndGives
    <3>4. Kept(t)' = {s \in Regions : ~Contains(s, call[t].ptr)}
      BY <1>2, <1>3, <1>5 DEF Kept, Contains
    <3> QED
      BY <2>1, <3>2, <3>3, <3>4 DEF ListAfterRemoval
  <2>2. CASE ~RemovalAhead(t)'
    <3>1. RegionsOf(taken) = {}
      <4>1. CASE call[t].op \notin Releasers
        BY <1>6, <4>1 DEF TakesAndGives, RegionsOf
      <4>2. CASE call[t].op \in Releasers
        <5>1. pc'[t] \in {"readBreak", "lockRemove"}
          BY <1>4, <4>2 DEF AfterReal, Releasers
        <5>2. call[t].wasIn
          BY <1>5, <2>2, <4>2, <5>1 DEF RemovalAhead, Releasers
        <5>3. \A b \in taken : b.start = call[t].ptr
          BY <1>1, <1>2, <1>6, <4>2, <5>2 DEF ReleasesItsBlock, Releasers
        <5> QED
          BY <1>1, <5>2, <5>3 DEF ReleasesItsBlock, RegionsOf
      <4> QED
        BY <4>1, <4>2
    <3> QED
      BY <1>2, <1>3, <1>9, <2>2, <3>1 DEF ListAfterRemoval
  <2> QED
    BY <2>1, <2>2
<1> HIDE DEF rest
<1> QED
  BY <1>2, <1>3, <1>7, <1>9, <1>10, <1>11, <1>12, <1>13, <1>14

LEMMA ApartWhenExact ==
  BaseInv /\ BlocksFilled /\ segments = Regions => SegmentsApart
<1> SUFFICES ASSUME BaseInv, BlocksFilled, segments = Regions PROVE SegmentsApart
  OBVIOUS
<1>1. Laid(live)
  BY LiveLaid
<1> QED
  BY <1>1, RegionsAreApart DEF SegmentsApart, Regions

LEMMA AloneRealCall ==
  ASSUME Alone, IInv, IInv', Describing, AloneInv, NEW t \in Threads, RealCall(t)
  PROVE  AloneInv'
<1>1. /\ segments = Regions /\ UNCHANGED segments /\ BlocksFilled'
      /\ ListAfterRemoval(t)' = Regions' \ Mine(t)'
  BY RealRegions
<1>2. SegmentsApart'
  BY <1>1 DEF AloneInv, SegmentsApart
<1>3. /\ At(t, "real") /\ call[t].op # "none" /\ call[t].op # "unsupported"
      /\ TypeOK /\ BaseInv /\ BaseInv' /\ Acts(t)
  BY RealIsReal DEF IInv, BaseInv, AloneInv
<1>4. /\ pc'[t] = AfterReal(t)
      /\ \E p : call'[t] = [call[t] EXCEPT !.ret = p]
  BY <1>3, RealMoves
<1>5. call'[t].op = call[t].op /\ call'[t].wasIn = call[t].wasIn
  BY <1>3, <1>4, CallTypes DEF Calls
<1>6. call[t].op \in Adders => call'[t].ret \in HeapZone \cup MmapZone
  <2> SUFFICES ASSUME call[t].op \in Adders PROVE call'[t].ret \in HeapZone \cup MmapZone
    OBVIOUS
  <2>1. PICK taken, given : taken \in SUBSET hand[t] /\ TakesAndGives(t, taken, given)
    BY <1>3, RealTakesAndGives
  <2>2. PICK b : b \in live' /\ b.start = call'[t].ret
    BY <2>1 DEF TakesAndGives
  <2>3. b.start \in Span(b)
    BY <1>3, <2>2, SpanFacts DEF BaseInv, TypeOK
  <2> QED
    BY <1>3, <2>2, <2>3 DEF BaseInv, BlocksApart
<1>7. pc'[t] = "lockRemove" => RemovalAhead(t)'
  <2> SUFFICES ASSUME pc'[t] = "lockRemove" PROVE RemovalAhead(t)'
    OBVIOUS
  <2>1. (call[t].op = "free" /\ ~call[t].wasIn) \/ call[t].op = "munmap"
    BY <1>4 DEF AfterReal
  <2>2. call[t].op = "munmap" => ~call[t].wasIn
    BY <1>3 DEF BaseInv, ReleasesItsBlock
  <2> QED
    BY <1>5, <2>1, <2>2 DEF RemovalAhead
<1>8. pc'[t] \in {"readBreak", "lockRemove", "lockInsert", "return"}
      /\ (pc'[t] = "lockRemove" => call[t].op \in {"free", "munmap"})
  BY <1>4 DEF AfterReal
<1>9. Acts(t)'
  BY <1>5, <1>6, <1>7, <1>8 DEF Acts, At
<1> QED
  BY <1>1, <1>2, <1>9 DEF AloneInv, ListExact, Alone, OneThread

LEMMA AloneUpdate ==
  ASSUME Alone, IInv, BreakInv, AloneInv, NEW t \in Threads, UpdateHeap(t) \/ Classify(t)
  PROVE  AloneInv' /\ UNCHANGED <<segments, Regions>>
<1> USE DEF At, Goto, Set
<1>1. /\ TypeOK /\ call[t] \in Calls /\ Acts(t) /\ AddsItsBlock(t) /\ BlocksFilled
      /\ SegmentsApart /\ ListAfterRemoval(t) = Regions \ Mine(t)
  BY CallTypes DEF IInv, AloneInv, ListExact
<1>2. UNCHANGED <<live, hand, segments, lock>>
  BY DEF UpdateHeap, ReadBreak, CompareHeapEnd, ReadBreakAgain, StoreHeapEnd, Classify
<1>3. BlocksFilled' /\ SegmentsApart' /\ UNCHANGED Regions
  BY <1>1, <1>2 DEF BlocksFilled, SegmentsApart, Regions, RegionsOf
<1>4. /\ call'[t].op = call[t].op /\ call'[t].ptr = call[t].ptr /\ call'[t].ret = call[t].ret
      /\ call'[t].size = call[t].size /\ call'[t].wasIn = call[t].wasIn
  BY <1>1 DEF TypeOK, Calls, UpdateHeap, ReadBreak, CompareHeapEnd, ReadBreakAgain, StoreHeapEnd,
     Classify
<1>5. Kept(t)' = Kept(t)
  BY <1>2, <1>4 DEF Kept, Contains
<1>6. CASE UpdateHeap(t)
  <2>1. /\ pc[t] \in {"readBreak", "compare", "readAgain", "storeEnd"}
        /\ pc'[t] \in Updating \cup {"return"}
        /\ pc'[t] = "return" => call[t].op = "free"
    BY <1>1, <1>6 DEF TypeOK, UpdateHeap, ReadBreak, CompareHeapEnd, ReadBreakAgain, StoreHeapEnd,
       AfterUpdate, Updating
  <2>2. call[t].op \in Adders \/ (call[t].op = "free" /\ call[t].wasIn)
    BY <1>1, <2>1 DEF AddsItsBlock
  <2>3. RemovalAhead(t)' = RemovalAhead(t) /\ Mine(t)' = Mine(t)
    BY <1>4, <2>1, <2>2 DEF RemovalAhead, Mine, Updating, Adders
  <2>4. ListAfterRemoval(t)' = Regions' \ Mine(t)'
    BY <1>1, <1>2, <1>3, <1>5, <2>3 DEF ListAfterRemoval
  <2>5. Acts(t)'
    BY <1>1, <1>4, <2>1 DEF Acts, Updating
  <2> QED
    BY <1>2, <1>3, <2>4, <2>5 DEF AloneInv, ListExact, Alone, OneThread
<1>7. CASE Classify(t)
  <2>1. /\ pc[t] = "classify" /\ call'[t].isIn = InHeap(call[t].ret) /\ pc'[t] = AfterClassify(t)
    BY <1>1, <1>7 DEF TypeOK, Calls, Classify
  <2>2. call[t].op \in Adders /\ call[t].ret \in HeapZone \cup MmapZone
    BY <1>1, <2>1 DEF AddsItsBlock, Acts
  <2>3. InHeap(call[t].ret) => call[t].ret \notin MmapZone
    BY <1>1, OutsideNotInHeap
  <2>4. ListAfterRemoval(t)' = Regions' \ Mine(t)'
    BY <1>1, <1>2, <1>3, <1>4, <1>5, <2>1, <2>2, <2>3
       DEF ListAfterRemoval, RemovalAhead, AfterClassify, Mine, Adders
  <2>5. Acts(t)'
    BY <1>1, <1>4, <2>1, <2>2, <2>3 DEF Acts, AfterClassify, RemovalAhead
  <2> QED
    BY <1>2, <1>3, <2>4, <2>5 DEF AloneInv, ListExact, Alone, OneThread
<1> QED
  BY <1>6, <1>7

LEMMA AloneCallReturn ==
  ASSUME Alone, IInv, AloneInv, NEW t \in Threads, Call(t) \/ Return(t)
  PROVE  AloneInv' /\ UNCHANGED <<segments, Regions>>
<1> USE DEF At, Goto, Set
<1>1. /\ TypeOK /\ Acts(t) /\ BlocksFilled /\ BaseInv
      /\ SegmentsApart /\ ListAfterRemoval(t) = Regions \ Mine(t)
  BY DEF IInv, AloneInv, ListExact, BaseInv
<1>2. UNCHANGED <<live, segments>>
  BY DEF Call, CallAlloc, CallMmap, CallFree, CallRealloc, CallMunmap, CallUnsupported, Enter, Return
<1>3. BlocksFilled' /\ SegmentsApart' /\ UNCHANGED Regions
  BY <1>1, <1>2 DEF BlocksFilled, SegmentsApart, Regions, RegionsOf
<1>4. CASE CallUnsupported(t)
  <2>1. UNCHANGED <<pc, call, hand, lock, live, segments>>
    BY <1>4 DEF CallUnsupported
  <2>2. ListAfterRemoval(t)' = ListAfterRemoval(t) /\ Mine(t)' = Mine(t)
    BY <2>1 DEF ListAfterRemoval, RemovalAhead, Kept, Contains, Mine
  <2>3. Acts(t)'
    BY <1>1, <2>1 DEF Acts, RemovalAhead
  <2> QED
    BY <1>1, <1>2, <1>3, <2>2, <2>3 DEF AloneInv, ListExact, Alone, OneThread
<1>5. ASSUME pc[t] \in {"idle", "return"}, pc'[t] \in {"idle", "real"}
      PROVE  ListAfterRemoval(t)' = Regions' \ Mine(t)'
  BY <1>1, <1>2, <1>3, <1>5 DEF ListAfterRemoval, RemovalAhead, Mine
<1>6. CASE Return(t)
  <2>1. pc[t] = "return" /\ pc'[t] = "idle"
    BY <1>1, <1>6 DEF Return, TypeOK
  <2> QED
    BY <1>2, <1>3, <1>5, <2>1 DEF AloneInv, Acts, ListExact, Alone, OneThread
<1>7. CASE Call(t) /\ ~CallUnsupported(t)
  <2>1. \A op, ptr, size : Enter(t, op, ptr, size) =>
          /\ pc[t] = "idle" /\ pc'[t] = "real"
          /\ call'[t].op = op /\ call'[t].ptr = ptr /\ call'[t].size = size
    BY <1>1 DEF Enter, TypeOK
  <2>2. hand[t] = {} \/ pc[t] # "idle"
    BY <1>1 DEF BaseInv, ReleasesItsBlock
  <2>3. ASSUME NEW b, hand' = [hand EXCEPT ![t] = {b}] PROVE hand'[t] = {b}
    BY <1>1, <2>3 DEF TypeOK
  <2>4. \A n \in Sizes : n > 0 /\ n \in Nat
    BY CallsAssumption DEF Alone
  <2>5. pc[t] = "idle" /\ pc'[t] = "real" /\ Acts(t)'
    <3>1. CASE CallAlloc(t)
      BY <2>1, <2>4, <3>1 DEF CallAlloc, Acts, Adders
    <3>2. CASE CallMmap(t)
      BY <2>1, <2>4, <3>2 DEF CallMmap, Acts, Adders
    <3>3. CASE CallFree(t)
      BY <2>1, <2>3, <3>3 DEF CallFree, Acts, Adders
    <3>4. CASE CallRealloc(t)
      BY <2>1, <2>3, <2>4, <3>4 DEF CallRealloc, Acts, Adders
    <3>5. CASE CallMunmap(t)
      <4> DEFINE H(a, n) == {b \in live : Span(b) \cap Range(a, n) # {}}
      <4>1. PICK a \in MmapZone, n \in 1..(MmapMax - MmapMin + 1) :
              /\ Range(a, n) \subseteq MmapZone
              /\ \E b \in H(a, n) : Range(a, n) \subseteq Span(b)
              /\ Spans(H(a, n)) \subseteq Range(a, n)
              /\ Enter(t, "munmap", a, n)
              /\ hand' = [hand EXCEPT ![t] = H(a, n)]
        BY <3>5 DEF CallMunmap, Alone
      <4>2. PICK b \in H(a, n) : Range(a, n) \subseteq Span(b)
        BY <4>1
      <4>3. /\ b \in live /\ b \in Block
            /\ b.start \in Nat /\ b.size \in Nat /\ Last(b) \in Nat /\ b.start \in Span(b)
        BY <1>1, SpanFacts DEF TypeOK
      <4>4. \A c \in H(a, n) : Span(c) \subseteq Range(a, n)
        BY <4>1 DEF Spans
      <4>5. H(a, n) = {b}
        BY <1>1, <4>2, <4>4 DEF BaseInv, BlocksApart
      <4>6. b.size > 0
        BY <4>1, <4>3, <4>4, <1>1 DEF AloneInv, BlocksFilled
      <4>7. b.start = a /\ b.size = n
        <5>1. /\ \A y : y \in Span(b) <=> y \in Int /\ b.start <= y /\ y <= b.start + b.size - 1
              /\ \A y : y \in Range(a, n) <=> y \in Int /\ a <= y /\ y <= a + n - 1
              /\ a \in Nat /\ n \in Nat /\ n > 0
          BY <4>3, <4>6, ZonesAssumption DEF Span, Last, Range, MmapZone
        <5>2. \A y : y \in Span(b) <=> y \in Range(a, n)
          BY <4>2, <4>4
        <5> HIDE DEF H
        <5>3. /\ a \in Range(a, n) /\ a + n - 1 \in Range(a, n)
              /\ b.start \in Span(b) /\ b.start + b.size - 1 \in Span(b)
          BY <4>3, <4>6, <5>1
        <5> QED
          BY <4>3, <5>1, <5>2, <5>3
      <4>8. hand'[t] = {b}
        BY <4>1, <4>5, <2>3
      <4> QED
        BY <2>1, <4>1, <4>7, <4>8 DEF Acts, Adders
    <3> QED
      BY <1>7, <3>1, <3>2, <3>3, <3>4, <3>5 DEF Call
  <2> QED
    BY <1>2, <1>3, <1>5, <2>5 DEF AloneInv, ListExact, Alone, OneThread
<1> QED
  BY <1>4, <1>6, <1>7

\* The list under the lock: what goes is one segment at most, that of the block the
\* call has released or moved; what comes makes the list right again.
LEMMA AloneUpdateList ==
  ASSUME Alone, IInv, IInv', BreakInv, AloneInv, NEW t \in Threads, UpdateList(t)
  PROVE  /\ AloneInv' /\ UNCHANGED Regions
         /\ \/ UNCHANGED segments
            \/ /\ RemoveSegments(t)
               /\ segments' = Regions \ Mine(t) /\ Mine(t) \subseteq Regions
               /\ \A s, q \in segments \ segments' : s = q
            \/ segments # Regions /\ segments \subseteq Regions /\ segments' = Regions
<1> USE DEF At, Goto, Set
<1>1. /\ TypeOK /\ Acts(t) /\ AddsItsBlock(t) /\ BlocksFilled /\ BaseInv /\ BaseInv'
      /\ SegmentsApart /\ ListAfterRemoval(t) = Regions \ Mine(t) /\ SeesBreak(t)
  BY DEF IInv, AloneInv, ListExact, BaseInv, BreakInv
<1>2. UNCHANGED <<live, hand, call>>
  BY DEF UpdateList, AcquireLock, RemoveSegments, InsertSegment, PlaceSegment
<1>3. BlocksFilled' /\ UNCHANGED Regions
  BY <1>1, <1>2 DEF BlocksFilled, Regions, RegionsOf
<1>4. Mine(t) \subseteq Regions
  <2>1. CASE Mine(t) # {}
    <3>1. PICK b \in hand[t] : b.start = call[t].ret /\ b.size = call[t].size
      BY <1>1, <2>1 DEF Mine, AddsItsBlock
    <3>2. b \in live
      BY <1>1 DEF TypeOK
    <3> QED
      BY <2>1, <3>1, <3>2 DEF Mine, Regions, RegionsOf
  <2> QED
    BY <2>1
<1>5. ASSUME ListAfterRemoval(t)' = Regions' \ Mine(t)', Acts(t)', SegmentsApart'
      PROVE  AloneInv'
  BY <1>3, <1>5 DEF AloneInv, ListExact, Alone, OneThread
<1>6. CASE AcquireLock(t)
  <2>1. /\ UNCHANGED segments /\ lock' = t
        /\ \/ pc[t] = "lockRemove" /\ pc'[t] = "remove"
           \/ pc[t] = "lockInsert" /\ pc'[t] = "insert"
    BY <1>1, <1>6 DEF AcquireLock, TypeOK
  <2>2. RemovalAhead(t)' = RemovalAhead(t) /\ Mine(t)' = Mine(t) /\ Kept(t)' = Kept(t)
    BY <1>2, <2>1 DEF RemovalAhead, Mine, Kept, Contains
  <2>3. ListAfterRemoval(t)' = Regions' \ Mine(t)'
    BY <1>1, <1>3, <2>1, <2>2 DEF ListAfterRemoval
  <2>4. Acts(t)'
    BY <1>1, <1>2, <2>1, <2>2 DEF Acts
  <2>5. SegmentsApart'
    BY <1>1, <2>1 DEF SegmentsApart
  <2> QED
    BY <1>3, <1>5, <2>1, <2>3, <2>4, <2>5
<1>7. CASE RemoveSegments(t)
  <2>1. pc[t] = "remove" /\ segments' = Kept(t) /\ pc'[t] = AfterRemove(t)
    BY <1>1, <1>7 DEF RemoveSegments, TypeOK
  <2>2. RemovalAhead(t)
    BY <1>1, <2>1 DEF Acts
  <2>3. segments' = Regions \ Mine(t)
    BY <1>1, <2>1, <2>2 DEF ListAfterRemoval
  <2>4. Mine(t)' = Mine(t) /\ ~RemovalAhead(t)'
    BY <1>1, <1>2, <2>1, <2>2 DEF Mine, RemovalAhead, AfterRemove, Acts, Adders
  <2>5. ListAfterRemoval(t)' = Regions' \ Mine(t)'
    BY <1>3, <2>3, <2>4 DEF ListAfterRemoval
  <2>6. Acts(t)'
    BY <1>1, <1>2, <2>1 DEF Acts, AfterRemove
  <2>7. SegmentsApart'
    BY <1>1, <2>1 DEF SegmentsApart, Kept
  <2>8. ASSUME NEW s \in segments \ segments', NEW q \in segments \ segments' PROVE s = q
    <3>1. Contains(s, call[t].ptr) /\ Contains(q, call[t].ptr)
      BY <2>1, <2>8 DEF Kept
    <3>2. /\ s.start \in Nat /\ s.end \in Nat /\ q.start \in Nat /\ q.end \in Nat
          /\ call[t].ptr \in Nat
      BY <1>1, CallTypes DEF TypeOK
    <3>3. call[t].ptr \in Addresses(s) /\ call[t].ptr \in Addresses(q)
      BY <3>1, <3>2 DEF Contains, Addresses
    <3> QED
      BY <1>1, <3>3 DEF SegmentsApart
  <2> QED
    BY <1>3, <1>4, <1>5, <1>7, <2>3, <2>5, <2>6, <2>7, <2>8
<1>8. CASE InsertSegment(t)
  <2>1. /\ pc[t] = "insert" /\ pc'[t] = "place"
        /\ segments' = segments \cup {Segment(call[t].ret, call[t].size)} /\ UNCHANGED lock
    BY <1>1, <1>8 DEF InsertSegment, TypeOK
  <2>2. call[t].op \in Adders /\ call[t].ret \in MmapZone
    BY <1>1, <2>1 DEF AddsItsBlock, Acts, SeesBreak
  <2>3. Mine(t) = {Segment(call[t].ret, call[t].size)} /\ ~RemovalAhead(t)
    BY <2>1, <2>2 DEF Mine, RemovalAhead
  <2>4. segments = Regions \ Mine(t) /\ segments' = Regions
    BY <1>1, <1>4, <2>1, <2>3 DEF ListAfterRemoval
  <2>5. segments # Regions /\ segments \subseteq Regions
    BY <1>4, <2>3, <2>4
  <2>6. ListAfterRemoval(t)' = Regions' \ Mine(t)'
    BY <1>3, <2>1, <2>4 DEF ListAfterRemoval, RemovalAhead, Mine
  <2>7. Acts(t)'
    BY <1>1, <1>2, <2>1 DEF Acts
  <2>8. SegmentsApart'
    <3>1. (BaseInv /\ BlocksFilled /\ segments = Regions => SegmentsApart)'
      BY ApartWhenExact, PTL
    <3> QED
      BY <1>1, <1>3, <2>4, <3>1
  <2> QED
    BY <1>3, <1>5, <2>4, <2>5, <2>6, <2>7, <2>8
<1>9. CASE PlaceSegment(t)
  <2>1. pc[t] = "place" /\ pc'[t] = "return" /\ UNCHANGED segments
    BY <1>1, <1>9 DEF PlaceSegment, TypeOK
  <2>2. ListAfterRemoval(t)' = Regions' \ Mine(t)'
    BY <1>1, <1>3, <2>1 DEF ListAfterRemoval, RemovalAhead, Mine
  <2>3. Acts(t)' /\ SegmentsApart'
    BY <1>1, <1>2, <2>1 DEF Acts, SegmentsApart
  <2> QED
    BY <1>3, <1>5, <2>1, <2>2, <2>3
<1> QED
  BY <1>6, <1>7, <1>8, <1>9 DEF UpdateList

\* When the library is loaded the mappings are the regions.
LEMMA MappingsAreRegions ==
  ASSUME SeparateMappings PROVE Mappings(OutsideHeap(InitBlocks)) = RegionsOf(InitBlocks)
<1> DEFINE addrs == OutsideHeap(InitBlocks)
<1>1. Laid(InitBlocks)
  <2> SUFFICES ASSUME NEW b \in InitBlocks, b.start \in MmapZone
               PROVE  Span(b) \subseteq MmapZone /\ b.size > 0
    BY InitBlocksAssumption DEF Laid
  <2>1. b.start \in Span(b)
    BY InitBlocksAssumption, SpanFacts
  <2>2. b.start \notin 1..(InitBrk - 1)
    BY ZonesAssumption DEF MmapZone
  <2> QED
    BY <2>1, <2>2, InitBlocksAssumption DEF SeparateMappings
<1>2. \A a : a \in addrs <=> \E b \in InitBlocks : b.start \in MmapZone /\ a \in Span(b)
  <2>1. ASSUME NEW b \in InitBlocks, NEW a \in Span(b), a \in MmapZone PROVE b.start \in MmapZone
    <3>1. b.start \in Span(b)
      BY InitBlocksAssumption, SpanFacts
    <3>2. a \notin 1..(InitBrk - 1)
      BY <2>1, ZonesAssumption DEF MmapZone
    <3> QED
      BY <2>1, <3>1, <3>2, InitBlocksAssumption
  <2> QED
    BY <1>1, <2>1 DEF OutsideHeap, Spans, Laid
<1>3. addrs \subseteq MmapZone /\ MmapZone \subseteq Nat
  BY ZonesAssumption DEF OutsideHeap, MmapZone
<1> HIDE DEF addrs
<1>4. \A b \in InitBlocks : b.start \in Nat /\ Last(b) \in Nat /\ b.start <= Last(b)
  BY InitBlocksAssumption, SpanFacts
<1>5. ASSUME NEW s \in Mappings(addrs) PROVE s \in RegionsOf(InitBlocks)
  <2>1. /\ s \in [start : addrs, end : addrs] /\ s.start <= s.end /\ Addresses(s) \subseteq addrs
        /\ s.start - 1 \notin addrs /\ s.end + 1 \notin addrs
    BY <1>5 DEF Mappings
  <2>2. s.start \in Nat /\ s.end \in Nat
    BY <1>3, <2>1
  <2>3. PICK b \in InitBlocks : b.start \in MmapZone /\ s.start \in Span(b)
    BY <1>2, <2>1
  <2>4. s.start = b.start
    <3>1. s.start # b.start => s.start - 1 \in Span(b)
      BY <1>4, <2>2, <2>3 DEF Span
    <3> QED
      BY <1>2, <2>1, <2>3, <3>1
  <2>5. ~(s.end < Last(b))
    <3>1. s.end < Last(b) => s.end + 1 \in Span(b)
      BY <1>4, <2>1, <2>2, <2>4 DEF Span
    <3> QED
      BY <1>2, <2>1, <2>3, <3>1
  <2>6. ~(Last(b) < s.end)
    <3> SUFFICES ASSUME Last(b) < s.end PROVE FALSE
      OBVIOUS
    <3>1. Last(b) + 1 \in Addresses(s)
      BY <1>4, <2>2, <2>4 DEF Addresses
    <3>2. PICK c \in InitBlocks : c.start \in MmapZone /\ Last(b) + 1 \in Span(c)
      BY <1>2, <2>1, <3>1
    <3>3. c # b
      BY <1>4, <3>2 DEF Span
    <3> QED
      BY <2>3, <3>2, <3>3 DEF SeparateMappings
  <2>7. s.end = Last(b)
    BY <1>4, <2>2, <2>5, <2>6
  <2>8. /\ Segment(b.start, b.size).start = b.start /\ Segment(b.start, b.size).end = Last(b)
        /\ Segment(b.start, b.size) \in RegionSet
    BY <1>1, <2>3, RegionOfBlock DEF Laid
  <2>9. s = Segment(b.start, b.size)
    BY <2>1, <2>4, <2>7, <2>8 DEF RegionSet
  <2> QED
    BY <2>3, <2>9 DEF RegionsOf
<1>6. ASSUME NEW s \in RegionsOf(InitBlocks) PROVE s \in Mappings(addrs)
  <2>1. PICK b \in InitBlocks : b.start \in MmapZone /\ s = Segment(b.start, b.size)
    BY <1>6 DEF RegionsOf
  <2>2. s.start = b.start /\ s.end = Last(b) /\ s \in RegionSet /\ Addresses(s) = Span(b)
    BY <1>1, <2>1, RegionOfBlock DEF Laid
  <2>3. Addresses(s) \subseteq addrs /\ s.start \in addrs /\ s.end \in addrs
    BY <1>2, <1>4, <2>1, <2>2 DEF Span
  <2>4. s.start - 1 \notin addrs
    <3> SUFFICES ASSUME s.start - 1 \in addrs PROVE FALSE
      OBVIOUS
    <3>1. PICK c \in InitBlocks : c.start \in MmapZone /\ b.start - 1 \in Span(c)
      BY <1>2, <2>2
    <3>2. c # b
      BY <1>4, <3>1 DEF Span
    <3>3. b.start \notin Span(c) /\ Last(c) + 1 \notin Span(b)
      BY <1>1, <1>4, <2>1, <3>1, <3>2 DEF Laid, SeparateMappings, Span
    <3>4. Last(c) = b.start - 1
      BY <1>4, <3>1, <3>3 DEF Span
    <3> QED
      BY <1>4, <3>3, <3>4 DEF Span
  <2>5. s.end + 1 \notin addrs
    <3> SUFFICES ASSUME s.end + 1 \in addrs PROVE FALSE
      OBVIOUS
    <3>1. PICK c \in InitBlocks : c.start \in MmapZone /\ Last(b) + 1 \in Span(c)
      BY <1>2, <2>2
    <3>2. c # b
      BY <1>4, <3>1 DEF Span
    <3> QED
      BY <2>1, <3>1, <3>2 DEF SeparateMappings
  <2> QED
    BY <2>2, <2>3, <2>4, <2>5 DEF Mappings, RegionSet
<1> QED
  BY <1>5, <1>6 DEF addrs

LEMMA AloneInit == Alone /\ Init => AloneInv /\ Promise!Init
<1> SUFFICES ASSUME Alone, Init PROVE AloneInv /\ Promise!Init
  OBVIOUS
<1>1. segments = Regions
  BY MappingsAreRegions DEF Init, Alone, Regions, RegionsOf
<1>2. BlocksFilled
  BY DEF Init, Alone, SeparateMappings, BlocksFilled
<1>3. BaseInv
  BY BaseInvInit
<1>4. Regions \subseteq RegionSet
  BY <1>2, <1>3, LiveLaid, RegionsInSet DEF Regions
<1>5. SegmentsApart
  BY <1>1, <1>2, <1>3, ApartWhenExact
<1>6. \A t \in Threads : pc[t] = "idle"
  BY DEF Init
<1>7. ListExact
  BY <1>1, <1>6 DEF ListExact, ListAfterRemoval, RemovalAhead, Mine
<1>8. \A t \in Threads : Acts(t)
  BY <1>6 DEF Acts, At
<1>9. AloneInv
  BY <1>2, <1>5, <1>7, <1>8 DEF AloneInv
<1>10. Promise!Init
  BY <1>1, <1>4, <1>6 DEF Promise!Init, AllIdle, At
<1> QED
  BY <1>9, <1>10

\* All that is known of a program that is alone.
Exact == IInv /\ Describing /\ BreakInv /\ AloneInv

LEMMA ExactNext == Alone /\ Exact /\ [Next]_vars => Exact'
<1> SUFFICES ASSUME Alone, Exact, [Next]_vars PROVE Exact'
  OBVIOUS
<1>1. TrackedCalls /\ OneThread /\ "posix_memalign" \notin MayFail
  BY DEF Alone, TrackedCalls
<1>2. IInv /\ BaseInv /\ Describing /\ BreakInv /\ AloneInv
  BY DEF Exact, IInv, BaseInv
<1>3. IInv' /\ Describing' /\ BreakInv'
  BY <1>1, <1>2, IInvNext, DescribingNext, BreakInvNext
<1>4. ASSUME NEW t \in Threads, Call(t) \/ Handle(t) PROVE AloneInv'
  BY <1>2, <1>3, <1>4, AloneCallReturn, AloneRealCall, AloneUpdate, AloneUpdateList DEF Handle
<1>5. ASSUME UNCHANGED vars PROVE AloneInv'
  <2>1. UNCHANGED <<live, hand, segments, lock, pc, call>>
    BY <1>5 DEF vars
  <2>2. UNCHANGED Regions /\ BlocksFilled' /\ SegmentsApart'
    BY <1>2, <2>1 DEF AloneInv, Regions, RegionsOf, BlocksFilled, SegmentsApart
  <2>3. ASSUME NEW t \in Threads
        PROVE  /\ RemovalAhead(t)' = RemovalAhead(t) /\ Mine(t)' = Mine(t) /\ Kept(t)' = Kept(t)
               /\ Acts(t)' = Acts(t)
    BY <2>1 DEF RemovalAhead, Mine, Kept, Contains, Acts, At
  <2> QED
    BY <1>2, <2>1, <2>2, <2>3 DEF AloneInv, ListExact, ListAfterRemoval
<1>6. AloneInv'
  BY <1>4, <1>5 DEF Next, Rest
<1> QED
  BY <1>3, <1>6 DEF Exact

LEMMA ExactInvariance ==
  ASSUME Alone
  PROVE  Spec => []Exact
<1>1. Init => Exact
  BY IInvInit, BaseInvInit, BreakInvInit, AloneInit
     DEF Exact, Init, Describing, DescribesItsBlock
<1>2. Exact /\ [Next]_vars => Exact'
  BY ExactNext
<1> QED
  BY <1>1, <1>2, PTL DEF Spec

\* A program of one thread whose calls succeed: what a call removes from the list
\* covers no block but the call's own.  (With two threads it may: see the run
\* tracker_free_race.)
THEOREM RemovesOwnSegment ==
  ASSUME Alone
  PROVE  Spec => RemovesOwnSegmentOnly
<1>1. Exact /\ [Next]_vars =>
        [\A s \in segments \ segments' :
           \A b \in live \ hand[lock] :
             b.start \in MmapZone => Addresses(s) \cap Span(b) = {}]_vars
  <2> SUFFICES ASSUME Exact, [Next]_vars, NEW s \in segments \ segments',
                      NEW b \in live \ hand[lock], b.start \in MmapZone
               PROVE  Addresses(s) \cap Span(b) = {}
    OBVIOUS
  <2>1. PICK t \in Threads : UpdateList(t)
    <3>1. segments' # segments
      OBVIOUS
    <3>2. PICK t \in Threads : Call(t) \/ Handle(t)
      BY <3>1 DEF Next, Rest, vars
    <3>3. ~Call(t) /\ ~Return(t)
      BY <3>1 DEF Call, CallAlloc, CallMmap, CallFree, CallRealloc, CallMunmap, CallUnsupported,
         Enter, Return
    <3>4. ~UpdateHeap(t) /\ ~Classify(t)
      BY <3>1 DEF UpdateHeap, ReadBreak, CompareHeapEnd, ReadBreakAgain, StoreHeapEnd, Classify
    <3>5. ~RealCall(t)
      BY <3>1, RealIsReal DEF Real
    <3> QED
      BY <3>2, <3>3, <3>4, <3>5 DEF Handle
  <2>2. RemoveSegments(t)
    BY <2>1 DEF UpdateList, AcquireLock, InsertSegment, PlaceSegment
  <2>3. /\ IInv /\ BaseInv /\ AloneInv /\ Acts(t) /\ BlocksFilled /\ SegmentsApart /\ AddsItsBlock(t)
        /\ ListAfterRemoval(t) = Regions \ Mine(t)
    BY DEF Exact, IInv, BaseInv, AloneInv, ListExact
  <2>4. At(t, "remove") /\ segments' = Kept(t) /\ lock = t /\ RemovalAhead(t)
    BY <2>2, <2>3 DEF RemoveSegments, Acts, At
  <2>5. Kept(t) = Regions \ Mine(t)
    BY <2>3, <2>4 DEF ListAfterRemoval
  <2> DEFINE r == Segment(b.start, b.size)
  <2>6. Laid(live)
    BY <2>3, LiveLaid
  <2>7. r \in Regions /\ Addresses(r) = Span(b)
    BY <2>6, RegionOfBlock DEF Laid, Regions, RegionsOf
  <2>8. r \notin Mine(t)
    <3> SUFFICES ASSUME r \in Mine(t) PROVE FALSE
      OBVIOUS
    <3>1. call[t].ret \in MmapZone /\ r = Segment(call[t].ret, call[t].size)
          /\ call[t].op \in Adders
      BY DEF Mine
    <3>2. PICK c \in hand[t] : c.start = call[t].ret /\ c.size = call[t].size
      BY <2>3, <2>4, <3>1 DEF AddsItsBlock, At
    <3>3. c \in live
      BY <2>3 DEF BaseInv, TypeOK
    <3>4. c = b
      BY <2>6, <3>1, <3>2, <3>3, RegionsDiffer
    <3> QED
      BY <2>4, <3>2, <3>4
  <2> HIDE DEF r
  <2>9. r \in segments' /\ r \in segments
    BY <2>4, <2>5, <2>7, <2>8 DEF Kept
  <2> QED
    BY <2>3, <2>7, <2>9 DEF SegmentsApart
<1> QED
  BY <1>1, ExactInvariance, PTL DEF Spec, RemovesOwnSegmentOnly

\* One step of the handlers is a step of RegionList, or none.
LEMMA StepRefines ==
  ASSUME Alone, Exact, Exact', [Next]_vars
  PROVE  [Promise!Next]_(Promise!vars)
<1> USE DEF At, Goto, Set
<1>1. IInv /\ IInv' /\ BreakInv /\ Describing /\ AloneInv /\ TypeOK
  BY DEF Exact, IInv
<1>2. CASE UNCHANGED vars
  BY <1>2 DEF vars, Promise!vars, Regions, RegionsOf, AllIdle
<1>3. ASSUME NEW t \in Threads, Call(t) \/ Handle(t) PROVE [Promise!Next]_(Promise!vars)
  <2>1. AllIdle <=> pc[t] = "idle"
    BY DEF Alone, OneThread, AllIdle
  <2>2. AllIdle' <=> pc'[t] = "idle"
    BY DEF Alone, OneThread, AllIdle
  <2>3. CASE Call(t)
    <3>1. UNCHANGED <<segments, Regions>>
      BY <1>1, <2>3, AloneCallReturn
    <3>2. pc[t] = "idle"
      BY <2>3 DEF Call, CallAlloc, CallMmap, CallFree, CallRealloc, CallMunmap, CallUnsupported, Enter
    <3> QED
      BY <2>1, <3>1, <3>2 DEF Promise!vars, Promise!Next, Promise!Begin
  <2>4. CASE Return(t)
    <3>1. UNCHANGED <<segments, Regions>>
      BY <1>1, <2>4, AloneCallReturn
    <3>2. pc[t] = "return" /\ pc'[t] = "idle"
      BY <1>1, <2>4 DEF Return, TypeOK
    <3>3. segments = Regions
      BY <1>1, <3>2 DEF AloneInv, ListExact, ListAfterRemoval, RemovalAhead, Mine
    <3> QED
      BY <2>1, <2>2, <3>1, <3>2, <3>3 DEF Promise!Next, Promise!End
  <2>5. CASE UpdateHeap(t) \/ Classify(t)
    <3>1. UNCHANGED <<segments, Regions>>
      BY <1>1, <2>5, AloneUpdate
    <3>2. pc[t] # "idle" /\ pc'[t] # "idle"
      BY <1>1, <2>5 DEF TypeOK, UpdateHeap, ReadBreak, CompareHeapEnd, ReadBreakAgain, StoreHeapEnd,
         Classify, AfterUpdate, AfterClassify
    <3> QED
      BY <2>1, <2>2, <3>1, <3>2 DEF Promise!vars
  <2>6. CASE RealCall(t)
    <3>1. /\ segments = Regions /\ UNCHANGED segments
          /\ \A s, q \in Regions \ Regions' : s = q
          /\ \A s, q \in Regions' \ Regions : s = q
          /\ Regions' \subseteq RegionSet
      BY <1>1, <2>6, RealRegions
    <3>2. pc[t] = "real" /\ pc'[t] = AfterReal(t)
      BY <1>1, <2>6, RealMoves
    <3>3. pc[t] # "idle" /\ pc'[t] # "idle"
      BY <3>2 DEF AfterReal
    <3> QED
      BY <2>1, <2>2, <3>1, <3>3 DEF Promise!Next, Promise!Change, Promise!AtMostOne
  <2>7. CASE UpdateList(t)
    <3>1. pc[t] # "idle" /\ pc'[t] # "idle"
      BY <1>1, <2>7 DEF TypeOK, UpdateList, AcquireLock, RemoveSegments, AfterRemove, InsertSegment,
         PlaceSegment
    <3>2. /\ UNCHANGED Regions
          /\ \/ UNCHANGED segments
             \/ /\ RemoveSegments(t)
                /\ segments' = Regions \ Mine(t) /\ Mine(t) \subseteq Regions
                /\ \A s, q \in segments \ segments' : s = q
             \/ segments # Regions /\ segments \subseteq Regions /\ segments' = Regions
      BY <1>1, <2>7, AloneUpdateList
    <3>3. CASE UNCHANGED segments
      BY <2>1, <2>2, <3>1, <3>2, <3>3 DEF Promise!vars
    <3>4. CASE segments # Regions /\ segments \subseteq Regions /\ segments' = Regions
      BY <2>1, <2>2, <3>1, <3>2, <3>4 DEF Promise!Next, Promise!Add
    <3>5. CASE /\ RemoveSegments(t) /\ segments' # segments
               /\ segments' = Regions \ Mine(t) /\ Mine(t) \subseteq Regions
               /\ \A s, q \in segments \ segments' : s = q
      <4>1. segments' \subseteq segments
        BY <3>5 DEF RemoveSegments, Kept
      <4>2. PICK d \in segments : d \notin segments'
        BY <3>5, <4>1
      <4>3. segments' = segments \ {d}
        BY <3>5, <4>1, <4>2
      <4>4. CASE d \in Regions
        <5>1. \A s, q \in Mine(t) : s = q
          BY DEF Mine
        <5>2. d \in Mine(t) /\ Mine(t) = {d}
          BY <3>5, <4>2, <4>4, <5>1
        <5>3. segments = Regions
          BY <3>5, <4>2, <4>3, <4>4, <5>2
        <5> QED
          BY <2>1, <2>2, <3>1, <3>2, <4>2, <4>3, <5>3 DEF Promise!Next, Promise!Renew
      <4>5. CASE d \notin Regions
        <5>1. segments' = segments \cap Regions
          BY <3>5, <4>3, <4>5
        <5> QED
          BY <2>1, <2>2, <3>1, <3>2, <4>2, <4>5, <5>1 DEF Promise!Next, Promise!Remove
      <4> QED
        BY <4>4, <4>5
    <3> QED
      BY <3>2, <3>3, <3>4, <3>5
  <2> QED
    BY <1>3, <2>3, <2>4, <2>5, <2>6, <2>7 DEF Handle
<1> QED
  BY <1>2, <1>3, Zenon DEF Next, Rest

\* The handlers implement what RegionList promises to a program of one thread whose
\* calls succeed, step by step: between calls the list is the set of the blocks
\* outside the heap, and within a call it changes by one removal and one addition
\* at most.  (That the list catches up in the end is left to the run tracker_alone.)
THEOREM RegionListRefined ==
  ASSUME Alone
  PROVE  Spec => Promise!Safety
<1>1. Init => Promise!Init
  BY AloneInit
<1>2. Exact /\ Exact' /\ [Next]_vars => [Promise!Next]_(Promise!vars)
  BY StepRefines
<1> QED
  BY <1>1, <1>2, ExactInvariance, PTL DEF Spec, Promise!Safety
=============================================================================
