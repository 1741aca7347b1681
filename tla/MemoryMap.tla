------------------------------ MODULE MemoryMap ------------------------------
(***************************************************************************)
(* The tracker of the program's memory (memory/MemoryMap.cpp) as the       *)
(* application threads drive it through the interposed allocation          *)
(* functions (unstickymem.cpp).  Every handler is the sequence of steps    *)
(* the code takes: the real call first, then updateHeap with its two       *)
(* sbrk(0) reads, the classification against the heap segment, and last    *)
(* the update of the segment list under _segments_lock.                    *)
(*                                                                         *)
(* Addresses are numbers.  HeapZone is where the break can move, MmapZone  *)
(* is everything else libc and the kernel hand out: mmap regions, and the  *)
(* malloc chunks that do not come from the main heap.  The list of         *)
(* segments is a set, since remove_if treats equal segments alike.         *)
(*                                                                         *)
(* Some operators stand beside a variant with a plausible mistake, defined *)
(* just before them; nothing uses the variants, they are there to show     *)
(* that the properties tell the two apart.                                 *)
(***************************************************************************)
EXTENDS Integers, FiniteSets

CONSTANTS
  Threads,      \* application threads
  NoThread,     \* the holder of a free lock
  HeapMax,      \* last address the heap can grow to; the heap starts at 1
  MmapMin,      \* first address outside the heap
  MmapMax,      \* last address outside the heap
  AddrSpace,    \* number of addresses: pointer arithmetic wraps at it
  Sizes,        \* sizes the application asks for
  PlaceMin,     \* segments longer than this get their pages placed
  InitBrk,      \* the break when the library is loaded
  InitBlocks,   \* blocks the application holds when the library is loaded
  Ops,          \* functions the application calls
  MayFail,      \* those of them that may fail
  PartialUnmap, \* whether munmap may be given a part of a mapping
  AnyUnmap,     \* whether it may be given several mappings and gaps between them
  MaxCalls,     \* calls the application makes in all
  MaxBlocks     \* blocks the application has at a time

AllOps == {"malloc", "posix_memalign", "mmap", "free", "realloc",
           "reallocarray", "munmap", "unsupported"}

HeapZone == 1..HeapMax
MmapZone == MmapMin..MmapMax
Null     == 0

Block == [start : Nat, size : Nat, by : {"libc", "mmap", "reallocarray"}]

\* The addresses a block takes; an empty block still takes one.
Last(b) == IF b.size = 0 THEN b.start ELSE b.start + b.size - 1
Span(b) == b.start .. Last(b)
Spans(blocks) == UNION {Span(b) : b \in blocks}

ASSUME ThreadsAssumption == NoThread \notin Threads
ASSUME ZonesAssumption ==
  /\ HeapMax \in Nat /\ MmapMin \in Nat /\ MmapMax \in Nat /\ AddrSpace \in Nat
  /\ InitBrk \in 1..(HeapMax + 1)
  /\ HeapMax + 1 < MmapMin
  /\ HeapMax < AddrSpace - 1 /\ MmapMax < AddrSpace - 1
ASSUME CallsAssumption ==
  /\ Sizes \subseteq Nat /\ PlaceMin \in Nat /\ MaxCalls \in Nat /\ MaxBlocks \in Nat
  /\ Ops \subseteq AllOps /\ MayFail \subseteq Ops
  /\ PartialUnmap \in BOOLEAN /\ AnyUnmap \in BOOLEAN
ASSUME InitBlocksAssumption ==
  /\ InitBlocks \subseteq Block
  /\ \A b \in InitBlocks :
       \/ Span(b) \subseteq MmapZone
       \/ Span(b) \subseteq 1..(InitBrk - 1) /\ b.by # "mmap"
  /\ \A b, c \in InitBlocks : b # c => Span(b) \cap Span(c) = {}

VARIABLES
  brk,       \* the kernel's break: the heap is 1..(brk - 1)
  live,      \* blocks libc or the kernel has handed out and not taken back
  hand,      \* hand[t]: the live blocks in the hands of t's current call
  heapEnd,   \* _heap->endAddress(), taken as the last address of the heap
  segments,  \* the segments of _segments other than heap, stack, text, data
  skipped,   \* those that a munmap has reached without starting in them
  lock,      \* holder of _segments_lock
  placed,    \* addresses whose pages have been given the weighted policy
  inside,    \* inside[t]: the thread_local inside_unstickymem
  pc,        \* pc[t]: the next step of t's current call
  call,      \* call[t]: arguments and local variables of that call
  calls,     \* calls made so far
  died       \* a DIE or DIEIF ended the process

vars == <<brk, live, hand, heapEnd, segments, skipped, lock, placed, inside, pc, call,
          calls, died>>

(***************************************************************************)
(* Segments.                                                               *)
(***************************************************************************)
Wrap(a) == a % AddrSpace

\* The inclusive last address the handlers compute: result + size - 1.
LastAddressPastEnd(start, size) == Wrap(start + size)
LastAddress(start, size) == Wrap(start + size - 1)

Segment(start, size) == [start |-> start, end |-> LastAddress(start, size)]

ContainsOneMore(s, a) == a >= s.start /\ a <= s.end + 1
Contains(s, a) == a >= s.start /\ a <= s.end

\* Long enough for its pages to be placed.
Length(s) == Wrap(s.end - s.start + 1)

IsLong(s) == Length(s) > PlaceMin

Addresses(s) == s.start .. s.end

InHeap(a) == Contains([start |-> 1, end |-> heapEnd], a)

(***************************************************************************)
(* The state when the constructor has run.  It adds one segment for each   *)
(* anonymous mapping of /proc/self/maps, where the kernel has merged       *)
(* adjacent allocations, and has the mode place it.  The end it stores for *)
(* the heap is inclusive, the end updateHeap stores is the break itself.   *)
(***************************************************************************)
OutsideHeap(blocks) == {a \in Spans(blocks) : a \in MmapZone}

Mappings(addrs) ==
  {s \in [start : addrs, end : addrs] :
     /\ s.start <= s.end
     /\ Addresses(s) \subseteq addrs
     /\ s.start - 1 \notin addrs
     /\ s.end + 1 \notin addrs}

Idle == [op |-> "none", ptr |-> Null, size |-> 0, wasIn |-> FALSE,
         isIn |-> FALSE, seen |-> Null, ret |-> Null]

Init ==
  /\ brk = InitBrk
  /\ live = InitBlocks
  /\ hand = [t \in Threads |-> {}]
  /\ heapEnd = InitBrk - 1
  /\ segments = Mappings(OutsideHeap(InitBlocks))
  /\ skipped = {}
  /\ lock = NoThread
  /\ placed = UNION {Addresses(s) : s \in {m \in segments : IsLong(m)}}
  /\ inside = [t \in Threads |-> FALSE]
  /\ pc = [t \in Threads |-> "idle"]
  /\ call = [t \in Threads |-> Idle]
  /\ calls = 0
  /\ died = FALSE

\* What the application holds: the live blocks no call is working on.
Held == live \ UNION {hand[t] : t \in Threads}
HeldBy(kinds) == {b \in Held : b.by \in kinds}

At(t, label) == pc[t] = label
Goto(t, label) == pc' = [pc EXCEPT ![t] = label]
Set(t, c) == call' = [call EXCEPT ![t] = c]

\* Bound: the blocks there are and those being asked for.
Room ==
  Cardinality(live) + Cardinality({t \in Threads : At(t, "real") /\ hand[t] = {}})
    < MaxBlocks

(***************************************************************************)
(* The wrappers: the application calls an interposed function.  The first  *)
(* step of free and realloc, the test of ptr against the heap, comes with  *)
(* the call.                                                               *)
(***************************************************************************)
Enter(t, op, ptr, size) ==
  /\ At(t, "idle")
  /\ op \in Ops
  /\ calls < MaxCalls
  /\ ptr = Null => Room
  /\ calls' = calls + 1
  /\ inside' = [inside EXCEPT ![t] = TRUE]
  /\ Set(t, [op |-> op, ptr |-> ptr, size |-> size, wasIn |-> InHeap(ptr),
             isIn |-> FALSE, seen |-> Null, ret |-> Null])
  /\ Goto(t, "real")
  /\ UNCHANGED <<brk, live, heapEnd, segments, skipped, lock, placed, died>>

\* A new block is asked for: malloc, calloc (whose handler differs in the
\* segment's name only), posix_memalign.
CallAlloc(t) ==
  /\ \E op \in {"malloc", "posix_memalign"}, n \in Sizes : Enter(t, op, Null, n)
  /\ UNCHANGED hand

CallMmap(t) ==
  /\ \E n \in Sizes \ {0} : Enter(t, "mmap", Null, n)
  /\ UNCHANGED hand

\* The application gives a block it holds to the call, or passes NULL.
CallFree(t) ==
  \/ \E b \in HeldBy({"libc", "reallocarray"}) :
        /\ Enter(t, "free", b.start, 0)
        /\ hand' = [hand EXCEPT ![t] = {b}]
  \/ Enter(t, "free", Null, 0) /\ UNCHANGED hand

CallRealloc(t) ==
  \E op \in {"realloc", "reallocarray"}, n \in Sizes :
    \/ \E b \in HeldBy({"libc", "reallocarray"}) :
         /\ Enter(t, op, b.start, n)
         /\ hand' = [hand EXCEPT ![t] = {b}]
    \/ Enter(t, op, Null, n) /\ UNCHANGED hand

\* The addresses of a munmap.
Range(a, n) == a .. (a + n - 1)

\* The application unmaps what it has mapped, in one piece or in several, from
\* any address on.
CallMunmap(t) ==
  \E a \in MmapZone, n \in 1..(MmapMax - MmapMin + 1) :
    LET blocks == {b \in live : Span(b) \cap Range(a, n) # {}}
    IN  /\ Range(a, n) \subseteq MmapZone
        /\ blocks # {} /\ blocks \subseteq HeldBy({"mmap"})
        /\ AnyUnmap \/ \E b \in blocks : Range(a, n) \subseteq Span(b)
        /\ PartialUnmap \/ Spans(blocks) \subseteq Range(a, n)
        /\ Enter(t, "munmap", a, n)
        /\ hand' = [hand EXCEPT ![t] = blocks]

\* mremap, brk, sbrk and mbind end the process.
CallUnsupported(t) ==
  /\ At(t, "idle")
  /\ "unsupported" \in Ops
  /\ calls < MaxCalls
  /\ calls' = calls + 1
  /\ died' = TRUE
  /\ UNCHANGED <<brk, live, hand, heapEnd, segments, skipped, lock, placed, inside, pc, call>>

(***************************************************************************)
(* The real calls of libc and the kernel.                                  *)
(***************************************************************************)
\* What is being unmapped: a program that let another thread's new block get there
\* would unmap what it has not mapped.
Unmapping ==
  UNION {Range(call[t].ptr, call[t].size) :
           t \in {u \in Threads : At(u, "real") /\ call[u].op = "munmap"}}

\* Where an allocation can go when `others` are the live blocks.
Vacant(others, n, by) ==
  {b \in [start : HeapZone \cup MmapZone, size : {n}, by : {by}] :
     /\ \/ Span(b) \subseteq MmapZone
        \/ Span(b) \subseteq HeapZone /\ by # "mmap"
     /\ Span(b) \cap (Spans(others) \cup Unmapping) = {}}

\* The break moves up to make room for the new block ...
BreakFor(b) == IF Span(b) \subseteq 1..(brk - 1) \cup MmapZone THEN brk ELSE Last(b) + 1

\* ... and comes down as far as the blocks of the heap allow.
Breaks(blocks, top) ==
  {e \in InitBrk..top : Spans(blocks) \cap HeapZone \subseteq 1..(e - 1)}

\* The parts of block b that munmap(a, n) leaves mapped.
Remainder(b, a, n) ==
  {r \in {[start |-> b.start, size |-> a - b.start, by |-> b.by],
          [start |-> a + n, size |-> b.start + b.size - (a + n), by |-> b.by]} :
     r.size > 0}

Remainders(blocks, a, n) == UNION {Remainder(b, a, n) : b \in blocks}

\* After the real call: free looks at the heap or at the list, munmap and mmap
\* at the list, reallocarray returns, the others update the heap.
AfterRealNoUpdate(t) ==
  CASE call[t].op = "free" /\ ~call[t].wasIn -> "lockRemove"
    [] call[t].op = "munmap" -> "lockRemove"
    [] call[t].op = "mmap" -> "lockInsert"
    [] call[t].op \in {"reallocarray", "free"} -> "return"
    [] OTHER -> "classify"
AfterRealNoInsert(t) ==
  CASE call[t].op = "free" /\ ~call[t].wasIn -> "lockRemove"
    [] call[t].op = "munmap" -> "lockRemove"
    [] call[t].op \in {"reallocarray", "mmap"} -> "return"
    [] OTHER -> "readBreak"
AfterReal(t) ==
  CASE call[t].op = "free" /\ ~call[t].wasIn -> "lockRemove"
    [] call[t].op = "munmap" -> "lockRemove"
    [] call[t].op = "mmap" -> "lockInsert"
    [] call[t].op = "reallocarray" -> "return"
    [] OTHER -> "readBreak"

\* The segments with memory that munmap takes and that do not contain its address:
\* the handler will not remove them.
SkippedBy(t, fresh) ==
  {s \in segments :
     /\ call[t].op = "munmap"
     /\ Addresses(s) \cap fresh # {}
     /\ ~Contains(s, call[t].ptr)}

\* The real call took the blocks of `taken`, gave those of `given` and returned
\* p; the pages at the addresses of `fresh` have lost their policy.
Real(t, taken, given, fresh, p) ==
  /\ live' = (live \ taken) \cup given
  /\ hand' = [hand EXCEPT ![t] = (hand[t] \ taken) \cup given]
  /\ placed' = placed \ fresh
  /\ skipped' = skipped \cup SkippedBy(t, fresh)
  /\ Set(t, [call[t] EXCEPT !.ret = p])
  /\ Goto(t, AfterReal(t))
  /\ UNCHANGED <<heapEnd, segments, lock, inside, calls, died>>

\* A new block in place of those of `taken`.
Obtain(t, taken, by) ==
  \E b \in Vacant(live \ taken, call[t].size, by) :
    /\ Real(t, taken, {b}, Spans(taken \cup {b}), b.start)
    /\ brk' = BreakFor(b)

\* Nothing allocated and nothing released.
Fail(t, p) ==
  /\ call[t].op \in MayFail
  /\ Real(t, {}, {}, {}, p)
  /\ UNCHANGED brk

\* A failing posix_memalign leaves in *memptr what the application had there.
RealAlloc(t) ==
  /\ At(t, "real") /\ call[t].op \in {"malloc", "posix_memalign"}
  /\ \/ Obtain(t, {}, "libc")
     \/ call[t].op = "malloc" /\ Fail(t, Null)
     \/ /\ call[t].op = "posix_memalign"
        /\ \E p \in {Null} \cup {b.start : b \in Held} : Fail(t, p)

\* MAP_FAILED is the last address.
RealMmap(t) ==
  /\ At(t, "real") /\ call[t].op = "mmap"
  /\ Obtain(t, {}, "mmap") \/ Fail(t, AddrSpace - 1)

RealFree(t) ==
  /\ At(t, "real") /\ call[t].op = "free"
  /\ Real(t, hand[t], {}, Spans(hand[t]), Null)
  /\ brk' \in Breaks(live \ hand[t], brk)

\* realloc of size 0 frees the block and returns NULL.
RealRealloc(t) ==
  /\ At(t, "real") /\ call[t].op \in {"realloc", "reallocarray"}
  /\ IF call[t].size = 0 /\ call[t].ptr # Null
     THEN /\ Real(t, hand[t], {}, Spans(hand[t]), Null)
          /\ brk' \in Breaks(live \ hand[t], brk)
     ELSE \/ Obtain(t, hand[t], IF call[t].op = "realloc" THEN "libc" ELSE "reallocarray")
          \/ Fail(t, Null)

RealMunmap(t) ==
  /\ At(t, "real") /\ call[t].op = "munmap"
  /\ LET a == call[t].ptr
         n == call[t].size
     IN  \/ /\ Real(t, hand[t], Remainders(hand[t], a, n), Range(a, n), Null)
            /\ UNCHANGED brk
         \/ Fail(t, Null)

(***************************************************************************)
(* updateHeap: the break is read, compared with the stored end of the heap *)
(* and, if they differ, read again and stored.  No lock is held.           *)
(***************************************************************************)
AfterUpdateRetry(t) == "readBreak"
AfterUpdate(t) == IF call[t].op = "free" THEN "return" ELSE "classify"

ReadBreak(t) ==
  /\ At(t, "readBreak")
  /\ Set(t, [call[t] EXCEPT !.seen = brk])
  /\ Goto(t, "compare")
  /\ UNCHANGED <<brk, live, hand, heapEnd, segments, skipped, lock, placed, inside, calls, died>>

CompareHeapEnd(t) ==
  /\ At(t, "compare")
  /\ Goto(t, IF heapEnd # call[t].seen THEN "readAgain" ELSE AfterUpdate(t))
  /\ Set(t, [call[t] EXCEPT !.seen = Null])
  /\ UNCHANGED <<brk, live, hand, heapEnd, segments, skipped, lock, placed, inside, calls, died>>

ReadBreakAgain(t) ==
  /\ At(t, "readAgain")
  /\ Set(t, [call[t] EXCEPT !.seen = brk])
  /\ Goto(t, "storeEnd")
  /\ UNCHANGED <<brk, live, hand, heapEnd, segments, skipped, lock, placed, inside, calls, died>>

StoreHeapEnd(t) ==
  /\ At(t, "storeEnd")
  /\ heapEnd' = call[t].seen
  /\ Goto(t, AfterUpdate(t))
  /\ Set(t, [call[t] EXCEPT !.seen = Null])
  /\ UNCHANGED <<brk, live, hand, segments, skipped, lock, placed, inside, calls, died>>

(***************************************************************************)
(* The result is looked up in the heap segment.  realloc first removes the *)
(* segment of the old block when that was not in the heap.                 *)
(***************************************************************************)
AfterRemoveDone(t) == "return"
AfterRemove(t) ==
  IF call[t].op = "realloc" /\ ~call[t].isIn THEN "lockInsert" ELSE "return"

AfterClassify(t) ==
  IF call[t].op = "realloc" /\ ~call[t].wasIn THEN "lockRemove"
  ELSE IF InHeap(call[t].ret) THEN "return" ELSE "lockInsert"

Classify(t) ==
  /\ At(t, "classify")
  /\ Set(t, [call[t] EXCEPT !.isIn = InHeap(call[t].ret)])
  /\ Goto(t, AfterClassify(t))
  /\ UNCHANGED <<brk, live, hand, heapEnd, segments, skipped, lock, placed, inside, calls, died>>

(***************************************************************************)
(* The list, under _segments_lock.                                         *)
(***************************************************************************)
AcquireLock(t) ==
  /\ lock = NoThread
  /\ lock' = t
  /\ \/ At(t, "lockRemove") /\ Goto(t, "remove")
     \/ At(t, "lockInsert") /\ Goto(t, "insert")
  /\ UNCHANGED <<brk, live, hand, heapEnd, segments, skipped, placed, inside, call, calls, died>>

\* The list's nodes are allocated and freed by the interposed functions too.
\* inside_unstickymem sends these calls straight to libc, where they may move
\* the break; without it they would ask for the lock this thread holds.
NestedCalls(t) ==
  /\ inside[t]
  /\ brk' \in Breaks(live, IF brk > HeapMax THEN brk ELSE brk + 1)

KeptByStart(t) == {s \in segments : s.start # call[t].ptr}
Kept(t) == {s \in segments : ~Contains(s, call[t].ptr)}

RemoveSegments(t) ==
  /\ At(t, "remove")
  /\ segments' = Kept(t)
  /\ skipped' = skipped \cap Kept(t)
  /\ NestedCalls(t)
  /\ lock' = NoThread
  /\ Goto(t, AfterRemove(t))
  /\ UNCHANGED <<live, hand, heapEnd, placed, inside, call, calls, died>>

InsertSegment(t) ==
  /\ At(t, "insert")
  /\ segments' = segments \cup {Segment(call[t].ret, call[t].size)}
  /\ skipped' = skipped \ {Segment(call[t].ret, call[t].size)}
  /\ NestedCalls(t)
  /\ Goto(t, "place")
  /\ UNCHANGED <<live, hand, heapEnd, lock, placed, inside, call, calls, died>>

\* processSegmentAddition: a long segment is given the weighted policy, and the
\* process dies when mbind fails because the range is not all mapped.
PlaceSegment(t) ==
  LET s == Segment(call[t].ret, call[t].size)
      mapped == s.start <= s.end /\ Addresses(s) \subseteq Spans(live) \cup 1..(brk - 1)
  IN  /\ At(t, "place")
      /\ placed' = IF IsLong(s) /\ mapped THEN placed \cup Addresses(s) ELSE placed
      /\ died' = (IsLong(s) /\ ~mapped)
      /\ lock' = NoThread
      /\ Goto(t, "return")
      /\ UNCHANGED <<brk, live, hand, heapEnd, segments, skipped, inside, call, calls>>

\* Back in the application, which now holds what the call gave it.
Return(t) ==
  /\ At(t, "return")
  /\ hand' = [hand EXCEPT ![t] = {}]
  /\ inside' = [inside EXCEPT ![t] = FALSE]
  /\ Set(t, Idle)
  /\ Goto(t, "idle")
  /\ UNCHANGED <<brk, live, heapEnd, segments, skipped, lock, placed, calls, died>>

Call(t) ==
  \/ CallAlloc(t) \/ CallMmap(t) \/ CallFree(t) \/ CallRealloc(t)
  \/ CallMunmap(t) \/ CallUnsupported(t)

RealCall(t) ==
  RealAlloc(t) \/ RealMmap(t) \/ RealFree(t) \/ RealRealloc(t) \/ RealMunmap(t)

UpdateHeap(t) ==
  ReadBreak(t) \/ CompareHeapEnd(t) \/ ReadBreakAgain(t) \/ StoreHeapEnd(t)

UpdateList(t) == AcquireLock(t) \/ RemoveSegments(t) \/ InsertSegment(t) \/ PlaceSegment(t)

\* The rest of a call once it is made.
Handle(t) == RealCall(t) \/ UpdateHeap(t) \/ Classify(t) \/ UpdateList(t) \/ Return(t)

\* The application is done, or the process has ended.
AllIdle == \A t \in Threads : At(t, "idle")
Rest == (died \/ AllIdle) /\ UNCHANGED vars

Next ==
  \/ ~died /\ \E t \in Threads : Call(t) \/ Handle(t)
  \/ Rest

Spec == Init /\ [][Next]_vars

\* The kernel runs every thread, and calls are bounded: a thread that waits for
\* the lock cannot be overtaken for ever.
FairSpec == Spec /\ \A t \in Threads : WF_vars(~died /\ Handle(t))
(***************************************************************************)
(* Properties.                                                             *)
(***************************************************************************)
Labels == {"idle", "real", "readBreak", "compare", "readAgain", "storeEnd",
           "classify", "lockRemove", "remove", "lockInsert", "insert", "place",
           "return"}

Calls == [op : Ops \cup {"none"}, ptr : Nat, size : Nat, wasIn : BOOLEAN,
          isIn : BOOLEAN, seen : 0..(HeapMax + 1), ret : Nat]

\* The types of the variables.
TypeOK ==
  /\ brk \in InitBrk..(HeapMax + 1)
  /\ live \subseteq Block
  /\ hand \in [Threads -> SUBSET live]
  /\ heapEnd \in 0..(HeapMax + 1)
  /\ segments \subseteq [start : Nat, end : Nat]
  /\ skipped \subseteq segments
  /\ lock \in Threads \cup {NoThread}
  /\ placed \subseteq Nat
  /\ inside \in [Threads -> BOOLEAN]
  /\ pc \in [Threads -> Labels]
  /\ call \in [Threads -> Calls]
  /\ calls \in 0..MaxCalls
  /\ died \in BOOLEAN

\* Call t has released memory outside the heap and still has to remove from the
\* list the segments that contain its pointer.
RemovalAhead(t) ==
  /\ call[t].op \in {"free", "realloc", "munmap"}
  /\ ~call[t].wasIn
  /\ pc[t] \in {"readBreak", "compare", "readAgain", "storeEnd", "classify",
                "lockRemove", "remove"}

Doomed(s) == \E t \in Threads : RemovalAhead(t) /\ Contains(s, call[t].ptr)

\* A segment outside the heap covers live memory only, from the first of its
\* addresses to the last, or a call that is under way removes it: the handlers
\* make the real call first and remove the segment afterwards, and whatever the
\* other threads do in between no stale segment outlives the call.  The one
\* exception are the segments whose memory a munmap takes that starts before them:
\* handle_munmap unmaps the whole range and looks for its first address only.
SegmentsLive ==
  \A s \in segments \ skipped :
    s.start \in MmapZone => Addresses(s) \subseteq Spans(live) \/ Doomed(s)

\* A block outside the heap that the application holds has been given the
\* weighted policy over all its length if it is long enough: the handler places
\* it before it returns, and no other call undoes that.
LongBlocksPlaced ==
  \A b \in HeldBy({"libc", "mmap"}) :
    b.size > PlaceMin /\ b.start \in MmapZone => Span(b) \subseteq placed

\* "if it was not placed in the heap, means it is a new region!"
\* (MemoryMap.cpp:126): what a handler adds to the list is not a heap block.
NewRegionsOutsideHeap ==
  \A t \in Threads : At(t, "insert") => call[t].ret \notin HeapZone

\* "mbind interleave failed" (PagePlacement.cpp:906) ends the process only when the
\* real call gave nothing and its failure was not looked at: the range a handler
\* places is mapped until it returns, whatever the other threads release.  Size 0 is
\* no reason: the segment of an empty block ends before it starts and that of NULL
\* covers every address, but the length of both comes out as 0.
PlacementFailsOnlyWithoutBlock ==
  died /\ "unsupported" \notin Ops =>
    \E t \in Threads :
      At(t, "return") /\ call[t].ret \in {Null, AddrSpace - 1} /\ call[t].size > 0

\* "if not in heap, remove the mapped segment" (MemoryMap.cpp:206): the segments
\* a call removes are its own, they cover no block that another call or the
\* application has.
RemovesOwnSegmentOnly ==
  [][\A s \in segments \ segments' :
       \A b \in live \ hand[lock] :
         b.start \in MmapZone => Addresses(s) \cap Span(b) = {}]_vars

\* Every call returns, unless the process ends: no thread waits for ever for
\* _segments_lock, which handlers take twice in a row but never while they have it.
CallsReturn == \A t \in Threads : ~At(t, "idle") ~> (At(t, "idle") \/ died)

\* The blocks outside the heap, as segments, and the list seen as the one that
\* RegionList promises.
RegionsOf(blocks) == {Segment(b.start, b.size) : b \in {c \in blocks : c.start \in MmapZone}}
Regions == RegionsOf(live)
RegionSet == {s \in [start : MmapZone, end : MmapZone] : s.start <= s.end}
Promise ==
  INSTANCE RegionList WITH
    Region <- RegionSet, regions <- Regions, list <- segments, busy <- ~AllIdle

\* The handlers implement RegionList for a program of one thread: each call leaves
\* the list equal to the blocks outside the heap when it returns, through one
\* removal and one addition at most, and does so in the end.
ImplementsRegionList == Promise!Spec
(***************************************************************************)
(* The inductive invariant behind SegmentsLive.                            *)
(***************************************************************************)
\* Blocks do not overlap, each is in one zone, and each is in one hand at most.
BlocksApart ==
  /\ \A b \in live : \/ Span(b) \subseteq MmapZone
                     \/ Span(b) \subseteq HeapZone /\ b.by # "mmap"
  /\ \A b, c \in live : b # c => Span(b) \cap Span(c) = {}
  /\ \A t, u \in Threads : t # u => hand[t] \cap hand[u] = {}

\* A segment covers a live block outside the heap wholly or not at all, again but for
\* those a munmap has skipped.
SegmentsWhole ==
  \A s \in segments \ skipped :
    s.start \in MmapZone =>
      \/ Doomed(s)
      \/ \A b \in live : Span(b) \cap Addresses(s) = {} \/ Span(b) \subseteq Addresses(s)

\* What a call that is about to release memory has: the block its pointer points
\* to, or those its range reaches.  It takes a pointer outside the heap for what it is.
ReleasesItsBlock(t) ==
  /\ At(t, "idle") => hand[t] = {}
  /\ call[t].ptr \in MmapZone => ~call[t].wasIn
  /\ call[t].op = "munmap" => call[t].ptr \in MmapZone /\ call[t].size > 0
  /\ At(t, "real") => \A b \in hand[t] :
       /\ call[t].op \in {"free", "realloc"} => b.start = call[t].ptr
       /\ call[t].op = "munmap" => Span(b) \cap Range(call[t].ptr, call[t].size) # {}

\* What a munmap under way is going to unmap belongs to no one else.
RangesApart ==
  \A t \in Threads :
    At(t, "real") /\ call[t].op = "munmap" =>
      Spans(live \ hand[t]) \cap Range(call[t].ptr, call[t].size) = {}

\* What a call that adds a segment outside the heap has: the block it describes.
\* A free looks at the break only if its pointer was in the heap.
Adders == {"malloc", "posix_memalign", "mmap", "realloc"}

AddsItsBlock(t) ==
  /\ pc[t] \in {"classify", "lockInsert", "insert"} => call[t].op \in Adders
  /\ pc[t] \in {"readBreak", "compare", "readAgain", "storeEnd"} =>
       call[t].op \in Adders \/ (call[t].op = "free" /\ call[t].wasIn)
  /\ /\ pc[t] \notin {"idle", "real", "place", "return"}
     /\ call[t].op \in Adders
     /\ call[t].ret \in MmapZone
     => \E b \in hand[t] : b.start = call[t].ret /\ b.size = call[t].size

IInv ==
  /\ TypeOK
  /\ BlocksApart
  /\ RangesApart
  /\ \A t \in Threads : ReleasesItsBlock(t) /\ AddsItsBlock(t)
  /\ SegmentsWhole
  /\ SegmentsLive
=============================================================================
