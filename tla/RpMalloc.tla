------------------------------ MODULE RpMalloc ------------------------------
(***************************************************************************)
(* Threads that allocate, free each other's blocks, exit and start anew    *)
(* (rpmalloc/rpmalloc.c).  A step runs to the next access of a word that   *)
(* another thread may change: the deferred list of a span, the deferred    *)
(* spans of a heap, the global cache, the lock of the heaps.  Memory       *)
(* accesses are sequentially consistent.                                   *)
(***************************************************************************)
EXTENDS RpSpans, Functions

CONSTANTS
  Threads, MainThread,
  Menus,            \* programs: what they allocate, <<class, spans>>, and the number
                    \* of calls of rpmalloc and of the thread functions they make
  Overlap           \* may a thread free a block of its own while another thread
                    \* is freeing one of the same span

ASSUME ConstantsAssumption ==
  /\ MainThread \in Threads /\ Cardinality(Threads) <= NHeap /\ PageBlocks >= 2
  /\ \A c \in Classes : BlockCount[c] >= 2

VARIABLES mem,      \* spans, heaps and global caches
          th,       \* the threads' local state
          live,     \* the blocks the program holds
          calls, ended, menu
vars == <<mem, th, live, calls, ended, menu>>

Idle == [pc |-> "idle", cls |-> "none", count |-> 0, span |-> NIL, block |-> <<>>,
         taken |-> <<>>, n |-> 0]

Init ==
  /\ mem = [span |-> [s \in Slot |-> NoSpan], heap |-> [h \in Heap |-> NoHeap],
            global |-> [k \in 1 .. MaxCount |-> <<>>], orphans |-> <<>>, heaps |-> NIL]
  /\ th = [t \in Threads |-> [local |-> Idle, heap |-> NIL]]
  /\ live = {} /\ calls = 0 /\ ended = FALSE /\ menu \in Menus

At(t, pc)   == th[t].local.pc = pc
Goto(t, l)  == th' = [th EXCEPT ![t].local = l]
Busy(t, pc) == At(t, pc) /\ UNCHANGED <<calls, ended, menu>>
Call(t)     == At(t, "idle") /\ calls < menu.calls /\ ~ended /\ calls' = calls + 1 /\ UNCHANGED <<ended, menu>>

----------------------------------------------------------------------------
\* Heaps of threads.

\* _rpmalloc_heap_allocate_new: a mapping of NHeap heaps, the others orphans.
AllocateHeaps(m) ==
  LET s == MMap(m, 1)
  IN [SpanInitialize(m, s, 1, 1) EXCEPT !.heaps = s,
        !.orphans = [i \in 1 .. NHeap - 1 |-> NHeap + 1 - i],
        !.heap = [h \in Heap |-> [NoHeap EXCEPT !.alive = TRUE,
                    !.children = IF h = 1 THEN NHeap - 1 ELSE 0,
                    !.master = IF h = 1 THEN NIL ELSE 1]]]

\* rpmalloc_thread_initialize: an orphaned heap, or the first of a new mapping.
ThreadInitialize(t) ==
  /\ Call(t) /\ th[t].heap = NIL
  /\ LET old == mem.orphans # <<>>
         h   == IF old THEN Head(mem.orphans) ELSE 1
         m   == IF old THEN [mem EXCEPT !.orphans = Tail(@)] ELSE AllocateHeaps(mem)
     IN /\ mem' = [m EXCEPT !.heap[h].owner = t]
        /\ th' = [th EXCEPT ![t].heap = h]
  /\ UNCHANGED live

\* _rpmalloc_heap_release: the deferred spans and the caches go to the global
\* cache; what is in use stays with the heap.
ReleaseHeap(m, h) ==
  LET Give(A, k) == [GlobalInsert(A, k, A.heap[h].cache[k]) EXCEPT !.heap[h].cache[k] = <<>>]
  IN FoldLeft(Give, AdoptDeferred(m, h, FALSE)[1], [k \in 1 .. MaxCount |-> k])

\* rpmalloc_thread_finalize, in two steps: the caches, then the list of orphans.
ThreadFinalize(t) ==
  /\ Call(t) /\ th[t].heap # NIL /\ t # MainThread
  /\ mem' = ReleaseHeap(mem, th[t].heap)
  /\ Goto(t, [Idle EXCEPT !.pc = "orphan"])
  /\ UNCHANGED live

OrphanHeap(m, h) == [m EXCEPT !.heap[h].owner = Orphan, !.orphans = <<h>> \o @]
BecomeOrphan(t) ==
  /\ Busy(t, "orphan")
  /\ mem' = OrphanHeap(mem, th[t].heap)
  /\ th' = [th EXCEPT ![t] = [local |-> Idle, heap |-> NIL]]
  /\ UNCHANGED live

\* rpmalloc_finalize, once the other threads are finalized.
Finalize ==
  LET Heaps(A) == FoldLeft(LAMBDA n, h : GlobalFinalize([n EXCEPT !.heap[h].finalize = 1], h),
                           A, SetToSortSeq({h \in Heap : mem.heap[h].alive}, <))
      Caches(A) == [UnmapAll(A, FlattenSeq(A.global)) EXCEPT !.global = [k \in 1 .. MaxCount |-> <<>>]]
      main == th[MainThread].heap
  IN /\ ~ended /\ At(MainThread, "idle") /\ main # NIL
     /\ \A t \in Threads \ {MainThread} : th[t].heap = NIL /\ At(t, "idle")
     /\ mem' = Caches(Heaps(OrphanHeap(ReleaseHeap(mem, main), main)))
     /\ th' = [th EXCEPT ![MainThread].heap = NIL]
     /\ ended' = TRUE /\ UNCHANGED <<live, calls, menu>>

----------------------------------------------------------------------------
\* Allocation.

Return(t, b) == Goto(t, Idle) /\ live' = live \cup {b}

\* A span for the wanted blocks: its heap, its class and the first block.
UseSpan(t, m, s) ==
  LET l == th[t].local
      p == InitializeNew(m, th[t].heap, s, l.cls)
  IN IF l.cls = Large
     THEN /\ mem' = [m EXCEPT !.span[s].cls = Large, !.span[s].heap = th[t].heap,
                              !.heap[th[t].heap].full = @ + 1]
          /\ Return(t, <<s, 1>>)
     ELSE mem' = p[1] /\ Return(t, p[2])

\* _rpmalloc_allocate_small, _medium: the class's free list, then its partial
\* spans, then a new span.
Allocate(t, c) ==
  LET h == th[t].heap
      r == mem.heap[h]
      p == TakePartial(mem, h, c)
      s == Head(r.partial[c])
  IN /\ Call(t) /\ h # NIL
     /\ \/ /\ r.free[c] # <<>>
           /\ mem' = [mem EXCEPT !.heap[h].free[c] = Tail(@)] /\ Return(t, Head(r.free[c]))
        \/ /\ r.free[c] = <<>> /\ r.partial[c] # <<>>
           /\ IF mem.span[s].locked \/ mem.span[s].defer # <<>>
              THEN /\ mem' = p[1] /\ UNCHANGED live
                   /\ Goto(t, [Idle EXCEPT !.pc = "extract", !.cls = c, !.span = s, !.block = p[2]])
              ELSE mem' = LeavePartial(p[1], h, c, s) /\ Return(t, p[2])
        \/ /\ r.free[c] = <<>> /\ r.partial[c] = <<>>
           /\ Goto(t, [Idle EXCEPT !.pc = "own", !.cls = c, !.count = 1])
           /\ UNCHANGED <<mem, live>>

\* The deferred blocks of the partial span, once nobody holds their list.
Extract(t) ==
  LET l == th[t].local IN
  /\ Busy(t, "extract") /\ ~mem.span[l.span].locked
  /\ mem' = LeavePartial(ExtractDeferred(mem, l.span), th[t].heap, l.cls, l.span)
  /\ Return(t, l.block)

\* _rpmalloc_allocate_large
AllocateLarge(t, k) ==
  /\ Call(t) /\ th[t].heap # NIL
  /\ Goto(t, [Idle EXCEPT !.pc = "own", !.cls = Large, !.count = k])
  /\ UNCHANGED <<mem, live>>

\* _rpmalloc_heap_extract_new_span: own heap, global cache, new mapping.
Got(t, pc, next, p) ==
  /\ Busy(t, pc)
  /\ IF p[2] # NIL THEN UseSpan(t, p[1], p[2])
     ELSE mem' = p[1] /\ Goto(t, next) /\ UNCHANGED live
FromOwn(t) == LET l == th[t].local IN
  Got(t, "own", [l EXCEPT !.pc = "global"], ExtractOwn(mem, th[t].heap, l.cls, l.count))
FromGlobal(t) == LET l == th[t].local IN
  Got(t, "global", [l EXCEPT !.pc = "map"], ExtractGlobal(mem, th[t].heap, l.count))
FromMap(t) == LET l == th[t].local IN
  Got(t, "map", Idle, SpanMap(mem, th[t].heap, l.count))

\* _rpmalloc_allocate_huge: 'k' slots of its own.
AllocateHuge(t, k) ==
  LET h == th[t].heap
      Mapped(A, s) ==
        [SpanInitialize(A, s, k, k) EXCEPT !.span[s].cls = Huge, !.span[s].heap = h, !.heap[h].full = @ + 1]
      Use(A, s) == IF s = NIL THEN mem' = A /\ UNCHANGED <<th, live>>
                   ELSE mem' = Mapped(A, s) /\ Return(t, <<s, 1>>)
      Try(A) == Use(A, MMap(A, k))
  IN Call(t) /\ h # NIL /\ Try(AdoptDeferred(mem, h, FALSE)[1])

----------------------------------------------------------------------------
\* Deallocation.

\* _rpmalloc_deallocate_defer_free_span
DeferSpan(m, s) == [m EXCEPT !.heap[m.span[s].heap].deferred = <<s>> \o @]

InFlight(s) == \E t \in Threads : th[t].local.pc \in {"defer", "deferred"} /\ th[t].local.span = s

\* _rpmalloc_deallocate of a block whose heap is the thread's or is finalized
Mine(t, b) == LET r == mem.heap[mem.span[b[1]].heap] IN r.owner = t \/ r.finalize # 0
FreeMine(t, b) ==
  LET c == mem.span[b[1]].cls IN
  /\ Busy(t, "idle") /\ Mine(t, b) /\ (Overlap \/ ~InFlight(b[1]))
  /\ mem' = IF c = Large THEN FreeLarge(mem, b[1])
            ELSE IF c = Huge THEN FreeHuge(mem, b[1]) ELSE FreeDirect(mem, b)
  /\ live' = live \ {b} /\ UNCHANGED th

\* ... and of another heap's: a large or huge span is pushed at once.
FreeOthersLarge(t, b) ==
  /\ Busy(t, "idle") /\ ~Mine(t, b) /\ mem.span[b[1]].cls \in {Large, Huge}
  /\ mem' = DeferSpan(mem, b[1]) /\ live' = live \ {b} /\ UNCHANGED th

\* _rpmalloc_deallocate_defer_small_or_medium: take the list, leaving
\* INVALID_POINTER, and count the block;
DeferTake(t, b) ==
  LET s == b[1] IN
  /\ Busy(t, "idle") /\ ~Mine(t, b) /\ mem.span[s].cls \in Classes /\ ~mem.span[s].locked
  /\ mem' = [mem EXCEPT !.span[s].locked = TRUE, !.span[s].defer = <<>>, !.span[s].lsize = @ + 1]
  /\ Goto(t, [Idle EXCEPT !.pc = "defer", !.span = s, !.block = b,
                          !.taken = mem.span[s].defer, !.n = mem.span[s].lsize + 1])
  /\ live' = live \ {b}

\* (mutant) the block replaces the list
DeferStoreDrops(t) ==
  LET l == th[t].local IN
  /\ Busy(t, "defer")
  /\ mem' = [mem EXCEPT !.span[l.span].locked = FALSE, !.span[l.span].defer = <<l.block>>]
  /\ Goto(t, [l EXCEPT !.pc = "deferred"]) /\ UNCHANGED live

\* put it back with the block at its head;
DeferStore(t) ==
  LET l == th[t].local IN
  /\ Busy(t, "defer")
  /\ mem' = [mem EXCEPT !.span[l.span].locked = FALSE,
                        !.span[l.span].defer = <<l.block>> \o l.taken]
  /\ Goto(t, [l EXCEPT !.pc = "deferred"]) /\ UNCHANGED live

\* (mutant) the last block does not hand over the span
DeferLastKeeps(t) ==
  Busy(t, "deferred") /\ Goto(t, Idle) /\ UNCHANGED <<mem, live>>

\* and when it was the last block, give the span to its heap.
DeferLast(t) ==
  LET l == th[t].local
      r == mem.span[l.span]
  IN /\ Busy(t, "deferred")
     /\ mem' = IF l.n = r.blocks THEN DeferSpan(mem, l.span) ELSE mem
     /\ Goto(t, Idle) /\ UNCHANGED live

----------------------------------------------------------------------------
Step(t) ==
  \/ BecomeOrphan(t) \/ Extract(t) \/ FromOwn(t) \/ FromGlobal(t) \/ FromMap(t)
  \/ DeferStore(t) \/ DeferLast(t)

Start(t) ==
  \/ ThreadInitialize(t) \/ ThreadFinalize(t)
  \/ \E k \in menu.kinds : \/ (k[1] \in Classes /\ Allocate(t, k[1]))
                           \/ (k[1] = Large /\ AllocateLarge(t, k[2]))
                           \/ (k[1] = Huge /\ AllocateHuge(t, k[2]))
  \/ \E b \in live : th[t].heap # NIL /\ (FreeMine(t, b) \/ FreeOthersLarge(t, b) \/ DeferTake(t, b))

\* The main thread may free blocks after rpmalloc_finalize.
FreeLate == ended /\ \E b \in live : FreeMine(MainThread, b)

Next == (\E t \in Threads : Start(t) \/ Step(t)) \/ Finalize \/ FreeLate

Spec == Init /\ [][Next]_vars

----------------------------------------------------------------------------
\* Properties.

InSeq(seq)    == {seq[i] : i \in 1 .. Len(seq)}
Distinct(seq) == Cardinality(InSeq(seq)) = Len(seq)
Header(s)     == mem.span[s].st = "mapped" /\ mem.span[s].count > 0
Counts        == [k \in 1 .. MaxCount |-> k]

\* The free spans: in a cache of a heap, in the global cache, or freed by
\* another thread and not yet adopted.
FreeSpans ==
  LET OfHeap(h) == LET r == mem.heap[h] IN
        FlattenSeq(r.cache) \o r.deferred
        \o SelectSeq(SetToSeq({r.ccache[c] : c \in Classes}), LAMBDA s : s # NIL)
  IN FlattenSeq(mem.global) \o FlattenSeq([h \in Heap |-> OfHeap(h)])
ReserveOf(h) == {x \in Slot : x \in mem.heap[h].reserve .. mem.heap[h].reserve + mem.heap[h].reserved - 1}
Used == {s \in Slot : Header(s) /\ ~mem.span[s].gone} \
           (InSeq(FreeSpans) \cup UNION {ReserveOf(h) : h \in Heap})
Partial(h) == FlattenSeq([i \in 1 .. Cardinality(Classes) |-> mem.heap[h].partial[SetToSeq(Classes)[i]]])
SumOf(f)   == FoldFunction(+, 0, f)
Extent(s)  == s .. s + mem.span[s].count - 1

\* Where the blocks of a span in use are.
BlocksOf(s) ==
  LET r == mem.span[s]
      Of(t) == LET l == th[t].local IN
        IF l.span # s THEN <<>>
        ELSE IF l.pc = "defer" THEN <<l.block>> \o l.taken
        ELSE IF l.pc = "extract" THEN <<l.block>> ELSE <<>>
  IN r.list \o r.defer
     \o SelectSeq(mem.heap[r.heap].free[r.cls], LAMBDA b : b[1] = s)
     \o FlattenSeq([i \in 1 .. Cardinality(Threads) |-> Of(SetToSeq(Threads)[i])])
     \o SetToSeq({b \in live : b[1] = s})

\* No block is handed out twice and none is lost: each block that was ever
\* initialized of a span in use is held by the program, by one thread, or by
\* exactly one free list, whatever frees of other threads are under way.  And
\* every mapped slot is part of one span, which is in exactly one place: in use,
\* in one cache, in a reserve, or unmapped ahead of its mapping, whose count of
\* remaining spans says so.
MemoryOnce ==
  LET BlocksOnce(s) ==
        LET all == BlocksOf(s) IN Distinct(all) /\ InSeq(all) = {s} \X (1 .. mem.span[s].limit)
      free == FreeSpans
      gone == {s \in Slot : mem.span[s].gone}
      res  == {h \in Heap : mem.heap[h].reserved > 0}
      mapped == {x \in Slot : mem.span[x].st = "mapped"}
      parts == [s \in Used \cup InSeq(free) \cup gone |-> Extent(s)]
      whole == {s \in Slot : Header(s) /\ mem.span[s].master = s /\ mem.span[s].cls # Huge}
      Dead(ms) == UNION {Extent(s) : s \in gone \cap {ms}} \cup {x \in Slot : mem.span[x].st = "dropped"}
  IN /\ \A s \in Used : mem.span[s].cls \in Classes => BlocksOnce(s)
     /\ Distinct(free) /\ \A s \in InSeq(free) : Header(s) /\ ~mem.span[s].gone
     /\ \A b \in live : b[1] \in Used
     /\ \A s \in Used : s = mem.heaps \/ mem.span[s].cls \in Classes \/ <<s, 1>> \in live
     /\ \A h \in Heap : \A c \in Classes :
          LET l == mem.heap[h].partial[c]
          IN Distinct(l) /\ \A s \in InSeq(l) : s \in Used /\ mem.span[s].heap = h /\ mem.span[s].cls = c
     /\ UNION ({parts[s] : s \in DOMAIN parts} \cup {ReserveOf(h) : h \in res}) = mapped
     /\ SumOf([s \in DOMAIN parts |-> mem.span[s].count]) + SumOf([h \in res |-> mem.heap[h].reserved])
          = Cardinality(mapped)
     /\ \A ms \in whole : mem.span[ms].total > 0 =>
          mem.span[ms].remaining =
            Cardinality((ms .. ms + mem.span[ms].total - 1) \ Dead(ms))

\* The counters agree with the lists they stand for: used blocks of a span,
\* deferred blocks when nobody holds their list, full spans of a heap.
Counters ==
  /\ \A s \in Used : mem.span[s].cls \in Classes =>
       LET r == mem.span[s] IN r.used + Len(r.list) = r.limit /\ (~r.locked => r.lsize = Len(r.defer))
  /\ \A h \in Heap : mem.heap[h].full =
       Cardinality({s \in Used \ InSeq(Partial(h)) : s # mem.heaps /\ mem.span[s].heap = h})
       + Len(mem.heap[h].deferred)

\* rpmalloc_finalize unmaps everything when all blocks were freed, by any
\* thread and in any order; a block freed later takes its span along, and
\* leaves no more than the heaps' own memory.
Released == [][ended' /\ live' = {} =>
                 \A s \in Slot : mem'.span[s].st = "free" \/ (ended /\ s = mem.heaps)]_vars
=============================================================================
