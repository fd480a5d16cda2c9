------------------------------ MODULE RpSpans ------------------------------
(***************************************************************************)
(* The spans and heaps of the allocator the interpreter is linked with     *)
(* (rpmalloc/rpmalloc.c), as functions of the memory `m' that return the   *)
(* new one: what a thread does to its own heap, to the caches of free      *)
(* spans and to the mapped address space.                                  *)
(*                                                                         *)
(* The address space is NSpan slots of a span's size.  A span of small     *)
(* blocks takes one slot; a large block takes `count' of them.  A linked   *)
(* list is the sequence of its elements, a block is <<span, index>>.       *)
(* Pages are not larger than spans, and heaps are not first-class          *)
(* (RPMALLOC_FIRST_CLASS_HEAPS 0), the defaults.                           *)
(***************************************************************************)
EXTENDS Integers, Sequences, FiniteSets, SequencesExt

CONSTANTS
  NSpan,            \* slots of the address space
  MapCount,         \* DEFAULT_SPAN_MAP_COUNT: slots mapped at once
  NHeap,            \* heaps in one mapping of heaps (16 in the code)
  BlockCount,       \* blocks of a span, per size class
  PageBlocks,       \* blocks that start in one page (at least 2)
  CacheMax,         \* MAX_THREAD_SPAN_CACHE
  Transfer,         \* THREAD_SPAN_CACHE_TRANSFER
  LargeCacheMax,    \* MAX_THREAD_SPAN_LARGE_CACHE
  LargeTransfer,    \* THREAD_SPAN_LARGE_CACHE_TRANSFER
  GlobalMultiplier, \* GLOBAL_CACHE_MULTIPLIER
  MaxCount          \* LARGE_CLASS_COUNT: spans of the largest large block

NIL     == 0
Slot    == 1 .. NSpan
Heap    == 1 .. NHeap
Classes == DOMAIN BlockCount
Large   == "large"
Huge    == "huge"
Orphan  == -1                      \* owner_thread of a heap no thread has

\* A slot that is not mapped, and a heap that is not in use.
NoSpan == [st |-> "free", cls |-> "none", count |-> 0, master |-> NIL, total |-> 0,
           remaining |-> 0, gone |-> FALSE, heap |-> NIL, list |-> <<>>, limit |-> 0,
           used |-> 0, defer |-> <<>>, locked |-> FALSE, lsize |-> 0,
           blocks |-> 0]
NoHeap == [alive |-> FALSE, owner |-> Orphan, free |-> [c \in Classes |-> <<>>],
           partial |-> [c \in Classes |-> <<>>], ccache |-> [c \in Classes |-> NIL],
           cache |-> [k \in 1 .. MaxCount |-> <<>>], deferred |-> <<>>, full |-> 0,
           reserve |-> NIL, reserved |-> 0, rmaster |-> NIL, finalize |-> 0,
           children |-> 0, master |-> NIL]

----------------------------------------------------------------------------
\* Mapping.

\* _rpmalloc_mmap: the start of 'n' free slots, NIL when there are none.
FreeRuns(m, n) == {s \in 1 .. NSpan - n + 1 : \A x \in s .. s + n - 1 : m.span[x].st = "free"}
MMap(m, n) ==
  LET fits == FreeRuns(m, n)
  IN IF fits = {} THEN NIL ELSE CHOOSE s \in fits : \A x \in fits : s <= x

\* _rpmalloc_span_initialize of a fresh mapping of 'total' slots at 's'.
SpanInitialize(m, s, total, count) ==
  [m EXCEPT !.span = [x \in Slot |->
     IF x = s THEN [NoSpan EXCEPT !.st = "mapped", !.master = s, !.total = total,
                                  !.count = count, !.remaining = total]
     ELSE IF x \in s .. s + total - 1 THEN [NoSpan EXCEPT !.st = "mapped"]
     ELSE m.span[x]]]

\* _rpmalloc_unmap of a whole mapping
Release(m, s, n) ==
  [m EXCEPT !.span = [x \in Slot |-> IF x \in s .. s + n - 1 THEN NoSpan ELSE m.span[x]]]

\* _rpmalloc_span_mark_as_subspan_unless_master
MarkSubspan(m, master, s, count) ==
  [m EXCEPT !.span[s].master = master, !.span[s].count = count]

\* _rpmalloc_span_unmap: a subspan's pages are given back at once, the mapping
\* when all of its spans are; an unmapped master is kept for its header.
SpanUnmap(m, s) ==
  LET r == m.span[s]
      Dropped == IF r.master = s THEN [m EXCEPT !.span[s].gone = TRUE]
                 ELSE [m EXCEPT !.span = [x \in Slot |->
                         IF x \in s .. s + r.count - 1 THEN [NoSpan EXCEPT !.st = "dropped"]
                         ELSE m.span[x]]]
      left == m.span[r.master].remaining - r.count
  IN IF left <= 0 THEN Release(m, r.master, m.span[r.master].total)
     ELSE [Dropped EXCEPT !.span[r.master].remaining = left]

UnmapAll(m, seq) == FoldLeft(SpanUnmap, m, seq)

----------------------------------------------------------------------------
\* Caches of free spans.

CacheLimit(k) == IF k = 1 THEN CacheMax ELSE LargeCacheMax - (k \div 2)
\* Spans handed to the global cache when the thread's is full.
CacheTransfer(k) ==
  LET limit == 2 + (CacheLimit(k) \div 4)
  IN IF k = 1 THEN Transfer ELSE IF LargeTransfer <= limit THEN LargeTransfer ELSE limit

\* _rpmalloc_global_cache_insert_spans: what does not fit is unmapped.
GlobalInsert(m, k, seq) ==
  LET room == GlobalMultiplier * CacheLimit(k) - Len(m.global[k])
      n    == IF Len(seq) > room THEN room ELSE Len(seq)
  IN UnmapAll([m EXCEPT !.global[k] = @ \o SubSeq(seq, 1, n)], SubSeq(seq, n + 1, Len(seq)))

\* _rpmalloc_heap_cache_insert while the heap is not being finalized, or by its
\* finalization (the call back to _rpmalloc_heap_global_finalize does nothing).
CacheInsert(m, h, s) ==
  LET k    == m.span[s].count
      full == Append(m.heap[h].cache[k], s)
      keep == CacheLimit(k) - CacheTransfer(k)
  IN IF m.heap[h].finalize # 0 THEN SpanUnmap(m, s)
     ELSE IF Len(full) # CacheLimit(k) THEN [m EXCEPT !.heap[h].cache[k] = full]
     ELSE GlobalInsert([m EXCEPT !.heap[h].cache[k] = SubSeq(full, 1, keep)],
                       k, SubSeq(full, keep + 1, Len(full)))

\* The last span of a cache, and the cache without it.
CachePop(m, h, k) ==
  LET c == m.heap[h].cache[k]
  IN <<[m EXCEPT !.heap[h].cache[k] = SubSeq(c, 1, Len(c) - 1)], c[Len(c)]>>

\* _rpmalloc_heap_cache_adopt_deferred: the spans that other threads freed; with
\* 'single' the first of one slot is returned (NIL if there is none).
AdoptDeferred(m, h, single) ==
  LET Place(A, s, first) ==
        IF A.span[s].cls = Huge THEN <<Release(A, s, A.span[s].count), first>>
        ELSE IF A.span[s].count = 1 /\ single /\ first = NIL THEN <<A, s>>
        ELSE <<CacheInsert(A, h, s), first>>
      Adopt(p, s) == Place([p[1] EXCEPT !.heap[h].full = @ - 1], s, p[2])
  IN FoldLeft(Adopt, <<[m EXCEPT !.heap[h].deferred = <<>>], NIL>>, m.heap[h].deferred)

\* _rpmalloc_span_map_from_reserve
MapFromReserve(m, h, k) ==
  LET r == m.heap[h]
      A == [m EXCEPT !.heap[h].reserve = @ + k, !.heap[h].reserved = @ - k]
  IN <<MarkSubspan(A, r.rmaster, r.reserve, k), r.reserve>>

\* _rpmalloc_span_map_aligned_count: slots mapped beyond those wanted are the
\* heap's new reserve; what was left of the old one goes to the cache.
SpanMap(m, h, k) ==
  LET n == IF k > MapCount THEN k ELSE MapCount
      s == MMap(m, n)
      A == SpanInitialize(m, s, n, k)
      r == m.heap[h]
      B == IF r.reserved = 0 THEN A
           ELSE CacheInsert(MarkSubspan(A, r.rmaster, r.reserve, r.reserved), h, r.reserve)
  IN IF s = NIL THEN <<m, NIL>>
     ELSE IF n = k THEN <<A, s>>
     ELSE <<[B EXCEPT !.heap[h].reserve = s + k, !.heap[h].reserved = n - k,
                      !.heap[h].rmaster = s], s>>

\* _rpmalloc_heap_extract_new_span, as far as the thread's own heap goes: the
\* class's cache, the thread cache, the deferred spans, the reserve.
ExtractOwn(m, h, c, k) ==
  LET r == m.heap[h]
      Adopted(d) ==
        IF d[2] # NIL THEN d
        ELSE IF k > 1 /\ d[1].heap[h].cache[k] # <<>> THEN CachePop(d[1], h, k)
        ELSE IF d[1].heap[h].reserved >= k THEN MapFromReserve(d[1], h, k)
        ELSE d
  IN IF c \in Classes /\ r.ccache[c] # NIL
     THEN IF r.cache[1] = <<>> THEN <<[m EXCEPT !.heap[h].ccache[c] = NIL], r.ccache[c]>>
          ELSE LET p == CachePop(m, h, 1)
               IN <<[p[1] EXCEPT !.heap[h].ccache[c] = p[2]], r.ccache[c]>>
     ELSE IF r.cache[k] # <<>> THEN CachePop(m, h, k)
     ELSE Adopted(AdoptDeferred(m, h, k = 1))

\* _rpmalloc_heap_global_cache_extract: spans of the global cache fill the
\* thread's, and one of them is returned.
ExtractGlobal(m, h, k) ==
  LET g == m.global[k]
      w == IF k = 1 THEN Transfer ELSE LargeTransfer
      n == IF w > Len(g) THEN Len(g) ELSE w
      A == [m EXCEPT !.global[k] = SubSeq(g, 1, Len(g) - n),
                     !.heap[h].cache[k] = SubSeq(g, Len(g) - n + 1, Len(g))]
  IN IF n = 0 THEN <<A, NIL>> ELSE CachePop(A, h, k)

----------------------------------------------------------------------------
\* Spans of small blocks.

FullyUtilized(r) == r.list = <<>> /\ r.limit >= BlockCount[r.cls]

\* free_list_partial_init: of the blocks from 'first' on, those that start in
\* one page; the first of them is handed out.
PartialInit(s, c, first) ==
  LET last == IF BlockCount[c] < first + PageBlocks - 1 THEN BlockCount[c]
              ELSE first + PageBlocks - 1
  IN [i \in 1 .. last - first + 1 |-> <<s, first + i - 1>>]

\* _rpmalloc_span_initialize_new: the new span and its first block.
InitializeNew(m, h, s, c) ==
  LET init == PartialInit(s, c, 1)
      n    == Len(init)
      A    == [m EXCEPT !.span[s] = [@ EXCEPT !.cls = c, !.heap = h, !.list = <<>>, !.lsize = 0,
                          !.defer = <<>>, !.locked = FALSE, !.limit = n, !.used = n,
                          !.blocks = BlockCount[c]],
                        !.heap[h].free[c] = Tail(init)]
  IN << IF n < BlockCount[c] THEN [A EXCEPT !.heap[h].partial[c] = <<s>> \o @]
        ELSE [A EXCEPT !.heap[h].full = @ + 1],
        Head(init) >>

\* _rpmalloc_allocate_from_heap_fallback, up to the test of the deferred list:
\* the head of the partial list gives its free blocks, or a page of new ones.
TakePartial(m, h, c) ==
  LET s    == Head(m.heap[h].partial[c])
      r    == m.span[s]
      new  == PartialInit(s, c, r.limit + 1)
      list == IF r.list # <<>> THEN r.list ELSE new
      lim  == IF r.list # <<>> THEN r.limit ELSE r.limit + Len(new)
  IN << [m EXCEPT !.heap[h].free[c] = Tail(list), !.span[s].list = <<>>,
                  !.span[s].limit = lim, !.span[s].used = lim],
        Head(list) >>

\* (mutant) the deferred blocks stay counted as used
ExtractDeferredCounts(m, s) ==
  [m EXCEPT !.span[s].list = m.span[s].defer, !.span[s].defer = <<>>, !.span[s].lsize = 0]

\* _rpmalloc_span_extract_free_list_deferred
ExtractDeferred(m, s) ==
  LET r == m.span[s]
  IN [m EXCEPT !.span[s].list = r.defer, !.span[s].defer = <<>>,
               !.span[s].used = r.used - r.lsize, !.span[s].lsize = 0]

\* The end of the fallback: a fully utilized span leaves the partial list.
LeavePartial(m, h, c, s) ==
  IF ~FullyUtilized(m.span[s]) THEN m
  ELSE [m EXCEPT !.heap[h].partial[c] = Tail(@), !.heap[h].full = @ + 1]

\* _rpmalloc_span_release_to_cache
ReleaseToCache(m, h, s) ==
  LET c == m.span[s].cls
      old == m.heap[h].ccache[c]
  IN IF m.heap[h].finalize # 0 THEN SpanUnmap(m, s)
     ELSE [(IF old = NIL THEN m ELSE CacheInsert(m, h, old)) EXCEPT !.heap[h].ccache[c] = s]

\* _rpmalloc_deallocate_direct_small_or_medium
FreeDirect(m, b) ==
  LET s == b[1]
      r == m.span[s]
      h == r.heap
      full == FullyUtilized(r)
      A == IF full THEN [m EXCEPT !.heap[h].partial[r.cls] = <<s>> \o @, !.heap[h].full = @ - 1]
           ELSE m
      u == (IF full THEN BlockCount[r.cls] ELSE r.used) - 1
      B == [A EXCEPT !.span[s].used = u, !.span[s].list = <<b>> \o @]
  IN IF u # r.lsize THEN B
     ELSE ReleaseToCache([B EXCEPT !.heap[h].partial[r.cls] = Remove(@, s)], h, s)

----------------------------------------------------------------------------
\* Finalization.

\* _rpmalloc_span_finalize: the class's free blocks of 's' rejoin it; it is
\* unmapped when nothing but deferred blocks are in use.
SpanFinalize(m, h, c, s) ==
  LET f == m.heap[h].free[c]
      Rejoined == IF f # <<>> /\ f[1][1] = s
                  THEN [m EXCEPT !.span[s].list = @ \o f, !.heap[h].free[c] = <<>>,
                                 !.span[s].used = @ - Len(f)]
                  ELSE m
      Judged(A) == IF A.span[s].lsize # A.span[s].used THEN A
                   ELSE SpanUnmap([A EXCEPT !.heap[h].partial[c] = Remove(@, s)], s)
  IN Judged(Rejoined)

\* One size class of _rpmalloc_heap_finalize; a full span that still has blocks
\* out becomes partial when the class had free blocks of it.
ClassFinalize(m, h, c) ==
  LET Uncached == IF m.heap[h].ccache[c] = NIL THEN m
                  ELSE [SpanUnmap(m, m.heap[h].ccache[c]) EXCEPT !.heap[h].ccache[c] = NIL]
      Relist(A, s) == IF A.span[s].st = "mapped" /\ ~A.span[s].gone
                      THEN [A EXCEPT !.heap[h].partial[c] = <<s>> \o @] ELSE A
      FullOne(A, s) == Relist(SpanFinalize([A EXCEPT !.heap[h].full = @ - 1], h, c, s), s)
      Rest(A) == IF A.heap[h].free[c] = <<>> THEN A ELSE FullOne(A, A.heap[h].free[c][1][1])
      Partials(A) == FoldLeft(LAMBDA n, s : SpanFinalize(n, h, c, s), A, A.heap[h].partial[c])
  IN Rest(Partials(Uncached))

\* _rpmalloc_heap_finalize, with the caches
HeapFinalize(m, h) ==
  LET Unreserved(p)  == SpanUnmap(p[1], p[2])
      ByClass(A)     == FoldLeft(LAMBDA n, c : ClassFinalize(n, h, c), A, SetToSeq(Classes))
      Uncached(A)    == [UnmapAll(A, FlattenSeq(A.heap[h].cache)) EXCEPT !.heap[h].cache = NoHeap.cache]
      FirstPart      == IF m.heap[h].reserved = 0 THEN m
                        ELSE Unreserved(MapFromReserve(m, h, m.heap[h].reserved))
  IN Uncached(ByClass(AdoptDeferred(FirstPart, h, FALSE)[1]))

\* _rpmalloc_heap_unmap: the memory of the heaps goes with the last of them.
HeapUnmap(m, h) ==
  LET top == IF m.heap[h].master = NIL THEN h ELSE m.heap[h].master
      Empty(A) == IF A.heap[top].children = 0 /\ A.heap[top].finalize > 1
                  THEN SpanUnmap(A, A.heaps) ELSE A
  IN Empty(IF top = h THEN m ELSE [m EXCEPT !.heap[top].children = @ - 1])

HeapLeaves(m, h) == HeapUnmap([m EXCEPT !.heap[h].alive = FALSE], h)

\* _rpmalloc_heap_global_finalize: a heap with blocks out stays.
GlobalFinalize(m, h) ==
  LET InUse(r) == r.full # 0 \/ \E c \in Classes : r.free[c] # <<>> \/ r.partial[c] # <<>>
      Settled(A) == IF InUse(A.heap[h]) THEN [A EXCEPT !.heap[h].finalize = @ - 1]
                    ELSE HeapLeaves(A, h)
  IN IF m.heap[h].finalize > 1 THEN m
     ELSE Settled(HeapFinalize([m EXCEPT !.heap[h].finalize = @ + 1], h))

\* _rpmalloc_deallocate_large by the owner: a span of several slots becomes the
\* reserve of a heap that has none.
FreeLarge(m, s) ==
  LET r == m.span[s]
      h == r.heap
      A == [m EXCEPT !.heap[h].full = @ - 1]
  IN IF r.count > 1 /\ m.heap[h].finalize = 0 /\ m.heap[h].reserved = 0
     THEN [A EXCEPT !.heap[h].reserve = s, !.heap[h].reserved = r.count, !.heap[h].rmaster = r.master]
     ELSE IF m.heap[h].finalize = 0 THEN CacheInsert(A, h, s)
     ELSE GlobalFinalize(SpanUnmap(A, s), h)

\* _rpmalloc_deallocate_huge by the owner
FreeHuge(m, s) == Release([m EXCEPT !.heap[m.span[s].heap].full = @ - 1], s, m.span[s].count)
=============================================================================
