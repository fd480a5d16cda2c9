------------------------------ MODULE RpSizes ------------------------------
(***************************************************************************)
(* The arithmetic of the allocator (rpmalloc/rpmalloc.c): which size class *)
(* a request gets, how an aligned block is cut out of it, how much of it   *)
(* the program may use, and when a reallocation stays in place.  The       *)
(* numbers are those of the default build: spans of 64 KiB and pages of 4  *)
(* KiB.  A pointer is its offset from the start of its span, which is      *)
(* aligned to the span's size.                                             *)
(***************************************************************************)
EXTENDS Integers

CONSTANTS Sizes, Alignments,       \* requests of the program
          MaxReallocs              \* bound: reallocations of one block

ASSUME RpRequests == Sizes \subseteq Nat /\ MaxReallocs \in Nat

SmallGranularity  == 16
SmallClasses      == 65
SmallLimit        == 1024
MediumGranularity == 512
MediumClasses     == 61
SpanSize          == 65536
PageSize          == 4096
Header            == 128           \* SPAN_HEADER_SIZE
MediumLimit       == 32256         \* _memory_medium_size_limit
LargeLimit        == 63 * SpanSize - Header
ClassCount        == SmallClasses + MediumClasses
Class             == 0 .. ClassCount - 1

\* Alignments are powers of two: the small ones divide both of these.
ASSUME RpAlignments ==
  \A a \in Alignments : /\ a \in Nat \ {0}
                        /\ a <= SmallGranularity => SmallGranularity % a = 0
                        /\ a <= Header => Header % a = 0

VARIABLES block,                   \* the block the program has, or NoBlock
          ask,                     \* the size and alignment it asked for
          kept,                    \* bytes of the block before a reallocation
                                   \* that the block after it holds
          moves                    \* reallocations of the block so far
vars == <<block, ask, kept, moves>>

\* A block: its kind, the size of a small block or the slots or pages of
\* others, the index in its span and the pointer the program holds.
NoBlock == [kind |-> "none", unit |-> 0, index |-> 0, ptr |-> 0]

----------------------------------------------------------------------------
\* Size classes.

RawSize(i) ==
  IF i = 0 THEN SmallGranularity
  ELSE IF i < SmallClasses THEN i * SmallGranularity
  ELSE SmallLimit + (i - SmallClasses + 1) * MediumGranularity
RawCount(i) == (SpanSize - Header) \div RawSize(i)

\* _rpmalloc_adjust_size_class, called for every class in turn, lets a medium
\* class take the place of the classes before it that have as many blocks:
\* class i ends as the last such class.
Medium == SmallClasses .. ClassCount - 1
ClassIdx(i) ==
  LET joined == {m \in {i} \union (Medium \ 0 .. i) : \A j \in i .. m : RawCount(j) = RawCount(i)}
  IN CHOOSE m \in joined : \A k \in joined : k <= m

\* The class index of a size.
SmallClass(size) == (size + (SmallGranularity - 1)) \div SmallGranularity
BaseClass(size)  == SmallClasses + (size - (SmallLimit + 1)) \div MediumGranularity

Units(bytes, unit) == bytes \div unit + (IF bytes % unit # 0 THEN 1 ELSE 0)

----------------------------------------------------------------------------
\* Allocation.  The index of the block in its span is any.

SmallBlocks(c) ==
  LET m == ClassIdx(c) IN
  {[kind |-> "small", unit |-> RawSize(m), index |-> i, ptr |-> Header + i * RawSize(m)] :
     i \in {0, 1, RawCount(m) - 1}}

\* _rpmalloc_allocate
Allocated(size) ==
  IF size <= SmallLimit THEN SmallBlocks(SmallClass(size))
  ELSE IF size <= MediumLimit THEN SmallBlocks(BaseClass(size))
  ELSE IF size <= LargeLimit
  THEN {[kind |-> "large", unit |-> Units(size + Header, SpanSize), index |-> 0, ptr |-> Header]}
  ELSE {[kind |-> "huge", unit |-> Units(size + Header, PageSize), index |-> 0, ptr |-> Header]}

AlignUp(x, a) == IF x % a = 0 THEN x ELSE (x - (x % a)) + a

\* The retry loop of _rpmalloc_aligned_allocate: the pages mapped, 0 for EINVAL.
AlignedPages(size, a) ==
  LET least == 1 + Units(size, PageSize)
      extra == a \div PageSize
      first == IF extra > least THEN 1 + extra ELSE least
      limit == IF 32 < first * 2 THEN first * 2 ELSE 32
      fits  == {n \in first .. limit : AlignUp(Header, a) + size <= n * PageSize}
  IN IF AlignUp(Header, a) >= SpanSize \/ fits = {} THEN 0
     ELSE CHOOSE n \in fits : \A k \in fits : n <= k

\* (mutant) blocks of natural alignment also where they are no multiple of it
AlignedAllocatedLoose(a, size) ==
  IF a <= Header /\ size < MediumLimit THEN Allocated(size)
  ELSE {[b EXCEPT !.ptr = AlignUp(@, a)] : b \in Allocated(size + a)}

\* _rpmalloc_aligned_allocate (alignments are powers of two)
AlignedAllocated(a, size) ==
  LET natural == IF size = 0 THEN Header ELSE Units(size, Header) * Header
      pages   == AlignedPages(size, a)
  IN IF a <= SmallGranularity THEN Allocated(size)
     ELSE IF a <= Header /\ size < MediumLimit /\ natural <= size + a THEN Allocated(natural)
     ELSE IF a <= PageSize THEN {[b EXCEPT !.ptr = AlignUp(@, a)] : b \in Allocated(size + a)}
     ELSE IF a >= SpanSize \/ pages = 0 THEN {NoBlock}
     ELSE {[kind |-> "huge", unit |-> pages, index |-> 0, ptr |-> AlignUp(Header, a)]}

----------------------------------------------------------------------------
\* Sizes of existing blocks.

\* Where the block of a pointer starts, and the bytes from there to its end.
Start(b) == IF b.kind = "small" THEN b.ptr - ((b.ptr - Header) % b.unit) ELSE Header
Extent(b) ==
  CASE b.kind = "small" -> b.unit
    [] b.kind = "large" -> b.unit * SpanSize - Header
    [] b.kind = "huge"  -> b.unit * PageSize - Header

\* _rpmalloc_usable_size
UsableSize(b) ==
  CASE b.kind = "small" -> b.unit - ((b.ptr - Header) % b.unit)
    [] b.kind = "large" -> b.unit * SpanSize - b.ptr
    [] b.kind = "huge"  -> b.unit * PageSize - b.ptr

\* (mutant) a large block stays whenever it is large enough for the bytes alone
StaysNoHeader(b, size) ==
  CASE b.kind = "small" -> b.unit >= size
    [] b.kind = "large" -> b.unit >= Units(size, SpanSize)
    [] b.kind = "huge"  -> b.unit >= Units(size, PageSize)

\* _rpmalloc_reallocate: whether the block stays where it is.
Stays(b, size) ==
  LET spans == Units(size + Header, SpanSize)
      pages == Units(size + Header, PageSize)
  IN CASE b.kind = "small" -> b.unit >= size
       [] b.kind = "large" -> b.unit >= spans /\ size + Header >= UsableSize(b) \div 2
       [] b.kind = "huge"  -> b.unit >= pages /\ pages >= b.unit \div 2

\* The size allocated instead: a small increase is rounded up by 37 percent.
NewSize(old, size) ==
  LET lower == old + old \div 4 + old \div 8
  IN IF size > lower \/ size <= old THEN size ELSE lower

Least(x, y) == IF x < y THEN x ELSE y

----------------------------------------------------------------------------
Init == block = NoBlock /\ ask = [size |-> 0, align |-> 1] /\ kept = 0 /\ moves = 0

\* rpmalloc, rpaligned_alloc
Alloc(size) ==
  /\ block.kind = "none"
  /\ block' \in Allocated(size)
  /\ ask' = [size |-> size, align |-> SmallGranularity] /\ kept' = 0 /\ moves' = 0
AlignedAlloc(a, size) ==
  /\ block.kind = "none"
  /\ block' \in AlignedAllocated(a, size)
  /\ IF block'.kind = "none" THEN UNCHANGED ask ELSE ask' = [size |-> size, align |-> a]
  /\ kept' = 0 /\ moves' = 0

\* A reallocation copies 'copied' bytes: of these the program stored ask.size.
Keep(copied) == kept' = Least(ask.size, copied) /\ moves < MaxReallocs /\ moves' = moves + 1

\* rprealloc: what stays moves to the start of its block.
Realloc(size) ==
  LET old == UsableSize(block)
      new == NewSize(old, size)
  IN /\ block.kind # "none"
     /\ IF Stays(block, size) THEN block' = [block EXCEPT !.ptr = Start(block)] /\ Keep(old)
        ELSE block' \in Allocated(new) /\ Keep(Least(old, new))
     /\ ask' = [size |-> size, align |-> SmallGranularity]

\* rpaligned_realloc
AlignedRealloc(a, size) ==
  LET usable == UsableSize(block)
      stays  == usable >= size /\ block.ptr % a = 0 /\ size >= usable \div 2
  IN /\ block.kind # "none" /\ a > SmallGranularity
     /\ IF stays THEN block' = block /\ Keep(usable)
        ELSE block' \in AlignedAllocated(a, size) \ {NoBlock} /\ Keep(Least(usable, size))
     /\ ask' = [size |-> size, align |-> a]

Free == block.kind # "none" /\ block' = NoBlock /\ ask' = [size |-> 0, align |-> 1] /\ kept' = 0 /\ moves' = 0

Next ==
  \/ \E size \in Sizes : Alloc(size) \/ Realloc(size)
  \/ \E a \in Alignments, size \in Sizes : AlignedAlloc(a, size) \/ AlignedRealloc(a, size)
  \/ Free
Spec == Init /\ [][Next]_vars

----------------------------------------------------------------------------
\* Properties.

\* The bytes asked for lie inside the block, at the alignment asked for, and
\* the block inside its span or mapping, past its header.  What rpfree computes
\* from the pointer, by masking and by realigning it, is that block, also for a
\* pointer inside an aligned one.
Fits ==
  block.kind # "none" =>
    /\ block.ptr % ask.align = 0
    /\ block.ptr >= Header + block.index * (IF block.kind = "small" THEN block.unit ELSE 0)
    /\ block.ptr + ask.size <= Header + block.index * block.unit + Extent(block)
    /\ UsableSize(block) >= ask.size
    /\ block.ptr < SpanSize
    /\ block.kind = "small" =>
         /\ Header + (block.index + 1) * block.unit <= SpanSize
         /\ Start(block) = Header + block.index * block.unit

\* A reallocation keeps every byte the program had stored, up to the new size.
Preserves == [][block.kind # "none" /\ block'.kind # "none" => kept' >= Least(ask.size, ask'.size)]_vars
=============================================================================
