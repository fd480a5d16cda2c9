----------------------------- MODULE RpSizesProofs -----------------------------
(***************************************************************************)
(* For every size and every alignment: what the allocator hands out holds  *)
(* what was asked for, and a reallocation loses nothing.                   *)
(***************************************************************************)
EXTENDS RpSizes, WellFoundedInduction, TLAPS

\* The block at 'ptr' of a span of blocks of 'unit' bytes, or of the mapping.
Block == [kind : {"none", "small", "large", "huge"}, unit : Nat, index : Nat, ptr : Nat]

InSmall(unit, index, ptr, size) ==
  /\ unit > 0 /\ unit % SmallGranularity = 0
  /\ Header + (index + 1) * unit <= SpanSize
  /\ Header + index * unit <= ptr /\ ptr < Header + (index + 1) * unit
  /\ ptr + size <= Header + (index + 1) * unit
InPages(bytes, ptr, size) ==
  Header <= ptr /\ ptr < SpanSize /\ ptr + size <= bytes

\* The block has room for 'size' bytes from its pointer on.
Room(b, size) ==
  /\ b \in Block
  /\ b.kind = "small" => InSmall(b.unit, b.index, b.ptr, size)
  /\ b.kind = "large" => b.index = 0 /\ InPages(b.unit * SpanSize, b.ptr, size)
  /\ b.kind = "huge" => b.index = 0 /\ InPages(b.unit * PageSize, b.ptr, size)

\* The block begins where its pointer does.
AtStart(b) == b.ptr = Header + b.index * b.unit

Asked == [size : Nat, align : Nat \ {0}]
SizesInv ==
  /\ ask \in Asked /\ kept \in Nat /\ moves \in Nat
  /\ Room(block, ask.size)
  /\ block.kind # "none" => block.ptr % ask.align = 0

----------------------------------------------------------------------------
\* Division.

\* The remainder in a block of a span
LEMMA Remainder ==
  ASSUME NEW u \in Nat, u > 0, NEW i \in Nat, NEW d \in Nat, d < u
  PROVE  (i * u + d) % u = d
<1> DEFINE x == i * u + d
           q == x \div u
           r == x % u
<1>1. x \in Nat /\ q \in Int /\ r \in Int /\ x = u * q + r /\ 0 <= r /\ r < u
  OBVIOUS
<1>2. (q - i) * u = d - r
  BY <1>1
<1> QED
  BY <1>1, <1>2

\* The ends of a block
LEMMA Ends ==
  ASSUME NEW i \in Nat, NEW u \in Nat
  PROVE  i * u \in Nat /\ (i + 1) * u = i * u + u
<1>1. i * u \in Nat
  OBVIOUS
<1>2. (i + 1) * u = i * u + u
  OBVIOUS
<1> QED
  BY <1>1, <1>2

\* Multiples of a multiple
LEMMA Multiple ==
  ASSUME NEW a \in Nat, a > 0, NEW x \in Nat, x % a = 0, NEW k \in Nat
  PROVE  (x * k) % a = 0
<1> DEFINE q == x \div a
<1>1. q \in Nat /\ x = q * a
  OBVIOUS
<1> HIDE DEF q
<1>2. q * k \in Nat
  BY <1>1
<1>3. x * k = (q * k) * a
  BY <1>1
<1> DEFINE n == q * k
<1> HIDE DEF n
<1>4. n \in Nat /\ x * k = n * a + 0
  <2>1. n \in Nat /\ x * k = n * a
    BY <1>2, <1>3 DEF n
  <2> QED
    BY <2>1
<1>5. (n * a + 0) % a = 0
  BY <1>4, Remainder
<1> QED
  BY <1>4, <1>5

\* The next multiple of the alignment
LEMMA AlignUpAligns ==
  ASSUME NEW x \in Nat, NEW a \in Nat, a > 0
  PROVE  /\ AlignUp(x, a) \in Nat /\ AlignUp(x, a) % a = 0
         /\ x <= AlignUp(x, a) /\ AlignUp(x, a) < x + a
<1> DEFINE q == x \div a
           r == x % a
<1>1. q \in Nat /\ r \in Nat /\ x = q * a + r /\ r < a
  OBVIOUS
<1>2. CASE r = 0
  BY <1>2 DEF AlignUp
<1>3. CASE r # 0
  <2>1. AlignUp(x, a) = x - r + a
    BY <1>3 DEF AlignUp
  <2> HIDE DEF q, r
  <2>2. x - r + a = (q + 1) * a + 0 /\ q + 1 \in Nat
    BY <1>1
  <2>3. ((q + 1) * a + 0) % a = 0
    BY <2>2, Remainder
  <2> QED
    BY <1>1, <1>3, <2>1, <2>2, <2>3
<1> QED
  BY <1>2, <1>3

\* Units of a request
LEMMA UnitsHold ==
  ASSUME NEW bytes \in Nat, NEW unit \in Nat, unit > 0
  PROVE  Units(bytes, unit) \in Nat /\ Units(bytes, unit) * unit >= bytes
<1> DEFINE q == bytes \div unit
           r == bytes % unit
<1>1. q \in Nat /\ r \in Nat /\ bytes = q * unit + r /\ r < unit
  OBVIOUS
<1>2. Units(bytes, unit) = q + (IF r # 0 THEN 1 ELSE 0)
  BY DEF Units
<1> HIDE DEF q, r
<1> QED
  BY <1>1, <1>2

\* What the alignments below the size of the header divide
LEMMA SmallAlignments ==
  ASSUME NEW a \in Alignments
  PROVE  /\ a \in Nat /\ a > 0
         /\ a <= SmallGranularity => \A x \in Nat : x % SmallGranularity = 0 => x % a = 0
         /\ a <= Header => \A x \in Nat : x % Header = 0 => x % a = 0
<1>1. /\ a \in Nat /\ a > 0
      /\ a <= SmallGranularity => SmallGranularity % a = 0
      /\ a <= Header => Header % a = 0
  BY RpAlignments
<1>2. ASSUME a <= SmallGranularity, NEW x \in Nat, x % SmallGranularity = 0
      PROVE  x % a = 0
  <2>1. PICK k \in Nat : x = 16 * k
    BY <1>2 DEF SmallGranularity
  <2> QED
    BY <1>1, <1>2, <2>1, Multiple DEF SmallGranularity
<1>3. ASSUME a <= Header, NEW x \in Nat, x % Header = 0
      PROVE  x % a = 0
  <2>1. PICK k \in Nat : x = 128 * k
    BY <1>3 DEF Header
  <2> QED
    BY <1>1, <1>3, <2>1, Multiple DEF Header
<1> QED
  BY <1>1, <1>2, <1>3

----------------------------------------------------------------------------
\* Size classes.

\* Sets of numbers have a least element, and bounded ones a greatest.
LEMMA LeastOf ==
  ASSUME NEW S, S \subseteq Nat, S # {}
  PROVE  \E x \in S : \A y \in S : x <= y
<1>1. PICK x \in S : \A y \in S : ~ (<<y, x>> \in OpToRel(<, Nat))
  BY NatLessThanWellFounded, WFMin
<1>2. \A y \in S : ~ (y < x)
  BY <1>1, Zenon DEF OpToRel
<1> QED
  BY <1>2
LEMMA GreatestOf ==
  ASSUME NEW n \in Nat, NEW S, S \subseteq 0 .. n, S # {}
  PROVE  \E x \in S : \A y \in S : y <= x
<1> DEFINE T == {n - x : x \in S}
<1>1. T \subseteq Nat /\ T # {}
  <2>1. \A x \in S : x \in 0 .. n /\ n - x \in Nat
    OBVIOUS
  <2> QED
    BY <2>1
<1>2. PICK t \in T : \A y \in T : t <= y
  BY <1>1, LeastOf
<1>3. PICK x \in S : t = n - x
  BY <1>2
<1>4. \A y \in S : y <= x
  BY <1>2, <1>3
<1> QED
  BY <1>4

\* The blocks of a class
LEMMA RawSizes ==
  ASSUME NEW i \in Class
  PROVE  /\ RawSize(i) \in Nat /\ 16 <= RawSize(i) /\ RawSize(i) <= 32256
         /\ i = 0 => RawSize(i) = 16
         /\ i > 0 /\ i < 65 => RawSize(i) = i * 16
         /\ i >= 65 => RawSize(i) = 512 * (i - 62)
<1>1. i \in 0 .. 125
  BY DEF Class, ClassCount, SmallClasses, MediumClasses
<1>2. /\ i = 0 => RawSize(i) = 16
      /\ i > 0 /\ i < 65 => RawSize(i) = i * 16
      /\ i >= 65 => RawSize(i) = 512 * (i - 62)
  <2>1. CASE i = 0
    BY <2>1 DEF RawSize, SmallGranularity
  <2>2. CASE i > 0 /\ i < 65
    BY <1>1, <2>2 DEF RawSize, SmallGranularity, SmallClasses
  <2>3. CASE i >= 65
    <3>1. RawSize(i) = 1024 + (i - 65 + 1) * 512
      BY <1>1, <2>3 DEF RawSize, SmallClasses, SmallLimit, MediumGranularity
    <3> QED
      BY <1>1, <2>3, <3>1
  <2> QED
    BY <1>1, <2>1, <2>2, <2>3
<1>3. RawSize(i) \in Nat /\ 16 <= RawSize(i) /\ RawSize(i) <= 32256
  BY <1>1, <1>2
<1> QED
  BY <1>2, <1>3
LEMMA RawSizesAligned ==
  ASSUME NEW i \in Class
  PROVE  RawSize(i) % 16 = 0
<1>1. i \in 0 .. 125
  BY DEF Class, ClassCount, SmallClasses, MediumClasses
<1>2. \E k \in Nat : RawSize(i) = k * 16
  <2>1. CASE i = 0
    BY RawSizes, <2>1
  <2>2. CASE i > 0 /\ i < 65
    BY <1>1, RawSizes, <2>2
  <2>3. CASE i >= 65
    <3>1. 32 * (i - 62) \in Nat /\ RawSize(i) = (32 * (i - 62)) * 16
      BY <1>1, RawSizes, <2>3
    <3> QED
      BY <3>1
  <2> QED
    BY <1>1, <2>1, <2>2, <2>3
<1>3. PICK k \in Nat : RawSize(i) = k * 16
  BY <1>2
<1>4. (k * 16 + 0) % 16 = 0
  BY Remainder
<1>5. k * 16 + 0 = k * 16
  OBVIOUS
<1> QED
  BY <1>3, <1>4, <1>5

LEMMA RawCounts ==
  ASSUME NEW i \in Class
  PROVE  RawCount(i) \in Nat /\ RawCount(i) >= 2 /\ RawCount(i) * RawSize(i) <= SpanSize - Header
<1> DEFINE u == RawSize(i)
           q == 65408 \div u
           r == 65408 % u
<1>1. u \in Nat /\ 16 <= u /\ u <= 32256
  BY RawSizes
<1> HIDE DEF u
<1>2. q \in Int /\ r \in Int /\ 65408 = u * q + r /\ 0 <= r /\ r < u
  BY <1>1
<1>3. RawCount(i) = q
  BY DEF RawCount, SpanSize, Header, u
<1> HIDE DEF q, r
<1>4. u * q \in Int /\ u * q <= 65408 /\ u * q > 65408 - u
  BY <1>1, <1>2
<1>5. q >= 2
  <2>1. SUFFICES ASSUME q <= 1 PROVE FALSE
    BY <1>2
  <2>2. u * q <= u * 1
    BY <1>1, <1>2, <2>1
  <2>3. u * 1 = u
    BY <1>1
  <2> DEFINE n == u * q
  <2>4. n \in Int /\ n > 65408 - u /\ n <= u
    BY <1>4, <2>2, <2>3
  <2> HIDE DEF n
  <2>5. n > 33152
    BY <1>1, <2>4
  <2> QED
    BY <1>1, <2>4, <2>5
<1>6. q * u = u * q
  BY <1>1, <1>2
<1> QED
  BY <1>2, <1>3, <1>4, <1>5, <1>6 DEF SpanSize, Header, u

\* A small class keeps its size; a medium one ends as one of a larger size.
LEMMA ClassIdxIs ==
  ASSUME NEW i \in Class
  PROVE  /\ ClassIdx(i) \in Class /\ ClassIdx(i) >= i
         /\ i < SmallClasses => ClassIdx(i) = i
<1> DEFINE joined == {m \in {i} \union (Medium \ 0 .. i) : \A j \in i .. m : RawCount(j) = RawCount(i)}
<1>1. i \in 0 .. 125 /\ Class = 0 .. 125 /\ Medium = 65 .. 125
  BY DEF Class, Medium, ClassCount, SmallClasses, MediumClasses
<1>2. i \in joined /\ joined \subseteq i .. 125
  <2>1. \A j \in i .. i : j = i
    BY <1>1
  <2> QED
    BY <1>1, <2>1
<1>3. joined \subseteq 0 .. 125 /\ joined # {}
  BY <1>1, <1>2
<1>4. \E m \in joined : \A k \in joined : k <= m
  BY <1>3, GreatestOf
<1>5. ClassIdx(i) = CHOOSE m \in joined : \A k \in joined : k <= m
  BY DEF ClassIdx
<1>6. ClassIdx(i) \in joined
  BY <1>4, <1>5
<1>7. ASSUME i < 65 PROVE joined \subseteq {i}
  <2>1. RawCount(64) = 63 /\ RawCount(65) = 42
    BY DEF RawCount, RawSize, SpanSize, Header, SmallClasses, SmallGranularity, SmallLimit, MediumGranularity
  <2>2. ASSUME NEW m \in joined, m # i PROVE FALSE
    <3>1. m >= 65 /\ m \in Nat
      BY <1>1, <1>7, <2>2
    <3>2. 64 \in i .. m /\ 65 \in i .. m
      BY <1>1, <1>7, <3>1
    <3>3. RawCount(64) = RawCount(i) /\ RawCount(65) = RawCount(i)
      BY <3>2, <2>2
    <3> QED
      BY <2>1, <3>3
  <2> QED
    BY <2>2
<1> HIDE DEF joined
<1>8. ClassIdx(i) \in Class /\ ClassIdx(i) >= i
  <2>1. ClassIdx(i) \in i .. 125
    BY <1>2, <1>6, Zenon
  <2> QED
    BY <1>1, <2>1
<1>9. i < 65 => ClassIdx(i) = i
  BY <1>6, <1>7
<1> QED
  BY <1>8, <1>9 DEF SmallClasses

\* A block of a span, from its start
LEMMA SmallBlocksHold ==
  ASSUME NEW c \in Class, NEW size \in Nat, size <= RawSize(c), NEW b \in SmallBlocks(c)
  PROVE  Room(b, size) /\ AtStart(b) /\ b.kind = "small" /\ b.unit = RawSize(ClassIdx(c))
<1> DEFINE m == ClassIdx(c)
           u == RawSize(m)
           n == RawCount(m)
<1>1. m \in Class /\ m >= c /\ (c < 65 => m = c)
  BY ClassIdxIs DEF SmallClasses
<1>2. PICK i \in {0, 1, n - 1} : b = [kind |-> "small", unit |-> u, index |-> i, ptr |-> Header + i * u]
  BY DEF SmallBlocks
<1>3. n \in Nat /\ n >= 2 /\ n * u <= SpanSize - Header
  BY <1>1, RawCounts
<1>4. u \in Nat /\ u >= 16 /\ u % SmallGranularity = 0
  <2>1. u \in Nat /\ u >= 16
    <3>1. m \in Class
      BY <1>1
    <3> HIDE DEF m
    <3>2. RawSize(m) \in Nat /\ 16 <= RawSize(m)
      BY <3>1, RawSizes
    <3> QED
      BY <3>2
  <2>2. u % 16 = 0
    BY <1>1, RawSizesAligned, Zenon
  <2> HIDE DEF u
  <2> QED
    BY <2>1, <2>2 DEF SmallGranularity
<1>5. size <= u
  <2>1. CASE c < 65
    BY <1>1, <2>1
  <2>2. CASE c >= 65
    <3>1. RawSize(c) = 512 * (c - 62) /\ u = 512 * (m - 62)
      BY <1>1, <2>2, RawSizes DEF SmallClasses, Class, ClassCount
    <3> QED
      BY <1>1, <2>2, <3>1 DEF Class, ClassCount, SmallClasses, MediumClasses
  <2> QED
    BY <2>1, <2>2 DEF Class
<1> HIDE DEF m, u, n
<1>6. i \in Nat /\ i + 1 <= n
  BY <1>2, <1>3
<1>7. (i + 1) * u <= n * u
  BY <1>3, <1>4, <1>6
<1>8. (i + 1) * u = i * u + u /\ i * u \in Nat
  BY <1>4, <1>6
<1> DEFINE base == i * u
           top == n * u
<1>9. base \in Nat /\ base + u <= top /\ top <= 65408 /\ top \in Int
  BY <1>3, <1>4, <1>6, <1>7, <1>8 DEF SpanSize, Header
<1>10. b.kind = "small" /\ b.unit = u /\ b.index = i /\ b.ptr = 128 + base
  BY <1>2 DEF Header
<1>11. (b.index + 1) * b.unit = base + u /\ b.index * b.unit = base
  BY <1>8, <1>10
<1> HIDE DEF base, top
<1>12. b \in Block
  BY <1>2, <1>4, <1>6, <1>9, <1>10 DEF Block
<1>13. InSmall(b.unit, b.index, b.ptr, size)
  BY <1>4, <1>5, <1>9, <1>10, <1>11 DEF InSmall, SpanSize, Header
<1> QED
  BY <1>10, <1>11, <1>12, <1>13 DEF Room, AtStart, Header, u, m

\* _rpmalloc_allocate: every block has room for the request and starts where
\* its pointer does.
LEMMA AllocatedHolds ==
  ASSUME NEW size \in Nat, NEW b \in Allocated(size)
  PROVE  Room(b, size) /\ AtStart(b) /\ b.kind # "none"
<1>1. CASE size <= SmallLimit
  <2> DEFINE c == SmallClass(size)
  <2>1. c \in 0 .. 64 /\ size <= c * 16
    BY <1>1 DEF SmallClass, SmallLimit, SmallGranularity
  <2>2. b \in SmallBlocks(c)
    BY <1>1 DEF Allocated
  <2> HIDE DEF c
  <2>3. c \in Class
    BY <2>1 DEF Class, ClassCount, SmallClasses, MediumClasses
  <2>4. RawSize(c) = IF c = 0 THEN 16 ELSE c * 16
    BY <2>1, <2>3, RawSizes
  <2>5. size <= RawSize(c)
    <3>1. CASE c = 0
      BY <2>1, <2>4, <3>1
    <3>2. CASE c # 0
      BY <2>1, <2>4, <3>2
    <3> QED
      BY <3>1, <3>2
  <2> QED
    BY <2>2, <2>3, <2>5, SmallBlocksHold
<1>2. CASE size > SmallLimit /\ size <= MediumLimit
  <2> DEFINE c == BaseClass(size)
  <2>1. c \in 65 .. 125 /\ size <= 512 * (c - 62)
    BY <1>2 DEF BaseClass, SmallLimit, MediumLimit, SmallClasses, MediumGranularity
  <2>2. b \in SmallBlocks(c)
    BY <1>2 DEF Allocated, SmallLimit
  <2> HIDE DEF c
  <2>3. c \in Class
    BY <2>1 DEF Class, ClassCount, SmallClasses, MediumClasses
  <2>4. c >= 65 => RawSize(c) = 512 * (c - 62)
    BY <2>3, RawSizes
  <2>5. size <= RawSize(c)
    BY <2>1, <2>4
  <2> QED
    BY <2>2, <2>3, <2>5, SmallBlocksHold
<1>3. CASE size > MediumLimit /\ size <= LargeLimit
  <2> DEFINE n == Units(size + Header, SpanSize)
  <2>1. n \in Nat /\ n * 65536 >= size + 128
    BY UnitsHold DEF Header, SpanSize
  <2>2. b = [kind |-> "large", unit |-> n, index |-> 0, ptr |-> Header]
    BY <1>3 DEF Allocated, SmallLimit, MediumLimit
  <2> HIDE DEF n
  <2>3. b \in Block /\ b.kind = "large" /\ b.unit = n /\ b.index = 0 /\ b.ptr = 128
    BY <2>1, <2>2 DEF Block, Header
  <2>4. InPages(b.unit * SpanSize, b.ptr, size)
    BY <2>1, <2>3 DEF InPages, Header, SpanSize
  <2>5. b.ptr = Header + b.index * b.unit
    BY <2>1, <2>3 DEF Header
  <2> QED
    BY <2>3, <2>4, <2>5 DEF Room, AtStart
<1>4. CASE size > LargeLimit
  <2> DEFINE n == Units(size + Header, PageSize)
  <2>1. n \in Nat /\ n * 4096 >= size + 128
    BY UnitsHold DEF Header, PageSize
  <2>2. b = [kind |-> "huge", unit |-> n, index |-> 0, ptr |-> Header]
    BY <1>4 DEF Allocated, SmallLimit, MediumLimit, LargeLimit, Header, SpanSize
  <2> HIDE DEF n
  <2>3. b \in Block /\ b.kind = "huge" /\ b.unit = n /\ b.index = 0 /\ b.ptr = 128
    BY <2>1, <2>2 DEF Block, Header
  <2>4. InPages(b.unit * PageSize, b.ptr, size)
    BY <2>1, <2>3 DEF InPages, Header, PageSize, SpanSize
  <2>5. b.ptr = Header + b.index * b.unit
    BY <2>1, <2>3 DEF Header
  <2> QED
    BY <2>3, <2>4, <2>5 DEF Room, AtStart
<1> QED
  BY <1>1, <1>2, <1>3, <1>4 DEF SmallLimit, MediumLimit, LargeLimit, SpanSize, Header

\* A block that starts where its pointer does is aligned to 16 bytes.
LEMMA StartsAligned ==
  ASSUME NEW b, NEW size \in Nat, Room(b, size), AtStart(b), b.kind # "none"
  PROVE  b.ptr \in Nat /\ b.ptr % 16 = 0
<1>1. b \in Block
  BY DEF Room
<1> DEFINE k == b.kind
           u == b.unit
           i == b.index
           p == b.ptr
<1>2. k \in {"none", "small", "large", "huge"} /\ u \in Nat /\ i \in Nat /\ p \in Nat
  BY <1>1 DEF Block
<1>3. p = 128 + i * u
  BY DEF AtStart, Header
<1>4. CASE k = "small"
  <2>1. u > 0 /\ u % 16 = 0
    BY <1>4 DEF Room, InSmall, SmallGranularity
  <2> HIDE DEF u, i, p, k
  <2>2. PICK q \in Nat : u = q * 16
    BY <1>2, <2>1
  <2> DEFINE n == 8 + i * q
  <2>3. i * q \in Nat /\ i * (q * 16) = (i * q) * 16
    BY <1>2, <2>2
  <2>4. n \in Nat /\ p = n * 16 + 0
    BY <1>2, <1>3, <2>2, <2>3
  <2> HIDE DEF n
  <2>5. (n * 16 + 0) % 16 = 0
    BY <2>4, Remainder
  <2>6. p % 16 = 0
    BY <2>4, <2>5
  <2> QED
    BY <1>2, <2>6 DEF p
<1>5. CASE k # "small"
  <2>1. i = 0
    BY <1>2, <1>5 DEF Room
  <2>2. p = 128
    BY <1>2, <1>3, <2>1
  <2> HIDE DEF p
  <2>3. p % 16 = 0
    BY <2>2
  <2> QED
    BY <1>2, <2>3 DEF p
<1> QED
  BY <1>4, <1>5

\* A pointer further inside a block
LEMMA Inside ==
  ASSUME NEW b, NEW size \in Nat, NEW more \in Nat, NEW p \in Nat,
         Room(b, size + more), AtStart(b), b.ptr <= p, p < b.ptr + more, more <= PageSize, b.kind # "none"
  PROVE  Room([b EXCEPT !.ptr = p], size)
<1> DEFINE c == [b EXCEPT !.ptr = p]
<1>1. b \in Block
  BY DEF Room
<1>2. /\ c \in Block /\ c.kind = b.kind /\ c.unit = b.unit /\ c.index = b.index /\ c.ptr = p
      /\ b.unit \in Nat /\ b.index \in Nat /\ b.ptr \in Nat
      /\ b.kind \in {"none", "small", "large", "huge"}
  BY <1>1 DEF Block
<1> HIDE DEF c
<1> DEFINE u == b.unit
           base == b.index * b.unit
           top == (b.index + 1) * b.unit
<1>3. base \in Nat /\ top = base + u /\ top \in Nat
  BY <1>2
<1>4. CASE b.kind = "small"
  <2>1. u > 0 /\ u % 16 = 0 /\ 128 + top <= 65536 /\ 128 + base <= b.ptr
        /\ b.ptr + (size + more) <= 128 + top
    BY <1>4 DEF Room, InSmall, SmallGranularity, Header, SpanSize
  <2>2. 128 + base <= p /\ p < 128 + top /\ p + size <= 128 + top
    BY <1>2, <1>3, <2>1
  <2>3. InSmall(c.unit, c.index, c.ptr, size)
    BY <1>2, <2>1, <2>2 DEF InSmall, SmallGranularity, Header, SpanSize
  <2> QED
    BY <1>2, <1>4, <2>3 DEF Room, c
<1>5. CASE b.kind = "large"
  <2>1. b.index = 0 /\ b.ptr + (size + more) <= u * 65536
    BY <1>5 DEF Room, InPages, SpanSize
  <2>2. b.ptr = 128
    BY <1>2, <2>1 DEF AtStart, Header
  <2>3. InPages(c.unit * SpanSize, c.ptr, size)
    BY <1>2, <2>1, <2>2 DEF InPages, SpanSize, Header, PageSize
  <2> QED
    BY <1>2, <1>5, <2>1, <2>3 DEF Room, c
<1>6. CASE b.kind = "huge"
  <2>1. b.index = 0 /\ b.ptr + (size + more) <= u * 4096
    BY <1>6 DEF Room, InPages, PageSize
  <2>2. b.ptr = 128
    BY <1>2, <2>1 DEF AtStart, Header
  <2>3. InPages(c.unit * PageSize, c.ptr, size)
    BY <1>2, <2>1, <2>2 DEF InPages, SpanSize, Header, PageSize
  <2> QED
    BY <1>2, <1>6, <2>1, <2>3 DEF Room, c
<1> QED
  BY <1>2, <1>4, <1>5, <1>6

\* Room for a request is room for a smaller one.
LEMMA RoomForLess ==
  ASSUME NEW b, NEW more \in Nat, NEW size \in Nat, size <= more, Room(b, more)
  PROVE  Room(b, size)
<1>1. b \in Block
  BY DEF Room
<1> DEFINE u == b.unit
           p == b.ptr
           top == (b.index + 1) * b.unit
           spans == b.unit * SpanSize
           pages == b.unit * PageSize
<1>2. u \in Nat /\ p \in Nat /\ top \in Nat /\ spans \in Nat /\ pages \in Nat
  BY <1>1 DEF Block, SpanSize, PageSize
<1>3. b.kind = "small" => InSmall(b.unit, b.index, b.ptr, size)
  <2>1. SUFFICES ASSUME b.kind = "small" PROVE InSmall(b.unit, b.index, b.ptr, size)
    OBVIOUS
  <2>2. /\ u > 0 /\ u % SmallGranularity = 0 /\ Header + top <= SpanSize
        /\ Header + b.index * u <= p /\ p < Header + top /\ p + more <= Header + top
    BY <2>1 DEF Room, InSmall
  <2>3. p + size <= Header + top
    <3> HIDE DEF p, top
    <3> QED
      BY <1>2, <2>2 DEF Header
  <2> QED
    BY <2>2, <2>3 DEF InSmall
<1>4. b.kind = "large" => b.index = 0 /\ InPages(b.unit * SpanSize, b.ptr, size)
  <2>1. b.kind = "large" => b.index = 0 /\ Header <= p /\ p < SpanSize /\ p + more <= spans
    BY DEF Room, InPages
  <2>2. p + more <= spans => p + size <= spans
    <3> HIDE DEF p, spans
    <3> QED
      BY <1>2
  <2> QED
    BY <2>1, <2>2 DEF InPages
<1>5. b.kind = "huge" => b.index = 0 /\ InPages(b.unit * PageSize, b.ptr, size)
  <2>1. b.kind = "huge" => b.index = 0 /\ Header <= p /\ p < SpanSize /\ p + more <= pages
    BY DEF Room, InPages
  <2>2. p + more <= pages => p + size <= pages
    <3> HIDE DEF p, pages
    <3> QED
      BY <1>2
  <2> QED
    BY <2>1, <2>2 DEF InPages
<1> QED
  BY <1>1, <1>3, <1>4, <1>5 DEF Room

\* A block of a multiple of the header's size is aligned to that size: the
\* small classes up to SmallLimit hold exactly what was asked for, and the
\* medium ones are multiples of 512.
LEMMA NaturallyAligned ==
  ASSUME NEW size \in Nat, size > 0, NEW k \in Nat, size = k * 128, size <= MediumLimit,
         NEW b \in Allocated(size)
  PROVE  b.ptr \in Nat /\ b.ptr % 128 = 0
<1>1. PICK c \in Class : b \in SmallBlocks(c) /\ size <= RawSize(c) /\ (c >= 65 \/ RawSize(c) = size)
  <2>1. CASE size <= SmallLimit
    <3>1. SmallClass(size) = 8 * k /\ 8 * k \in 1 .. 64
      BY <2>1 DEF SmallClass, SmallLimit, SmallGranularity
    <3> DEFINE c == 8 * k
    <3>2. c \in Class /\ c > 0 /\ c < 65
      BY <3>1 DEF Class, ClassCount, SmallClasses, MediumClasses
    <3>3. b \in SmallBlocks(c)
      BY <2>1, <3>1 DEF Allocated
    <3>4. size = c * 16
      OBVIOUS
    <3> HIDE DEF c
    <3>5. RawSize(c) = c * 16
      BY <3>2, RawSizes
    <3> QED
      BY <3>2, <3>3, <3>4, <3>5
  <2>2. CASE size > SmallLimit
    <3> DEFINE c == BaseClass(size)
    <3>1. c \in 65 .. 125 /\ size <= 512 * (c - 62)
      BY <2>2 DEF BaseClass, SmallLimit, MediumLimit, SmallClasses, MediumGranularity
    <3>2. b \in SmallBlocks(c)
      BY <2>2 DEF Allocated, SmallLimit
    <3> HIDE DEF c
    <3>3. c \in Class /\ c >= 65
      BY <3>1 DEF Class, ClassCount, SmallClasses, MediumClasses
    <3>4. RawSize(c) = 512 * (c - 62)
      BY <3>3, RawSizes
    <3> QED
      BY <3>1, <3>2, <3>3, <3>4
  <2> QED
    BY <2>1, <2>2 DEF SmallLimit
<1>2. Room(b, size) /\ AtStart(b) /\ b.unit = RawSize(ClassIdx(c))
  BY <1>1, SmallBlocksHold
<1>3. ClassIdx(c) \in Class /\ ClassIdx(c) >= c /\ (c < 65 => ClassIdx(c) = c) /\ c \in Nat
  BY ClassIdxIs DEF SmallClasses, Class
<1> DEFINE m == ClassIdx(c)
<1>4. \E n \in Nat : RawSize(m) = n * 128
  <2>1. CASE c < 65
    BY <1>1, <1>3, <2>1
  <2>2. CASE c >= 65
    <3>1. m \in Class /\ m >= 65 /\ m \in Nat
      BY <1>3, <2>2 DEF Class
    <3> HIDE DEF m
    <3>2. RawSize(m) = 512 * (m - 62)
      BY <3>1, RawSizes
    <3>3. 4 * (m - 62) \in Nat /\ RawSize(m) = (4 * (m - 62)) * 128
      BY <3>1, <3>2
    <3> QED
      BY <3>3
  <2> QED
    BY <1>3, <2>1, <2>2
<1>5. PICK n \in Nat : b.unit = n * 128
  BY <1>2, <1>4
<1>6. b.index \in Nat
  BY <1>2 DEF Room, Block
<1> DEFINE i == b.index
           q == 1 + i * n
<1>7. i * n \in Nat /\ i * (n * 128) = (i * n) * 128
  BY <1>5, <1>6
<1>8. q \in Nat /\ b.ptr = q * 128 + 0
  BY <1>2, <1>5, <1>7 DEF AtStart, Header
<1> HIDE DEF q
<1>9. (q * 128 + 0) % 128 = 0
  BY <1>8, Remainder
<1> QED
  BY <1>8, <1>9

\* The retry loop finds enough pages, or none.
LEMMA AlignedPagesHold ==
  ASSUME NEW size \in Nat, NEW a \in Nat, a > 0, AlignedPages(size, a) # 0
  PROVE  /\ AlignedPages(size, a) \in Nat /\ AlignUp(Header, a) < SpanSize
         /\ AlignUp(Header, a) + size <= AlignedPages(size, a) * PageSize
<1> DEFINE least == 1 + Units(size, PageSize)
           extra == a \div PageSize
           first == IF extra > least THEN 1 + extra ELSE least
           limit == IF 32 < first * 2 THEN first * 2 ELSE 32
           fits == {n \in first .. limit : AlignUp(Header, a) + size <= n * PageSize}
<1>1. AlignUp(Header, a) \in Nat
  BY AlignUpAligns DEF Header
<1>2. least \in Nat
  BY UnitsHold DEF PageSize
<1>3. extra \in Nat
  BY DEF PageSize
<1>4. first \in Nat
  BY <1>2, <1>3
<1>5. ~ (AlignUp(Header, a) >= SpanSize \/ fits = {})
  BY DEF AlignedPages
<1>6. AlignedPages(size, a) = CHOOSE n \in fits : \A k \in fits : n <= k
  BY <1>5, Zenon DEF AlignedPages
<1> HIDE DEF least, extra, first, limit
<1>7. fits \subseteq Nat /\ fits # {}
  BY <1>4, <1>5
<1>8. \E n \in fits : \A k \in fits : n <= k
  BY <1>7, LeastOf
<1>9. AlignedPages(size, a) \in fits
  BY <1>6, <1>8
<1> QED
  BY <1>1, <1>5, <1>7, <1>9 DEF SpanSize

\* _rpmalloc_aligned_allocate: room from an aligned pointer on, or nothing.
LEMMA AlignedAllocatedHolds ==
  ASSUME NEW a \in Alignments, NEW size \in Nat, NEW b \in AlignedAllocated(a, size), b.kind # "none"
  PROVE  Room(b, size) /\ b.ptr \in Nat /\ b.ptr % a = 0
<1> DEFINE natural == IF size = 0 THEN Header ELSE Units(size, Header) * Header
           pages == AlignedPages(size, a)
<1>1. a \in Nat /\ a > 0
  BY SmallAlignments
<1>2. CASE a <= SmallGranularity
  <2>1. b \in Allocated(size)
    BY <1>2 DEF AlignedAllocated
  <2>2. Room(b, size) /\ AtStart(b)
    BY <2>1, AllocatedHolds
  <2>3. b.ptr \in Nat /\ b.ptr % 16 = 0
    BY <2>2, StartsAligned
  <2>4. b.ptr % a = 0
    BY <1>2, <2>3, SmallAlignments DEF SmallGranularity
  <2> QED
    BY <2>2, <2>3, <2>4
<1>3. CASE a > SmallGranularity /\ a <= Header /\ size < MediumLimit /\ natural <= size + a
  <2>1. b \in Allocated(natural)
    BY <1>1, <1>3 DEF AlignedAllocated, SmallGranularity
  <2>2. natural \in Nat /\ natural >= size /\ natural > 0 /\ \E k \in Nat : natural = k * 128 /\ k <= 252
    <3>1. Units(size, Header) \in Nat /\ Units(size, Header) * Header >= size /\ Units(size, Header) <= 252
      <4>1. Units(size, Header) <= 252
        BY <1>3 DEF Units, Header, MediumLimit
      <4> QED
        BY <4>1, UnitsHold DEF Header
    <3>2. CASE size = 0
      BY <3>2 DEF Header
    <3>3. CASE size # 0
      BY <3>1, <3>3 DEF Header
    <3> QED
      BY <3>2, <3>3
  <2> HIDE DEF natural
  <2>3. Room(b, natural) /\ AtStart(b)
    BY <2>1, <2>2, AllocatedHolds
  <2>4. Room(b, size)
    BY <2>2, <2>3, RoomForLess
  <2>5. b.ptr \in Nat /\ b.ptr % 128 = 0
    <3>1. PICK k \in Nat : natural = k * 128 /\ k <= 252
      BY <2>2
    <3>2. natural <= MediumLimit
      BY <3>1 DEF MediumLimit
    <3> QED
      BY <2>1, <2>2, <3>1, <3>2, NaturallyAligned
  <2>6. b.ptr % a = 0
    BY <1>3, <2>5, SmallAlignments DEF Header
  <2> QED
    BY <2>4, <2>5, <2>6
<1>4. CASE /\ a > SmallGranularity /\ a <= PageSize
           /\ ~ (a <= Header /\ size < MediumLimit /\ natural <= size + a)
  <2>1. PICK c \in Allocated(size + a) : b = [c EXCEPT !.ptr = AlignUp(@, a)]
    <3>1. ~ (a <= SmallGranularity)
      BY <1>1, <1>4 DEF SmallGranularity
    <3>2. AlignedAllocated(a, size) = {[c EXCEPT !.ptr = AlignUp(@, a)] : c \in Allocated(size + a)}
      BY <1>4, <3>1, Zenon DEF AlignedAllocated
    <3> QED
      BY <3>2
  <2>2. Room(c, size + a) /\ AtStart(c) /\ c.kind # "none"
    BY <1>1, <2>1, AllocatedHolds
  <2>3. c \in Block /\ c.ptr \in Nat
    BY <2>2 DEF Room, Block
  <2> DEFINE p == AlignUp(c.ptr, a)
  <2>4. p \in Nat /\ p % a = 0 /\ c.ptr <= p /\ p < c.ptr + a
    BY <1>1, <2>3, AlignUpAligns
  <2>5. b = [c EXCEPT !.ptr = p]
    BY <2>1
  <2> HIDE DEF p
  <2>6. Room([c EXCEPT !.ptr = p], size)
    BY <1>1, <1>4, <2>2, <2>4, Inside
  <2>7. b.ptr = p
    BY <2>3, <2>5 DEF Block
  <2> QED
    BY <2>4, <2>5, <2>6, <2>7
<1>5. CASE a > PageSize
  <2>1. b = [kind |-> "huge", unit |-> pages, index |-> 0, ptr |-> AlignUp(Header, a)] /\ pages # 0
    <3>1. ~ (a <= SmallGranularity) /\ ~ (a <= Header) /\ ~ (a <= PageSize)
      BY <1>1, <1>5 DEF SmallGranularity, Header, PageSize
    <3>2. b \in IF a >= SpanSize \/ pages = 0 THEN {NoBlock}
                ELSE {[kind |-> "huge", unit |-> pages, index |-> 0, ptr |-> AlignUp(Header, a)]}
      BY <3>1, Zenon DEF AlignedAllocated
    <3>3. b # NoBlock
      BY DEF NoBlock
    <3> QED
      BY <3>2, <3>3
  <2> DEFINE p == AlignUp(Header, a)
  <2>2. pages \in Nat /\ p < 65536 /\ p + size <= pages * 4096
    BY <1>1, <2>1, AlignedPagesHold DEF SpanSize, PageSize
  <2>3. p \in Nat /\ p % a = 0 /\ 128 <= p
    BY <1>1, AlignUpAligns DEF Header
  <2>4. b = [kind |-> "huge", unit |-> pages, index |-> 0, ptr |-> p]
    BY <2>1
  <2> HIDE DEF p, pages
  <2>5. b \in Block /\ b.kind = "huge" /\ b.unit = pages /\ b.index = 0 /\ b.ptr = p
    BY <2>2, <2>3, <2>4 DEF Block
  <2>6. InPages(b.unit * PageSize, b.ptr, size)
    BY <2>2, <2>3, <2>5 DEF InPages, Header, PageSize, SpanSize
  <2> QED
    BY <2>3, <2>5, <2>6 DEF Room
<1> QED
  BY <1>1, <1>2, <1>3, <1>4, <1>5 DEF SmallGranularity, PageSize, Header

\* Only the failure of an aligned allocation is no block.
LEMMA NoneIsNoBlock ==
  ASSUME NEW a \in Alignments, NEW size \in Nat, NEW b \in AlignedAllocated(a, size), b.kind = "none"
  PROVE  b = NoBlock /\ b \in Block
<1> DEFINE natural == IF size = 0 THEN Header ELSE Units(size, Header) * Header
           pages == AlignedPages(size, a)
<1>1. a \in Nat /\ a > 0
  BY SmallAlignments
<1>2. natural \in Nat
  BY UnitsHold DEF Header
<1>3. b \notin Allocated(size) /\ b \notin Allocated(natural)
  BY <1>2, AllocatedHolds
<1>4. ASSUME NEW c \in Allocated(size + a), b = [c EXCEPT !.ptr = AlignUp(@, a)] PROVE FALSE
  <2>1. c.kind # "none" /\ c \in Block
    BY <1>1, AllocatedHolds DEF Room
  <2> QED
    BY <1>4, <2>1 DEF Block
<1>5. b # [kind |-> "huge", unit |-> pages, index |-> 0, ptr |-> AlignUp(Header, a)]
  OBVIOUS
<1> HIDE DEF natural, pages
<1>6. b = NoBlock
  BY <1>3, <1>4, <1>5 DEF AlignedAllocated, natural, pages
<1>7. NoBlock \in Block
  BY DEF NoBlock, Block
<1> QED
  BY <1>6, <1>7

----------------------------------------------------------------------------
\* Blocks the program has.

\* From its pointer to its end a block holds the request, and masking and
\* realigning the pointer gives the block's start.
LEMMA RoomIsUsable ==
  ASSUME NEW b, NEW size \in Nat, Room(b, size), b.kind # "none"
  PROVE  /\ UsableSize(b) \in Nat /\ size <= UsableSize(b)
         /\ b.kind = "small" => Start(b) = Header + b.index * b.unit
<1>1. b \in Block
  BY DEF Room
<1> DEFINE u == b.unit
           i == b.index
           p == b.ptr
           base == i * u
           top == (i + 1) * u
<1>2. u \in Nat /\ i \in Nat /\ p \in Nat /\ b.kind \in {"none", "small", "large", "huge"}
  BY <1>1 DEF Block
<1>3. base \in Nat /\ top = base + u
  BY <1>2, Ends
<1>4. CASE b.kind = "small"
  <2>1. u > 0 /\ Header + base <= p /\ p < Header + top /\ p + size <= Header + top
    BY <1>4 DEF Room, InSmall
  <2> DEFINE d == p - (128 + base)
  <2>2. d \in Nat /\ d < u /\ d + size <= u
    <3> HIDE DEF u, i, p, base, top
    <3> QED
      BY <1>2, <1>3, <2>1 DEF Header
  <2>3. (i * u + d) % u = d
    <3> HIDE DEF u, i, p, base, top, d
    <3> QED
      BY <1>2, <2>1, <2>2, Remainder
  <2>4. p - 128 = i * u + d
    BY <1>2, <1>3
  <2>5. (p - Header) % u = d
    BY <2>3, <2>4 DEF Header
  <2>6. UsableSize(b) = u - d
    BY <1>4, <2>5 DEF UsableSize
  <2>7. Start(b) = p - d
    BY <1>4, <2>5 DEF Start
  <2>8. Start(b) = Header + base
    BY <1>2, <1>3, <2>7 DEF Header
  <2> HIDE DEF u, d
  <2>9. UsableSize(b) \in Nat /\ size <= UsableSize(b)
    BY <1>2, <2>2, <2>6
  <2> QED
    BY <2>8, <2>9 DEF u
<1>5. CASE b.kind = "large"
  <2>1. UsableSize(b) = u * 65536 - p
    BY <1>5 DEF UsableSize, SpanSize
  <2>2. p + size <= u * 65536
    BY <1>5 DEF Room, InPages, SpanSize
  <2> HIDE DEF u, p
  <2> QED
    BY <1>2, <1>5, <2>1, <2>2
<1>6. CASE b.kind = "huge"
  <2>1. UsableSize(b) = u * 4096 - p
    BY <1>6 DEF UsableSize, PageSize
  <2>2. p + size <= u * 4096
    BY <1>6 DEF Room, InPages, PageSize
  <2> HIDE DEF u, p
  <2> QED
    BY <1>2, <1>6, <2>1, <2>2
<1> QED
  BY <1>2, <1>4, <1>5, <1>6

\* A request no longer than the rest of a block has room there.
LEMMA RoomToTheEnd ==
  ASSUME NEW b, NEW old \in Nat, NEW size \in Nat, Room(b, old), b.kind # "none", size <= UsableSize(b)
  PROVE  Room(b, size)
<1>1. b \in Block
  BY DEF Room
<1> DEFINE u == b.unit
           i == b.index
           p == b.ptr
           base == i * u
           top == (i + 1) * u
<1>2. u \in Nat /\ i \in Nat /\ p \in Nat /\ b.kind \in {"none", "small", "large", "huge"}
  BY <1>1 DEF Block
<1>3. base \in Nat /\ top = base + u
  BY <1>2, Ends
<1>4. CASE b.kind = "small"
  <2>1. u > 0 /\ u % SmallGranularity = 0 /\ Header + top <= SpanSize
        /\ Header + base <= p /\ p < Header + top
    BY <1>4 DEF Room, InSmall
  <2> DEFINE d == p - (128 + base)
  <2>2. d \in Nat /\ d < u
    <3> HIDE DEF u, i, p, base, top
    <3> QED
      BY <1>2, <1>3, <2>1 DEF Header
  <2>3. (i * u + d) % u = d
    <3> HIDE DEF u, i, p, base, top, d
    <3> QED
      BY <1>2, <2>1, <2>2, Remainder
  <2>4. p - 128 = i * u + d
    BY <1>2, <1>3
  <2>5. (p - Header) % u = d
    BY <2>3, <2>4 DEF Header
  <2>6. size <= u - d
    BY <1>4, <2>5 DEF UsableSize
  <2>7. p + size <= Header + top
    <3> HIDE DEF u, i, p, base, top
    <3> QED
      BY <1>2, <1>3, <2>6 DEF Header
  <2>8. InSmall(b.unit, b.index, b.ptr, size)
    BY <2>1, <2>7 DEF InSmall
  <2> QED
    BY <1>1, <1>4, <2>8 DEF Room
<1>5. CASE b.kind = "large"
  <2>1. size <= u * SpanSize - p
    BY <1>5 DEF UsableSize
  <2>2. b.index = 0 /\ Header <= p /\ p < SpanSize
    BY <1>5 DEF Room, InPages
  <2>3. InPages(u * SpanSize, p, size)
    <3> HIDE DEF u, p
    <3> QED
      BY <1>2, <2>1, <2>2 DEF InPages, Header, SpanSize
  <2> QED
    BY <1>1, <1>5, <2>2, <2>3 DEF Room
<1>6. CASE b.kind = "huge"
  <2>1. size <= u * PageSize - p
    BY <1>6 DEF UsableSize
  <2>2. b.index = 0 /\ Header <= p /\ p < SpanSize
    BY <1>6 DEF Room, InPages
  <2>3. InPages(u * PageSize, p, size)
    <3> HIDE DEF u, p
    <3> QED
      BY <1>2, <2>1, <2>2 DEF InPages, Header, SpanSize, PageSize
  <2> QED
    BY <1>1, <1>6, <2>2, <2>3 DEF Room
<1> QED
  BY <1>2, <1>4, <1>5, <1>6

\* A block that stays is used from its start, where it has room.
LEMMA StayingHolds ==
  ASSUME NEW b, NEW old \in Nat, NEW size \in Nat, Room(b, old), b.kind # "none", Stays(b, size)
  PROVE  Room([b EXCEPT !.ptr = Start(b)], size) /\ AtStart([b EXCEPT !.ptr = Start(b)])
<1> DEFINE c == [b EXCEPT !.ptr = Start(b)]
<1>1. b \in Block
  BY DEF Room
<1>2. /\ b.unit \in Nat /\ b.index \in Nat
      /\ b.kind \in {"none", "small", "large", "huge"}
      /\ c.kind = b.kind /\ c.unit = b.unit /\ c.index = b.index /\ c.ptr = Start(b)
  BY <1>1 DEF Block
<1> DEFINE u == b.unit
           base == b.index * b.unit
           top == (b.index + 1) * b.unit
<1>3. base \in Nat /\ top = base + u /\ top \in Nat
  BY <1>2
<1>4. CASE b.kind = "small"
  <2>1. Start(b) = 128 + base
    BY <1>4, RoomIsUsable DEF Header
  <2>2. u > 0 /\ u % SmallGranularity = 0 /\ 128 + top <= 65536
    BY <1>4 DEF Room, InSmall, Header, SpanSize
  <2>3. size <= u
    BY <1>4, <1>2 DEF Stays
  <2>4. c \in Block
    BY <1>1, <1>3, <2>1 DEF Block
  <2>5. 128 + base < 128 + top /\ (128 + base) + size <= 128 + top
    <3> HIDE DEF u, base, top
    <3> QED
      BY <1>2, <1>3, <2>2, <2>3 DEF u
  <2> HIDE DEF c
  <2>6. InSmall(c.unit, c.index, c.ptr, size)
    BY <1>2, <1>3, <2>1, <2>2, <2>5 DEF InSmall, Header, SpanSize
  <2>7. c.ptr = Header + c.index * c.unit
    BY <1>2, <2>1 DEF Header
  <2> QED
    BY <1>2, <1>4, <2>4, <2>6, <2>7 DEF Room, AtStart, c
<1>5. CASE b.kind = "large"
  <2>1. b.index = 0 /\ Start(b) = 128
    BY <1>5 DEF Room, Start, Header
  <2>2. u * 65536 >= size + 128
    <3>1. u >= Units(size + 128, 65536)
      BY <1>5 DEF Stays, Header, SpanSize
    <3>2. Units(size + 128, 65536) \in Nat /\ Units(size + 128, 65536) * 65536 >= size + 128
      BY UnitsHold
    <3> QED
      BY <1>2, <3>1, <3>2
  <2>3. c \in Block
    BY <1>1, <2>1 DEF Block
  <2> HIDE DEF c
  <2>4. InPages(c.unit * SpanSize, c.ptr, size)
    BY <1>2, <2>1, <2>2 DEF InPages, Header, SpanSize
  <2>5. c.ptr = Header + c.index * c.unit
    BY <1>2, <2>1 DEF Header
  <2> QED
    BY <1>2, <1>5, <2>1, <2>3, <2>4, <2>5 DEF Room, AtStart, c
<1>6. CASE b.kind = "huge"
  <2>1. b.index = 0 /\ Start(b) = 128
    BY <1>6 DEF Room, Start, Header
  <2>2. u * 4096 >= size + 128
    <3>1. u >= Units(size + 128, 4096)
      BY <1>6 DEF Stays, Header, PageSize
    <3>2. Units(size + 128, 4096) \in Nat /\ Units(size + 128, 4096) * 4096 >= size + 128
      BY UnitsHold
    <3> QED
      BY <1>2, <3>1, <3>2
  <2>3. c \in Block
    BY <1>1, <2>1 DEF Block
  <2> HIDE DEF c
  <2>4. InPages(c.unit * PageSize, c.ptr, size)
    BY <1>2, <2>1, <2>2 DEF InPages, Header, PageSize, SpanSize
  <2>5. c.ptr = Header + c.index * c.unit
    BY <1>2, <2>1 DEF Header
  <2> QED
    BY <1>2, <1>6, <2>1, <2>3, <2>4, <2>5 DEF Room, AtStart, c
<1> QED
  BY <1>2, <1>4, <1>5, <1>6

\* The rounded size of a reallocation is at least the size asked for.
LEMMA NewSizeGrows ==
  ASSUME NEW old \in Nat, NEW size \in Nat
  PROVE  NewSize(old, size) \in Nat /\ size <= NewSize(old, size)
BY DEF NewSize

----------------------------------------------------------------------------
\* The invariant.

LEMMA InitHolds == Init => SizesInv
<1> SUFFICES ASSUME Init PROVE SizesInv
  OBVIOUS
<1>1. block = NoBlock /\ ask = [size |-> 0, align |-> 1] /\ kept = 0 /\ moves = 0
  BY DEF Init
<1>2. block \in Block /\ block.kind = "none"
  BY <1>1 DEF NoBlock, Block
<1>3. Room(block, ask.size)
  BY <1>2 DEF Room
<1>4. ask \in Asked
  BY <1>1 DEF Asked
<1> QED
  BY <1>1, <1>2, <1>3, <1>4 DEF SizesInv

\* The bytes a reallocation keeps are a number.
LEMMA LeastIs ==
  ASSUME NEW x \in Nat, NEW y \in Nat
  PROVE  Least(x, y) \in Nat /\ Least(x, y) <= x /\ Least(x, y) <= y /\ (Least(x, y) = x \/ Least(x, y) = y)
BY DEF Least

\* What a block has room for and where it is decide the invariant.
LEMMA Held ==
  ASSUME NEW size \in Nat, NEW a \in Nat, a > 0, ask' = [size |-> size, align |-> a],
         Room(block', size), block'.ptr % a = 0, kept' \in Nat, moves' \in Nat
  PROVE  SizesInv'
<1>1. ask' \in Asked /\ ask'.size = size /\ ask'.align = a
  BY DEF Asked
<1> QED
  BY <1>1 DEF SizesInv

LEMMA AllocHolds ==
  ASSUME SizesInv, NEW size \in Sizes, Alloc(size)
  PROVE  SizesInv'
<1>1. size \in Nat
  BY RpRequests
<1>2. block' \in Allocated(size) /\ ask' = [size |-> size, align |-> 16] /\ kept' = 0 /\ moves' = 0
  BY DEF Alloc, SmallGranularity
<1>3. Room(block', size) /\ AtStart(block') /\ block'.kind # "none"
  BY <1>1, <1>2, AllocatedHolds
<1>4. block'.ptr % 16 = 0
  BY <1>1, <1>3, StartsAligned
<1> QED
  BY <1>1, <1>2, <1>3, <1>4, Held

\* A block that could not be had leaves nothing to hold.
LEMMA NothingHeld ==
  ASSUME SizesInv, block'.kind = "none", block' \in Block, UNCHANGED ask, kept' \in Nat, moves' \in Nat
  PROVE  SizesInv'
<1>1. Room(block', ask'.size)
  BY DEF Room
<1> QED
  BY <1>1 DEF SizesInv

LEMMA AlignedAllocHolds ==
  ASSUME SizesInv, NEW a \in Alignments, NEW size \in Sizes, AlignedAlloc(a, size)
  PROVE  SizesInv'
<1>1. size \in Nat /\ a \in Nat /\ a > 0
  BY RpRequests, RpAlignments
<1>2. /\ block' \in AlignedAllocated(a, size) /\ kept' = 0 /\ moves' = 0
      /\ IF block'.kind = "none" THEN UNCHANGED ask ELSE ask' = [size |-> size, align |-> a]
  BY DEF AlignedAlloc
<1>3. CASE block'.kind = "none"
  <2>1. block' \in Block
    BY <1>1, <1>2, <1>3, NoneIsNoBlock
  <2> QED
    BY <1>2, <1>3, <2>1, NothingHeld
<1>4. CASE block'.kind # "none"
  <2>1. Room(block', size) /\ block'.ptr % a = 0
    BY <1>1, <1>2, <1>4, AlignedAllocatedHolds
  <2> QED
    BY <1>1, <1>2, <1>4, <2>1, Held
<1> QED
  BY <1>3, <1>4

\* What a reallocation keeps is no less than what of the old block it copies.
LEMMA Keeps ==
  ASSUME SizesInv, NEW copied \in Nat, Keep(copied)
  PROVE  /\ kept' \in Nat /\ moves' \in Nat /\ ask.size \in Nat
         /\ kept' = Least(ask.size, copied)
BY LeastIs DEF SizesInv, Asked, Keep

\* rprealloc keeps the program's bytes, up to the size asked for.
LEMMA ReallocHolds ==
  ASSUME SizesInv, NEW size \in Sizes, Realloc(size)
  PROVE  SizesInv' /\ kept' >= Least(ask.size, size) /\ ask'.size = size
<1> DEFINE old == UsableSize(block)
           new == NewSize(old, size)
<1>1. size \in Nat /\ block.kind # "none" /\ ask.size \in Nat /\ Room(block, ask.size)
  BY RpRequests DEF SizesInv, Asked, Realloc
<1>2. old \in Nat /\ ask.size <= old
  BY <1>1, RoomIsUsable
<1>3. new \in Nat /\ size <= new
  BY <1>1, <1>2, NewSizeGrows
<1>4. ask' = [size |-> size, align |-> 16]
  BY DEF Realloc, SmallGranularity
<1>5. CASE Stays(block, size)
  <2>1. block' = [block EXCEPT !.ptr = Start(block)] /\ Keep(old)
    BY <1>5 DEF Realloc
  <2>2. Room(block', size) /\ AtStart(block')
    BY <1>1, <1>5, <2>1, StayingHolds
  <2>3. block'.kind # "none"
    BY <1>1, <2>1 DEF Room, Block
  <2>4. block'.ptr % 16 = 0
    BY <1>1, <2>2, <2>3, StartsAligned
  <2>5. kept' \in Nat /\ moves' \in Nat /\ kept' = Least(ask.size, old)
    BY <1>2, <2>1, Keeps
  <2> HIDE DEF old
  <2>6. kept' >= Least(ask.size, size)
    BY <1>1, <1>2, <2>5 DEF Least
  <2>7. SizesInv'
    BY <1>1, <1>4, <2>2, <2>4, <2>5, Held
  <2> QED
    BY <1>4, <2>6, <2>7
<1>6. CASE ~ Stays(block, size)
  <2>1. block' \in Allocated(new) /\ Keep(Least(old, new))
    BY <1>6 DEF Realloc
  <2> HIDE DEF old, new
  <2>2. Room(block', new) /\ AtStart(block') /\ block'.kind # "none"
    BY <1>3, <2>1, AllocatedHolds
  <2>3. Room(block', size)
    BY <1>1, <1>3, <2>2, RoomForLess
  <2>4. block'.ptr % 16 = 0
    BY <1>3, <2>2, StartsAligned
  <2>5. Least(old, new) \in Nat
    BY <1>2, <1>3, LeastIs
  <2>6. kept' \in Nat /\ moves' \in Nat /\ kept' = Least(ask.size, Least(old, new))
    BY <2>1, <2>5, Keeps
  <2>7. kept' >= Least(ask.size, size)
    BY <1>1, <1>2, <1>3, <2>6 DEF Least
  <2>8. SizesInv'
    BY <1>1, <1>4, <2>3, <2>4, <2>6, Held
  <2> QED
    BY <1>4, <2>7, <2>8
<1> QED
  BY <1>5, <1>6

\* The same of rpaligned_realloc
LEMMA AlignedReallocHolds ==
  ASSUME SizesInv, NEW a \in Alignments, NEW size \in Sizes, AlignedRealloc(a, size)
  PROVE  SizesInv' /\ kept' >= Least(ask.size, size) /\ ask'.size = size
<1> DEFINE usable == UsableSize(block)
           stays  == usable >= size /\ block.ptr % a = 0 /\ size >= usable \div 2
<1>1. size \in Nat /\ a \in Nat /\ a > 0
  BY RpRequests, RpAlignments
<1>2. block.kind # "none" /\ ask.size \in Nat /\ Room(block, ask.size)
  BY DEF SizesInv, Asked, AlignedRealloc
<1>3. usable \in Nat /\ ask.size <= usable
  BY <1>2, RoomIsUsable
<1>4. ask' = [size |-> size, align |-> a]
  BY DEF AlignedRealloc
<1>5. CASE stays
  <2>1. block' = block /\ Keep(usable) /\ size <= usable /\ block.ptr % a = 0
    BY <1>1, <1>3, <1>5 DEF AlignedRealloc
  <2>2. Room(block, size)
    BY <1>1, <1>2, <1>3, <2>1, RoomToTheEnd
  <2>3. kept' \in Nat /\ moves' \in Nat /\ kept' = Least(ask.size, usable)
    BY <1>3, <2>1, Keeps
  <2> HIDE DEF usable, stays
  <2>4. kept' >= Least(ask.size, size)
    BY <1>1, <1>2, <1>3, <2>3 DEF Least
  <2>5. SizesInv'
    BY <1>1, <1>4, <2>1, <2>2, <2>3, Held
  <2> QED
    BY <1>4, <2>4, <2>5
<1>6. CASE ~ stays
  <2>1. block' \in AlignedAllocated(a, size) \ {NoBlock} /\ Keep(Least(usable, size))
    BY <1>6 DEF AlignedRealloc
  <2> HIDE DEF usable, stays
  <2>2. block'.kind # "none"
    BY <1>1, <2>1, NoneIsNoBlock
  <2>3. Room(block', size) /\ block'.ptr % a = 0
    BY <1>1, <2>1, <2>2, AlignedAllocatedHolds
  <2>4. Least(usable, size) \in Nat
    BY <1>1, <1>3, LeastIs
  <2>5. kept' \in Nat /\ moves' \in Nat /\ kept' = Least(ask.size, Least(usable, size))
    BY <2>1, <2>4, Keeps
  <2>6. kept' >= Least(ask.size, size)
    BY <1>1, <1>2, <1>3, <2>5 DEF Least
  <2>7. SizesInv'
    BY <1>1, <1>4, <2>3, <2>5, Held
  <2> QED
    BY <1>4, <2>6, <2>7
<1> QED
  BY <1>5, <1>6

LEMMA FreeHolds ==
  ASSUME SizesInv, Free
  PROVE  SizesInv' /\ block'.kind = "none"
<1>1. block' = NoBlock /\ ask' = [size |-> 0, align |-> 1] /\ kept' = 0 /\ moves' = 0
  BY DEF Free
<1>2. block' \in Block /\ block'.kind = "none" /\ block'.ptr = 0
  BY <1>1 DEF NoBlock, Block
<1>3. Room(block', 0)
  BY <1>2 DEF Room
<1> QED
  BY <1>1, <1>2, <1>3, Held

LEMMA StepHolds == SizesInv /\ [Next]_vars => SizesInv'
<1> SUFFICES ASSUME SizesInv, [Next]_vars PROVE SizesInv'
  OBVIOUS
<1>1. ASSUME NEW size \in Sizes, Alloc(size) PROVE SizesInv'
  BY <1>1, AllocHolds
<1>2. ASSUME NEW size \in Sizes, Realloc(size) PROVE SizesInv'
  BY <1>2, ReallocHolds
<1>3. ASSUME NEW a \in Alignments, NEW size \in Sizes, AlignedAlloc(a, size) PROVE SizesInv'
  BY <1>3, AlignedAllocHolds
<1>4. ASSUME NEW a \in Alignments, NEW size \in Sizes, AlignedRealloc(a, size) PROVE SizesInv'
  BY <1>4, AlignedReallocHolds
<1>5. CASE Free
  BY <1>5, FreeHolds
<1>6. CASE UNCHANGED vars
  BY <1>6 DEF vars, SizesInv
<1> QED
  BY <1>1, <1>2, <1>3, <1>4, <1>5, <1>6 DEF Next

\* What the invariant says of a block
LEMMA InvFits == SizesInv => Fits
<1> SUFFICES ASSUME SizesInv, block.kind # "none" PROVE Fits
  BY DEF Fits
<1>1. ask.size \in Nat /\ Room(block, ask.size) /\ block.ptr % ask.align = 0
  BY DEF SizesInv, Asked
<1>2. block \in Block
  BY <1>1 DEF Room
<1>3. /\ block.kind \in {"none", "small", "large", "huge"}
      /\ block.unit \in Nat /\ block.index \in Nat /\ block.ptr \in Nat
  BY <1>2 DEF Block
<1>4. /\ UsableSize(block) \in Nat /\ ask.size <= UsableSize(block)
      /\ block.kind = "small" => Start(block) = Header + block.index * block.unit
  BY <1>1, RoomIsUsable
<1> DEFINE u == block.unit
           p == block.ptr
           base == block.index * block.unit
           top == (block.index + 1) * block.unit
<1>5. base \in Nat /\ top = base + u
  BY <1>3
<1>6. CASE block.kind = "small"
  <2>1. Header + base <= p /\ p < Header + top /\ p + ask.size <= Header + top /\ Header + top <= SpanSize
    BY <1>1, <1>6 DEF Room, InSmall
  <2>2. Extent(block) = u
    BY <1>6 DEF Extent
  <2>3. p < SpanSize /\ p + ask.size <= Header + base + u /\ p >= Header + base
    <3> HIDE DEF p, u, base, top
    <3> QED
      BY <1>1, <1>3, <1>5, <2>1 DEF u, p, Header, SpanSize
  <2> QED
    BY <1>1, <1>3, <1>4, <1>6, <2>1, <2>2, <2>3 DEF Fits
<1>7. CASE block.kind \in {"large", "huge"}
  <2>1. block.index = 0 /\ Header <= p /\ p < SpanSize /\ p + ask.size <= Header + Extent(block) /\ Extent(block) \in Int
    BY <1>1, <1>3, <1>7 DEF Room, InPages, Extent, Header, SpanSize, PageSize
  <2>2. base = 0 /\ block.index * 0 = 0
    BY <1>3, <2>1
  <2>3. p + ask.size <= Header + base + Extent(block) /\ p >= Header + block.index * 0
    BY <2>1, <2>2 DEF Header
  <2>4. block.kind # "small"
    BY <1>7
  <2> QED
    BY <1>1, <1>3, <1>4, <2>1, <2>3, <2>4 DEF Fits
<1> QED
  BY <1>3, <1>6, <1>7

\* Every block holds what was asked for at the alignment asked for, inside its
\* span, and rpfree finds it from any pointer the program may have to it.
THEOREM BlocksFit == Spec => []Fits
<1>1. Init => SizesInv
  BY InitHolds
<1>2. SizesInv /\ [Next]_vars => SizesInv'
  BY StepHolds
<1>3. SizesInv => Fits
  BY InvFits
<1> QED
  BY <1>1, <1>2, <1>3, PTL DEF Spec

\* A reallocation keeps what the program had stored, up to the new size.
THEOREM ReallocPreserves == Spec => Preserves
<1>1. Init => SizesInv
  BY InitHolds
<1>2. SizesInv /\ [Next]_vars => SizesInv'
  BY StepHolds
<1> DEFINE Kept == block.kind # "none" /\ block'.kind # "none" => kept' >= Least(ask.size, ask'.size)
<1>3. SizesInv /\ [Next]_vars => [Kept]_vars
  <2> SUFFICES ASSUME SizesInv, Next, block.kind # "none", block'.kind # "none"
               PROVE  kept' >= Least(ask.size, ask'.size)
    OBVIOUS
  <2>1. ASSUME NEW size \in Sizes, Realloc(size) PROVE kept' >= Least(ask.size, ask'.size)
    BY <2>1, ReallocHolds
  <2>2. ASSUME NEW a \in Alignments, NEW size \in Sizes, AlignedRealloc(a, size)
        PROVE  kept' >= Least(ask.size, ask'.size)
    BY <2>2, AlignedReallocHolds
  <2>3. ASSUME NEW size \in Sizes, Alloc(size) PROVE FALSE
    BY <2>3 DEF Alloc
  <2>4. ASSUME NEW a \in Alignments, NEW size \in Sizes, AlignedAlloc(a, size) PROVE FALSE
    BY <2>4 DEF AlignedAlloc
  <2>5. ~ Free
    BY FreeHolds
  <2> QED
    BY <2>1, <2>2, <2>3, <2>4, <2>5 DEF Next
<1> QED
  BY <1>1, <1>2, <1>3, PTL DEF Spec, Preserves
================================================================================
