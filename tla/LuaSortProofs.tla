---------------------------- MODULE LuaSortProofs ----------------------------
(***************************************************************************)
(* table.sort keeps its promises for every size, every order function and  *)
(* every value of the constants.                                           *)
(***************************************************************************)
EXTENDS LuaSort, SequenceTheorems, TLAPS

Rests == [lo : Nat, up : Nat, n : Nat, rnd : Nat]
Typed ==
  /\ rank \in Seq(Int) /\ sound \in BOOLEAN
  /\ a \in [1 .. Size -> 1 .. Size]
  /\ lo \in Nat /\ up \in Nat /\ rnd \in Nat
  /\ p \in Int /\ pivot \in Int /\ i \in Int /\ j \in Int
  /\ pending \in Seq(Rests)
  /\ pc \in Comparing \cup {"return", "error"}
Injective == \A x, y \in 1 .. Size : x # y => a[x] # a[y]
Bounds ==
  /\ 1 <= lo /\ lo <= up + 1 /\ up <= Size
  /\ pc \in Comparing => lo < up
  /\ pc \in {"low", "high"} => lo < p /\ p < up
  /\ pc = "rise" => lo < i /\ i < up /\ lo < j /\ j < up
  /\ pc = "fall" => lo < i /\ i < up /\ lo <= j /\ j < up - 1

\* What a call may sort: less than half of its caller's interval
Room(q, k) == IF k = 1 THEN Size ELSE q[k - 1].n
RestFits(q, k) ==
  /\ 1 <= q[k].lo /\ q[k].lo <= q[k].up /\ q[k].up <= Size
  /\ q[k].n <= q[k].up - q[k].lo + 1
  /\ q[k].n + (q[k].up - q[k].lo + 1) < Room(q, k)
Nested ==
  /\ \A k \in 1 .. Len(pending) : RestFits(pending, k)
  /\ up - lo + 1 <= Room(pending, Len(pending) + 1)

Disjoint(l1, u1, l2, u2) == u1 < l2 \/ u2 < l1
Apart ==
  /\ \A k, m \in 1 .. Len(pending) :
       k # m => Disjoint(pending[k].lo, pending[k].up, pending[m].lo, pending[m].up)
  /\ pc \in Comparing =>
       \A k \in 1 .. Len(pending) : Disjoint(pending[k].lo, pending[k].up, lo, up)

\* The shape of the sort, whatever the answers.
Shape == Typed /\ Injective /\ Bounds /\ Nested /\ Apart

R(f, x) == rank[f[x]]
Waiting(q, x, y) == \E k \in 1 .. Len(q) : q[k].lo <= x /\ y <= q[k].up
\* Elements that no interval has together are in order.
Outside(f) ==
  \A x, y \in 1 .. Size :
    x < y /\ ~(lo <= x /\ y <= up) /\ ~Waiting(pending, x, y) => R(f, x) <= R(f, y)
Settled ==
  IF pc \in Comparing THEN Outside(a)
  ELSE \A x, y \in 1 .. Size : x < y /\ ~Waiting(pending, x, y) => R(a, x) <= R(a, y)
\* What the comparisons have told of the interval so far.
Known ==
  /\ pc \in {"low", "high"} => R(a, lo) <= R(a, up)
  /\ pc = "high" => R(a, lo) <= R(a, p)
  /\ pc \in {"rise", "fall"} =>
       /\ a[up - 1] = pivot
       /\ \A x \in lo .. i - 1 : R(a, x) <= rank[pivot]
       /\ \A x \in j + 1 .. up : rank[pivot] <= R(a, x)
  /\ pc = "rise" => rank[pivot] <= R(a, j)
  /\ pc = "fall" => rank[pivot] <= R(a, i)
Ordering == sound => pc # "error" /\ Settled /\ Known

SortInv == Shape /\ Ordering

----------------------------------------------------------------------------
\* Lemmas about the operators.

\* A swap moves two elements and no other.
LEMMA SwapValues ==
  ASSUME NEW D, NEW E, NEW f \in [D -> E], NEW u \in D, NEW v \in D
  PROVE  /\ Swapped(f, u, v) \in [D -> E]
         /\ Swapped(f, u, v)[u] = f[v]
         /\ Swapped(f, u, v)[v] = f[u]
         /\ \A x \in D : x # u /\ x # v => Swapped(f, u, v)[x] = f[x]
  BY DEF Swapped

\* A swap of a permutation is one.
LEMMA SwapInjective ==
  ASSUME NEW D, NEW E, NEW f \in [D -> E], NEW u \in D, NEW v \in D,
         \A x, y \in D : x # y => f[x] # f[y]
  PROVE  \A x, y \in D : x # y => Swapped(f, u, v)[x] # Swapped(f, u, v)[y]
  BY DEF Swapped

\* A swap in the table moves two elements and no other.
LEMMA SwapTable ==
  ASSUME Size \in Nat, NEW f \in [1 .. Size -> 1 .. Size], NEW u \in 1 .. Size, NEW v \in 1 .. Size
  PROVE  /\ Swapped(f, u, v) \in [1 .. Size -> 1 .. Size]
         /\ Swapped(f, u, v)[u] = f[v]
         /\ Swapped(f, u, v)[v] = f[u]
         /\ \A x \in 1 .. Size : x # u /\ x # v => Swapped(f, u, v)[x] = f[x]
  <1> DEFINE D == 1 .. Size
  <1> HIDE DEF D
  <1>1. f \in [D -> D] /\ u \in D /\ v \in D
    BY DEF D
  <1>2. /\ Swapped(f, u, v) \in [D -> D]
        /\ Swapped(f, u, v)[u] = f[v]
        /\ Swapped(f, u, v)[v] = f[u]
        /\ \A x \in D : x # u /\ x # v => Swapped(f, u, v)[x] = f[x]
    BY <1>1 DEF Swapped
  <1> QED
    BY <1>2 DEF D

\* The pivot lies strictly between the ends (choosePivot's assertion).
LEMMA MiddleInside ==
  ASSUME SortAssumption, lo \in Nat, up \in Nat, rnd \in Nat, up - lo >= 2
  PROVE  Middle \in Int /\ lo < Middle /\ Middle < up
  <1>1. CASE up - lo < RANLIMIT \/ rnd = 0
    <2>1. Middle = (lo + up) \div 2
      BY <1>1 DEF Middle
    <2> QED
      BY <2>1
  <1>2. CASE ~(up - lo < RANLIMIT \/ rnd = 0)
    <2> DEFINE r4 == (up - lo) \div 4
    <2>1. Middle = (rnd % (r4 * 2)) + lo + r4
      BY <1>2 DEF Middle, ChoosePivot
    <2>2. up - lo >= 4
      BY <1>2 DEF SortAssumption
    <2>3. r4 \in Nat /\ r4 >= 1 /\ 4 * r4 <= up - lo
      BY <2>2
    <2> HIDE DEF r4
    <2> DEFINE m == r4 * 2
    <2>4. m \in Nat /\ m > 0 /\ 2 * r4 = m
      BY <2>3
    <2> HIDE DEF m
    <2>5. rnd % m \in 0 .. m - 1
      BY <2>4
    <2>6. Middle = (rnd % m) + lo + r4
      BY <2>1 DEF m
    <2> QED
      BY <2>3, <2>4, <2>5, <2>6
  <1> QED
    BY <1>1, <1>2

----------------------------------------------------------------------------
\* The shape.

\* Comparisons that leave the interval alone leave the calls alone.
LEMMA SameCalls ==
  ASSUME Nested, Apart, pc \in Comparing, UNCHANGED <<rank, lo, up, pending>>
  PROVE  Nested' /\ Apart'
  BY DEF Nested, Apart, RestFits, Room, Size, Disjoint

\* What 'partition' starts from
LEMMA PartitionShape ==
  ASSUME SortAssumption, Shape, pc \in {"low", "high"}, UNCHANGED <<rank, sound, lo, up, rnd, p, pending>>,
         NEW b \in [1 .. Size -> 1 .. Size], \A x, y \in 1 .. Size : x # y => b[x] # b[y],
         Partition(b)
  PROVE  Shape'
  <1> USE DEF Shape
  <1>1. Nested' /\ Apart'
    BY SameCalls DEF Comparing
  <1>2. Size \in Nat /\ Size' = Size
    BY DEF Typed, Size
  <1>3. lo \in 1 .. Size /\ up \in 1 .. Size /\ p \in 1 .. Size /\ up - 1 \in 1 .. Size /\ lo < p /\ p < up
    BY <1>2 DEF Typed, Bounds, Comparing
  <1>4. CASE up - lo = 2 /\ a' = b /\ pc' = "return" /\ UNCHANGED <<pivot, i, j>>
    <2>1. Typed'
      BY <1>2, <1>4 DEF Typed
    <2>2. Injective'
      BY <1>2, <1>4 DEF Injective
    <2>3. Bounds'
      BY <1>2, <1>4 DEF Bounds, Comparing
    <2> QED
      BY <1>1, <2>1, <2>2, <2>3
  <1>5. CASE /\ up - lo # 2 /\ pivot' = b[p] /\ a' = Swapped(b, p, up - 1)
             /\ i' = lo + 1 /\ j' = up - 1 /\ pc' = "rise"
    <2>1. a' \in [1 .. Size -> 1 .. Size]
      BY <1>3, <1>5, SwapValues
    <2>2. \A x, y \in 1 .. Size : x # y => Swapped(b, p, up - 1)[x] # Swapped(b, p, up - 1)[y]
      BY <1>3, SwapInjective
    <2>a. pivot' \in Int /\ i' \in Int /\ j' \in Int /\ pc' \in Comparing
      BY <1>2, <1>3, <1>5 DEF Comparing
    <2>3. Typed'
      BY <1>2, <2>a, <2>1 DEF Typed
    <2>4. Injective'
      BY <1>2, <1>5, <2>2 DEF Injective
    <2>5. Bounds'
      BY <1>2, <1>3, <1>5 DEF Bounds, Comparing, Typed
    <2> QED
      BY <1>1, <2>3, <2>4, <2>5
  <1> QED
    BY <1>4, <1>5 DEF Partition

\* A call for the smaller interval leaves the larger one for later.
LEMMA DivideShape ==
  ASSUME Shape, DivideAfter
  PROVE  Shape'
  <1>a. Typed /\ Injective /\ Bounds /\ Nested /\ Apart
    BY DEF Shape
  <1>b. /\ pc = "fall" /\ Divide /\ UNCHANGED <<rank, sound, rnd, pivot, i, j>> /\ p' = i
        /\ a' = Swapped(a, up - 1, i)
    BY DEF DivideAfter
  <1>1. Size \in Nat /\ Size' = Size
    BY <1>a, <1>b DEF Typed, Size
  <1>2. lo \in 1 .. Size /\ up \in 1 .. Size /\ up - 1 \in 1 .. Size /\ i \in 1 .. Size /\ lo < i /\ i < up
    BY <1>1, <1>a, <1>b DEF Typed, Bounds, Comparing
  <1>3. a' \in [1 .. Size -> 1 .. Size]
    BY <1>2, <1>a, <1>b, SwapValues DEF Typed
  <1>4. \A x, y \in 1 .. Size : x # y => a'[x] # a'[y]
    <2>1. \A x, y \in 1 .. Size : x # y => Swapped(a, up - 1, i)[x] # Swapped(a, up - 1, i)[y]
      BY <1>2, <1>a, SwapInjective DEF Typed, Injective
    <2> QED
      BY <1>b, <2>1
  <1>0. PICK L \in Nat : L = Len(pending)
    BY <1>a, LenProperties DEF Typed
  <1>5. PICK rest \in Rests :
          /\ pending' = Append(pending, rest)
          /\ \/ i - lo < up - i /\ rest = Rest(i + 1, up, i - lo) /\ Enter(lo, i - 1)
             \/ i - lo >= up - i /\ rest = Rest(lo, i - 1, up - i) /\ Enter(i + 1, up)
    <2>1. Rest(i + 1, up, i - lo) \in Rests /\ Rest(lo, i - 1, up - i) \in Rests
      BY <1>2, <1>a DEF Rests, Rest, Typed
    <2> QED
      BY <1>b, <2>1 DEF Divide
  <1>6. /\ pending' \in Seq(Rests) /\ Len(pending') = L + 1
        /\ \A k \in 1 .. L : pending'[k] = pending[k]
        /\ pending'[L + 1] = rest
    BY <1>0, <1>5, <1>a, AppendProperties DEF Typed
  <1>7. /\ lo' \in Nat /\ up' \in Nat /\ 1 <= lo' /\ up' <= Size
        /\ lo' <= up' /\ lo <= lo' /\ up' <= up
        /\ rest.lo \in 1 .. Size /\ rest.up \in 1 .. Size /\ rest.lo <= rest.up /\ lo <= rest.lo /\ rest.up <= up
        /\ rest.up < lo' \/ up' < rest.lo
        /\ rest.n = up' - lo' + 1 /\ rest.n <= rest.up - rest.lo + 1
        /\ rest.n + (rest.up - rest.lo + 1) = up - lo
        /\ pc' = IF lo' < up' THEN "ends" ELSE "return"
    <2>1. CASE i - lo < up - i /\ rest = Rest(i + 1, up, i - lo) /\ Enter(lo, i - 1)
      BY <2>1, <1>1, <1>2 DEF Enter, Rest
    <2>2. CASE i - lo >= up - i /\ rest = Rest(lo, i - 1, up - i) /\ Enter(i + 1, up)
      BY <2>2, <1>1, <1>2 DEF Enter, Rest
    <2> QED
      BY <1>5, <2>1, <2>2
  <1>c. lo' \in Nat
    BY <1>7
  <1>d. up' \in Nat
    BY <1>7
  <1>8. Typed'
    <2>1. pc' \in {"ends", "return"}
      BY <1>7
    <2>2. pc' \in Comparing \cup {"return", "error"}
      BY <2>1 DEF Comparing
    <2>3. p' \in Int
      BY <1>a, <1>b DEF Typed
    <2> QED
      BY <2>2, <2>3, <1>c, <1>d, <1>1, <1>3, <1>6, <1>a, <1>b DEF Typed
  <1>9. Injective'
    BY <1>1, <1>4 DEF Injective
  <1>10. Bounds'
    <2>1. pc' \in {"ends", "return"} /\ (pc' = "ends" => lo' < up')
      BY <1>7
    <2>a. \A l, u \in Nat : l <= u => l <= u + 1
      OBVIOUS
    <2>b. lo' <= up'
      BY <1>7
    <2>c. lo' <= up' + 1
      BY <2>a, <2>b, <1>c, <1>d
    <2>d. 1 <= lo' /\ up' <= Size'
      BY <1>1, <1>7
    <2>2. 1 <= lo' /\ lo' <= up' + 1 /\ up' <= Size'
      BY <2>c, <2>d
    <2>3. pc' \notin {"low", "high", "rise", "fall"} /\ (pc' \in Comparing => pc' = "ends")
      BY <2>1 DEF Comparing
    <2> QED
      BY <2>1, <2>2, <2>3 DEF Bounds
  <1>11. Nested'
    <2>1. \A k \in 1 .. L : RestFits(pending, k)' 
      BY <1>0, <1>1, <1>6, <1>a DEF Nested, RestFits, Room
    <2>2. RestFits(pending, L + 1)'
      <3>1. Room(pending, L + 1)' = Room(pending, L + 1)
        BY <1>1, <1>6 DEF Room
      <3>2. up - lo + 1 <= Room(pending, L + 1)
        BY <1>0, <1>a DEF Nested
      <3>b. \A k \in 1 .. L : pending[k] \in Rests
        BY <1>0, <1>a, ElementOfSeq DEF Typed
      <3>a. \A k \in 1 .. L : pending[k].n \in Nat
        BY <3>b DEF Rests
      <3>3. Room(pending, L + 1) \in Int
        BY <1>0, <1>1, <3>a DEF Room
      <3>4. rest.n + (rest.up - rest.lo + 1) < Room(pending, L + 1)
        BY <1>1, <1>2, <1>7, <3>2, <3>3
      <3>5. /\ 1 <= rest.lo /\ rest.lo <= rest.up /\ rest.up <= Size
            /\ rest.n <= rest.up - rest.lo + 1
        BY <1>1, <1>7
      <3>6. pending'[L + 1] = rest
        BY <1>6
      <3>7. Size' = Size
        BY <1>1
      <3> QED
        BY <3>1, <3>4, <3>5, <3>6, <3>7 DEF RestFits
    <2>3. (up - lo + 1 <= Room(pending, Len(pending) + 1))'
      BY <1>6, <1>7, <1>1 DEF Room
    <2> QED
      BY <1>6, <2>1, <2>2, <2>3 DEF Nested
  <1>12. Apart'
    <2>1. \A k \in 1 .. L : pending[k] \in Rests /\ Disjoint(pending[k].lo, pending[k].up, lo, up)
      BY <1>0, <1>a, <1>b, ElementOfSeq DEF Apart, Comparing, Typed
    <2>2. \A k \in 1 .. L : /\ Disjoint(pending[k].lo, pending[k].up, lo', up')
                            /\ Disjoint(pending[k].lo, pending[k].up, rest.lo, rest.up)
                            /\ Disjoint(rest.lo, rest.up, pending[k].lo, pending[k].up)
      BY <2>1, <1>2, <1>7 DEF Disjoint, Rests
    <2>3. \A k, m \in 1 .. L : k # m => Disjoint(pending[k].lo, pending[k].up, pending[m].lo, pending[m].up)
      BY <1>0, <1>a DEF Apart
    <2>4. \A k, m \in 1 .. L + 1 :
            k # m => Disjoint(pending'[k].lo, pending'[k].up, pending'[m].lo, pending'[m].up)
      BY <1>6, <2>2, <2>3
    <2>5. \A k \in 1 .. L + 1 : Disjoint(pending'[k].lo, pending'[k].up, lo', up')
      <3>1. Disjoint(pending'[L + 1].lo, pending'[L + 1].up, lo', up')
        BY <1>6, <1>7 DEF Disjoint
      <3>2. \A k \in 1 .. L : Disjoint(pending'[k].lo, pending'[k].up, lo', up')
        BY <1>6, <2>2
      <3> QED
        BY <3>1, <3>2
    <2> QED
      BY <1>6, <2>4, <2>5 DEF Apart
  <1> QED
    BY <1>8, <1>9, <1>10, <1>11, <1>12 DEF Shape

\* A call that returns leaves its caller with the interval it put aside.
LEMMA ReturnShape ==
  ASSUME SortAssumption, Shape, Return
  PROVE  Shape'
  <1> USE DEF Shape
  <1>0. PICK L \in Nat : L = Len(pending)
    BY LenProperties DEF Typed
  <1>1. Size \in Nat /\ Size' = Size
    BY DEF Typed, Size, Return
  <1>2. L >= 1 /\ \A k \in 1 .. L : pending[k] \in Rests
    BY <1>0, ElementOfSeq, EmptySeq DEF Typed, Return
  <1>3. /\ pending' \in Seq(Rests) /\ Len(pending') = L - 1
        /\ \A k \in 1 .. L - 1 : pending'[k] = pending[k]
    <2>1. pending' = SubSeq(pending, 1, L - 1)
      BY <1>0 DEF Return
    <2>2. \A k \in 1 .. L - 1 : pending[k] \in Rests
      BY <1>2
    <2> QED
      BY <1>2, <2>1, <2>2, SubSeqProperties
  <1>4. /\ lo' = pending[L].lo /\ up' = pending[L].up
        /\ pc' = IF lo' < up' THEN "ends" ELSE "return"
    BY <1>0 DEF Return, Enter, Top
  <1>5. RestFits(pending, L)
    BY <1>0, <1>2 DEF Nested
  <1>6. lo' \in Nat /\ up' \in Nat /\ 1 <= lo' /\ lo' <= up' /\ up' <= Size
    BY <1>2, <1>4, <1>5 DEF RestFits, Rests
  <1>7. Typed'
    <2>1. rnd' \in Nat
      <3>1. pending[L].rnd \in Nat
        BY <1>2 DEF Rests
      <3>2. rnd' \in Randoms \/ rnd' = pending[L].rnd
        BY <1>0 DEF Return, Top
      <3> QED
        BY <3>1, <3>2 DEF SortAssumption
    <2>2. pc' \in Comparing \cup {"return", "error"}
      BY <1>4 DEF Comparing
    <2> QED
      BY <1>1, <1>3, <1>6, <2>1, <2>2 DEF Typed, Return
  <1>8. Injective'
    BY <1>1 DEF Injective, Return
  <1>9. Bounds'
    BY <1>1, <1>4, <1>6 DEF Bounds, Comparing
  <1>10. Nested'
    <2>1. \A k \in 1 .. L - 1 : RestFits(pending, k)'
      BY <1>0, <1>1, <1>2, <1>3 DEF Nested, RestFits, Room
    <2>2. Room(pending, L)' = Room(pending, L)
      BY <1>1, <1>2, <1>3 DEF Room
    <2>3. Room(pending, L) \in Int
      BY <1>1, <1>2 DEF Room, Rests
    <2>4. up' - lo' + 1 <= Room(pending, L)
      BY <1>2, <1>4, <1>5, <2>3 DEF RestFits, Rests
    <2> QED
      BY <1>2, <1>3, <2>1, <2>2, <2>4 DEF Nested
  <1>11. Apart'
    BY <1>0, <1>2, <1>3, <1>4 DEF Apart
  <1> QED
    BY <1>7, <1>8, <1>9, <1>10, <1>11

\* The first interval is the table.
LEMMA ShapeInit ==
  ASSUME SortAssumption, SortInit
  PROVE  Shape
  <1>1. rank \in Seq(Int) /\ sound \in BOOLEAN
    <2>1. PICK s \in SortInputs : rank = s.rank /\ sound = s.sound
      BY DEF SortInit
    <2>2. s \in [rank : Seq(Int), sound : BOOLEAN]
      BY DEF SortAssumption
    <2> QED
      BY <2>1, <2>2
  <1>2. Size \in Nat
    BY <1>1 DEF Size
  <1>3. pending \in Seq(Rests) /\ Len(pending) = 0
    BY DEF SortInit
  <1>4. a = [x \in 1 .. Size |-> x] /\ lo = 1 /\ up = Size /\ rnd = 0 /\ p = 0 /\ pivot = 0 /\ i = 0 /\ j = 0
    BY DEF SortInit, Size
  <1>5. pc \in {"ends", "return"} /\ (pc = "ends" => Size > 1)
    BY DEF SortInit, Size
  <1>6. Typed
    BY <1>1, <1>2, <1>3, <1>4, <1>5 DEF Typed, Comparing
  <1>7. Injective
    BY <1>4 DEF Injective
  <1>8. Bounds
    BY <1>2, <1>4, <1>5 DEF Bounds, Comparing
  <1>9. Nested
    BY <1>2, <1>3, <1>4 DEF Nested, Room
  <1>10. Apart
    BY <1>3 DEF Apart
  <1> QED
    BY <1>6, <1>7, <1>8, <1>9, <1>10 DEF Shape

\* Every comparison and every return keeps the shape.
LEMMA ShapeNext ==
  ASSUME SortAssumption, Shape, SortNext
  PROVE  Shape'
  <1>1. Size \in Nat /\ Typed /\ Injective /\ Bounds /\ Nested /\ Apart
    BY DEF Shape, Typed, Size
  <1>2. CASE CompareEnds
    <2>1. Size' = Size /\ pc = "ends" /\ pc \in Comparing
      BY <1>2 DEF CompareEnds, Size, Comparing
    <2>2. Nested' /\ Apart'
      BY <1>1, <1>2, <2>1, SameCalls DEF CompareEnds
    <2>3. lo \in 1 .. Size /\ up \in 1 .. Size /\ lo < up
      BY <1>1, <2>1 DEF Bounds, Typed
    <2>4. a' \in [1 .. Size -> 1 .. Size]
      <3>1. a \in [1 .. Size -> 1 .. Size]
        BY <1>1 DEF Typed
      <3>2. Swapped(a, lo, up) \in [1 .. Size -> 1 .. Size]
        BY <3>1, <2>3, SwapValues
      <3> QED
        BY <1>2, <3>1, <3>2 DEF CompareEnds
    <2>5. \A x, y \in 1 .. Size : x # y => a'[x] # a'[y]
      <3>1. \A x, y \in 1 .. Size : x # y => Swapped(a, lo, up)[x] # Swapped(a, lo, up)[y]
        BY <1>1, <2>3, SwapInjective DEF Typed, Injective
      <3> QED
        BY <1>1, <1>2, <3>1 DEF CompareEnds, Injective
    <2>6. /\ p' \in Int /\ pc' \in {"return", "low"}
          /\ pc' = "low" => lo < p' /\ p' < up
      <3>1. CASE up - lo = 1 /\ pc' = "return" /\ UNCHANGED p
        BY <1>1, <3>1 DEF Typed
      <3>2. CASE up - lo # 1 /\ pc' = "low" /\ p' = Middle
        <4>1. up - lo >= 2
          BY <2>3, <3>2
        <4> QED
          BY <1>1, <3>2, <4>1, MiddleInside DEF Typed
      <3> QED
        BY <1>2, <3>1, <3>2 DEF CompareEnds
    <2>7. Typed'
      <3>1. pc' \in Comparing \cup {"return", "error"}
        BY <2>6 DEF Comparing
      <3> QED
        BY <1>1, <1>2, <2>1, <2>4, <2>6, <3>1 DEF Typed, CompareEnds
    <2>8. Bounds'
      BY <1>1, <1>2, <2>1, <2>3, <2>6 DEF Bounds, Comparing, CompareEnds
    <2> QED
      BY <2>1, <2>2, <2>5, <2>7, <2>8 DEF Shape, Injective
  <1>3. CASE CompareLow
    <2>1. /\ lo \in 1 .. Size /\ up \in 1 .. Size /\ p \in 1 .. Size /\ lo < p /\ p < up
          /\ pc = "low" /\ pc \in Comparing
      BY <1>1, <1>3 DEF Bounds, Typed, CompareLow, Comparing
    <2>2. CASE Less(a[p], a[lo]) /\ Partition(Swapped(a, p, lo))
      <3>1. Swapped(a, p, lo) \in [1 .. Size -> 1 .. Size]
        BY <1>1, <2>1, SwapValues DEF Typed
      <3>2. \A x, y \in 1 .. Size : x # y => Swapped(a, p, lo)[x] # Swapped(a, p, lo)[y]
        BY <1>1, <2>1, SwapInjective DEF Typed, Injective
      <3> QED
        BY <1>3, <2>1, <2>2, <3>1, <3>2, PartitionShape DEF CompareLow
    <2>3. CASE NotLess(a[p], a[lo]) /\ pc' = "high" /\ UNCHANGED <<a, pivot, i, j>>
      <3>1. Size' = Size /\ pc' \in Comparing
        BY <1>3, <2>3 DEF CompareLow, Size, Comparing
      <3>2. Typed' /\ Injective'
        BY <1>1, <1>3, <2>3, <3>1 DEF Typed, Injective, CompareLow
      <3>3. Bounds'
        BY <1>1, <1>3, <2>1, <2>3, <3>1 DEF Bounds, CompareLow
      <3>4. Nested' /\ Apart'
        BY <1>1, <1>3, <2>1, SameCalls DEF CompareLow
      <3> QED
        BY <3>2, <3>3, <3>4 DEF Shape
    <2> QED
      BY <1>3, <2>2, <2>3 DEF CompareLow
  <1>4. CASE CompareHigh
    <2>1. /\ lo \in 1 .. Size /\ up \in 1 .. Size /\ p \in 1 .. Size
          /\ pc = "high"
      BY <1>1, <1>4 DEF Bounds, Typed, CompareHigh, Comparing
    <2>2. CASE Partition(Swapped(a, p, up))
      <3>1. Swapped(a, p, up) \in [1 .. Size -> 1 .. Size]
        BY <1>1, <2>1, SwapValues DEF Typed
      <3>2. \A x, y \in 1 .. Size : x # y => Swapped(a, p, up)[x] # Swapped(a, p, up)[y]
        BY <1>1, <2>1, SwapInjective DEF Typed, Injective
      <3> QED
        BY <1>4, <2>1, <2>2, <3>1, <3>2, PartitionShape DEF CompareHigh
    <2>3. CASE Partition(a)
      <3>1. a \in [1 .. Size -> 1 .. Size] /\ \A x, y \in 1 .. Size : x # y => a[x] # a[y]
        BY <1>1 DEF Typed, Injective
      <3> QED
        BY <1>4, <2>1, <2>3, <3>1, PartitionShape DEF CompareHigh
    <2> QED
      BY <1>4, <2>2, <2>3 DEF CompareHigh
  <1>5. CASE Rise
    <2>1. /\ Size' = Size /\ pc = "rise" /\ pc \in Comparing
          /\ lo < i /\ i < up /\ lo < j /\ j < up
      BY <1>1, <1>5 DEF Rise, Size, Comparing, Bounds
    <2>2. Nested' /\ Apart'
      BY <1>1, <1>5, <2>1, SameCalls DEF Rise
    <2>3. /\ pc' \in {"rise", "fall", "error"} /\ i' \in Int /\ j' \in Int
          /\ pc' = "rise" => lo < i' /\ i' < up /\ lo < j' /\ j' < up
          /\ pc' = "fall" => lo < i' /\ i' < up /\ lo <= j' /\ j' < up - 1
      BY <1>1, <1>5, <2>1 DEF Rise, Typed
    <2>4. Typed' /\ Injective'
      BY <1>1, <1>5, <2>1, <2>3 DEF Typed, Injective, Rise, Comparing
    <2>5. Bounds'
      BY <1>1, <1>5, <2>1, <2>3 DEF Bounds, Rise, Comparing
    <2> QED
      BY <2>2, <2>4, <2>5 DEF Shape
  <1>6. CASE FallOn
    <2>1. /\ Size' = Size /\ pc = "fall" /\ pc \in Comparing
          /\ lo < i /\ i < up /\ lo <= j /\ j < up - 1
      BY <1>1, <1>6 DEF FallOn, Size, Comparing, Bounds
    <2>2. Nested' /\ Apart'
      BY <1>1, <1>6, <2>1, SameCalls DEF FallOn
    <2>3. /\ pc' \in {"fall", "error"} /\ j' \in Int
          /\ pc' = "fall" => lo < i' /\ i' < up /\ lo <= j' /\ j' < up - 1
      BY <1>1, <1>6, <2>1 DEF FallOn, Typed
    <2>4. Typed' /\ Injective'
      BY <1>1, <1>6, <2>1, <2>3 DEF Typed, Injective, FallOn, Comparing
    <2>5. Bounds'
      BY <1>1, <1>6, <2>1, <2>3 DEF Bounds, FallOn, Comparing
    <2> QED
      BY <2>2, <2>4, <2>5 DEF Shape
  <1>7. CASE Exchange
    <2>1. /\ Size' = Size /\ pc = "fall" /\ pc \in Comparing /\ pc' = "rise"
          /\ lo \in 1 .. Size /\ up \in 1 .. Size /\ i \in 1 .. Size /\ j \in 1 .. Size
          /\ lo < i /\ i < up /\ lo <= j /\ j < up - 1 /\ j >= i
      BY <1>1, <1>7 DEF Exchange, Size, Comparing, Bounds, Typed
    <2>2. Nested' /\ Apart'
      BY <1>1, <1>7, <2>1, SameCalls DEF Exchange
    <2>3. a' \in [1 .. Size -> 1 .. Size]
      BY <1>1, <1>7, <2>1, SwapValues DEF Exchange, Typed
    <2>4. \A x, y \in 1 .. Size : x # y => a'[x] # a'[y]
      <3>1. \A x, y \in 1 .. Size : x # y => Swapped(a, i, j)[x] # Swapped(a, i, j)[y]
        BY <1>1, <2>1, SwapInjective DEF Typed, Injective
      <3> QED
        BY <1>7, <3>1 DEF Exchange
    <2>5. i' \in Int /\ i' = i + 1 /\ j' = j
      BY <1>7, <2>1 DEF Exchange
    <2>6. Typed'
      BY <1>1, <1>7, <2>1, <2>3, <2>5 DEF Typed, Exchange, Comparing
    <2>7. Bounds'
      BY <1>1, <1>7, <2>1, <2>5 DEF Bounds, Exchange, Comparing
    <2> QED
      BY <2>1, <2>2, <2>4, <2>6, <2>7 DEF Shape, Injective
  <1>8. CASE DivideAfter
    BY <1>8, DivideShape
  <1>9. CASE Return
    BY <1>9, ReturnShape
  <1>10. CASE Fail
    <2>1. Size' = Size /\ pc \in Comparing /\ pc' = "error"
      BY <1>10 DEF Fail, Size
    <2>2. Nested' /\ Apart'
      BY <1>1, <1>10, <2>1, SameCalls DEF Fail
    <2>3. Typed' /\ Injective'
      BY <1>1, <1>10, <2>1 DEF Typed, Injective, Fail
    <2>4. Bounds'
      BY <1>1, <1>10, <2>1 DEF Bounds, Fail, Comparing
    <2> QED
      BY <2>2, <2>3, <2>4 DEF Shape
  <1> QED
    BY <1>2, <1>3, <1>4, <1>5, <1>6, <1>7, <1>8, <1>9, <1>10 DEF SortNext

----------------------------------------------------------------------------
\* The order.

\* Ranks are numbers.
LEMMA RankOf ==
  ASSUME Typed, NEW f \in [1 .. Size -> 1 .. Size]
  PROVE  \A x \in 1 .. Size : R(f, x) \in Int
  <1>1. \A y \in 1 .. Size : rank[y] \in Int
    BY ElementOfSeq DEF Typed, Size
  <1> QED
    BY <1>1 DEF R

\* A swap within the interval disturbs no order with what lies outside: what
\* waits is apart from the interval.
LEMMA OutsideKept ==
  ASSUME Shape, pc \in Comparing, NEW f \in [1 .. Size -> 1 .. Size], Outside(f),
         NEW u \in lo .. up, NEW v \in lo .. up
  PROVE  Outside(Swapped(f, u, v))
  <1>1. /\ Size \in Nat /\ lo \in 1 .. Size /\ up \in 1 .. Size /\ lo < up
        /\ u \in 1 .. Size /\ v \in 1 .. Size
    BY DEF Shape, Typed, Bounds, Size
  <1> DEFINE g == Swapped(f, u, v)
  <1>2. /\ g \in [1 .. Size -> 1 .. Size]
        /\ \A x \in 1 .. Size : x \notin lo .. up => g[x] = f[x]
        /\ \A x \in lo .. up : \E z \in lo .. up : g[x] = f[z]
    <2>1. /\ g \in [1 .. Size -> 1 .. Size] /\ g[u] = f[v] /\ g[v] = f[u]
          /\ \A x \in 1 .. Size : x # u /\ x # v => g[x] = f[x]
      <3> HIDE DEF g
      <3>1. Size \in Nat /\ u \in 1 .. Size /\ v \in 1 .. Size
        BY <1>1
      <3> USE DEF g
      <3> QED
        BY <3>1, SwapTable
    <2> HIDE DEF g
    <2>2. \A x \in lo .. up : x \in 1 .. Size
      BY <1>1
    <2> QED
      BY <2>1, <2>2
  <1> HIDE DEF g
  <1>3. \A k \in 1 .. Len(pending) : pending[k] \in Rests /\ Disjoint(pending[k].lo, pending[k].up, lo, up)
    BY ElementOfSeq DEF Shape, Typed, Apart
  <1>4. \A k \in 1 .. Len(pending) : pending[k].lo \in Nat /\ pending[k].up \in Nat
    BY <1>3 DEF Rests
  <1>5. ASSUME NEW x \in 1 .. Size, NEW y \in 1 .. Size, x < y, ~(lo <= x /\ y <= up), ~Waiting(pending, x, y)
        PROVE  R(g, x) <= R(g, y)
    <2>1. CASE x \notin lo .. up /\ y \notin lo .. up
      BY <1>2, <1>5, <2>1 DEF Outside, R
    <2>2. CASE x \in lo .. up
      <3>1. PICK z \in lo .. up : g[x] = f[z]
        BY <1>2, <2>2
      <3>2. z \in 1 .. Size /\ z < y /\ y > up
        BY <1>1, <1>5, <2>2
      <3>3. ~Waiting(pending, z, y)
        <4> SUFFICES ASSUME NEW k \in 1 .. Len(pending), pending[k].lo <= z, y <= pending[k].up PROVE FALSE
          BY DEF Waiting
        <4>1. pending[k].up < lo \/ up < pending[k].lo
          BY <1>3 DEF Disjoint
        <4>2. pending[k].lo \in Nat
          BY <1>4
        <4>3. pending[k].up \in Nat
          BY <1>4
        <4>4. lo \in Nat /\ up \in Nat /\ x \in Nat /\ y \in Nat /\ z \in Nat /\ lo <= z /\ z <= up
          BY <1>1, <1>5, <3>1, <3>2
        <4> QED
          BY <1>5, <3>2, <4>1, <4>2, <4>3, <4>4
      <3>4. R(f, z) <= R(f, y)
        BY <1>1, <1>5, <3>2, <3>3 DEF Outside
      <3>5. g[y] = f[y]
        BY <1>1, <1>2, <1>5, <3>2
      <3> QED
        BY <3>1, <3>4, <3>5 DEF R
    <2>3. CASE y \in lo .. up
      <3>1. PICK z \in lo .. up : g[y] = f[z]
        BY <1>2, <2>3
      <3>2. z \in 1 .. Size /\ x < z /\ x < lo
        BY <1>1, <1>5, <2>3
      <3>3. ~Waiting(pending, x, z)
        <4> SUFFICES ASSUME NEW k \in 1 .. Len(pending), pending[k].lo <= x, z <= pending[k].up PROVE FALSE
          BY DEF Waiting
        <4>1. pending[k].up < lo \/ up < pending[k].lo
          BY <1>3 DEF Disjoint
        <4>2. pending[k].lo \in Nat
          BY <1>4
        <4>3. pending[k].up \in Nat
          BY <1>4
        <4>4. lo \in Nat /\ up \in Nat /\ x \in Nat /\ y \in Nat /\ z \in Nat /\ lo <= z /\ z <= up
          BY <1>1, <1>5, <3>1, <3>2
        <4> QED
          BY <1>5, <3>2, <4>1, <4>2, <4>3, <4>4
      <3>4. R(f, x) <= R(f, z)
        BY <1>1, <1>5, <3>2, <3>3 DEF Outside
      <3>5. g[x] = f[x]
        BY <1>1, <1>2, <1>5, <3>2
      <3> QED
        BY <3>1, <3>4, <3>5 DEF R
    <2> QED
      BY <2>1, <2>2, <2>3
  <1> QED
    BY <1>5 DEF Outside, g

\* Three elements in order are a sorted interval or the start of a partition.
LEMMA PartitionOrder ==
  ASSUME Shape, pc \in {"low", "high"}, UNCHANGED <<rank, sound, lo, up, rnd, p, pending>>,
         NEW b \in [1 .. Size -> 1 .. Size], Outside(b), R(b, lo) <= R(b, p), R(b, p) <= R(b, up),
         Partition(b)
  PROVE  Ordering'
  <1>1. /\ Size \in Nat /\ Size' = Size /\ Typed /\ pc \in Comparing
        /\ lo \in 1 .. Size /\ up \in 1 .. Size /\ p \in 1 .. Size /\ up - 1 \in 1 .. Size
        /\ lo < p /\ p < up
    BY DEF Shape, Typed, Bounds, Size, Comparing
  <1>2. \A x \in 1 .. Size : R(b, x) \in Int
    BY <1>1, RankOf
  <1>3. CASE up - lo = 2 /\ a' = b /\ pc' = "return" /\ UNCHANGED <<pivot, i, j>>
    <2>1. ASSUME NEW x \in 1 .. Size, NEW y \in 1 .. Size, x < y, ~Waiting(pending, x, y)
          PROVE  R(b, x) <= R(b, y)
      <3>1. CASE lo <= x /\ y <= up
        <4>1. (x = lo /\ y = p) \/ (x = lo /\ y = up) \/ (x = p /\ y = up)
          <5>1. lo \in Nat /\ up = lo + 2 /\ p = lo + 1
            BY <1>1, <1>3
          <5> QED
            BY <2>1, <3>1, <5>1
        <4>2. R(b, lo) \in Int /\ R(b, p) \in Int /\ R(b, up) \in Int
          BY <1>1, <1>2
        <4>3. R(b, lo) <= R(b, up)
          BY <4>2
        <4> QED
          BY <4>1, <4>3
      <3> QED
        BY <2>1, <3>1 DEF Outside
    <2>2. pc' \notin Comparing /\ pc' # "error"
      BY <1>3 DEF Comparing
    <2>3. Settled'
      BY <1>1, <1>3, <2>1, <2>2 DEF Settled, R, Waiting
    <2> QED
      BY <1>3, <2>2, <2>3 DEF Ordering, Known
  <1>4. CASE /\ up - lo # 2 /\ pivot' = b[p] /\ a' = Swapped(b, p, up - 1)
             /\ i' = lo + 1 /\ j' = up - 1 /\ pc' = "rise"
    <2> DEFINE g == Swapped(b, p, up - 1)
    <2>a. p \in lo .. up /\ up - 1 \in lo .. up
      BY <1>1
    <2>1. Outside(g)
      BY <1>1, <2>a, OutsideKept
    <2>2. /\ g[up - 1] = b[p]
          /\ \A x \in 1 .. Size : x # p /\ x # up - 1 => g[x] = b[x]
      <3>1. Size \in Nat /\ p \in 1 .. Size /\ up - 1 \in 1 .. Size
        BY <1>1
      <3> QED
        BY <3>1, SwapTable
    <2> HIDE DEF g
    <2>3. g[lo] = b[lo] /\ g[up] = b[up]
      BY <1>1, <1>4, <2>2
    <2>4. R(g, lo) <= rank[b[p]] /\ rank[b[p]] <= R(g, up) /\ rank[b[p]] <= R(g, up - 1) /\ R(b, p) = rank[b[p]]
      <3>1. R(b, p) = rank[b[p]] /\ R(b, p) \in Int
        BY <1>1, <1>2 DEF R
      <3>2. R(g, lo) = R(b, lo) /\ R(g, up) = R(b, up) /\ R(g, up - 1) = R(b, p)
        BY <2>2, <2>3 DEF R
      <3> QED
        BY <3>1, <3>2
    <2>5. pc' = "rise" /\ pc' \in Comparing /\ a' = g /\ pivot' = b[p] /\ i' = lo + 1 /\ j' = up - 1
      BY <1>4 DEF Comparing, g
    <2>6. Settled'
      BY <1>1, <2>1, <2>5 DEF Settled, Outside, R, Waiting
    <2>7. /\ \A x \in lo .. (lo + 1) - 1 : R(g, x) <= rank[b[p]]
          /\ \A x \in (up - 1) + 1 .. up : rank[b[p]] <= R(g, x)
      <3>1. \A x \in lo .. (lo + 1) - 1 : x = lo
        BY <1>1
      <3>2. \A x \in (up - 1) + 1 .. up : x = up
        BY <1>1
      <3> QED
        BY <2>4, <3>1, <3>2
    <2>8. Known'
      BY <2>2, <2>4, <2>5, <2>7 DEF Known, R
    <2> QED
      BY <2>5, <2>6, <2>8 DEF Ordering
  <1> QED
    BY <1>3, <1>4 DEF Partition

\* A partition leaves nothing between its halves out of order.
LEMMA DivideOrder ==
  ASSUME Shape, sound, Ordering, DivideAfter
  PROVE  Ordering'
  <1>a. /\ pc = "fall" /\ pc \in Comparing /\ NotLess(pivot, a[j]) /\ j < i
        /\ Divide /\ UNCHANGED <<rank, sound>> /\ a' = Swapped(a, up - 1, i)
    BY DEF DivideAfter, Comparing
  <1>b. Typed /\ Outside(a) /\ Known
    BY <1>a DEF Shape, Ordering, Settled
  <1>1. /\ Size \in Nat /\ Size' = Size
        /\ lo \in 1 .. Size /\ up \in 1 .. Size /\ up - 1 \in 1 .. Size /\ i \in 1 .. Size
        /\ j \in Int /\ lo < i /\ i < up /\ lo <= j
    BY <1>a DEF Shape, Typed, Bounds, Size
  <1> DEFINE g == Swapped(a, up - 1, i)
  <1>t. a \in [1 .. Size -> 1 .. Size]
    BY <1>b DEF Typed
  <1>2. Outside(g)
    <2>1. up - 1 \in lo .. up /\ i \in lo .. up
      BY <1>1
    <2> QED
      BY <1>a, <1>b, <1>t, <2>1, OutsideKept
  <1>3. /\ g \in [1 .. Size -> 1 .. Size]
        /\ g[up - 1] = a[i] /\ g[i] = a[up - 1]
        /\ \A x \in 1 .. Size : x # i /\ x # up - 1 => g[x] = a[x]
    <2>1. Size \in Nat /\ i \in 1 .. Size /\ up - 1 \in 1 .. Size
      BY <1>1
    <2>2. PICK w \in 1 .. Size : w = up - 1
      BY <2>1
    <2>3. g = Swapped(a, w, i)
      BY <2>2
    <2>a. Size \in Nat
      BY <2>1
    <2>b. i \in 1 .. Size
      BY <2>1
    <2>4. /\ Swapped(a, w, i) \in [1 .. Size -> 1 .. Size]
          /\ Swapped(a, w, i)[w] = a[i] /\ Swapped(a, w, i)[i] = a[w]
          /\ \A x \in 1 .. Size : x # w /\ x # i => Swapped(a, w, i)[x] = a[x]
      BY <1>t, <2>a, <2>b, SwapTable
    <2> HIDE DEF g
    <2> QED
      BY <2>2, <2>3, <2>4
  <1>4. a' = g
    BY <1>a
  <1> HIDE DEF g
  <1>5. \A x \in 1 .. Size : R(g, x) \in Int
    BY <1>b, <1>3, RankOf
  <1>6. \A x \in lo .. i - 1 : R(g, x) <= R(g, i)
    <2>1. a[up - 1] = pivot /\ \A x \in lo .. i - 1 : R(a, x) <= rank[pivot]
      BY <1>a, <1>b DEF Known
    <2>2. ASSUME NEW x \in lo .. i - 1 PROVE g[x] = a[x]
      <3>1. x \in 1 .. Size /\ x # i /\ x # up - 1
        BY <1>1, <2>2
      <3> QED
        BY <1>3, <3>1
    <2> QED
      BY <1>3, <2>1, <2>2 DEF R
  <1>7. \A x \in i + 1 .. up : R(g, i) <= R(g, x)
    <2>1. /\ a[up - 1] = pivot /\ rank[pivot] <= R(a, i)
          /\ \A x \in j + 1 .. up : rank[pivot] <= R(a, x)
      BY <1>a, <1>b DEF Known
    <2>2. ASSUME NEW x \in i + 1 .. up, x # up - 1 PROVE g[x] = a[x] /\ x \in j + 1 .. up
      <3>1. x \in 1 .. Size /\ x # i /\ x \in j + 1 .. up
        BY <1>1, <1>a, <2>2
      <3> QED
        BY <1>3, <2>2, <3>1
    <2> QED
      BY <1>3, <2>1, <2>2 DEF R
  <1>8. PICK rest \in Rests :
          /\ pending' = Append(pending, rest)
          /\ pc' = IF lo' < up' THEN "ends" ELSE "return"
          /\ \/ lo' = lo /\ up' = i - 1 /\ rest.lo = i + 1 /\ rest.up = up
             \/ lo' = i + 1 /\ up' = up /\ rest.lo = lo /\ rest.up = i - 1
    <2>1. Rest(i + 1, up, i - lo) \in Rests /\ Rest(lo, i - 1, up - i) \in Rests
      BY <1>1, <1>b DEF Rests, Rest, Typed
    <2> QED
      BY <1>a, <2>1 DEF Divide, Enter, Rest
  <1>9. PICK L \in Nat : /\ L = Len(pending) /\ Len(pending') = L + 1
                         /\ \A k \in 1 .. L : pending'[k] = pending[k]
                         /\ pending'[L + 1] = rest
    BY <1>8, <1>b, LenProperties, AppendProperties DEF Typed
  <1>10. ASSUME NEW x \in 1 .. Size, NEW y \in 1 .. Size, x < y, ~Waiting(pending', x, y),
                ~(lo' < up' /\ lo' <= x /\ y <= up')
         PROVE  R(g, x) <= R(g, y)
    <2>1. ~Waiting(pending, x, y)
      BY <1>9, <1>10 DEF Waiting
    <2>2. ~(rest.lo <= x /\ y <= rest.up)
      BY <1>9, <1>10 DEF Waiting
    <2>3. CASE lo <= x /\ y <= up
      <3>1. x <= i /\ i <= y
        BY <1>1, <1>8, <1>10, <2>2, <2>3
      <3> QED
        BY <1>1, <1>5, <1>6, <1>7, <1>10, <2>3, <3>1
    <2> QED
      BY <1>2, <1>10, <2>1, <2>3 DEF Outside
  <1>11. pc' \in Comparing <=> lo' < up'
    BY <1>8 DEF Comparing
  <1>12. Settled'
    BY <1>1, <1>4, <1>10, <1>11, <1>a DEF Settled, Outside, R, Waiting
  <1>13. pc' \in {"ends", "return"}
    BY <1>8
  <1> QED
    BY <1>12, <1>13 DEF Ordering, Known

\* The caller goes on with an interval apart from which all is in order.
LEMMA ReturnOrder ==
  ASSUME Shape, sound, Ordering, Return
  PROVE  Ordering'
  <1>1. pc = "return" /\ pc \notin Comparing /\ Size \in Nat /\ Size' = Size /\ UNCHANGED <<a, rank, sound>>
    BY DEF Return, Comparing, Size, Shape, Typed
  <1>2. PICK L \in Nat : L = Len(pending)
    BY LenProperties DEF Shape, Typed
  <1>3. L >= 1 /\ \A k \in 1 .. L : pending[k] \in Rests
    BY <1>2, ElementOfSeq, EmptySeq DEF Shape, Typed, Return
  <1>4. Len(pending') = L - 1 /\ \A k \in 1 .. L - 1 : pending'[k] = pending[k]
    <2>1. pending' = SubSeq(pending, 1, L - 1)
      BY <1>2 DEF Return
    <2>2. \A k \in 1 .. L - 1 : pending[k] \in Rests
      BY <1>3
    <2> QED
      BY <1>3, <2>1, <2>2, SubSeqProperties
  <1>5. /\ lo' = pending[L].lo /\ up' = pending[L].up
        /\ pc' = IF lo' < up' THEN "ends" ELSE "return"
    BY <1>2 DEF Return, Enter, Top
  <1>6. pending[L].lo \in Nat /\ pending[L].up \in Nat
    BY <1>3 DEF Rests
  <1>7. ASSUME NEW x \in 1 .. Size, NEW y \in 1 .. Size, x < y, ~Waiting(pending', x, y),
               ~(lo' < up' /\ lo' <= x /\ y <= up')
        PROVE  R(a, x) <= R(a, y)
    <2>1. ~(pending[L].lo <= x /\ y <= pending[L].up)
      BY <1>5, <1>6, <1>7
    <2>2. ~Waiting(pending, x, y)
      <3>1. \A k \in 1 .. L : k = L \/ k \in 1 .. L - 1
        BY <1>3
      <3> QED
        BY <1>2, <1>4, <1>7, <2>1, <3>1 DEF Waiting
    <2> QED
      BY <1>1, <1>7, <2>2 DEF Ordering, Settled
  <1>8. pc' \in Comparing <=> lo' < up'
    BY <1>5 DEF Comparing
  <1>9. Settled'
    BY <1>1, <1>7, <1>8 DEF Settled, Outside, R, Waiting
  <1>10. pc' \in {"ends", "return"}
    BY <1>5
  <1> QED
    BY <1>9, <1>10 DEF Ordering, Known

\* At first every element is in the one interval.
LEMMA OrderingInit ==
  ASSUME SortAssumption, SortInit
  PROVE  Ordering
  <1>1. Size \in Nat /\ pc = (IF Size > 1 THEN "ends" ELSE "return") /\ lo = 1 /\ up = Size
    <2>1. Size \in Nat
      BY ShapeInit DEF Shape, Typed, Size
    <2> QED
      BY <2>1 DEF SortInit, Size
  <1>2. pc \in {"ends", "return"} /\ (pc \in Comparing <=> Size > 1)
    BY <1>1 DEF Comparing
  <1>3. Settled
    BY <1>1, <1>2 DEF Settled, Outside
  <1> QED
    BY <1>2, <1>3 DEF Ordering, Known

\* Every comparison adds to what is known, and 'partition' finds its pivot
\* before it leaves the interval.
LEMMA OrderingNext ==
  ASSUME SortAssumption, Shape, Ordering, SortNext
  PROVE  Ordering'
  <1>1. CASE ~sound
    <2>1. sound' = sound
      BY DEF SortNext, CompareEnds, CompareLow, CompareHigh, Rise, FallOn, Exchange, DivideAfter, Return, Fail
    <2> QED
      BY <1>1, <2>1 DEF Ordering
  <1>2. CASE sound
    <2>1. /\ Typed /\ Settled /\ Known /\ pc # "error" /\ Size \in Nat
          /\ a \in [1 .. Size -> 1 .. Size]
      BY <1>2 DEF Ordering, Shape, Typed, Size
    <2>2. \A x \in 1 .. Size : R(a, x) \in Int
      BY <2>1, RankOf
    <2>3. pc \in Comparing => Outside(a) /\ lo \in 1 .. Size /\ up \in 1 .. Size /\ lo < up /\ up - 1 \in 1 .. Size
      BY <2>1 DEF Settled, Shape, Bounds, Typed
    <2>4. CASE CompareEnds
      <3>1. /\ pc = "ends" /\ pc \in Comparing /\ Size' = Size /\ rank' = rank /\ sound' = sound
            /\ UNCHANGED <<lo, up, pending>>
        BY <2>4 DEF CompareEnds, Comparing, Size
      <3>2. PICK b \in [1 .. Size -> 1 .. Size] : a' = b /\ Outside(b) /\ R(b, lo) <= R(b, up)
        <4>1. CASE Less(a[up], a[lo]) /\ a' = Swapped(a, lo, up)
          <5>0. lo \in lo .. up /\ up \in lo .. up /\ lo \in 1 .. Size /\ up \in 1 .. Size
            BY <2>3, <3>1
          <5>1. Outside(Swapped(a, lo, up))
            BY <2>1, <2>3, <3>1, <5>0, OutsideKept
          <5>2. /\ Swapped(a, lo, up) \in [1 .. Size -> 1 .. Size]
                /\ Swapped(a, lo, up)[lo] = a[up] /\ Swapped(a, lo, up)[up] = a[lo]
            BY <2>1, <5>0, SwapTable
          <5>3. R(a, up) <= R(a, lo)
            BY <1>2, <2>2, <2>3, <3>1, <4>1 DEF Less, R
          <5> QED
            BY <4>1, <5>1, <5>2, <5>3 DEF R
        <4>2. CASE NotLess(a[up], a[lo]) /\ a' = a
          <5>1. R(a, lo) <= R(a, up)
            BY <1>2, <2>2, <2>3, <3>1, <4>2 DEF NotLess, R
          <5> QED
            BY <2>1, <2>3, <3>1, <4>2, <5>1
        <4> QED
          BY <2>4, <4>1, <4>2 DEF CompareEnds
      <3>3. CASE up - lo = 1 /\ pc' = "return"
        <4>1. ASSUME NEW x \in 1 .. Size, NEW y \in 1 .. Size, x < y, ~Waiting(pending, x, y)
              PROVE  R(b, x) <= R(b, y)
          <5>1. CASE lo <= x /\ y <= up
            <6>1. x = lo /\ y = up
              BY <2>3, <3>1, <3>3, <4>1, <5>1
            <6> QED
              BY <3>2, <6>1
          <5> QED
            BY <3>2, <4>1, <5>1 DEF Outside
        <4>2. pc' \notin Comparing /\ pc' # "error"
          BY <3>3 DEF Comparing
        <4>3. Settled'
          BY <3>1, <3>2, <4>1, <4>2 DEF Settled, R, Waiting
        <4> QED
          BY <3>3, <4>2, <4>3 DEF Ordering, Known
      <3>4. CASE pc' = "low"
        <4>1. pc' \in Comparing
          BY <3>4 DEF Comparing
        <4>2. Settled'
          BY <3>1, <3>2, <4>1 DEF Settled, Outside, R, Waiting
        <4>3. Known'
          BY <3>1, <3>2, <3>4 DEF Known, R
        <4> QED
          BY <3>4, <4>2, <4>3 DEF Ordering
      <3> QED
        BY <2>4, <3>3, <3>4 DEF CompareEnds
    <2>5. CASE CompareLow
      <3>1. /\ pc = "low" /\ pc \in Comparing /\ Size' = Size /\ UNCHANGED <<rank, sound, lo, up, rnd, p, pending>>
            /\ p \in 1 .. Size /\ lo < p /\ p < up /\ R(a, lo) <= R(a, up)
        BY <2>1, <2>5 DEF CompareLow, Comparing, Size, Shape, Bounds, Typed, Known
      <3>2. CASE Less(a[p], a[lo]) /\ Partition(Swapped(a, p, lo))
        <4> DEFINE b == Swapped(a, p, lo)
        <4>0. p \in lo .. up /\ lo \in lo .. up /\ p \in 1 .. Size /\ lo \in 1 .. Size
          BY <2>3, <3>1
        <4>1. Outside(b)
          BY <2>1, <2>3, <3>1, <4>0, OutsideKept
        <4>2. /\ b \in [1 .. Size -> 1 .. Size]
              /\ b[p] = a[lo] /\ b[lo] = a[p] /\ \A x \in 1 .. Size : x # p /\ x # lo => b[x] = a[x]
          BY <2>1, <4>0, SwapTable
        <4>3. Partition(b)
          BY <3>2
        <4> HIDE DEF b
        <4>4. R(a, p) <= R(a, lo)
          BY <1>2, <2>2, <2>3, <3>1, <3>2 DEF Less, R
        <4>5. b[up] = a[up]
          BY <2>3, <3>1, <4>2
        <4>6. R(b, lo) <= R(b, p) /\ R(b, p) <= R(b, up)
          BY <3>1, <4>2, <4>4, <4>5 DEF R
        <4> QED
          BY <3>1, <4>1, <4>2, <4>3, <4>6, PartitionOrder
      <3>3. CASE NotLess(a[p], a[lo]) /\ pc' = "high" /\ UNCHANGED <<a, pivot, i, j>>
        <4>1. R(a, lo) <= R(a, p)
          BY <1>2, <2>2, <2>3, <3>1, <3>3 DEF NotLess, R
        <4>2. pc' \in Comparing /\ pc' = "high" /\ a' = a
          BY <3>3 DEF Comparing
        <4>3. Settled'
          BY <2>3, <3>1, <4>2 DEF Settled, Outside, R, Waiting
        <4>4. Known'
          BY <3>1, <4>1, <4>2 DEF Known, R
        <4> QED
          BY <4>2, <4>3, <4>4 DEF Ordering
      <3> QED
        BY <2>5, <3>2, <3>3 DEF CompareLow
    <2>6. CASE CompareHigh
      <3>1. /\ pc = "high" /\ pc \in Comparing /\ Size' = Size /\ UNCHANGED <<rank, sound, lo, up, rnd, p, pending>>
            /\ p \in 1 .. Size /\ lo < p /\ p < up /\ R(a, lo) <= R(a, up) /\ R(a, lo) <= R(a, p)
        BY <2>1, <2>6 DEF CompareHigh, Comparing, Size, Shape, Bounds, Typed, Known
      <3>2. CASE Less(a[up], a[p]) /\ Partition(Swapped(a, p, up))
        <4> DEFINE b == Swapped(a, p, up)
        <4>0. p \in lo .. up /\ up \in lo .. up /\ p \in 1 .. Size /\ up \in 1 .. Size
          BY <2>3, <3>1
        <4>1. Outside(b)
          BY <2>1, <2>3, <3>1, <4>0, OutsideKept
        <4>2. /\ b \in [1 .. Size -> 1 .. Size]
              /\ b[p] = a[up] /\ b[up] = a[p] /\ \A x \in 1 .. Size : x # p /\ x # up => b[x] = a[x]
          BY <2>1, <4>0, SwapTable
        <4>3. Partition(b)
          BY <3>2
        <4> HIDE DEF b
        <4>4. R(a, up) <= R(a, p)
          BY <1>2, <2>2, <2>3, <3>1, <3>2 DEF Less, R
        <4>5. b[lo] = a[lo]
          BY <2>3, <3>1, <4>2
        <4>6. R(b, lo) <= R(b, p) /\ R(b, p) <= R(b, up)
          BY <3>1, <4>2, <4>4, <4>5 DEF R
        <4> QED
          BY <3>1, <4>1, <4>2, <4>3, <4>6, PartitionOrder
      <3>3. CASE NotLess(a[up], a[p]) /\ Partition(a)
        <4>1. R(a, p) <= R(a, up)
          BY <1>2, <2>2, <2>3, <3>1, <3>3 DEF NotLess, R
        <4> QED
          BY <2>1, <2>3, <3>1, <3>3, <4>1, PartitionOrder
      <3> QED
        BY <2>6, <3>2, <3>3 DEF CompareHigh
    <2>7. CASE Rise
      <3>1. /\ pc = "rise" /\ pc \in Comparing /\ Size' = Size
            /\ UNCHANGED <<a, rank, sound, lo, up, pivot, pending>>
            /\ i \in 1 .. Size /\ lo < i /\ i < up /\ j \in 1 .. Size /\ lo < j /\ j < up
            /\ a[up - 1] = pivot /\ rank[pivot] <= R(a, j)
            /\ \A x \in lo .. i - 1 : R(a, x) <= rank[pivot]
            /\ \A x \in j + 1 .. up : rank[pivot] <= R(a, x)
        BY <2>1, <2>3, <2>7 DEF Rise, Comparing, Size, Shape, Bounds, Typed, Known
      <3>2. rank[pivot] \in Int /\ R(a, i) \in Int
        BY <2>2, <2>3, <3>1 DEF R
      <3>3. CASE Less(a[i], pivot)
        <4>1. R(a, i) < rank[pivot]
          BY <1>2, <3>3 DEF Less, R
        <4>2. i # up - 1
          BY <3>1, <3>2, <4>1 DEF R
        <4>3. /\ pc' = "rise" /\ pc' \in Comparing /\ i' = i + 1 /\ j' = j
          BY <1>2, <2>7, <3>1, <3>2, <4>1, <4>2 DEF Rise, NotLess, R, Comparing
        <4>4. \A x \in lo .. (i + 1) - 1 : x = i \/ x \in lo .. i - 1
          BY <2>3, <3>1
        <4>5. \A x \in lo .. (i + 1) - 1 : R(a, x) <= rank[pivot]
          BY <3>1, <3>2, <4>1, <4>4
        <4>6. Settled'
          BY <2>3, <3>1, <4>3 DEF Settled, Outside, R, Waiting
        <4>7. Known'
          BY <3>1, <4>3, <4>5 DEF Known, R
        <4> QED
          BY <4>3, <4>6, <4>7 DEF Ordering
      <3>4. CASE NotLess(a[i], pivot) /\ pc' = "fall" /\ j' = j - 1 /\ UNCHANGED i
        <4>1. rank[pivot] <= R(a, i)
          BY <1>2, <3>2, <3>4 DEF NotLess, R
        <4>2. \A x \in (j - 1) + 1 .. up : x = j \/ x \in j + 1 .. up
          BY <2>3, <3>1
        <4>3. \A x \in (j - 1) + 1 .. up : rank[pivot] <= R(a, x)
          BY <3>1, <4>2
        <4>4. pc' = "fall" /\ pc' \in Comparing /\ i' = i /\ j' = j - 1
          BY <3>4 DEF Comparing
        <4>5. Settled'
          BY <2>3, <3>1, <4>4 DEF Settled, Outside, R, Waiting
        <4>6. Known'
          BY <3>1, <4>1, <4>3, <4>4 DEF Known, R
        <4> QED
          BY <4>4, <4>5, <4>6 DEF Ordering
      <3> QED
        BY <2>7, <3>3, <3>4 DEF Rise
    <2>8. CASE FallOn
      <3>1. /\ pc = "fall" /\ pc \in Comparing /\ Size' = Size /\ Less(pivot, a[j])
            /\ UNCHANGED <<a, rank, sound, lo, up, pivot, i, pending>>
            /\ i \in 1 .. Size /\ lo < i /\ i < up /\ j \in 1 .. Size /\ lo <= j /\ j < up - 1
            /\ a[up - 1] = pivot /\ rank[pivot] <= R(a, i)
            /\ \A x \in lo .. i - 1 : R(a, x) <= rank[pivot]
            /\ \A x \in j + 1 .. up : rank[pivot] <= R(a, x)
        BY <2>1, <2>3, <2>8 DEF FallOn, Comparing, Size, Shape, Bounds, Typed, Known
      <3>2. rank[pivot] \in Int /\ R(a, j) \in Int
        BY <2>2, <2>3, <3>1 DEF R
      <3>3. rank[pivot] < R(a, j)
        BY <1>2, <3>1 DEF Less, R
      <3>4. j >= i
        <4>1. j < i => j \in lo .. i - 1
          BY <2>3, <3>1
        <4> QED
          BY <3>1, <3>2, <3>3, <4>1
      <3>5. pc' = "fall" /\ j' = j - 1
        BY <2>8, <3>1, <3>4 DEF FallOn
      <3>6. \A x \in (j - 1) + 1 .. up : x = j \/ x \in j + 1 .. up
        BY <2>3, <3>1
      <3>7. \A x \in (j - 1) + 1 .. up : rank[pivot] <= R(a, x)
        BY <3>1, <3>2, <3>3, <3>6
      <3>8. Settled'
        BY <2>3, <3>1, <3>5 DEF Settled, Outside, R, Waiting
      <3>9. Known'
        BY <3>1, <3>5, <3>7 DEF Known, R
      <3> QED
        BY <3>5, <3>8, <3>9 DEF Ordering
    <2>9. CASE Exchange
      <3>1. /\ pc = "fall" /\ pc \in Comparing /\ Size' = Size /\ NotLess(pivot, a[j]) /\ j >= i
            /\ UNCHANGED <<rank, sound, lo, up, pivot, j, pending>>
            /\ a' = Swapped(a, i, j) /\ i' = i + 1 /\ pc' = "rise"
            /\ i \in 1 .. Size /\ lo < i /\ i < up /\ j \in 1 .. Size /\ lo <= j /\ j < up - 1
            /\ a[up - 1] = pivot /\ rank[pivot] <= R(a, i)
            /\ \A x \in lo .. i - 1 : R(a, x) <= rank[pivot]
            /\ \A x \in j + 1 .. up : rank[pivot] <= R(a, x)
        BY <2>1, <2>3, <2>9 DEF Exchange, Comparing, Size, Shape, Bounds, Typed, Known
      <3>2. rank[pivot] \in Int /\ R(a, j) \in Int
        BY <2>2, <2>3, <3>1 DEF R
      <3>3. R(a, j) <= rank[pivot]
        BY <1>2, <3>1, <3>2 DEF NotLess, R
      <3> DEFINE g == Swapped(a, i, j)
      <3>a. i \in lo .. up /\ j \in lo .. up /\ i \in 1 .. Size /\ j \in 1 .. Size
        BY <2>3, <3>1
      <3>4. Outside(g)
        BY <2>1, <2>3, <3>1, <3>a, OutsideKept
      <3>5. /\ g[i] = a[j] /\ g[j] = a[i]
            /\ \A x \in 1 .. Size : x # i /\ x # j => g[x] = a[x]
        BY <2>1, <3>a, SwapTable
      <3>6. a' = g
        BY <3>1
      <3> HIDE DEF g
      <3>7. g[up - 1] = pivot
        BY <2>3, <3>1, <3>5
      <3>8. \A x \in lo .. (i + 1) - 1 : R(g, x) <= rank[pivot]
        <4>1. ASSUME NEW x \in lo .. (i + 1) - 1 PROVE x = i \/ (x \in lo .. i - 1 /\ g[x] = a[x])
          <5>a. Size \in Nat /\ i \in Nat /\ j \in Nat /\ lo \in Nat /\ i <= Size /\ lo >= 1 /\ i <= j
            BY <2>1, <2>3, <3>1
          <5>b. x \in lo .. (i + 1) - 1
            BY <4>1
          <5>1. x = i \/ (x \in lo .. i - 1 /\ x \in 1 .. Size /\ x # i /\ x # j)
            BY <5>a, <5>b
          <5> QED
            BY <3>5, <5>1
        <4> QED
          BY <3>1, <3>3, <3>5, <4>1 DEF R
      <3>9. \A x \in j + 1 .. up : rank[pivot] <= R(g, x)
        <4>1. ASSUME NEW x \in j + 1 .. up PROVE g[x] = a[x]
          <5>a. Size \in Nat /\ i \in Nat /\ j \in Nat /\ up \in Nat /\ up <= Size /\ i <= j /\ j >= 1
            BY <2>1, <2>3, <3>1
          <5>b. x \in j + 1 .. up
            BY <4>1
          <5>1. x \in 1 .. Size /\ x # i /\ x # j
            BY <5>a, <5>b
          <5> QED
            BY <3>5, <5>1
        <4> QED
          BY <3>1, <4>1 DEF R
      <3>10. rank[pivot] <= R(g, j)
        BY <3>1, <3>5 DEF R
      <3>11. Settled'
        <4>1. pc' \in Comparing
          BY <3>1 DEF Comparing
        <4> QED
          BY <3>1, <3>4, <3>6, <4>1 DEF Settled, Outside, R, Waiting
      <3>12. Known'
        BY <3>1, <3>6, <3>7, <3>8, <3>9, <3>10 DEF Known, R
      <3> QED
        BY <3>1, <3>11, <3>12 DEF Ordering
    <2>10. CASE DivideAfter
      BY <1>2, <2>10, DivideOrder
    <2>11. CASE Return
      BY <1>2, <2>11, ReturnOrder
    <2>12. CASE Fail
      BY <1>2, <2>12 DEF Fail
    <2> QED
      BY <2>4, <2>5, <2>6, <2>7, <2>8, <2>9, <2>10, <2>11, <2>12 DEF SortNext
  <1> QED
    BY <1>1, <1>2 DEF Shape, Typed

----------------------------------------------------------------------------
\* Theorems.

\* The invariant holds in every state of every sort.
THEOREM SortInvariant == SortSpec => []SortInv
  <1>1. SortInit => SortInv
    BY SortAssumption, ShapeInit, OrderingInit DEF SortInv
  <1>2. SortInv /\ [SortNext]_sortVars => SortInv'
    <2>1. CASE UNCHANGED sortVars
      BY <2>1 DEF SortInv, Shape, Typed, Injective, Bounds, Nested, RestFits, Room, Apart, Disjoint,
                  Ordering, Settled, Outside, Known, R, Waiting, Size, sortVars
    <2> QED
      BY <2>1, SortAssumption, ShapeNext, OrderingNext DEF SortInv
  <1> QED
    BY <1>1, <1>2, PTL DEF SortSpec

\* table.sort keeps the elements, its bounds and its depth for every order
\* function, and sorts for those that are orders.
THEOREM SortCorrect == SortSpec => []SortRight
  <1>1. SortInv => SortRight
    <2> SUFFICES ASSUME SortInv PROVE SortRight
      OBVIOUS
    <2> USE DEF SortInv
    <2>1. Permutation
      BY DEF Shape, Typed, Injective, Permutation
    <2>2. WithinBounds
      BY DEF Shape, Bounds, WithinBounds
    <2>3. Shallow
      <3>1. \A k \in 1 .. Len(pending) : pending[k] \in Rests /\ RestFits(pending, k)
        BY ElementOfSeq DEF Shape, Typed, Nested
      <3>2. \A k \in 1 .. Len(pending) : pending[k].n \in Nat /\ pending[k].lo \in Nat /\ pending[k].up \in Nat
        BY <3>1 DEF Rests
      <3>3. Size \in Nat
        BY DEF Shape, Typed, Size
      <3>4. ASSUME NEW k \in 1 .. Len(pending)
            PROVE  2 * pending[k].n < Room(pending, k)
        <4>1. Room(pending, k) \in Nat
          BY <3>2, <3>3 DEF Room
        <4> QED
          BY <3>1, <3>2, <4>1 DEF RestFits
      <3>5. DOMAIN pending = 1 .. Len(pending)
        BY DEF Shape, Typed
      <3> QED
        BY <3>4, <3>5 DEF Shallow, Room
    <2>4. Sorts
      <3>1. pc = "return" => pc \notin Comparing
        BY DEF Comparing
      <3>2. pending = <<>> => \A x, y : ~Waiting(pending, x, y)
        BY DEF Waiting
      <3> QED
        BY <3>1, <3>2 DEF Sorts, Ordering, Settled, R
    <2> QED
      BY <2>1, <2>2, <2>3, <2>4 DEF SortRight
  <1> QED
    BY <1>1, SortInvariant, PTL
=============================================================================
