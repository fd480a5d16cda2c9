------------------------------- MODULE LuaSort -------------------------------
(***************************************************************************)
(* table.sort (src/src/lua/ltablib.c): a quicksort that calls itself for   *)
(* the smaller part of every partition and loops for the other one.  The   *)
(* elements are told apart by their first position; one action is one      *)
(* comparison, which runs Lua code: a function that orders the elements,   *)
(* or one that answers as it likes and may raise an error.  The function   *)
(* does not store into the table.                                          *)
(***************************************************************************)
EXTENDS Integers, Sequences

CONSTANTS
  RANLIMIT,     \* intervals from this size on may choose a random pivot
  IMBALANCE,    \* a partition this many times larger than the other is too imbalanced
  Randoms,      \* what l_randomizePivot may return
  SortInputs    \* the rank of every element, and whether the order keeps to the ranks

ASSUME SortAssumption ==
  /\ RANLIMIT \in Nat /\ RANLIMIT >= 4
  /\ IMBALANCE \in Nat \ {0}
  /\ Randoms \subseteq Nat
  /\ SortInputs \subseteq [rank : Seq(Int), sound : BOOLEAN]

VARIABLES
  a,          \* the table: a[x] is the element at x
  rank, sound,
  lo, up,     \* the interval that the innermost call sorts
  rnd,        \* its random number
  p,          \* the index of the pivot
  pivot,      \* the pivot, on the stack
  i, j,       \* the indices that 'partition' compares
  pending,    \* what the calls will do once the call they made returns
  pc          \* the comparison under way, or what comes next

sortVars == <<a, rank, sound, lo, up, rnd, p, pivot, i, j, pending, pc>>

\* The order may answer that x is, or is not, less than y.
Less(x, y) == sound => rank[x] < rank[y]
NotLess(x, y) == sound => rank[x] >= rank[y]

\* set2 after two lua_geti
Swapped(f, x, y) == [f EXCEPT ![x] = f[y], ![y] = f[x]]

\* The head of the loop of 'auxsort'
Enter(l, u) == lo' = l /\ up' = u /\ pc' = IF l < u THEN "ends" ELSE "return"

SortInit ==
  /\ \E s \in SortInputs : rank = s.rank /\ sound = s.sound
  /\ a = [x \in 1 .. Len(rank) |-> x]
  /\ lo = 1 /\ up = Len(rank) /\ rnd = 0
  /\ p = 0 /\ pivot = 0 /\ i = 0 /\ j = 0 /\ pending = <<>>
  /\ pc = IF Len(rank) > 1 THEN "ends" ELSE "return"

\* choosePivot: the middle half of the interval
ChoosePivot(r4) == (rnd % (r4 * 2)) + lo + r4
\* The middle element, or a random one for large intervals
Middle ==
  IF up - lo < RANLIMIT \/ rnd = 0 THEN (lo + up) \div 2 ELSE ChoosePivot((up - lo) \div 4)

\* a[up] < a[lo]?
CompareEnds ==
  /\ pc = "ends"
  /\ \/ Less(a[up], a[lo]) /\ a' = Swapped(a, lo, up)
     \/ NotLess(a[up], a[lo]) /\ a' = a
  /\ \/ up - lo = 1 /\ pc' = "return" /\ UNCHANGED p
     \/ up - lo # 1 /\ pc' = "low" /\ p' = Middle
  /\ UNCHANGED <<rank, sound, lo, up, rnd, pivot, i, j, pending>>

\* The three elements are in order: the pivot goes next to the last one.
Partition(b) ==
  \/ up - lo = 2 /\ a' = b /\ pc' = "return" /\ UNCHANGED <<pivot, i, j>>
  \/ /\ up - lo # 2 /\ pivot' = b[p] /\ a' = Swapped(b, p, up - 1)
     /\ i' = lo + 1 /\ j' = up - 1 /\ pc' = "rise"

\* a[p] < a[lo]?
CompareLow ==
  /\ pc = "low"
  /\ \/ Less(a[p], a[lo]) /\ Partition(Swapped(a, p, lo))
     \/ NotLess(a[p], a[lo]) /\ pc' = "high" /\ UNCHANGED <<a, pivot, i, j>>
  /\ UNCHANGED <<rank, sound, lo, up, rnd, p, pending>>

\* a[up] < a[p]?
CompareHigh ==
  /\ pc = "high"
  /\ \/ Less(a[up], a[p]) /\ Partition(Swapped(a, p, up))
     \/ NotLess(a[up], a[p]) /\ Partition(a)
  /\ UNCHANGED <<rank, sound, lo, up, rnd, p, pending>>

\* a[i] < P?  'partition' raises "invalid order function" when i gets to P.
Rise ==
  /\ pc = "rise"
  /\ \/ /\ Less(a[i], pivot) /\ UNCHANGED j
        /\ \/ i = up - 1 /\ pc' = "error" /\ i' = i
           \/ i # up - 1 /\ pc' = "rise" /\ i' = i + 1
     \/ NotLess(a[i], pivot) /\ pc' = "fall" /\ j' = j - 1 /\ UNCHANGED i
  /\ UNCHANGED <<a, rank, sound, lo, up, rnd, p, pivot, pending>>

Rest(l, u, size) == [lo |-> l, up |-> u, n |-> size, rnd |-> rnd]
\* 'auxsort' calls itself for the smaller interval.
Divide ==
  \/ /\ i - lo < up - i
     /\ pending' = Append(pending, Rest(i + 1, up, i - lo)) /\ Enter(lo, i - 1)
  \/ /\ i - lo >= up - i
     /\ pending' = Append(pending, Rest(lo, i - 1, up - i)) /\ Enter(i + 1, up)

\* P < a[j]?
FallOn ==
  /\ pc = "fall" /\ Less(pivot, a[j])
  /\ \/ j < i /\ pc' = "error" /\ UNCHANGED j
     \/ j >= i /\ j' = j - 1 /\ UNCHANGED pc
  /\ UNCHANGED <<a, rank, sound, lo, up, rnd, p, pivot, i, pending>>
Exchange ==
  /\ pc = "fall" /\ NotLess(pivot, a[j]) /\ j >= i
  /\ a' = Swapped(a, i, j) /\ i' = i + 1 /\ pc' = "rise"
  /\ UNCHANGED <<rank, sound, lo, up, rnd, p, pivot, j, pending>>
\* (mutant) the pivot goes where the second index stopped
DivideAfterFall ==
  /\ pc = "fall" /\ NotLess(pivot, a[j]) /\ j < i
  /\ a' = Swapped(a, up - 1, j) /\ p' = i /\ Divide
  /\ UNCHANGED <<rank, sound, rnd, pivot, i, j>>
DivideAfter ==
  /\ pc = "fall" /\ NotLess(pivot, a[j]) /\ j < i
  /\ a' = Swapped(a, up - 1, i) /\ p' = i /\ Divide
  /\ UNCHANGED <<rank, sound, rnd, pivot, i, j>>

\* The call returns, and its caller goes on with the larger interval.
Top == pending[Len(pending)]
Return ==
  /\ pc = "return" /\ pending # <<>>
  /\ Enter(Top.lo, Top.up)
  /\ \/ (Top.up - Top.lo) \div IMBALANCE > Top.n /\ rnd' \in Randoms
     \/ (Top.up - Top.lo) \div IMBALANCE <= Top.n /\ rnd' = Top.rnd
  /\ pending' = SubSeq(pending, 1, Len(pending) - 1)
  /\ UNCHANGED <<a, rank, sound, p, pivot, i, j>>

Comparing == {"ends", "low", "high", "rise", "fall"}
\* The order function raises an error.
Fail ==
  /\ ~sound /\ pc \in Comparing /\ pc' = "error"
  /\ UNCHANGED <<a, rank, sound, lo, up, rnd, p, pivot, i, j, pending>>

SortNext ==
  \/ CompareEnds \/ CompareLow \/ CompareHigh \/ Rise \/ FallOn
  \/ Exchange \/ DivideAfter \/ Return \/ Fail
SortSpec == SortInit /\ [][SortNext]_sortVars

----------------------------------------------------------------------------
\* Properties.

Size == Len(rank)
\* Whatever the order function answers, and wherever it raises an error, the
\* table keeps its elements.
Permutation ==
  /\ a \in [1 .. Size -> 1 .. Size]
  /\ \A x, y \in 1 .. Size : x # y => a[x] # a[y]
\* No answer of the order function makes 'sort' read outside the interval.
WithinBounds ==
  pc \in Comparing =>
    /\ 1 <= lo /\ lo < up /\ up <= Size
    /\ pc \in {"low", "high"} => lo < p /\ p < up
    /\ pc = "rise" => lo < i /\ i < up
    /\ pc = "fall" => lo < i /\ i < up /\ lo <= j /\ j < up - 1
\* Each call sorts less than half of what its caller sorts: the C stack holds
\* no more calls than the logarithm of the size.
Shallow ==
  \A k \in DOMAIN pending :
    2 * pending[k].n < (IF k = 1 THEN Size ELSE pending[k - 1].n)
\* With an order, 'sort' neither takes it for an invalid one nor ends before
\* the table is sorted.
Sorts ==
  sound => /\ pc # "error"
           /\ pc = "return" /\ pending = <<>> =>
                \A x, y \in 1 .. Size : x < y => rank[a[x]] <= rank[a[y]]

\* table.sort keeps the elements, its bounds and its depth for every order
\* function, and sorts for those that are orders (partition's loop invariant
\* and its two errors, ltablib.c:285-330).
SortRight == Permutation /\ WithinBounds /\ Shallow /\ Sorts
=============================================================================
