---------------------------- MODULE HashMapProofs ----------------------------
(***************************************************************************)
(* The hash map holds what the calls define, whatever the hash function,   *)
(* the capacities and the rates are.  The argument: a chain is a set of    *)
(* nodes with an order that their links follow, from least to greatest.    *)
(***************************************************************************)
EXTENDS HashMap, FiniteSetTheorems, WellFoundedInduction, TLAPS

-------------------------------------------------------------------------------
(* Numbers.                                                                *)

(* A set of numbers has a least element,                                   *)
LEMMA LeastIs ==
  ASSUME NEW S, S \subseteq Nat, S # {}
  PROVE  Least(S) \in S /\ Least(S) \in Nat /\ \A j \in S : Least(S) <= j
<1>1. PICK x \in S : \A y \in S : ~ (<<y, x>> \in OpToRel(<, Nat))
  BY NatLessThanWellFounded, WFMin
<1>2. \A y \in S : ~ (y < x)
  BY <1>1, Zenon DEF OpToRel
<1>3. \A y \in S : x <= y
  BY <1>2
<1>4. Least(S) = CHOOSE i \in S : \A j \in S : i <= j
  BY DEF Least
<1> QED
  BY <1>3, <1>4
(* and an empty one none.                                                  *)
LEMMA LeastIsNone == Least({}) = INVALID_INDEX
BY DEF Least

LEMMA CeilDivIs ==
  ASSUME NEW x \in Nat, NEW y \in Nat, y > 0
  PROVE  /\ CeilDiv(x, y) \in Nat /\ CeilDiv(x, y) * y >= x
         /\ x = 0 => CeilDiv(x, y) = 0
         /\ x > 0 => CeilDiv(x, y) > 0
<1> DEFINE n == x + y - 1
           q == n \div y
           r == n % y
<1>1. n \in Nat
  OBVIOUS
<1> HIDE DEF n
<1>2. q \in Nat /\ r \in Nat /\ n = q * y + r /\ r < y
  BY <1>1
<1>3. CeilDiv(x, y) = q
  BY DEF CeilDiv, n
<1> HIDE DEF q, r
<1> DEFINE m == q * y
<1>4. m \in Nat /\ n = m + r
  BY <1>2
<1> HIDE DEF m
<1>5. m >= x
  BY <1>2, <1>4 DEF n
<1>6. ASSUME x = 0 PROVE q = 0
  <2>1. SUFFICES ASSUME q >= 1 PROVE FALSE
    BY <1>2
  <2>2. q * y >= 1 * y
    BY <1>2, <2>1
  <2>3. 1 * y = y
    OBVIOUS
  <2>4. m >= y
    BY <2>2, <2>3 DEF m
  <2> QED
    BY <1>2, <1>4, <1>6, <2>4 DEF n
<1>7. ASSUME x > 0 PROVE q > 0
  <2>1. SUFFICES ASSUME q = 0 PROVE FALSE
    BY <1>2
  <2>2. m = 0
    BY <2>1 DEF m
  <2> QED
    BY <1>5, <1>7, <2>2
<1> QED
  BY <1>2, <1>3, <1>5, <1>6, <1>7 DEF m

(* The ceiling is the least such number, and grows with what is divided.   *)
LEMMA CeilDivIsLeast ==
  ASSUME NEW x \in Nat, NEW y \in Nat, y > 0, NEW q \in Nat, q * y >= x
  PROVE  CeilDiv(x, y) <= q
<1> DEFINE c == CeilDiv(x, y)
           n == x + y - 1
           r == n % y
<1>1. n \in Nat
  OBVIOUS
<1> HIDE DEF n
<1>2. c \in Nat /\ r \in Nat /\ n = c * y + r
  BY <1>1 DEF CeilDiv, n
<1> HIDE DEF c, r
<1>3. SUFFICES ASSUME c >= q + 1 PROVE FALSE
  BY <1>2 DEF c
<1>4. c * y >= (q + 1) * y
  BY <1>2, <1>3
<1>5. (q + 1) * y = q * y + y
  OBVIOUS
<1> DEFINE a == c * y
           b == q * y
<1>6. a \in Nat /\ b \in Nat /\ n = a + r /\ a >= b + y /\ b >= x
  BY <1>2, <1>4, <1>5
<1> HIDE DEF a, b
<1> QED
  BY <1>2, <1>6 DEF n

LEMMA DivMod ==
  ASSUME NEW x \in Nat, NEW d \in Nat, d > 0
  PROVE  /\ x = d * (x \div d) + (x % d)
         /\ x \div d \in Nat /\ x % d \in Nat /\ x % d < d
<1> DEFINE q == x \div d
           r == x % d
<1>1. q \in Nat /\ r \in Nat /\ x = d * q + r /\ r < d
  OBVIOUS
<1> QED
  BY <1>1

(* Powers of 2                                                             *)
LEMMA DoublePower ==
  ASSUME NEW p \in Nat, PowerOf2(p)
  PROVE  PowerOf2(2 * p)
<1>1. SUFFICES ASSUME NEW d \in 1..(2 * p), (2 * p) % d = 0, d % 2 # 0 PROVE d = 1
  BY DEF PowerOf2
<1>2. PICK q \in Nat : 2 * p = d * q
  <2>1. 2 * p \in Nat /\ d \in Nat /\ d > 0
    OBVIOUS
  <2>2. 2 * p = d * ((2 * p) \div d) + ((2 * p) % d) /\ (2 * p) \div d \in Nat
    BY <2>1, DivMod
  <2> QED
    BY <1>1, <2>2
<1>3. PICK a \in Nat : d = 2 * a + 1
  BY <1>1
<1>4. d * q = 2 * (a * q) + q /\ a * q \in Nat
  BY <1>3
<1> DEFINE b == p - a * q
<1>5. q = 2 * b /\ b \in Int
  BY <1>2, <1>4
<1> HIDE DEF b
<1>6. d * q = 2 * (d * b) /\ d * b \in Int
  BY <1>5
<1>7. p = d * b
  BY <1>2, <1>6
<1>8. b \in Nat
  BY <1>5
<1>9. CASE b = 0
  <2>1. p = 0
    BY <1>7, <1>9
  <2> QED
    BY <2>1
<1>10. CASE b > 0
  <2>1. d * b >= d * 1 /\ d * 1 = d
    BY <1>8, <1>10
  <2>2. d \in 1..p
    BY <1>7, <2>1
  <2>3. p % d = 0
    <3>1. p \in Nat /\ d \in Nat /\ d > 0
      BY <2>2
    <3> QED
      BY <1>7, <1>8, <3>1
  <2> QED
    BY <1>1, <2>2, <2>3 DEF PowerOf2
<1> QED
  BY <1>8, <1>9, <1>10

LEMMA SomePower ==
  ASSUME NEW n \in Nat, n > 0
  PROVE  \E p \in n..(2 * n) : PowerOf2(p)
<1> DEFINE S == {m \in Nat : m > 0 /\ ~ \E p \in m..(2 * m) : PowerOf2(p)}
<1>1. SUFFICES ASSUME n \in S PROVE FALSE
  OBVIOUS
<1>2. PICK m \in S : \A k \in S : m <= k
  <2>1. S \subseteq Nat /\ S # {}
    BY <1>1
  <2> HIDE DEF S
  <2> QED
    BY <2>1, LeastIs
<1>3. m \in Nat /\ m > 0 /\ ~ \E p \in m..(2 * m) : PowerOf2(p)
  BY <1>2
<1>4. CASE m = 1
  <2>1. PowerOf2(1)
    BY DEF PowerOf2
  <2>2. 1 \in m..(2 * m)
    BY <1>4
  <2> QED
    BY <1>3, <2>1, <2>2
<1>5. CASE m > 1
  <2>1. m - 1 \in Nat /\ m - 1 > 0 /\ m - 1 \notin S
    BY <1>2, <1>3, <1>5
  <2>2. PICK p \in (m - 1)..(2 * (m - 1)) : PowerOf2(p)
    BY <2>1
  <2>3. CASE p >= m
    <3>1. p \in m..(2 * m)
      BY <1>3, <2>3
    <3> QED
      BY <1>3, <2>2, <3>1
  <2>4. CASE p = m - 1
    <3>1. 2 * p \in m..(2 * m) /\ p \in Nat
      BY <1>3, <1>5, <2>4
    <3> QED
      BY <1>3, <2>2, <3>1, DoublePower
  <2> QED
    BY <1>3, <2>3, <2>4
<1> QED
  BY <1>3, <1>4, <1>5

LEMMA RoundPow2Is ==
  ASSUME NEW n \in Nat
  PROVE  RoundPow2(n) \in Nat /\ RoundPow2(n) >= n /\ (n = 0 => RoundPow2(n) = 0)
<1>1. CASE n = 0
  BY <1>1 DEF RoundPow2
<1>2. CASE n > 0
  <2> DEFINE S == {p \in n..(2 * n) : PowerOf2(p)}
  <2>1. S # {}
    BY <1>2, SomePower
  <2>2. S \subseteq Nat /\ \A p \in S : p >= n
    OBVIOUS
  <2>3. RoundPow2(n) = Least(S)
    BY <1>2 DEF RoundPow2
  <2> HIDE DEF S
  <2> QED
    <3>1. Least(S) \in S
      BY <2>1, <2>2, LeastIs
    <3>2. Least(S) \in Nat /\ Least(S) >= n
      BY <2>2, <3>1
    <3> QED
      BY <1>2, <2>3, <3>2
<1> QED
  BY <1>1, <1>2

(* As many buckets as were wanted, and enough for the load.                *)
LEMMA BucketCountIs ==
  ASSUME NEW size \in Nat, NEW wanted \in Nat
  PROVE  /\ BucketCount(size, wanted) \in Nat
         /\ BucketCount(size, wanted) >= wanted
         /\ BucketCount(size, wanted) * MAX_LOAD_FACTOR >= size * 100
         /\ size > 0 => BucketCount(size, wanted) > 0
<1> DEFINE least == CeilDiv(size * 100, MAX_LOAD_FACTOR)
           more == IF wanted < least THEN least ELSE wanted
           n == BucketCount(size, wanted)
<1>1. MAX_LOAD_FACTOR \in Nat /\ MAX_LOAD_FACTOR > 0
  BY HashMapConstants
<1>2. least \in Nat /\ least * MAX_LOAD_FACTOR >= size * 100 /\ (size > 0 => least > 0)
  BY <1>1, CeilDivIs
<1>3. n = RoundPow2(more)
  BY DEF BucketCount
<1> HIDE DEF least, n
<1>4. more \in Nat /\ more >= wanted /\ more >= least
  BY <1>2
<1> HIDE DEF more
<1>5. n \in Nat /\ n >= more
  BY <1>3, <1>4, RoundPow2Is
<1>6. n >= least
  BY <1>2, <1>4, <1>5
<1>7. n * MAX_LOAD_FACTOR >= least * MAX_LOAD_FACTOR
  BY <1>1, <1>2, <1>5, <1>6
<1> DEFINE x == n * MAX_LOAD_FACTOR
           y == least * MAX_LOAD_FACTOR
<1>8. x \in Nat /\ y \in Nat
  BY <1>1, <1>2, <1>5
<1>9. x >= y /\ y >= size * 100
  BY <1>2, <1>7
<1> HIDE DEF x, y
<1>10. x >= size * 100
  BY <1>8, <1>9
<1>11. n >= wanted /\ (size > 0 => n > 0)
  BY <1>2, <1>4, <1>5, <1>6
<1> QED
  BY <1>5, <1>10, <1>11 DEF n, x

(* A node for every element, and one more.                                 *)
LEMMA NodeCountIs ==
  ASSUME NEW size \in Nat, NEW n \in Nat, n * MAX_LOAD_FACTOR >= size * 100
  PROVE  /\ NodeCount(size, n) \in Nat
         /\ n > 0 => NodeCount(size, n) > size
         /\ n = 0 => NodeCount(size, n) = 0
         /\ NodeCount(size, n) >= CeilDiv(n * MAX_LOAD_FACTOR, 100)
         /\ NodeCount(size, n) <= CeilDiv(n * MAX_LOAD_FACTOR, 100) + 1
<1> DEFINE x == n * MAX_LOAD_FACTOR
           c == CeilDiv(x, 100)
           k == NodeCount(size, n)
<1>1. MAX_LOAD_FACTOR \in Nat /\ MAX_LOAD_FACTOR > 0
  BY HashMapConstants
<1>2. x \in Nat /\ x >= size * 100 /\ (n = 0 => x = 0)
  BY <1>1
<1> HIDE DEF x
<1>3. c \in Nat /\ c * 100 >= x /\ (x = 0 => c = 0)
  <2>1. 100 \in Nat /\ 100 > 0
    OBVIOUS
  <2>2. x \in Nat
    BY <1>2
  <2> QED
    BY <2>1, <2>2, CeilDivIs
<1>4. k = IF n > 0 /\ c <= size THEN size + 1 ELSE c
  BY DEF NodeCount, x
<1> HIDE DEF c, k
<1>5. c >= size
  BY <1>2, <1>3
<1>6. k \in Nat /\ (n > 0 => k > size) /\ (n = 0 => k = 0) /\ k >= c /\ k <= c + 1
  BY <1>2, <1>3, <1>4, <1>5
<1> QED
  BY <1>6 DEF k, c, x

LEMMA HashModIs ==
  ASSUME NEW h \in Nat, NEW n \in Nat, n > 0
  PROVE  HashMod(h, n) \in 0..(n - 1)
<1>1. CASE n <= 2
  BY <1>1 DEF HashMod
<1>2. CASE n > 2
  <2>1. h % (n - 1) \in Nat /\ h % (n - 1) < n - 1
    <3>1. n - 1 \in Nat /\ n - 1 > 0
      BY <1>2
    <3> QED
      BY <3>1, DivMod
  <2>2. HashMod(h, n) = h % (n - 1)
    BY <1>2 DEF HashMod
  <2> QED
    BY <1>2, <2>1, <2>2
<1> QED
  BY <1>1, <1>2

-------------------------------------------------------------------------------
(* The walk along a chain.                                                 *)

After(nodes, i) == IF i = INVALID_INDEX THEN i ELSE nodes[i].next
IsWalk(f, nodes, head, k) ==
  f = [n \in 0..k |-> IF n = 0 THEN head ELSE After(nodes, f[n - 1])]

LEMMA WalkExists ==
  ASSUME NEW k \in Nat, NEW nodes, NEW head
  PROVE  \E f : IsWalk(f, nodes, head, k)
<1> DEFINE S == {m \in Nat : ~ \E f : IsWalk(f, nodes, head, m)}
<1>1. SUFFICES ASSUME k \in S PROVE FALSE
  OBVIOUS
<1>2. PICK m \in S : \A j \in S : m <= j
  <2>1. S \subseteq Nat /\ S # {}
    BY <1>1
  <2> HIDE DEF S
  <2> QED
    BY <2>1, LeastIs
<1>3. m \in Nat /\ ~ \E f : IsWalk(f, nodes, head, m)
  BY <1>2
<1>4. CASE m = 0
  <2> DEFINE f == [n \in 0..0 |-> head]
  <2>1. f = [n \in 0..0 |-> IF n = 0 THEN head ELSE After(nodes, f[n - 1])]
    OBVIOUS
  <2> QED
    BY <1>3, <1>4, <2>1 DEF IsWalk
<1>5. CASE m > 0
  <2>1. m - 1 \in Nat /\ m - 1 \notin S
    BY <1>2, <1>3, <1>5
  <2>2. PICK f : IsWalk(f, nodes, head, m - 1)
    BY <2>1
  <2> DEFINE g == [n \in 0..m |-> IF n < m THEN f[n] ELSE After(nodes, f[m - 1])]
  <2>3. ASSUME NEW n \in 0..m
        PROVE  g[n] = IF n = 0 THEN head ELSE After(nodes, g[n - 1])
    <3>1. \A i \in 0..(m - 1) : f[i] = IF i = 0 THEN head ELSE After(nodes, f[i - 1])
      BY <2>2 DEF IsWalk
    <3>2. CASE n = 0
      BY <1>3, <1>5, <3>1, <3>2
    <3>3. CASE n > 0 /\ n < m
      <4>1. n \in 0..(m - 1) /\ n - 1 \in 0..m /\ n - 1 < m
        BY <1>3, <3>3
      <4> QED
        BY <3>1, <3>3, <4>1
    <3>4. CASE n > 0 /\ n = m
      <4>1. n - 1 \in 0..m /\ n - 1 < m
        BY <1>3, <3>4
      <4> QED
        BY <3>4, <4>1
    <3> QED
      BY <1>3, <3>2, <3>3, <3>4
  <2>4. IsWalk(g, nodes, head, m)
    <3>1. g = [n \in 0..m |-> g[n]]
      OBVIOUS
    <3> HIDE DEF g
    <3>2. [n \in 0..m |-> g[n]] = [n \in 0..m |-> IF n = 0 THEN head ELSE After(nodes, g[n - 1])]
      BY <2>3
    <3> QED
      BY <3>1, <3>2, Zenon DEF IsWalk
  <2> QED
    BY <1>3, <2>4
<1> QED
  BY <1>3, <1>4, <1>5

LEMMA PathIs ==
  ASSUME NEW k \in Nat, NEW nodes, Span(nodes) = k, NEW head
  PROVE  /\ DOMAIN Path(nodes, head) = 0..k
         /\ Path(nodes, head)[0] = head
         /\ \A n \in 1..k : Path(nodes, head)[n] = After(nodes, Path(nodes, head)[n - 1])
<1> DEFINE next(i) == IF i = INVALID_INDEX THEN i ELSE nodes[i].next
           path[n \in 0..Span(nodes)] == IF n = 0 THEN head ELSE next(path[n - 1])
<1>1. Path(nodes, head) = [n \in 0..Span(nodes) |-> path[n]]
  BY DEF Path
<1>2. \E f : f = [n \in 0..Span(nodes) |-> IF n = 0 THEN head ELSE next(f[n - 1])]
  <2>1. PICK f : IsWalk(f, nodes, head, k)
    BY WalkExists
  <2>2. f = [n \in 0..Span(nodes) |-> IF n = 0 THEN head ELSE next(f[n - 1])]
    BY <2>1 DEF IsWalk, After
  <2> QED
    BY <2>2
<1>3. path = [n \in 0..Span(nodes) |-> IF n = 0 THEN head ELSE next(path[n - 1])]
  BY <1>2
<1> HIDE DEF path
<1>4. \A n \in 0..k : path[n] = IF n = 0 THEN head ELSE After(nodes, path[n - 1])
  BY <1>3 DEF After
<1>5. DOMAIN Path(nodes, head) = 0..k /\ \A n \in 0..k : Path(nodes, head)[n] = path[n]
  BY <1>1
<1>6. \A n \in 1..k : n \in 0..k /\ n - 1 \in 0..k /\ n # 0
  OBVIOUS
<1> QED
  BY <1>4, <1>5, <1>6

(* The nodes of S, in some order, linked from `head' to the last.          *)
Follows(nodes, S, r, i) ==
  \/ nodes[i].next = INVALID_INDEX /\ \A j \in S : r[j] <= r[i]
  \/ /\ nodes[i].next \in S /\ r[i] < r[nodes[i].next]
     /\ \A j \in S : r[j] <= r[i] \/ r[nodes[i].next] <= r[j]
Begins(head, S, r) ==
  IF S = {} THEN head = INVALID_INDEX ELSE head \in S /\ \A i \in S : r[head] <= r[i]
Ordered(nodes, head, S, r) ==
  /\ r \in [S -> Int] /\ \A i, j \in S : r[i] = r[j] => i = j
  /\ Begins(head, S, r)
  /\ \A i \in S : Follows(nodes, S, r, i)
Chain(nodes, head, S) == \E r \in [S -> Int] : Ordered(nodes, head, S, r)

(* What the walk along a chain meets                                       *)
LEMMA WalkMeets ==
  ASSUME NEW k \in Nat, NEW nodes, Span(nodes) = k, NEW head,
         NEW S, S \subseteq 0..(k - 1), INVALID_INDEX \notin S,
         NEW r, Ordered(nodes, head, S, r)
  PROVE  \A n \in 0..k :
           LET P == Path(nodes, head) IN
           /\ P[n] \in S \cup {INVALID_INDEX}
           /\ \A m \in 0..n : P[n] \in S => P[m] \in S
           /\ \A m \in 0..n : P[n] \in S /\ m < n => r[P[m]] < r[P[n]]
<1> DEFINE P == Path(nodes, head)
           Good(n) == /\ P[n] \in S \cup {INVALID_INDEX}
                      /\ \A m \in 0..n : P[n] \in S => P[m] \in S
                      /\ \A m \in 0..n : P[n] \in S /\ m < n => r[P[m]] < r[P[n]]
           Bad == {n \in 0..k : ~ Good(n)}
<1>1. SUFFICES ASSUME Bad # {} PROVE FALSE
  BY Zenon
<1>2. PICK n \in Bad : \A j \in Bad : n <= j
  <2>1. Bad \subseteq Nat
    OBVIOUS
  <2> HIDE DEF Bad
  <2> QED
    BY <1>1, <2>1, LeastIs
<1>3. n \in 0..k /\ ~ Good(n)
  BY <1>2
<1>4. P[0] = head /\ \A i \in 1..k : P[i] = After(nodes, P[i - 1])
  BY PathIs
<1> HIDE DEF P
<1>5. CASE n = 0
  <2>1. head \in S \cup {INVALID_INDEX}
    BY DEF Ordered, Begins
  <2> QED
    BY <1>3, <1>4, <1>5, <2>1
<1>6. CASE n > 0
  <2>1. n - 1 \in 0..k /\ n - 1 \notin Bad /\ n \in 1..k
    BY <1>2, <1>3, <1>6
  <2>2. Good(n - 1)
    BY <2>1
  <2>3. P[n] = After(nodes, P[n - 1])
    BY <1>4, <2>1
  <2>4. CASE P[n - 1] = INVALID_INDEX
    <3>1. P[n] = INVALID_INDEX
      BY <2>3, <2>4 DEF After
    <3> QED
      BY <1>3, <3>1
  <2>5. CASE P[n - 1] \in S
    <3>1. P[n] = nodes[P[n - 1]].next
      BY <2>3, <2>5 DEF After
    <3>2. Follows(nodes, S, r, P[n - 1])
      BY <2>5 DEF Ordered
    <3>3. P[n] \in S \cup {INVALID_INDEX} /\ (P[n] \in S => r[P[n - 1]] < r[P[n]])
      BY <3>1, <3>2 DEF Follows
    <3>4. ASSUME P[n] \in S, NEW m \in 0..n PROVE P[m] \in S
      <4>1. m = n \/ m \in 0..(n - 1)
        BY <1>3
      <4> QED
        BY <2>2, <2>5, <3>4, <4>1
    <3>5. ASSUME P[n] \in S, NEW m \in 0..n, m < n PROVE r[P[m]] < r[P[n]]
      <4>1. m \in 0..(n - 1) /\ (m = n - 1 \/ m < n - 1)
        BY <1>3, <3>5
      <4>2. P[m] \in S /\ (m < n - 1 => r[P[m]] < r[P[n - 1]])
        BY <2>2, <2>5, <4>1
      <4>3. r[P[m]] \in Int /\ r[P[n - 1]] \in Int /\ r[P[n]] \in Int
        BY <2>5, <3>5, <4>2 DEF Ordered
      <4> QED
        BY <3>3, <3>5, <4>1, <4>2, <4>3
    <3> QED
      BY <1>3, <3>3, <3>4, <3>5
  <2> QED
    BY <2>2, <2>4, <2>5
<1> QED
  BY <1>3, <1>5, <1>6

LEMMA GreatestOf ==
  ASSUME NEW n \in Nat, NEW S, S \subseteq 0..n, S # {}
  PROVE  \E x \in S : \A y \in S : y <= x
<1> DEFINE T == {n - x : x \in S}
<1>1. T \subseteq Nat /\ T # {}
  <2>1. \A x \in S : x \in 0..n /\ n - x \in Nat
    OBVIOUS
  <2> QED
    BY <2>1
<1>2. PICK t \in T : \A y \in T : t <= y
  <2> HIDE DEF T
  <2> QED
    BY <1>1, LeastIs
<1>3. PICK x \in S : t = n - x
  BY <1>2
<1>4. \A y \in S : y <= x
  BY <1>2, <1>3
<1> QED
  BY <1>4

(* Finite sets of nodes                                                    *)
LEMMA NodesFinite ==
  ASSUME NEW k \in Nat, NEW S, S \subseteq 0..(k - 1)
  PROVE  IsFiniteSet(S) /\ Cardinality(S) \in Nat /\ Cardinality(S) <= k
<1>1. IsFiniteSet(0..(k - 1)) /\ Cardinality(0..(k - 1)) = k
  BY FS_Interval
<1> QED
  BY <1>1, FS_Subset, FS_CardinalityType

(* The walk ends when it has met them all,                                 *)
Ends(nodes, head, k, n) == Path(nodes, head)[n] = INVALID_INDEX
LEMMA WalkEnds ==
  ASSUME NEW k \in Nat, NEW nodes, Span(nodes) = k, NEW head,
         NEW S, S \subseteq 0..(k - 1), INVALID_INDEX \notin S,
         NEW r, Ordered(nodes, head, S, r),
         NEW n \in 0..k, Cardinality(S) <= n
  PROVE  Ends(nodes, head, k, n)
<1> DEFINE P == Path(nodes, head)
           c == Cardinality(S)
<1>1. IsFiniteSet(S) /\ c \in Nat /\ c <= k
  BY NodesFinite
<1>2. SUFFICES ASSUME P[n] \in S PROVE FALSE
  BY WalkMeets DEF Ends
<1>3. \A m \in 0..n : P[m] \in S /\ \A j \in 0..m : j < m => r[P[j]] < r[P[m]]
  <2>1. \A m \in 0..n : P[m] \in S
    BY <1>2, WalkMeets
  <2>2. ASSUME NEW m \in 0..n, NEW j \in 0..m, j < m PROVE r[P[j]] < r[P[m]]
    <3>1. m \in 0..k /\ P[m] \in S
      BY <2>1, <2>2
    <3> QED
      BY <2>2, <3>1, WalkMeets
  <2> QED
    BY <2>1, <2>2
<1> DEFINE f == [m \in 0..n |-> P[m]]
<1>4. f \in [0..n -> S]
  BY <1>3
<1>5. IsFiniteSet(0..n) /\ Cardinality(0..n) = n + 1
  BY FS_Interval
<1>6. c < n + 1
  BY <1>1
<1>7. \E x, y \in 0..n : x # y /\ f[x] = f[y]
  <2> HIDE DEF f
  <2> QED
    BY <1>1, <1>4, <1>5, <1>6, FS_PigeonHole
<1>8. PICK x \in 0..n, y \in 0..n : x # y /\ P[x] = P[y]
  <2>1. \A x \in 0..n : f[x] = P[x]
    OBVIOUS
  <2> HIDE DEF f
  <2> QED
    BY <1>7, <2>1
<1>9. P[x] \in S /\ r[P[x]] \in Int
  BY <1>3 DEF Ordered
<1>10. CASE x < y
  <2>1. r[P[x]] < r[P[y]]
    BY <1>3, <1>10
  <2> QED
    BY <1>8, <1>9, <2>1
<1>11. CASE y < x
  <2>1. r[P[y]] < r[P[x]]
    BY <1>3, <1>11
  <2> QED
    BY <1>8, <1>9, <2>1
<1> QED
  BY <1>8, <1>10, <1>11

(* and it meets them all.                                                  *)
Meets(nodes, head, k, i) == \E n \in 0..k : Path(nodes, head)[n] = i
LEMMA WalkReaches ==
  ASSUME NEW k \in Nat, NEW nodes, Span(nodes) = k, NEW head,
         NEW S, S \subseteq 0..(k - 1), INVALID_INDEX \notin S,
         NEW r, Ordered(nodes, head, S, r), NEW i \in S
  PROVE  Meets(nodes, head, k, i)
<1> DEFINE P == Path(nodes, head)
           T == {n \in 0..k : P[n] \in S /\ r[P[n]] <= r[i]}
<1>1. P[0] = head /\ \A n \in 1..k : P[n] = After(nodes, P[n - 1])
  BY PathIs
<1>2. P[k] = INVALID_INDEX
  <2>1. Cardinality(S) <= k
    BY NodesFinite
  <2>2. k \in 0..k
    OBVIOUS
  <2>3. Ends(nodes, head, k, k)
    BY <2>1, <2>2, WalkEnds
  <2> QED
    BY <2>3 DEF Ends
<1> HIDE DEF P
<1>3. 0 \in T
  BY <1>1 DEF Ordered, Begins
<1>4. PICK n \in T : \A m \in T : m <= n
  <2>1. T \subseteq 0..k
    OBVIOUS
  <2> HIDE DEF T
  <2> QED
    BY <1>3, <2>1, GreatestOf
<1>5. n \in 0..k /\ P[n] \in S /\ r[P[n]] <= r[i] /\ n # k
  BY <1>2, <1>4
<1>6. n + 1 \in 1..k /\ n + 1 \in 0..k /\ (n + 1) - 1 = n
  BY <1>5
<1>7. P[n + 1] = nodes[P[n]].next
  BY <1>1, <1>5, <1>6 DEF After
<1>8. n + 1 \notin T
  BY <1>4, <1>5
<1>9. Follows(nodes, S, r, P[n])
  BY <1>5 DEF Ordered
<1>10. r[i] \in Int /\ r[P[n]] \in Int
  BY <1>5 DEF Ordered
<1>11. r[P[n]] = r[i]
  <2>1. CASE nodes[P[n]].next = INVALID_INDEX /\ \A j \in S : r[j] <= r[P[n]]
    BY <1>5, <1>10, <2>1
  <2>2. CASE /\ nodes[P[n]].next \in S
             /\ \A j \in S : r[j] <= r[P[n]] \/ r[nodes[P[n]].next] <= r[j]
    <3>1. ~ (r[P[n + 1]] <= r[i])
      BY <1>6, <1>7, <1>8, <2>2
    <3>2. r[i] <= r[P[n]]
      BY <1>7, <2>2, <3>1
    <3> QED
      BY <1>5, <1>10, <3>2
  <2> QED
    BY <1>9, <2>1, <2>2 DEF Follows
<1>12. P[n] = i
  BY <1>5, <1>11 DEF Ordered
<1> QED
  BY <1>5, <1>12 DEF P, Meets

(* A chain on which no key is twice is searched to the end: what Find does *)
(* with it.  `n' is where the search stops.                                *)
Stops(nodes, head, S, k, key) ==
  LET P == Path(nodes, head)
      stops == {n \in DOMAIN P : P[n] = INVALID_INDEX \/ nodes[P[n]].key = key}
      n == Least(stops)
  IN  /\ stops # {} /\ n \in 0..k
      /\ \/ P[n] \in S /\ nodes[P[n]].key = key
         \/ P[n] = INVALID_INDEX /\ \A i \in S : nodes[i].key # key
      /\ n = 0 => P[n] = head
      /\ n # 0 => P[n - 1] \in S /\ nodes[P[n - 1]].next = P[n] /\ nodes[P[n - 1]].key # key

LEMMA SearchStops ==
  ASSUME NEW k \in Nat, NEW nodes, Span(nodes) = k, NEW head,
         NEW S, S \subseteq 0..(k - 1), INVALID_INDEX \notin S,
         NEW r, Ordered(nodes, head, S, r),
         NEW key, \A i, j \in S : nodes[i].key = key /\ nodes[j].key = key => i = j
  PROVE  Stops(nodes, head, S, k, key)
<1> DEFINE P == Path(nodes, head)
           stops == {n \in DOMAIN P : P[n] = INVALID_INDEX \/ nodes[P[n]].key = key}
           n == Least(stops)
<1>1. DOMAIN P = 0..k /\ P[0] = head /\ \A i \in 1..k : P[i] = After(nodes, P[i - 1])
  BY PathIs
<1>2. P[k] = INVALID_INDEX
  <2>1. Cardinality(S) <= k
    BY NodesFinite
  <2>2. k \in 0..k
    OBVIOUS
  <2>3. Ends(nodes, head, k, k)
    BY <2>1, <2>2, WalkEnds
  <2> QED
    BY <2>3 DEF Ends
<1>3. \A m \in 0..k : P[m] \in S \cup {INVALID_INDEX}
  BY WalkMeets
<1>4. \A m \in 0..k, j \in 0..k : j <= m /\ P[m] \in S => P[j] \in S
  <2>1. SUFFICES ASSUME NEW m \in 0..k, NEW j \in 0..k, j <= m, P[m] \in S PROVE P[j] \in S
    OBVIOUS
  <2>2. j \in 0..m
    BY <2>1
  <2> QED
    BY <2>1, <2>2, WalkMeets
<1>5. ASSUME NEW i \in S PROVE \E m \in 0..k : P[m] = i
  <2>1. Meets(nodes, head, k, i)
    BY WalkReaches
  <2> QED
    BY <2>1 DEF Meets
<1> HIDE DEF P
<1>6. k \in stops /\ stops \subseteq 0..k
  BY <1>1, <1>2
<1>7. n \in stops /\ \A m \in stops : n <= m
  <2>1. stops \subseteq Nat /\ stops # {}
    BY <1>6
  <2> HIDE DEF stops
  <2> QED
    BY <2>1, LeastIs
<1>8. n \in 0..k
  BY <1>6, <1>7
<1>9. P[n] = INVALID_INDEX \/ nodes[P[n]].key = key
  BY <1>7
<1> HIDE DEF n
<1>10. n # 0 => P[n - 1] \in S /\ nodes[P[n - 1]].next = P[n] /\ nodes[P[n - 1]].key # key
  <2>1. SUFFICES ASSUME n # 0
                 PROVE  P[n - 1] \in S /\ nodes[P[n - 1]].next = P[n] /\ nodes[P[n - 1]].key # key
    OBVIOUS
  <2>2. n \in 1..k /\ n - 1 \in 0..k /\ n - 1 \notin stops
    BY <1>7, <1>8, <2>1
  <2>3. P[n - 1] # INVALID_INDEX /\ nodes[P[n - 1]].key # key
    BY <1>1, <2>2
  <2>4. P[n - 1] \in S
    BY <1>3, <2>2, <2>3
  <2>5. P[n] = nodes[P[n - 1]].next
    BY <1>1, <2>2, <2>3 DEF After
  <2> QED
    BY <2>3, <2>4, <2>5
<1>11. \/ P[n] \in S /\ nodes[P[n]].key = key
       \/ P[n] = INVALID_INDEX /\ \A i \in S : nodes[i].key # key
  <2>1. CASE P[n] = INVALID_INDEX
    <3>1. SUFFICES ASSUME NEW i \in S, nodes[i].key = key PROVE FALSE
      BY <2>1
    <3>2. PICK m \in 0..k : P[m] = i
      BY <1>5
    <3>3. m \in stops
      BY <1>1, <3>1, <3>2
    <3>4. n <= m
      BY <1>7, <3>3
    <3>5. P[n] \in S
      BY <1>4, <1>8, <3>2, <3>4
    <3> QED
      BY <2>1, <3>5
  <2>2. CASE P[n] # INVALID_INDEX
    BY <1>3, <1>8, <1>9, <2>2
  <2> QED
    BY <2>1, <2>2
<1> QED
  BY <1>1, <1>6, <1>8, <1>10, <1>11 DEF n, P, Stops

-------------------------------------------------------------------------------
(* What the operations do to a chain.                                      *)

(* A chain depends on the links of its nodes only.                         *)
LEMMA ChainKept ==
  ASSUME NEW nodes, NEW others, NEW head, NEW S, Chain(nodes, head, S),
         \A i \in S : others[i].next = nodes[i].next
  PROVE  Chain(others, head, S)
<1>1. PICK r \in [S -> Int] : Ordered(nodes, head, S, r)
  BY DEF Chain
<1>2. \A i \in S : Follows(others, S, r, i)
  BY <1>1 DEF Ordered, Follows
<1> QED
  BY <1>1, <1>2 DEF Chain, Ordered

(* Links from each node to the least one above it make a chain.            *)
LEMMA ChainSorted ==
  ASSUME NEW S, S \subseteq Nat, NEW nodes,
         \A i \in S : nodes[i].next = Least({j \in S : j > i})
  PROVE  Chain(nodes, Least(S), S)
<1> DEFINE r == [i \in S |-> i]
<1>1. r \in [S -> Int] /\ \A i \in S : r[i] = i
  OBVIOUS
<1>2. Begins(Least(S), S, r)
  <2>1. CASE S = {}
    BY <2>1, LeastIsNone DEF Begins
  <2>2. CASE S # {}
    <3>1. Least(S) \in S /\ \A j \in S : Least(S) <= j
      BY <2>2, LeastIs
    <3> QED
      BY <2>2, <3>1 DEF Begins
  <2> QED
    BY <2>1, <2>2
<1>3. ASSUME NEW i \in S PROVE Follows(nodes, S, r, i)
  <2> DEFINE T == {j \in S : j > i}
             n == nodes[i].next
  <2>1. n = Least(T)
    OBVIOUS
  <2>2. CASE T = {}
    <3>1. n = INVALID_INDEX
      BY <2>1, <2>2, LeastIsNone
    <3>2. \A j \in S : j <= i
      BY <2>2
    <3> QED
      BY <1>1, <3>1, <3>2 DEF Follows
  <2>3. CASE T # {}
    <3>1. T \subseteq Nat
      OBVIOUS
    <3>2. n \in T /\ \A j \in T : n <= j
      <4> HIDE DEF T, n
      <4> QED
        BY <2>1, <2>3, <3>1, LeastIs
    <3>3. n \in S /\ i < n /\ \A j \in S : j <= i \/ n <= j
      BY <3>1, <3>2
    <3> QED
      BY <1>1, <3>3 DEF Follows
  <2> QED
    BY <2>2, <2>3
<1> QED
  BY <1>1, <1>2, <1>3 DEF Chain, Ordered

(* A node put before the first                                             *)
LEMMA ChainPush ==
  ASSUME NEW nodes, NEW others, NEW head, NEW S, Chain(nodes, head, S), INVALID_INDEX \notin S,
         NEW x, x \notin S,
         \A i \in S : others[i].next = nodes[i].next, others[x].next = head
  PROVE  Chain(others, x, S \cup {x})
<1>1. PICK r \in [S -> Int] : Ordered(nodes, head, S, r)
  BY DEF Chain
<1> DEFINE T == S \cup {x}
           low == IF S = {} THEN 0 ELSE r[head] - 1
           q == [i \in T |-> IF i = x THEN low ELSE r[i]]
<1>2. low \in Int /\ \A i \in S : low < r[i]
  <2>1. CASE S = {}
    BY <2>1
  <2>2. CASE S # {}
    BY <1>1, <2>2 DEF Ordered, Begins
  <2> QED
    BY <2>1, <2>2
<1> HIDE DEF low
<1>3. q \in [T -> Int] /\ q[x] = low /\ \A i \in S : q[i] = r[i]
  BY <1>2
<1> HIDE DEF q
<1>4. \A i, j \in T : q[i] = q[j] => i = j
  <2>1. \A i \in S : r[i] \in Int
    OBVIOUS
  <2> QED
    BY <1>1, <1>2, <1>3, <2>1 DEF Ordered
<1>5. Begins(x, T, q)
  BY <1>2, <1>3 DEF Begins
<1>6. Follows(others, T, q, x)
  <2>1. CASE S = {}
    <3>1. others[x].next = INVALID_INDEX
      BY <1>1, <2>1 DEF Ordered, Begins
    <3> QED
      BY <1>2, <1>3, <2>1, <3>1 DEF Follows
  <2>2. CASE S # {}
    <3>1. head \in S /\ \A i \in S : r[head] <= r[i]
      BY <1>1, <2>2 DEF Ordered, Begins
    <3> QED
      BY <1>2, <1>3, <3>1 DEF Follows
  <2> QED
    BY <2>1, <2>2
<1>7. ASSUME NEW i \in S PROVE Follows(others, T, q, i)
  <2>1. Follows(nodes, S, r, i)
    BY <1>1 DEF Ordered
  <2>2. others[i].next = nodes[i].next /\ r[i] \in Int /\ low < r[i]
    BY <1>2
  <2> QED
    BY <1>2, <1>3, <2>1, <2>2 DEF Follows
<1> QED
  BY <1>3, <1>4, <1>5, <1>6, <1>7 DEF Chain, Ordered

(* The first node taken                                                    *)
LEMMA ChainPop ==
  ASSUME NEW nodes, NEW others, NEW head, NEW S, Chain(nodes, head, S), S # {}, INVALID_INDEX \notin S,
         \A i \in S \ {head} : others[i].next = nodes[i].next
  PROVE  head \in S /\ Chain(others, nodes[head].next, S \ {head})
<1>1. PICK r \in [S -> Int] : Ordered(nodes, head, S, r)
  BY DEF Chain
<1> DEFINE T == S \ {head}
           q == [i \in T |-> r[i]]
           n == nodes[head].next
<1>2. head \in S /\ \A i \in S : r[head] <= r[i]
  BY <1>1 DEF Ordered, Begins
<1>3. q \in [T -> Int] /\ \A i \in T : q[i] = r[i]
  OBVIOUS
<1> HIDE DEF q
<1>4. \A i \in T : r[head] < r[i] /\ r[i] \in Int /\ r[head] \in Int
  BY <1>1, <1>2 DEF Ordered
<1>5. \A i, j \in T : q[i] = q[j] => i = j
  BY <1>1, <1>3 DEF Ordered
<1>6. Follows(nodes, S, r, head)
  BY <1>1, <1>2 DEF Ordered
<1>7. Begins(n, T, q)
  <2>1. CASE n = INVALID_INDEX /\ \A j \in S : r[j] <= r[head]
    <3>1. T = {}
      BY <1>4, <2>1
    <3> QED
      BY <2>1, <3>1 DEF Begins
  <2>2. CASE n \in S /\ r[head] < r[n] /\ \A j \in S : r[j] <= r[head] \/ r[n] <= r[j]
    <3>1. n # head
      BY <1>2, <2>2
    <3>2. n \in T /\ \A j \in T : r[n] <= r[j]
      BY <1>4, <2>2, <3>1
    <3> QED
      BY <1>3, <3>2 DEF Begins
  <2> QED
    BY <1>6, <2>1, <2>2 DEF Follows
<1>8. ASSUME NEW i \in T PROVE Follows(others, T, q, i)
  <2>1. Follows(nodes, S, r, i)
    BY <1>1 DEF Ordered
  <2>2. others[i].next = nodes[i].next /\ r[i] \in Int /\ r[head] < r[i] /\ r[head] \in Int
    BY <1>4
  <2>3. nodes[i].next # head \/ nodes[i].next = INVALID_INDEX
    BY <2>1, <2>2 DEF Follows
  <2> QED
    BY <1>2, <1>3, <2>1, <2>2, <2>3 DEF Follows
<1> QED
  BY <1>2, <1>3, <1>5, <1>7, <1>8 DEF Chain, Ordered

(* A node put behind the last                                              *)
LEMMA ChainAppend ==
  ASSUME NEW nodes, NEW others, NEW head, NEW S, Chain(nodes, head, S), INVALID_INDEX \notin S,
         NEW x, x \notin S, x # INVALID_INDEX, NEW prev \in S, nodes[prev].next = INVALID_INDEX,
         \A i \in S \ {prev} : others[i].next = nodes[i].next,
         others[prev].next = x, others[x].next = INVALID_INDEX
  PROVE  Chain(others, head, S \cup {x})
<1>1. PICK r \in [S -> Int] : Ordered(nodes, head, S, r)
  BY DEF Chain
<1> DEFINE T == S \cup {x}
           high == r[prev] + 1
           q == [i \in T |-> IF i = x THEN high ELSE r[i]]
<1>2. high \in Int /\ r[prev] \in Int /\ r[prev] < high /\ \A i \in S : r[i] \in Int /\ r[i] <= r[prev]
  <2>1. Follows(nodes, S, r, prev)
    BY <1>1 DEF Ordered
  <2> QED
    BY <2>1 DEF Follows
<1> HIDE DEF high
<1>3. q \in [T -> Int] /\ q[x] = high /\ \A i \in S : q[i] = r[i]
  BY <1>2
<1> HIDE DEF q
<1>4. \A i, j \in T : q[i] = q[j] => i = j
  BY <1>1, <1>2, <1>3 DEF Ordered
<1>5. Begins(head, T, q)
  <2>1. head \in S /\ \A i \in S : r[head] <= r[i]
    BY <1>1 DEF Ordered, Begins
  <2>2. \A i \in T : q[head] <= q[i]
    BY <1>2, <1>3, <2>1
  <2> QED
    BY <2>1, <2>2 DEF Begins
<1>6. Follows(others, T, q, x)
  BY <1>2, <1>3 DEF Follows
<1>7. Follows(others, T, q, prev)
  BY <1>2, <1>3 DEF Follows
<1>8. ASSUME NEW i \in S \ {prev} PROVE Follows(others, T, q, i)
  <2>1. Follows(nodes, S, r, i)
    BY <1>1 DEF Ordered
  <2>2. others[i].next = nodes[i].next /\ r[i] \in Int /\ r[i] < r[prev]
    <3>1. r[i] # r[prev]
      BY <1>1, <1>8 DEF Ordered
    <3> QED
      BY <1>2, <1>8, <3>1
  <2>3. nodes[i].next \in S /\ r[i] < r[nodes[i].next]
        /\ \A j \in S : r[j] <= r[i] \/ r[nodes[i].next] <= r[j]
    BY <1>2, <2>1, <2>2 DEF Follows
  <2> QED
    BY <1>2, <1>3, <2>2, <2>3 DEF Follows
<1> QED
  BY <1>3, <1>4, <1>5, <1>6, <1>7, <1>8 DEF Chain, Ordered

(* A chain of one node                                                     *)
LEMMA ChainOfOne ==
  ASSUME NEW others, NEW x, x # INVALID_INDEX, others[x].next = INVALID_INDEX
  PROVE  Chain(others, x, {x})
<1> DEFINE q == [i \in {x} |-> 0]
<1>1. q \in [{x} -> Int] /\ q[x] = 0
  OBVIOUS
<1> HIDE DEF q
<1>2. Begins(x, {x}, q) /\ Follows(others, {x}, q, x)
  BY <1>1 DEF Begins, Follows
<1> QED
  BY <1>1, <1>2 DEF Chain, Ordered

LEMMA ChainOfNone ==
  ASSUME NEW others
  PROVE  Chain(others, INVALID_INDEX, {})
<1> DEFINE q == [i \in {} |-> 0]
<1>1. q \in [{} -> Int]
  OBVIOUS
<1> HIDE DEF q
<1> QED
  BY <1>1 DEF Chain, Ordered, Begins

LEMMA EmptyChain ==
  ASSUME NEW nodes, NEW head, NEW S, Chain(nodes, head, S), INVALID_INDEX \notin S
  PROVE  (S = {} <=> head = INVALID_INDEX) /\ head \in S \cup {INVALID_INDEX}
BY DEF Chain, Ordered, Begins

(* Links of a chain stay in it.                                            *)
LEMMA ChainClosed ==
  ASSUME NEW nodes, NEW head, NEW S, Chain(nodes, head, S), NEW i \in S
  PROVE  nodes[i].next \in S \cup {INVALID_INDEX}
BY DEF Chain, Ordered, Follows

(* A node taken from behind another                                        *)
LEMMA ChainCut ==
  ASSUME NEW nodes, NEW others, NEW head, NEW S, Chain(nodes, head, S), INVALID_INDEX \notin S,
         NEW x \in S, NEW prev \in S, nodes[prev].next = x,
         \A i \in S \ {x, prev} : others[i].next = nodes[i].next,
         others[prev].next = nodes[x].next
  PROVE  x # prev /\ x # head /\ Chain(others, head, S \ {x})
<1>1. PICK r \in [S -> Int] : Ordered(nodes, head, S, r)
  BY DEF Chain
<1> DEFINE T == S \ {x}
           q == [i \in T |-> r[i]]
           n == nodes[x].next
<1>2. \A i \in S : r[i] \in Int
  OBVIOUS
<1>3. q \in [T -> Int] /\ \A i \in T : q[i] = r[i]
  OBVIOUS
<1> HIDE DEF q
<1>4. r[prev] < r[x] /\ \A j \in S : r[j] <= r[prev] \/ r[x] <= r[j]
  <2>1. Follows(nodes, S, r, prev)
    BY <1>1 DEF Ordered
  <2> QED
    BY <2>1 DEF Follows
<1>5. x # prev /\ x # head
  <2>1. r[head] <= r[prev]
    BY <1>1 DEF Ordered, Begins
  <2> QED
    BY <1>1, <1>2, <1>4, <2>1 DEF Ordered, Begins
<1>6. \A i, j \in T : q[i] = q[j] => i = j
  BY <1>1, <1>3 DEF Ordered
<1>7. Begins(head, T, q)
  <2>1. head \in S /\ \A i \in S : r[head] <= r[i]
    BY <1>1 DEF Ordered, Begins
  <2> QED
    BY <1>3, <1>5, <2>1 DEF Begins
<1>8. Follows(nodes, S, r, x)
  BY <1>1 DEF Ordered
<1>9. Follows(others, T, q, prev)
  <2>1. CASE n = INVALID_INDEX /\ \A j \in S : r[j] <= r[x]
    <3>1. ASSUME NEW j \in T PROVE r[j] <= r[prev]
      <4>1. r[j] # r[x]
        BY <1>1 DEF Ordered
      <4> QED
        BY <1>2, <1>4, <2>1, <4>1
    <3> QED
      BY <1>3, <1>5, <2>1, <3>1 DEF Follows
  <2>2. CASE n \in S /\ r[x] < r[n] /\ \A j \in S : r[j] <= r[x] \/ r[n] <= r[j]
    <3>1. n \in T /\ r[prev] < r[n]
      BY <1>2, <1>4, <2>2
    <3>2. ASSUME NEW j \in T PROVE r[j] <= r[prev] \/ r[n] <= r[j]
      <4>1. r[j] # r[x]
        BY <1>1 DEF Ordered
      <4> QED
        BY <1>2, <1>4, <2>2, <4>1
    <3> QED
      BY <1>3, <1>5, <3>1, <3>2 DEF Follows
  <2> QED
    BY <1>8, <2>1, <2>2 DEF Follows
<1>10. ASSUME NEW i \in T \ {prev} PROVE Follows(others, T, q, i)
  <2>1. Follows(nodes, S, r, i)
    BY <1>1 DEF Ordered
  <2>2. others[i].next = nodes[i].next /\ r[i] \in Int /\ r[i] # r[prev]
    BY <1>1, <1>10 DEF Ordered
  <2>3. nodes[i].next # x
    <3>1. SUFFICES ASSUME nodes[i].next = x PROVE FALSE
      OBVIOUS
    <3>2. r[i] < r[x] /\ \A j \in S : r[j] <= r[i] \/ r[x] <= r[j]
      BY <2>1, <3>1 DEF Follows
    <3> QED
      BY <1>2, <1>4, <2>2, <3>2
  <2> QED
    BY <1>3, <2>1, <2>2, <2>3 DEF Follows
<1> QED
  BY <1>3, <1>5, <1>6, <1>7, <1>9, <1>10 DEF Chain, Ordered

-------------------------------------------------------------------------------
(* The record of the map.                                                  *)

Arrays(S) == UNION {[0..(n - 1) -> S] : n \in Nat}
Node == [key : Keys, value : Values, filled : BOOLEAN, next : Nat]
Table == [buckets : Arrays(Nat), nodes : Arrays(Node), size : Nat, free_index : Nat]

LEMMA ArrayIs ==
  ASSUME NEW S, NEW a \in Arrays(S)
  PROVE  /\ Span(a) \in Nat /\ a \in [0..(Span(a) - 1) -> S]
         /\ a = Empty <=> Span(a) = 0
<1>1. PICK n \in Nat : a \in [0..(n - 1) -> S]
  BY DEF Arrays
<1>2. Cardinality(0..(n - 1)) = n
  BY FS_Interval
<1>3. Span(a) = n
  BY <1>1, <1>2 DEF Span
<1>4. a = Empty <=> n = 0
  <2>1. CASE n = 0
    <3>1. DOMAIN a = {} /\ DOMAIN Empty = {} /\ a = [i \in DOMAIN a |-> a[i]] /\ Empty = [i \in {} |-> 0]
      BY <1>1, <2>1 DEF Empty
    <3> QED
      BY <2>1, <3>1
  <2>2. CASE n > 0
    <3>1. 0 \in DOMAIN a /\ DOMAIN Empty = {}
      BY <1>1, <2>2 DEF Empty
    <3> QED
      BY <2>2, <3>1
  <2> QED
    BY <2>1, <2>2
<1> QED
  BY <1>1, <1>3, <1>4

LEMMA ArrayMade ==
  ASSUME NEW S, NEW n \in Nat, NEW a \in [0..(n - 1) -> S]
  PROVE  a \in Arrays(S) /\ Span(a) = n
<1>1. Cardinality(0..(n - 1)) = n
  BY FS_Interval
<1> QED
  BY <1>1 DEF Arrays, Span

LEMMA FilledFinite ==
  ASSUME NEW nodes \in Arrays(Node)
  PROVE  /\ Filled(nodes) \subseteq 0..(Span(nodes) - 1)
         /\ IsFiniteSet(Filled(nodes)) /\ Cardinality(Filled(nodes)) \in Nat
         /\ Cardinality(Filled(nodes)) <= Span(nodes)
<1>1. Span(nodes) \in Nat /\ nodes \in [0..(Span(nodes) - 1) -> Node]
  BY ArrayIs
<1>2. Filled(nodes) \subseteq 0..(Span(nodes) - 1)
  BY <1>1 DEF Filled
<1> DEFINE k == Span(nodes)
           F == Filled(nodes)
<1> HIDE DEF k, F
<1>3. k \in Nat /\ F \subseteq 0..(k - 1)
  BY <1>1, <1>2 DEF k, F
<1>4. IsFiniteSet(F) /\ Cardinality(F) \in Nat /\ Cardinality(F) <= k
  BY <1>3, NodesFinite
<1> QED
  BY <1>2, <1>4 DEF k, F

(* Moving the used nodes: every one of `from' is in one place in `to', and *)
(* nothing else is.                                                        *)
Carries(f, from, to) ==
  /\ f \in [Filled(from) -> Filled(to)]
  /\ \A i, j \in Filled(from) : f[i] = f[j] => i = j
  /\ \A j \in Filled(to) : \E i \in Filled(from) : f[i] = j
  /\ \A i \in Filled(from) : to[f[i]].key = from[i].key /\ to[f[i]].value = from[i].value

Rank(F, i) == Cardinality({k \in F : k < i})

LEMMA RankIs ==
  ASSUME NEW k \in Nat, NEW F, F \subseteq 0..(k - 1)
  PROVE  /\ \A i \in F : Rank(F, i) \in Nat /\ Rank(F, i) < Cardinality(F)
         /\ \A i, j \in F : i < j => Rank(F, i) < Rank(F, j)
<1>1. IsFiniteSet(F) /\ Cardinality(F) \in Nat
  BY NodesFinite
<1>2. ASSUME NEW i \in F PROVE Rank(F, i) \in Nat /\ Rank(F, i) < Cardinality(F)
  <2> DEFINE T == {j \in F : j < i}
  <2>1. T \in SUBSET F /\ i \notin T
    OBVIOUS
  <2> HIDE DEF T
  <2>2. Cardinality(T) <= Cardinality(F) /\ (Cardinality(F) = Cardinality(T) => F = T) /\ IsFiniteSet(T)
    BY <1>1, <2>1, FS_Subset
  <2>3. Cardinality(T) \in Nat
    BY <2>2, FS_CardinalityType
  <2>4. Cardinality(T) < Cardinality(F)
    BY <1>1, <2>1, <2>2, <2>3
  <2> QED
    BY <2>3, <2>4 DEF Rank, T
<1>3. ASSUME NEW i \in F, NEW j \in F, i < j PROVE Rank(F, i) < Rank(F, j)
  <2> DEFINE T == {m \in F : m < i}
             U == {m \in F : m < j}
  <2>1. T \in SUBSET U /\ i \notin T /\ i \in U /\ U \in SUBSET F
    <3>1. \A m \in F : m \in Int
      OBVIOUS
    <3>2. T \subseteq U
      <4>1. SUFFICES ASSUME NEW m \in F, m < i PROVE m < j
        OBVIOUS
      <4> QED
        BY <1>3, <3>1, <4>1
    <3> QED
      BY <1>3, <3>1, <3>2
  <2> HIDE DEF T, U
  <2>2. IsFiniteSet(U)
    BY <1>1, <2>1, FS_Subset
  <2>3. Cardinality(T) <= Cardinality(U) /\ (Cardinality(U) = Cardinality(T) => U = T)
    BY <2>1, <2>2, FS_Subset
  <2>4. IsFiniteSet(T)
    BY <2>1, <2>2, FS_Subset
  <2>5. Cardinality(T) \in Nat /\ Cardinality(U) \in Nat
    BY <2>2, <2>4, FS_CardinalityType
  <2>6. Cardinality(T) < Cardinality(U)
    BY <2>1, <2>3, <2>5
  <2> QED
    BY <2>6 DEF Rank, T, U
<1> QED
  BY <1>2, <1>3

(* Compaction moves every used node to its rank.                           *)
LEMMA CompactedIs ==
  ASSUME NEW nodes \in Arrays(Node)
  PROVE  LET F == Filled(nodes)
             to == Compacted(nodes)
         IN  /\ to \in [0..(Span(nodes) - 1) -> Node]
             /\ \A i \in F : Rank(F, i) \in 0..(Span(nodes) - 1) /\ to[Rank(F, i)] = nodes[i]
             /\ \A j \in DOMAIN to : to[j].filled => \E i \in F : Rank(F, i) = j
             /\ \A i, j \in F : Rank(F, i) = Rank(F, j) => i = j
<1> DEFINE F == Filled(nodes)
           to == Compacted(nodes)
           k == Span(nodes)
<1>1. k \in Nat /\ nodes \in [0..(k - 1) -> Node]
  BY ArrayIs
<1>2. F \subseteq 0..(k - 1) /\ Cardinality(F) \in Nat /\ Cardinality(F) <= k
  BY FilledFinite
<1>3. \A i \in F : nodes[i].filled /\ nodes[i] \in Node
  BY <1>1 DEF Filled
<1>4. to = [j \in 0..(k - 1) |-> IF \E i \in F : Rank(F, i) = j
                                 THEN nodes[CHOOSE i \in F : Rank(F, i) = j] ELSE ZeroNode]
  BY <1>1 DEF Compacted, Rank
<1> HIDE DEF F, to, k
<1>5. \A i \in F : Rank(F, i) \in Nat /\ Rank(F, i) < Cardinality(F)
  BY <1>1, <1>2, RankIs
<1>6. ASSUME NEW i \in F, NEW j \in F, Rank(F, i) = Rank(F, j) PROVE i = j
  <2>1. i \in Int /\ j \in Int
    BY <1>2
  <2>2. i < j => Rank(F, i) < Rank(F, j)
    BY <1>1, <1>2, RankIs
  <2>3. j < i => Rank(F, j) < Rank(F, i)
    BY <1>1, <1>2, RankIs
  <2> QED
    BY <1>5, <1>6, <2>1, <2>2, <2>3
<1>7. \A i \in F : Rank(F, i) \in 0..(k - 1)
  BY <1>1, <1>2, <1>5
<1>8. ASSUME NEW i \in F PROVE to[Rank(F, i)] = nodes[i]
  <2>1. \A j \in F : Rank(F, j) = Rank(F, i) => j = i
    BY <1>6
  <2>2. (CHOOSE j \in F : Rank(F, j) = Rank(F, i)) = i
    BY <2>1
  <2> QED
    BY <1>4, <1>7, <2>2
<1>9. ZeroNode \in Node /\ ~ ZeroNode.filled
  BY HashMapConstants DEF ZeroNode, Node
<1>10. ASSUME NEW j \in 0..(k - 1)
       PROVE  to[j] \in Node /\ (to[j].filled => \E i \in F : Rank(F, i) = j)
  <2>1. CASE \E i \in F : Rank(F, i) = j
    <3>1. PICK i \in F : Rank(F, i) = j
      BY <2>1
    <3> QED
      BY <1>3, <1>8, <3>1
  <2>2. CASE ~ \E i \in F : Rank(F, i) = j
    BY <1>4, <1>9, <2>2
  <2> QED
    BY <2>1, <2>2
<1>11. DOMAIN to = 0..(k - 1) /\ to \in [0..(k - 1) -> Node]
  BY <1>4, <1>10
<1> QED
  BY <1>6, <1>7, <1>8, <1>10, <1>11 DEF F, to, k

LEMMA ResizedIs ==
  ASSUME NEW nodes \in Arrays(Node), NEW count \in Nat
  PROVE  LET to == Resized(nodes, count)
         IN  /\ to \in [0..(count - 1) -> Node]
             /\ \A i \in 0..(count - 1) : i \in 0..(Span(nodes) - 1) => to[i] = nodes[i]
             /\ \A i \in 0..(count - 1) : i \notin 0..(Span(nodes) - 1) => ~ to[i].filled
<1>1. nodes \in [0..(Span(nodes) - 1) -> Node]
  BY ArrayIs
<1>2. ZeroNode \in Node /\ ~ ZeroNode.filled
  BY HashMapConstants DEF ZeroNode, Node
<1> QED
  BY <1>1, <1>2 DEF Resized

(* Rehash loses no node, and moves none unless the span shrinks.           *)
LEMMA ShiftedIs ==
  ASSUME NEW nodes \in Arrays(Node), NEW count \in Nat, Cardinality(Filled(nodes)) <= count
  PROVE  /\ Shifted(nodes, count) \in [0..(count - 1) -> Node]
         /\ \E f : Carries(f, nodes, Shifted(nodes, count))
         /\ Span(nodes) <= count => \A i \in DOMAIN nodes : Shifted(nodes, count)[i] = nodes[i]
<1> DEFINE F == Filled(nodes)
           k == Span(nodes)
           to == Shifted(nodes, count)
<1>1. k \in Nat /\ nodes \in [0..(k - 1) -> Node]
  BY ArrayIs
<1>2. F \subseteq 0..(k - 1) /\ IsFiniteSet(F) /\ Cardinality(F) \in Nat
  BY FilledFinite
<1>3. \A i \in F : nodes[i].filled
  BY DEF Filled
<1>4. CASE Shrinks(nodes, count)
  <2> DEFINE c == Compacted(nodes)
  <2>1. to = Resized(c, count) /\ count < k
    BY <1>4 DEF Shifted, Shrinks
  <2>2. /\ c \in [0..(k - 1) -> Node]
        /\ \A i \in F : Rank(F, i) \in 0..(k - 1) /\ c[Rank(F, i)] = nodes[i]
        /\ \A j \in 0..(k - 1) : c[j].filled => \E i \in F : Rank(F, i) = j
        /\ \A i, j \in F : Rank(F, i) = Rank(F, j) => i = j
    BY CompactedIs
  <2>3. c \in Arrays(Node) /\ Span(c) = k
    BY <1>1, <2>2, ArrayMade
  <2> HIDE DEF c
  <2>4. /\ to \in [0..(count - 1) -> Node]
        /\ \A i \in 0..(count - 1) : i \in 0..(k - 1) => to[i] = c[i]
    BY <2>1, <2>3, ResizedIs
  <2> HIDE DEF to
  <2>5. \A i \in 0..(count - 1) : i \in 0..(k - 1) /\ to[i] = c[i]
    <3>1. \A i \in 0..(count - 1) : i \in 0..(k - 1)
      BY <1>1, <2>1
    <3> QED
      BY <2>4, <3>1
  <2>6. \A i \in F : Rank(F, i) \in 0..(count - 1)
    <3>1. \A i \in F : Rank(F, i) \in Nat /\ Rank(F, i) < Cardinality(F)
      <4> HIDE DEF F, k
      <4> QED
        BY <1>1, <1>2, RankIs
    <3> QED
      BY <1>2, <3>1
  <2> DEFINE f == [i \in F |-> Rank(F, i)]
  <2>7. \A i \in F : f[i] \in 0..(count - 1) /\ to[f[i]] = nodes[i]
    BY <2>2, <2>5, <2>6
  <2>8. Filled(to) = {j \in 0..(count - 1) : to[j].filled}
    BY <2>4 DEF Filled
  <2>9. f \in [F -> Filled(to)]
    BY <1>3, <2>7, <2>8
  <2>10. \A j \in Filled(to) : \E i \in F : f[i] = j
    BY <2>2, <2>5, <2>8
  <2>11. \A i, j \in F : f[i] = f[j] => i = j
    BY <2>2
  <2> HIDE DEF f
  <2>12. Carries(f, nodes, to)
    BY <2>7, <2>9, <2>10, <2>11 DEF Carries
  <2> QED
    BY <1>1, <2>1, <2>4, <2>12 DEF to
<1>5. CASE ~ Shrinks(nodes, count)
  <2>1. to = Resized(nodes, count)
    BY <1>5 DEF Shifted
  <2>2. /\ to \in [0..(count - 1) -> Node]
        /\ \A i \in 0..(count - 1) : i \in 0..(k - 1) => to[i] = nodes[i]
        /\ \A i \in 0..(count - 1) : i \notin 0..(k - 1) => ~ to[i].filled
    BY <2>1, ResizedIs
  <2> HIDE DEF to
  <2>3. k <= count \/ (count = 0 /\ F = {})
    <3>1. CASE count = 0
      <4>1. F = {}
        BY <1>2, <3>1, FS_EmptySet
      <4> QED
        BY <3>1, <4>1
    <3>2. CASE count > 0
      BY <1>1, <1>5, <3>2 DEF Shrinks
    <3> QED
      BY <3>1, <3>2
  <2>4. F \subseteq 0..(count - 1)
    BY <1>1, <1>2, <2>3
  <2>5. \A i \in F : to[i] = nodes[i] /\ i \in 0..(count - 1)
    BY <1>2, <2>2, <2>4
  <2>6. Filled(to) = F
    <3>1. Filled(to) = {j \in 0..(count - 1) : to[j].filled}
      BY <2>2 DEF Filled
    <3>2. F = {j \in 0..(k - 1) : nodes[j].filled}
      BY <1>1 DEF Filled
    <3>3. F \subseteq Filled(to)
      BY <1>3, <2>5, <3>1
    <3>4. Filled(to) \subseteq F
      BY <2>2, <3>1, <3>2
    <3> QED
      BY <3>3, <3>4
  <2> DEFINE f == [i \in F |-> i]
  <2>7. Carries(f, nodes, to)
    BY <2>5, <2>6 DEF Carries
  <2>8. k <= count => \A i \in 0..(k - 1) : to[i] = nodes[i]
    BY <1>1, <2>2
  <2> HIDE DEF f
  <2> QED
    BY <1>1, <2>2, <2>7, <2>8 DEF to
<1> QED
  BY <1>4, <1>5

(* Only links change when the nodes are linked.                            *)
LEMMA LinkedIs ==
  ASSUME NEW count \in Nat, NEW nodes \in [0..(count - 1) -> Node], NEW bucket
  PROVE  LET to == Linked(nodes, bucket)
         IN  /\ to \in [0..(count - 1) -> Node]
             /\ \A i \in 0..(count - 1) :
                  /\ to[i].key = nodes[i].key /\ to[i].value = nodes[i].value
                  /\ to[i].filled = nodes[i].filled
                  /\ to[i].next = Least({j \in 0..(count - 1) :
                                           /\ j > i /\ nodes[j].filled = nodes[i].filled
                                           /\ nodes[i].filled => bucket[j] = bucket[i]})
             /\ Filled(to) = Filled(nodes)
<1> DEFINE to == Linked(nodes, bucket)
           T(i) == {j \in 0..(count - 1) : /\ j > i /\ nodes[j].filled = nodes[i].filled
                                           /\ nodes[i].filled => bucket[j] = bucket[i]}
<1>1. to = [i \in 0..(count - 1) |-> [nodes[i] EXCEPT !.next = Least(T(i))]]
  BY DEF Linked
<1>2. ASSUME NEW i \in 0..(count - 1) PROVE Least(T(i)) \in Nat
  <2> DEFINE U == T(i)
  <2>1. U \subseteq Nat
    OBVIOUS
  <2> HIDE DEF U
  <2>2. U # {} => Least(U) \in Nat
    BY <2>1, LeastIs
  <2>3. U = {} => Least(U) \in Nat
    BY LeastIsNone, HashMapConstants
  <2> QED
    BY <2>2, <2>3 DEF U
<1> HIDE DEF to, T
<1>3. ASSUME NEW i \in 0..(count - 1)
      PROVE  /\ to[i] \in Node /\ to[i].next = Least(T(i))
             /\ to[i].key = nodes[i].key /\ to[i].value = nodes[i].value
             /\ to[i].filled = nodes[i].filled
  <2>1. nodes[i] \in Node /\ to[i] = [nodes[i] EXCEPT !.next = Least(T(i))]
    BY <1>1
  <2> DEFINE a == nodes[i]
             l == Least(T(i))
  <2>2. l \in Nat /\ a \in Node /\ to[i] = [a EXCEPT !.next = l]
    BY <1>2, <2>1
  <2> HIDE DEF a, l
  <2>3. /\ to[i] \in Node /\ to[i].next = l
        /\ to[i].key = a.key /\ to[i].value = a.value /\ to[i].filled = a.filled
    BY <2>2 DEF Node
  <2> QED
    BY <2>3 DEF a, l
<1>4. to \in [0..(count - 1) -> Node]
  BY <1>1, <1>3
<1>5. Filled(to) = Filled(nodes)
  BY <1>3, <1>4 DEF Filled
<1> QED
  BY <1>3, <1>4, <1>5 DEF to, T

(* The used nodes of a bucket, and the unused ones                         *)
InBucket(m, h) == {i \in Filled(m.nodes) : BucketOf(m.nodes[i].key, m.buckets) = h}
Spare(m) == DOMAIN m.nodes \ Filled(m.nodes)
Linkage(m) == \A h \in DOMAIN m.buckets : Chain(m.nodes, m.buckets[h], InBucket(m, h))
FreeList(m) == Chain(m.nodes, m.free_index, Spare(m))

(* A rehash keeps the entries and builds every link anew.                  *)
LEMMA RehashedIs ==
  ASSUME NEW m \in Table, m.size = Cardinality(Filled(m.nodes)), NEW wanted \in Nat
  PROVE  LET n == BucketCount(m.size, wanted)
             count == NodeCount(m.size, n)
             t == Rehashed(m, wanted)
         IN  /\ t \in Table /\ t.size = m.size
             /\ Span(t.buckets) = n /\ Span(t.nodes) = count
             /\ \E f : Carries(f, m.nodes, t.nodes)
             /\ Linkage(t) /\ FreeList(t)
             /\ Span(m.nodes) <= count =>
                  \A i \in DOMAIN m.nodes :
                    /\ i \in DOMAIN t.nodes /\ t.nodes[i].key = m.nodes[i].key
                    /\ t.nodes[i].value = m.nodes[i].value /\ t.nodes[i].filled = m.nodes[i].filled
             /\ ~ RehashPanics(m, wanted)
<1> DEFINE n == BucketCount(m.size, wanted)
           count == NodeCount(m.size, n)
           t == Rehashed(m, wanted)
           shifted == Shifted(m.nodes, count)
           bucketOf == [key \in Keys |-> HashMod(Hash[key], n)]
           bucket == [i \in DOMAIN shifted |-> bucketOf[shifted[i].key]]
           heads == [h \in 0..(n - 1) |-> Least({i \in Filled(shifted) : bucketOf[shifted[i].key] = h})]
           first == Least(DOMAIN shifted \ Filled(shifted))
<1>1. m.nodes \in Arrays(Node) /\ m.size \in Nat
  BY DEF Table
<1>2. n \in Nat /\ n * MAX_LOAD_FACTOR >= m.size * 100
  BY <1>1, BucketCountIs
<1>3. count \in Nat /\ m.size <= count
  <2>1. count \in Nat /\ (n > 0 => count > m.size)
    BY <1>1, <1>2, NodeCountIs
  <2>2. m.size > 0 => n > 0
    BY <1>1, BucketCountIs
  <2> HIDE DEF n, count
  <2> QED
    BY <1>1, <1>2, <2>1, <2>2
<1>4. t = [m EXCEPT !.nodes = Linked(shifted, bucket), !.buckets = heads, !.free_index = first]
  BY DEF Rehashed
<1>5. ~ RehashPanics(m, wanted)
  BY DEF RehashPanics
<1> HIDE DEF n, count, t, shifted
<1>6. /\ shifted \in [0..(count - 1) -> Node]
      /\ \E f : Carries(f, m.nodes, shifted)
      /\ Span(m.nodes) <= count => \A i \in DOMAIN m.nodes : shifted[i] = m.nodes[i]
  BY <1>1, <1>3, ShiftedIs DEF shifted
<1>7. Filled(shifted) = {i \in 0..(count - 1) : shifted[i].filled} /\ DOMAIN shifted = 0..(count - 1)
  BY <1>6 DEF Filled
<1> DEFINE to == Linked(shifted, bucket)
<1>8. /\ to \in [0..(count - 1) -> Node]
      /\ \A i \in 0..(count - 1) :
           /\ to[i].key = shifted[i].key /\ to[i].value = shifted[i].value
           /\ to[i].filled = shifted[i].filled
           /\ to[i].next = Least({j \in 0..(count - 1) :
                                    /\ j > i /\ shifted[j].filled = shifted[i].filled
                                    /\ shifted[i].filled => bucket[j] = bucket[i]})
      /\ Filled(to) = Filled(shifted)
  <2> HIDE DEF bucket
  <2> QED
    BY <1>3, <1>6, LinkedIs
<1> HIDE DEF to
<1>9. heads \in [0..(n - 1) -> Nat] /\ first \in Nat
  <2>1. ASSUME NEW S, S \subseteq Nat PROVE Least(S) \in Nat
    <3>1. S # {} => Least(S) \in Nat
      BY <2>1, LeastIs
    <3>2. S = {} => Least(S) \in Nat
      BY LeastIsNone, HashMapConstants
    <3> QED
      BY <3>1, <3>2
  <2>2. \A h \in 0..(n - 1) : {i \in Filled(shifted) : bucketOf[shifted[i].key] = h} \subseteq Nat
    BY <1>7
  <2>3. \A h \in 0..(n - 1) : heads[h] \in Nat
    BY <2>1, <2>2
  <2>4. (DOMAIN shifted \ Filled(shifted)) \subseteq Nat
    BY <1>7
  <2> QED
    BY <2>1, <2>3, <2>4
<1>10. /\ t \in Table /\ t.nodes = to /\ t.buckets = heads /\ t.free_index = first /\ t.size = m.size
       /\ Span(t.buckets) = n /\ Span(t.nodes) = count
  <2>1. t.nodes = to /\ t.buckets = heads /\ t.free_index = first /\ t.size = m.size
    BY <1>4 DEF Table, to
  <2> HIDE DEF heads, first
  <2>2. to \in Arrays(Node) /\ Span(to) = count
    BY <1>3, <1>8, ArrayMade
  <2>3. heads \in Arrays(Nat) /\ Span(heads) = n
    BY <1>2, <1>9, ArrayMade
  <2>4. t = [m EXCEPT !.nodes = to, !.buckets = heads, !.free_index = first]
    BY <1>4 DEF to
  <2>5. t \in Table
    BY <1>9, <2>2, <2>3, <2>4 DEF Table
  <2> QED
    BY <2>1, <2>2, <2>3, <2>5
<1>11. \A i \in 0..(count - 1) : shifted[i].key \in Keys
  BY <1>6 DEF Node
<1>12. ASSUME NEW h \in 0..(n - 1) PROVE Chain(to, heads[h], InBucket(t, h))
  <2> DEFINE S == {i \in Filled(shifted) : bucketOf[shifted[i].key] = h}
  <2>1. S \subseteq 0..(count - 1) /\ \A i \in S : shifted[i].filled /\ bucket[i] = h
    BY <1>7
  <2>2. InBucket(t, h) = S
    BY <1>7, <1>8, <1>10, <1>11 DEF InBucket, BucketOf
  <2>3. ASSUME NEW i \in S PROVE to[i].next = Least({j \in S : j > i})
    <3>1. {j \in 0..(count - 1) : /\ j > i /\ shifted[j].filled = shifted[i].filled
                                  /\ shifted[i].filled => bucket[j] = bucket[i]} = {j \in S : j > i}
      <4>1. \A j \in 0..(count - 1) : shifted[j].filled \in BOOLEAN
        BY <1>6 DEF Node
      <4>2. shifted[i].filled = TRUE
        BY <2>1, <4>1
      <4>3. \A j \in 0..(count - 1) : bucket[j] = bucketOf[shifted[j].key]
        BY <1>7
      <4>4. \A j \in 0..(count - 1) : j \in S <=> shifted[j].filled /\ bucket[j] = h
        BY <1>7, <4>3
      <4>5. bucket[i] = h
        BY <2>1
      <4> HIDE DEF S, bucket
      <4> QED
        BY <2>1, <4>1, <4>2, <4>4, <4>5
    <3> QED
      BY <1>8, <2>1, <3>1
  <2>4. heads[h] = Least(S)
    OBVIOUS
  <2>5. S \subseteq Nat
    BY <2>1
  <2> HIDE DEF S, heads
  <2>6. Chain(to, Least(S), S)
    BY <2>3, <2>5, ChainSorted
  <2> QED
    BY <2>2, <2>4, <2>6
<1>13. Chain(to, first, Spare(t))
  <2> DEFINE S == DOMAIN shifted \ Filled(shifted)
  <2>1. S = {i \in 0..(count - 1) : ~ shifted[i].filled}
    BY <1>7
  <2>2. Spare(t) = S
    BY <1>6, <1>8, <1>10 DEF Spare
  <2>3. ASSUME NEW i \in S PROVE to[i].next = Least({j \in S : j > i})
    <3>1. {j \in 0..(count - 1) : /\ j > i /\ shifted[j].filled = shifted[i].filled
                                  /\ shifted[i].filled => bucket[j] = bucket[i]} = {j \in S : j > i}
      <4>1. \A j \in 0..(count - 1) : shifted[j].filled \in BOOLEAN
        BY <1>6 DEF Node
      <4>2. shifted[i].filled = FALSE /\ i \in 0..(count - 1)
        BY <2>1, <4>1
      <4> HIDE DEF S, bucket
      <4> QED
        BY <2>1, <4>1, <4>2
    <3>2. i \in 0..(count - 1)
      BY <2>1
    <3> QED
      BY <1>8, <3>1, <3>2
  <2>4. S \subseteq Nat /\ first = Least(S)
    BY <2>1
  <2> HIDE DEF S, first
  <2>5. Chain(to, Least(S), S)
    BY <2>3, <2>4, ChainSorted
  <2> QED
    BY <2>2, <2>4, <2>5
<1>14. Linkage(t) /\ FreeList(t)
  <2>1. DOMAIN t.buckets = 0..(n - 1)
    BY <1>10
  <2> HIDE DEF heads, first
  <2> QED
    BY <1>10, <1>12, <1>13, <2>1 DEF Linkage, FreeList
<1>15. \E f : Carries(f, m.nodes, to)
  <2>1. PICK f : Carries(f, m.nodes, shifted)
    BY <1>6
  <2>2. \A i \in Filled(m.nodes) : f[i] \in 0..(count - 1)
    BY <1>7, <2>1 DEF Carries
  <2>3. Carries(f, m.nodes, to)
    BY <1>8, <2>1, <2>2 DEF Carries
  <2> QED
    BY <2>3
<1>16. Span(m.nodes) <= count =>
         \A i \in DOMAIN m.nodes :
           /\ i \in DOMAIN to /\ to[i].key = m.nodes[i].key
           /\ to[i].value = m.nodes[i].value /\ to[i].filled = m.nodes[i].filled
  <2>1. SUFFICES ASSUME Span(m.nodes) <= count, NEW i \in DOMAIN m.nodes
                 PROVE  /\ i \in DOMAIN to /\ to[i].key = m.nodes[i].key
                        /\ to[i].value = m.nodes[i].value /\ to[i].filled = m.nodes[i].filled
    OBVIOUS
  <2>2. Span(m.nodes) \in Nat /\ DOMAIN m.nodes = 0..(Span(m.nodes) - 1)
    BY <1>1, ArrayIs
  <2>3. i \in 0..(count - 1)
    BY <1>3, <2>1, <2>2
  <2> QED
    BY <1>6, <1>8, <2>1, <2>3
<1> QED
  BY <1>5, <1>10, <1>14, <1>15, <1>16 DEF n, count, t

-------------------------------------------------------------------------------
(* The map as a function.                                                  *)

UniqueKeys(m) ==
  \A i, j \in Filled(m.nodes) : m.nodes[i].key = m.nodes[j].key => i = j
Entries(m) == UniqueKeys(m) /\ m.size = Cardinality(Filled(m.nodes))
Holds(m, c) ==
  /\ DOMAIN c = {m.nodes[i].key : i \in Filled(m.nodes)}
  /\ \A i \in Filled(m.nodes) : c[m.nodes[i].key] = m.nodes[i].value
(* As many nodes as the load allows, and one more in a map with buckets.   *)
Room(m) ==
  /\ Span(m.nodes) <= INVALID_INDEX
  /\ Span(m.buckets) = 0 => Span(m.nodes) = 0
  /\ Span(m.buckets) > 0 => m.size < Span(m.nodes)
  /\ CeilDiv(Span(m.buckets) * MAX_LOAD_FACTOR, 100) <= Span(m.nodes)
  /\ Span(m.nodes) <= CeilDiv(Span(m.buckets) * MAX_LOAD_FACTOR, 100) + 1
Sound(m, c) == m \in Table /\ Entries(m) /\ Holds(m, c) /\ Room(m) /\ Linkage(m)

LEMMA SizeBound ==
  ASSUME NEW m \in Table, Entries(m)
  PROVE  m.size \in 0..Cardinality(Keys)
<1> DEFINE F == Filled(m.nodes)
           f == [i \in F |-> m.nodes[i].key]
<1>1. m.nodes \in Arrays(Node)
  BY DEF Table
<1>2. m.nodes \in [0..(Span(m.nodes) - 1) -> Node] /\ F \subseteq 0..(Span(m.nodes) - 1)
  BY <1>1, ArrayIs, FilledFinite
<1>3. f \in [F -> Keys] /\ \A i, j \in F : f[i] = f[j] => i = j
  BY <1>2 DEF Entries, UniqueKeys, Node
<1>4. f \in Injection(F, Keys)
  <2> HIDE DEF f, F
  <2> QED
    BY <1>3 DEF Injection, IsInjective
<1>5. IsFiniteSet(Keys)
  BY HashMapConstants
<1>6. Cardinality(F) <= Cardinality(Keys)
  <2> HIDE DEF f, F
  <2> QED
    BY <1>4, <1>5, FS_Injection
<1>7. Cardinality(Keys) \in Nat /\ Cardinality(F) \in Nat
  BY <1>1, <1>5, FS_CardinalityType, FilledFinite
<1> QED
  BY <1>6, <1>7 DEF Entries

(* Nodes that moved hold the same entries.                                 *)
LEMMA Carried ==
  ASSUME NEW m \in Table, NEW t \in Table, NEW c, NEW f, Carries(f, m.nodes, t.nodes),
         Entries(m), Holds(m, c), t.size = m.size
  PROVE  Entries(t) /\ Holds(t, c)
<1> DEFINE F == Filled(m.nodes)
           G == Filled(t.nodes)
<1>1. /\ f \in [F -> G] /\ \A i, j \in F : f[i] = f[j] => i = j
      /\ \A j \in G : \E i \in F : f[i] = j
      /\ \A i \in F : t.nodes[f[i]].key = m.nodes[i].key /\ t.nodes[f[i]].value = m.nodes[i].value
  BY DEF Carries
<1>2. IsFiniteSet(F)
  BY FilledFinite DEF Table
<1> HIDE DEF F, G
<1>3. f \in Bijection(F, G)
  BY <1>1 DEF Bijection, Injection, IsInjective, Surjection
<1>4. Cardinality(G) = Cardinality(F)
  BY <1>2, <1>3, FS_Bijection DEF ExistsBijection
<1>5. UniqueKeys(t)
  <2>1. SUFFICES ASSUME NEW i \in G, NEW j \in G, t.nodes[i].key = t.nodes[j].key PROVE i = j
    BY DEF UniqueKeys, G
  <2>2. PICK a \in F : f[a] = i
    BY <1>1
  <2>3. PICK b \in F : f[b] = j
    BY <1>1
  <2>4. m.nodes[a].key = m.nodes[b].key
    BY <1>1, <2>1, <2>2, <2>3
  <2>5. a = b
    BY <2>4 DEF Entries, UniqueKeys, F
  <2> QED
    BY <2>2, <2>3, <2>5
<1>6. {t.nodes[j].key : j \in G} = {m.nodes[i].key : i \in F}
  <2>1. \A j \in G : \E i \in F : t.nodes[j].key = m.nodes[i].key
    BY <1>1
  <2>2. \A i \in F : f[i] \in G /\ t.nodes[f[i]].key = m.nodes[i].key
    BY <1>1
  <2> QED
    BY <2>1, <2>2
<1>7. ASSUME NEW j \in G PROVE c[t.nodes[j].key] = t.nodes[j].value
  <2>1. PICK i \in F : f[i] = j
    BY <1>1
  <2>2. c[m.nodes[i].key] = m.nodes[i].value
    BY DEF Holds, F
  <2> QED
    BY <1>1, <2>1, <2>2
<1> QED
  BY <1>4, <1>5, <1>6, <1>7 DEF Entries, Holds, F, G

(* A rehash leaves a sound map.                                            *)
LEMMA RehashedSound ==
  ASSUME NEW m \in Table, NEW c, Entries(m), Holds(m, c), NEW wanted \in Nat, wanted \in Wanted(m.size)
  PROVE  LET t == Rehashed(m, wanted) IN
         Sound(t, c) /\ FreeList(t) /\ ~ RehashPanics(m, wanted)
         /\ Span(t.buckets) = BucketCount(m.size, wanted)
<1> DEFINE n == BucketCount(m.size, wanted)
           count == NodeCount(m.size, n)
           t == Rehashed(m, wanted)
<1>1. m.size \in Nat /\ m.size = Cardinality(Filled(m.nodes))
  BY DEF Table, Entries
<1>2. n \in Nat /\ n * MAX_LOAD_FACTOR >= m.size * 100
  BY <1>1, BucketCountIs
<1>3. /\ count \in Nat /\ (n > 0 => count > m.size) /\ (n = 0 => count = 0)
      /\ count >= CeilDiv(n * MAX_LOAD_FACTOR, 100)
      /\ count <= CeilDiv(n * MAX_LOAD_FACTOR, 100) + 1
  <2> HIDE DEF n
  <2> QED
    BY <1>1, <1>2, NodeCountIs
<1>4. count <= INVALID_INDEX
  BY SizeBound, HashMapRoom
<1>5. /\ t \in Table /\ t.size = m.size /\ Span(t.buckets) = n /\ Span(t.nodes) = count
      /\ \E f : Carries(f, m.nodes, t.nodes)
      /\ Linkage(t) /\ FreeList(t) /\ ~ RehashPanics(m, wanted)
  BY <1>1, RehashedIs
<1> HIDE DEF n, count, t
<1>6. Entries(t) /\ Holds(t, c)
  BY <1>5, Carried
<1>7. Room(t)
  BY <1>1, <1>2, <1>3, <1>4, <1>5 DEF Room
<1> QED
  BY <1>5, <1>6, <1>7 DEF Sound, n, t

-------------------------------------------------------------------------------
(* Looking a key up.                                                       *)

(* Where a key belongs in a map with buckets                               *)
LEMMA BucketIs ==
  ASSUME NEW m \in Table, m.buckets # Empty, NEW key \in Keys
  PROVE  BucketOf(key, m.buckets) \in DOMAIN m.buckets
<1>1. /\ Span(m.buckets) \in Nat /\ m.buckets \in [0..(Span(m.buckets) - 1) -> Nat]
      /\ Span(m.buckets) # 0
  BY ArrayIs DEF Table
<1> DEFINE n == Span(m.buckets)
           q == Hash[key]
<1>2. q \in Nat /\ n \in Nat /\ n > 0
  BY <1>1, HashMapConstants
<1>3. DOMAIN m.buckets = 0..(n - 1) /\ BucketOf(key, m.buckets) = HashMod(q, n)
  BY <1>1 DEF BucketOf
<1> HIDE DEF n, q
<1>4. HashMod(q, n) \in 0..(n - 1)
  BY <1>2, HashModIs
<1> QED
  BY <1>3, <1>4

(* No node has the index that says there is none.                          *)
LEMMA NodesAreValid ==
  ASSUME NEW m \in Table, Room(m)
  PROVE  /\ INVALID_INDEX \in Nat /\ INVALID_INDEX \notin DOMAIN m.nodes
         /\ Span(m.nodes) \in Nat /\ m.nodes \in [0..(Span(m.nodes) - 1) -> Node]
         /\ Filled(m.nodes) \subseteq 0..(Span(m.nodes) - 1)
<1>1. /\ Span(m.nodes) \in Nat /\ m.nodes \in [0..(Span(m.nodes) - 1) -> Node]
      /\ Filled(m.nodes) \subseteq 0..(Span(m.nodes) - 1)
  BY ArrayIs, FilledFinite DEF Table
<1>2. INVALID_INDEX \in Nat /\ Span(m.nodes) <= INVALID_INDEX
  BY HashMapConstants DEF Room
<1> QED
  BY <1>1, <1>2

(* The node with the key, with the one before it in its bucket; or none,   *)
(* and the last one of the bucket.                                         *)
Here(m, key, f) ==
  LET h == BucketOf(key, m.buckets)
      S == InBucket(m, h)
  IN  /\ f.node \in S /\ m.nodes[f.node].key = key
      /\ \/ f.prev = INVALID_INDEX /\ m.buckets[h] = f.node
         \/ f.prev \in S /\ m.nodes[f.prev].next = f.node
Nowhere(m, key, f) ==
  LET h == BucketOf(key, m.buckets)
      S == InBucket(m, h)
  IN  /\ f.node = INVALID_INDEX /\ \A i \in Filled(m.nodes) : m.nodes[i].key # key
      /\ \/ f.prev = INVALID_INDEX /\ S = {}
         \/ f.prev \in S /\ m.nodes[f.prev].next = INVALID_INDEX

LEMMA FindIs ==
  ASSUME NEW m, NEW c, Sound(m, c), m.buckets # Empty, NEW key \in Keys
  PROVE  ~ Find(m, key).hangs /\ (Here(m, key, Find(m, key)) \/ Nowhere(m, key, Find(m, key)))
<1> DEFINE h == BucketOf(key, m.buckets)
           S == InBucket(m, h)
           k == Span(m.nodes)
           nodes == m.nodes
           head == m.buckets[h]
           P == Path(nodes, head)
           stops == {i \in DOMAIN P : P[i] = INVALID_INDEX \/ nodes[P[i]].key = key}
           n == Least(stops)
           f == Find(m, key)
<1>1. m \in Table /\ Room(m) /\ Entries(m) /\ Linkage(m)
  BY DEF Sound
<1>2. h \in DOMAIN m.buckets
  BY <1>1, BucketIs
<1>3. k \in Nat /\ INVALID_INDEX \notin DOMAIN nodes /\ DOMAIN nodes = 0..(k - 1) /\ Filled(nodes) \subseteq 0..(k - 1)
  BY <1>1, NodesAreValid
<1>4. Chain(nodes, head, S)
  BY <1>1, <1>2 DEF Linkage
<1>5. S \subseteq 0..(k - 1) /\ INVALID_INDEX \notin S /\ S \subseteq Filled(nodes)
  BY <1>3 DEF InBucket
<1>6. \A i \in Filled(nodes) : nodes[i].key = key => i \in S
  BY DEF InBucket
<1>7. \A i, j \in S : nodes[i].key = key /\ nodes[j].key = key => i = j
  BY <1>1, <1>5 DEF Entries, UniqueKeys
<1>8. S = {} <=> head = INVALID_INDEX
  BY <1>4, <1>5, EmptyChain
<1>9. PICK r \in [S -> Int] : Ordered(nodes, head, S, r)
  BY <1>4 DEF Chain
<1>10. f = IF stops = {} THEN [node |-> INVALID_INDEX, prev |-> INVALID_INDEX, hangs |-> TRUE]
           ELSE [node |-> P[n], hangs |-> FALSE,
                 prev |-> IF n = 0 THEN INVALID_INDEX ELSE P[n - 1]]
  BY DEF Find
<1>11. /\ stops # {} /\ n \in 0..k
       /\ \/ P[n] \in S /\ nodes[P[n]].key = key
          \/ P[n] = INVALID_INDEX /\ \A i \in S : nodes[i].key # key
       /\ n = 0 => P[n] = head
       /\ n # 0 => P[n - 1] \in S /\ nodes[P[n - 1]].next = P[n] /\ nodes[P[n - 1]].key # key
  <2>1. Span(nodes) = k /\ S \subseteq 0..(k - 1)
    BY <1>5
  <2> HIDE DEF nodes, S, k, head
  <2>2. \A i, j \in S : nodes[i].key = key /\ nodes[j].key = key => i = j
    BY <1>7
  <2>3. Stops(nodes, head, S, k, key)
    BY <1>3, <1>5, <1>9, <2>1, <2>2, SearchStops
  <2> QED
    BY <2>3 DEF Stops
<1> HIDE DEF stops, n, P, f, h
<1>12. f = [node |-> P[n], hangs |-> FALSE, prev |-> IF n = 0 THEN INVALID_INDEX ELSE P[n - 1]]
  BY <1>10, <1>11
<1>13. f.node = P[n] /\ f.hangs = FALSE /\ f.prev = IF n = 0 THEN INVALID_INDEX ELSE P[n - 1]
  BY <1>12
<1>14. CASE P[n] \in S /\ nodes[P[n]].key = key
  <2>1. Here(m, key, f)
    BY <1>11, <1>13, <1>14 DEF Here, h
  <2> QED
    BY <1>13, <2>1 DEF f
<1>15. CASE P[n] = INVALID_INDEX /\ \A i \in S : nodes[i].key # key
  <2>1. \A i \in Filled(nodes) : nodes[i].key # key
    BY <1>6, <1>15
  <2>2. n = 0 => S = {}
    BY <1>8, <1>11, <1>15
  <2>3. Nowhere(m, key, f)
    BY <1>11, <1>13, <1>15, <2>1, <2>2 DEF Nowhere, h
  <2> QED
    BY <1>13, <2>3 DEF f
<1> QED
  BY <1>11, <1>14, <1>15

LEMMA FindInNone ==
  ASSUME NEW m, m.buckets = Empty, NEW key
  PROVE  Find(m, key).node = INVALID_INDEX /\ ~ Find(m, key).hangs
BY DEF Find

(* A map without buckets has no nodes.                                     *)
LEMMA NoBuckets ==
  ASSUME NEW m \in Table, Room(m), m.buckets = Empty
  PROVE  m.nodes = Empty /\ Filled(m.nodes) = {}
<1>1. Span(m.buckets) = 0
  BY ArrayIs DEF Table
<1>2. Span(m.nodes) = 0
  BY <1>1 DEF Room
<1>3. m.nodes = Empty
  BY <1>2, ArrayIs DEF Table
<1>4. Filled(m.nodes) \subseteq 0..(0 - 1)
  BY <1>2, FilledFinite DEF Table
<1> QED
  BY <1>3, <1>4

(* The function of the map is what looking keys up says.                   *)
LEMMA FindIsContent ==
  ASSUME NEW m, NEW c, Sound(m, c), NEW key \in Keys
  PROVE  LET i == Find(m, key).node IN
         IF key \in DOMAIN c THEN i # INVALID_INDEX /\ m.nodes[i].value = c[key] ELSE i = INVALID_INDEX
<1> DEFINE f == Find(m, key)
           i == f.node
<1>1. m \in Table /\ Room(m) /\ Holds(m, c)
  BY DEF Sound
<1>2. CASE m.buckets = Empty
  <2>1. Filled(m.nodes) = {}
    BY <1>1, <1>2, NoBuckets
  <2>2. key \notin DOMAIN c
    BY <1>1, <2>1 DEF Holds
  <2> QED
    BY <1>2, <2>2, FindInNone
<1>3. CASE m.buckets # Empty
  <2>1. Here(m, key, f) \/ Nowhere(m, key, f)
    BY <1>3, FindIs
  <2> HIDE DEF f
  <2>2. CASE Here(m, key, f)
    <3>1. i \in Filled(m.nodes) /\ m.nodes[i].key = key
      BY <2>2 DEF Here, InBucket
    <3>2. i # INVALID_INDEX
      BY <1>1, <3>1, NodesAreValid DEF Filled
    <3>3. key \in DOMAIN c /\ c[key] = m.nodes[i].value
      BY <1>1, <3>1 DEF Holds
    <3> QED
      BY <3>2, <3>3 DEF f
  <2>3. CASE Nowhere(m, key, f)
    <3>1. i = INVALID_INDEX /\ \A j \in Filled(m.nodes) : m.nodes[j].key # key
      BY <2>3 DEF Nowhere
    <3>2. key \notin DOMAIN c
      BY <1>1, <3>1 DEF Holds
    <3> QED
      BY <3>1, <3>2 DEF f
  <2> QED
    BY <2>1, <2>2, <2>3
<1> QED
  BY <1>2, <1>3
-------------------------------------------------------------------------------
(* What the three changes of a map's nodes leave: a node added, a node     *)
(* given back and a value written.                                         *)
Adds(m, t, key, prev) ==
  LET i == m.free_index
  IN  /\ t \in Table /\ t.size = m.size + 1 /\ t.free_index = m.nodes[i].next
      /\ DOMAIN t.nodes = DOMAIN m.nodes /\ DOMAIN t.buckets = DOMAIN m.buckets
      /\ t.nodes[i].key = key /\ t.nodes[i].value = ZeroValue
      /\ t.nodes[i].filled = TRUE /\ t.nodes[i].next = INVALID_INDEX
      /\ \A j \in DOMAIN m.nodes \ {i} :
           /\ t.nodes[j].key = m.nodes[j].key /\ t.nodes[j].value = m.nodes[j].value
           /\ t.nodes[j].filled = m.nodes[j].filled
           /\ t.nodes[j].next = IF j = prev THEN i ELSE m.nodes[j].next
      /\ \A h \in DOMAIN m.buckets :
           t.buckets[h] = IF prev = INVALID_INDEX /\ h = BucketOf(key, m.buckets) THEN i ELSE m.buckets[h]

Drops(m, t, key, i, prev) ==
  /\ t \in Table /\ t.size = m.size - 1 /\ t.free_index = i
  /\ DOMAIN t.nodes = DOMAIN m.nodes /\ DOMAIN t.buckets = DOMAIN m.buckets
  /\ t.nodes[i].filled = FALSE /\ t.nodes[i].next = m.free_index
  /\ \A j \in DOMAIN m.nodes \ {i} :
       /\ t.nodes[j].key = m.nodes[j].key /\ t.nodes[j].value = m.nodes[j].value
       /\ t.nodes[j].filled = m.nodes[j].filled
       /\ t.nodes[j].next = IF j = prev THEN m.nodes[i].next ELSE m.nodes[j].next
  /\ \A h \in DOMAIN m.buckets :
       t.buckets[h] = IF prev = INVALID_INDEX /\ h = BucketOf(key, m.buckets)
                      THEN m.nodes[i].next ELSE m.buckets[h]

Writes(m, t, i, v) ==
  /\ t \in Table /\ t.size = m.size /\ t.free_index = m.free_index /\ t.buckets = m.buckets
  /\ DOMAIN t.nodes = DOMAIN m.nodes
  /\ \A j \in DOMAIN m.nodes :
       /\ t.nodes[j].key = m.nodes[j].key /\ t.nodes[j].filled = m.nodes[j].filled
       /\ t.nodes[j].next = m.nodes[j].next
       /\ t.nodes[j].value = IF j = i THEN v ELSE m.nodes[j].value

LEMMA WrittenIs ==
  ASSUME NEW m \in Table, NEW i \in DOMAIN m.nodes, NEW v \in Values
  PROVE  Writes(m, [m EXCEPT !.nodes[i].value = v], i, v)
<1> DEFINE t == [m EXCEPT !.nodes[i].value = v]
           k == Span(m.nodes)
<1>1. k \in Nat /\ m.nodes \in [0..(k - 1) -> Node] /\ m.buckets \in Arrays(Nat)
      /\ m.size \in Nat /\ m.free_index \in Nat
  BY ArrayIs DEF Table
<1>2. t = [buckets |-> m.buckets, nodes |-> [m.nodes EXCEPT ![i].value = v],
           size |-> m.size, free_index |-> m.free_index]
  BY DEF Table
<1> DEFINE a == [m.nodes EXCEPT ![i].value = v]
<1>3. /\ a \in [0..(k - 1) -> Node]
      /\ \A j \in DOMAIN m.nodes :
           a[j] = IF j = i THEN [m.nodes[i] EXCEPT !.value = v] ELSE m.nodes[j]
  <2> HIDE DEF k
  <2> QED
    BY <1>1 DEF Node
<1>4. \A j \in DOMAIN m.nodes : m.nodes[j] \in Node
  <2> HIDE DEF k
  <2> QED
    BY <1>1
<1>5. \A j \in DOMAIN m.nodes :
        /\ a[j].key = m.nodes[j].key /\ a[j].filled = m.nodes[j].filled
        /\ a[j].next = m.nodes[j].next
        /\ a[j].value = IF j = i THEN v ELSE m.nodes[j].value
  <2> HIDE DEF a
  <2> QED
    BY <1>3, <1>4 DEF Node
<1>6. DOMAIN a = DOMAIN m.nodes
  OBVIOUS
<1> HIDE DEF a, k
<1>7. a \in Arrays(Node)
  BY <1>1, <1>3, ArrayMade
<1>8. t.nodes = a /\ t.size = m.size /\ t.free_index = m.free_index /\ t.buckets = m.buckets
  BY <1>2 DEF a
<1>9. t \in Table
  BY <1>1, <1>2, <1>7 DEF Table, a
<1> HIDE DEF t
<1>10. Writes(m, t, i, v)
  BY <1>5, <1>6, <1>8, <1>9 DEF Writes
<1> QED
  BY <1>10 DEF t

LEMMA AppendedIs ==
  ASSUME NEW m \in Table, Room(m), NEW key \in Keys,
         NEW prev, prev = INVALID_INDEX \/ prev \in DOMAIN m.nodes,
         m.free_index \in DOMAIN m.nodes, prev # m.free_index
  PROVE  Adds(m, Appended(m, key, prev), key, prev)
<1> DEFINE i == m.free_index
           k == Span(m.nodes)
           node == [key |-> key, value |-> ZeroValue, filled |-> TRUE, next |-> INVALID_INDEX]
           a == [m.nodes EXCEPT ![i] = node]
           h == BucketOf(key, m.buckets)
           b == IF prev = INVALID_INDEX THEN a ELSE [a EXCEPT ![prev].next = i]
           c == IF prev = INVALID_INDEX THEN [m.buckets EXCEPT ![h] = i] ELSE m.buckets
           t == Appended(m, key, prev)
<1>1. k \in Nat /\ m.nodes \in [0..(k - 1) -> Node] /\ INVALID_INDEX \in Nat /\ INVALID_INDEX \notin DOMAIN m.nodes
  BY NodesAreValid
<1>2. /\ Span(m.buckets) \in Nat /\ m.buckets \in [0..(Span(m.buckets) - 1) -> Nat]
      /\ m.size \in Nat /\ i \in Nat
  BY ArrayIs DEF Table
<1>3. t = [buckets |-> c, nodes |-> b, size |-> m.size + 1, free_index |-> m.nodes[i].next]
  <2>1. CASE prev = INVALID_INDEX
    BY <2>1 DEF Appended, Table
  <2>2. CASE prev # INVALID_INDEX
    BY <2>2 DEF Appended, Table
  <2> QED
    BY <2>1, <2>2
<1>4. node \in Node /\ node.key = key /\ node.value = ZeroValue /\ node.filled = TRUE /\ node.next = INVALID_INDEX
  BY <1>1, HashMapConstants DEF Node
<1>5. \A j \in DOMAIN m.nodes : m.nodes[j] \in Node
  <2> HIDE DEF k
  <2> QED
    BY <1>1
<1> HIDE DEF node
<1>6. a \in [DOMAIN m.nodes -> Node] /\ \A j \in DOMAIN m.nodes : a[j] = IF j = i THEN node ELSE m.nodes[j]
  BY <1>4, <1>5
<1> HIDE DEF a
<1>7. /\ b \in [DOMAIN m.nodes -> Node]
      /\ \A j \in DOMAIN m.nodes : b[j] = IF j = prev THEN [a[j] EXCEPT !.next = i] ELSE a[j]
  <2>1. CASE prev = INVALID_INDEX
    BY <1>1, <1>6, <2>1
  <2>2. CASE prev # INVALID_INDEX
    BY <1>2, <1>6, <2>2 DEF Node
  <2> QED
    BY <2>1, <2>2
<1> HIDE DEF b
<1>8. b[i] = node
  BY <1>6, <1>7
<1>9. ASSUME NEW j \in DOMAIN m.nodes \ {i}
      PROVE  /\ b[j].key = m.nodes[j].key /\ b[j].value = m.nodes[j].value
             /\ b[j].filled = m.nodes[j].filled
             /\ b[j].next = IF j = prev THEN i ELSE m.nodes[j].next
  <2>1. a[j] = m.nodes[j] /\ m.nodes[j] \in Node
    BY <1>5, <1>6
  <2>2. b[j] = IF j = prev THEN [m.nodes[j] EXCEPT !.next = i] ELSE m.nodes[j]
    BY <1>7, <2>1
  <2> QED
    BY <2>1, <2>2 DEF Node
<1>10. /\ c \in [DOMAIN m.buckets -> Nat]
       /\ \A g \in DOMAIN m.buckets :
            c[g] = IF prev = INVALID_INDEX /\ g = h THEN i ELSE m.buckets[g]
  <2> HIDE DEF h
  <2> QED
    BY <1>2
<1> HIDE DEF c
<1>11. b \in Arrays(Node) /\ c \in Arrays(Nat)
  <2>1. b \in [0..(k - 1) -> Node]
    BY <1>1, <1>7
  <2> DEFINE n == Span(m.buckets)
  <2>2. n \in Nat /\ c \in [0..(n - 1) -> Nat]
    BY <1>2, <1>10
  <2> HIDE DEF k, n
  <2> QED
    BY <1>1, <2>1, <2>2, ArrayMade
<1>12. m.nodes[i].next \in Nat
  BY <1>5 DEF Node
<1>13. t \in Table
  BY <1>2, <1>3, <1>11, <1>12 DEF Table
<1>14. t.nodes = b /\ t.buckets = c /\ t.size = m.size + 1 /\ t.free_index = m.nodes[i].next
  BY <1>3
<1> HIDE DEF t
<1>15. DOMAIN t.nodes = DOMAIN m.nodes /\ DOMAIN t.buckets = DOMAIN m.buckets
  BY <1>7, <1>10, <1>14
<1>16. Adds(m, t, key, prev)
  BY <1>4, <1>8, <1>9, <1>10, <1>13, <1>14, <1>15 DEF Adds
<1> QED
  BY <1>16 DEF t

LEMMA UnlinkedIs ==
  ASSUME NEW m \in Table, Room(m), NEW key \in Keys, NEW at,
         at.prev = INVALID_INDEX \/ at.prev \in DOMAIN m.nodes,
         at.node \in DOMAIN m.nodes, at.prev # at.node, m.size > 0
  PROVE  Drops(m, Unlinked(m, key, at), key, at.node, at.prev)
<1> DEFINE i == at.node
           prev == at.prev
           k == Span(m.nodes)
           after == m.nodes[i].next
           node == [ZeroNode EXCEPT !.next = m.free_index]
           a == [m.nodes EXCEPT ![i] = node]
           h == BucketOf(key, m.buckets)
           b == IF prev = INVALID_INDEX THEN a ELSE [a EXCEPT ![prev].next = after]
           c == IF prev = INVALID_INDEX THEN [m.buckets EXCEPT ![h] = after] ELSE m.buckets
           t == Unlinked(m, key, at)
<1>1. k \in Nat /\ m.nodes \in [0..(k - 1) -> Node] /\ INVALID_INDEX \in Nat /\ INVALID_INDEX \notin DOMAIN m.nodes
  BY NodesAreValid
<1>2. /\ Span(m.buckets) \in Nat /\ m.buckets \in [0..(Span(m.buckets) - 1) -> Nat]
      /\ m.size \in Nat /\ m.free_index \in Nat
  BY ArrayIs DEF Table
<1>3. t = [buckets |-> c, nodes |-> b, size |-> m.size - 1, free_index |-> i]
  <2>1. CASE prev = INVALID_INDEX
    BY <2>1 DEF Unlinked, Table
  <2>2. CASE prev # INVALID_INDEX
    BY <2>2 DEF Unlinked, Table
  <2> QED
    BY <2>1, <2>2
<1>4. node \in Node /\ node.filled = FALSE /\ node.next = m.free_index
  BY <1>2, HashMapConstants DEF Node, ZeroNode
<1>5. \A j \in DOMAIN m.nodes : m.nodes[j] \in Node
  <2> HIDE DEF k
  <2> QED
    BY <1>1
<1>6. after \in Nat /\ i \in Nat
  <2>1. i \in 0..(k - 1)
    BY <1>1
  <2> QED
    BY <1>5, <2>1 DEF Node
<1> HIDE DEF node, after
<1>7. a \in [DOMAIN m.nodes -> Node] /\ \A j \in DOMAIN m.nodes : a[j] = IF j = i THEN node ELSE m.nodes[j]
  BY <1>4, <1>5
<1> HIDE DEF a
<1>8. /\ b \in [DOMAIN m.nodes -> Node]
      /\ \A j \in DOMAIN m.nodes : b[j] = IF j = prev THEN [a[j] EXCEPT !.next = after] ELSE a[j]
  <2>1. CASE prev = INVALID_INDEX
    BY <1>1, <1>7, <2>1
  <2>2. CASE prev # INVALID_INDEX
    BY <1>6, <1>7, <2>2 DEF Node
  <2> QED
    BY <2>1, <2>2
<1> HIDE DEF b
<1>9. b[i] = node
  BY <1>7, <1>8
<1>10. ASSUME NEW j \in DOMAIN m.nodes \ {i}
       PROVE  /\ b[j].key = m.nodes[j].key /\ b[j].value = m.nodes[j].value
              /\ b[j].filled = m.nodes[j].filled
              /\ b[j].next = IF j = prev THEN after ELSE m.nodes[j].next
  <2>1. a[j] = m.nodes[j] /\ m.nodes[j] \in Node
    BY <1>5, <1>7
  <2>2. b[j] = IF j = prev THEN [m.nodes[j] EXCEPT !.next = after] ELSE m.nodes[j]
    BY <1>8, <2>1
  <2> QED
    BY <2>1, <2>2 DEF Node
<1>11. /\ c \in [DOMAIN m.buckets -> Nat]
       /\ \A g \in DOMAIN m.buckets :
            c[g] = IF prev = INVALID_INDEX /\ g = h THEN after ELSE m.buckets[g]
  <2> HIDE DEF h
  <2> QED
    BY <1>2, <1>6
<1> HIDE DEF c
<1>12. b \in Arrays(Node) /\ c \in Arrays(Nat)
  <2>1. b \in [0..(k - 1) -> Node]
    BY <1>1, <1>8
  <2> DEFINE n == Span(m.buckets)
  <2>2. n \in Nat /\ c \in [0..(n - 1) -> Nat]
    BY <1>2, <1>11
  <2> HIDE DEF k, n
  <2> QED
    BY <1>1, <2>1, <2>2, ArrayMade
<1>13. t \in Table
  <2>1. m.size - 1 \in Nat
    BY <1>2
  <2> QED
    BY <1>3, <1>6, <1>12, <2>1 DEF Table
<1>14. t.nodes = b /\ t.buckets = c /\ t.size = m.size - 1 /\ t.free_index = i
  BY <1>3
<1> HIDE DEF t
<1>15. DOMAIN t.nodes = DOMAIN m.nodes /\ DOMAIN t.buckets = DOMAIN m.buckets
  BY <1>8, <1>11, <1>14
<1>16. Drops(m, t, key, i, prev)
  BY <1>4, <1>9, <1>10, <1>11, <1>13, <1>14, <1>15 DEF Drops, after
<1> QED
  BY <1>16 DEF t
-------------------------------------------------------------------------------
(* The three changes leave a sound map.                                    *)
With(c, key, v) == [k \in DOMAIN c \cup {key} |-> IF k = key THEN v ELSE c[k]]
Without(c, key) == [k \in DOMAIN c \ {key} |-> c[k]]

LEMMA WriteSound ==
  ASSUME NEW m, NEW c, NEW t, NEW i, NEW v, Sound(m, c), i \in Filled(m.nodes), Writes(m, t, i, v)
  PROVE  /\ Sound(t, With(c, m.nodes[i].key, v))
         /\ FreeList(m) => FreeList(t)
         /\ Filled(t.nodes) = Filled(m.nodes)
<1> DEFINE F == Filled(m.nodes)
           key == m.nodes[i].key
           d == With(c, key, v)
<1>1. m \in Table /\ Entries(m) /\ Holds(m, c) /\ Room(m) /\ Linkage(m)
  BY DEF Sound
<1>2. /\ t \in Table /\ t.size = m.size /\ t.free_index = m.free_index /\ t.buckets = m.buckets
      /\ DOMAIN t.nodes = DOMAIN m.nodes
      /\ \A j \in DOMAIN m.nodes :
           /\ t.nodes[j].key = m.nodes[j].key /\ t.nodes[j].filled = m.nodes[j].filled
           /\ t.nodes[j].next = m.nodes[j].next
           /\ t.nodes[j].value = IF j = i THEN v ELSE m.nodes[j].value
  BY DEF Writes
<1>3. Filled(t.nodes) = F /\ F \subseteq DOMAIN m.nodes /\ i \in F
  BY <1>2 DEF Filled
<1>4. Entries(t)
  BY <1>1, <1>2, <1>3 DEF Entries, UniqueKeys
<1>5. Holds(t, d)
  <2>1. DOMAIN d = DOMAIN c \cup {key} /\ \A x \in DOMAIN d : d[x] = IF x = key THEN v ELSE c[x]
    BY DEF With
  <2>2. DOMAIN c = {m.nodes[j].key : j \in F} /\ \A j \in F : c[m.nodes[j].key] = m.nodes[j].value
    BY <1>1 DEF Holds
  <2> HIDE DEF F, d
  <2>3. DOMAIN d = {t.nodes[j].key : j \in F}
    BY <1>2, <1>3, <2>1, <2>2
  <2>4. ASSUME NEW j \in F PROVE d[t.nodes[j].key] = t.nodes[j].value
    <3>1. t.nodes[j].key = m.nodes[j].key /\ m.nodes[j].key \in DOMAIN d
      BY <1>2, <1>3, <2>1, <2>2
    <3>2. CASE j = i
      BY <1>2, <1>3, <2>1, <3>1, <3>2
    <3>3. CASE j # i
      <4>1. m.nodes[j].key # key
        BY <1>1, <1>3, <3>3 DEF Entries, UniqueKeys, F
      <4> QED
        BY <1>2, <1>3, <2>1, <2>2, <3>1, <3>3, <4>1
    <3> QED
      BY <3>2, <3>3
  <2> QED
    BY <1>3, <2>3, <2>4 DEF Holds
<1>6. Room(t)
  <2>1. Span(t.nodes) = Span(m.nodes) /\ Span(t.buckets) = Span(m.buckets)
    BY <1>2 DEF Span
  <2> QED
    BY <1>1, <1>2, <2>1 DEF Room
<1>7. Linkage(t)
  <2>1. SUFFICES ASSUME NEW h \in DOMAIN m.buckets PROVE Chain(t.nodes, m.buckets[h], InBucket(t, h))
    BY <1>2 DEF Linkage
  <2>2. InBucket(t, h) = InBucket(m, h) /\ InBucket(m, h) \subseteq F
    BY <1>2, <1>3 DEF InBucket
  <2>3. Chain(m.nodes, m.buckets[h], InBucket(m, h))
    BY <1>1 DEF Linkage
  <2>4. \A j \in InBucket(m, h) : t.nodes[j].next = m.nodes[j].next
    BY <1>2, <1>3, <2>2
  <2> QED
    BY <2>2, <2>3, <2>4, ChainKept
<1>8. ASSUME FreeList(m) PROVE FreeList(t)
  <2>1. Spare(t) = Spare(m) /\ \A j \in Spare(m) : t.nodes[j].next = m.nodes[j].next
    BY <1>2, <1>3 DEF Spare
  <2>2. Chain(m.nodes, m.free_index, Spare(m))
    BY <1>8 DEF FreeList
  <2>3. Chain(t.nodes, m.free_index, Spare(m))
    BY <2>1, <2>2, ChainKept
  <2> QED
    BY <1>2, <2>1, <2>3 DEF FreeList
<1> QED
  BY <1>2, <1>3, <1>4, <1>5, <1>6, <1>7, <1>8 DEF Sound

(* A map with buckets has a free node.                                     *)
LEMMA FreeNode ==
  ASSUME NEW m, NEW c, Sound(m, c), FreeList(m), m.buckets # Empty
  PROVE  m.free_index \in Spare(m) /\ INVALID_INDEX \notin Spare(m)
<1>1. m \in Table /\ Entries(m) /\ Room(m)
  BY DEF Sound
<1>2. Span(m.buckets) > 0
  BY <1>1, ArrayIs DEF Table
<1>3. m.size < Span(m.nodes)
  BY <1>1, <1>2 DEF Room
<1>4. INVALID_INDEX \notin Spare(m)
  BY <1>1, NodesAreValid DEF Spare
<1>5. Spare(m) # {}
  <2>1. SUFFICES ASSUME Spare(m) = {} PROVE FALSE
    OBVIOUS
  <2>2. Filled(m.nodes) = DOMAIN m.nodes
    BY <2>1 DEF Spare, Filled
  <2> QED
    BY <1>1, <1>3, <2>2 DEF Entries, Span, Table
<1>6. Chain(m.nodes, m.free_index, Spare(m))
  BY DEF FreeList
<1> QED
  BY <1>4, <1>5, <1>6, ChainPop

LEMMA AddSound ==
  ASSUME NEW m, NEW c, NEW t, NEW key \in Keys, NEW f, Sound(m, c), FreeList(m),
         m.buckets # Empty, Nowhere(m, key, f), Adds(m, t, key, f.prev)
  PROVE  /\ Entries(t) /\ Holds(t, With(c, key, ZeroValue)) /\ Linkage(t) /\ FreeList(t)
         /\ Filled(t.nodes) = Filled(m.nodes) \cup {m.free_index}
<1> DEFINE F == Filled(m.nodes)
           i == m.free_index
           prev == f.prev
           hk == BucketOf(key, m.buckets)
           d == With(c, key, ZeroValue)
<1>1. m \in Table /\ Entries(m) /\ Holds(m, c) /\ Room(m) /\ Linkage(m)
  BY DEF Sound
<1>2. /\ t \in Table /\ t.size = m.size + 1 /\ t.free_index = m.nodes[i].next
      /\ DOMAIN t.nodes = DOMAIN m.nodes /\ DOMAIN t.buckets = DOMAIN m.buckets
      /\ t.nodes[i].key = key /\ t.nodes[i].value = ZeroValue
      /\ t.nodes[i].filled = TRUE /\ t.nodes[i].next = INVALID_INDEX
      /\ \A j \in DOMAIN m.nodes \ {i} :
           /\ t.nodes[j].key = m.nodes[j].key /\ t.nodes[j].value = m.nodes[j].value
           /\ t.nodes[j].filled = m.nodes[j].filled
           /\ t.nodes[j].next = IF j = prev THEN i ELSE m.nodes[j].next
      /\ \A h \in DOMAIN m.buckets :
           t.buckets[h] = IF prev = INVALID_INDEX /\ h = hk THEN i ELSE m.buckets[h]
  BY DEF Adds
<1>3. i \in DOMAIN m.nodes /\ i \notin F /\ i # INVALID_INDEX
  BY FreeNode DEF Spare
<1>4. F \subseteq DOMAIN m.nodes
  BY DEF Filled
<1>5. Filled(t.nodes) = F \cup {i}
  BY <1>2, <1>3, <1>4 DEF Filled
<1>6. /\ \A j \in F : m.nodes[j].key # key
      /\ \/ prev = INVALID_INDEX /\ InBucket(m, hk) = {}
         \/ prev \in InBucket(m, hk) /\ m.nodes[prev].next = INVALID_INDEX
  BY DEF Nowhere
<1>7. Entries(t)
  <2>1. UniqueKeys(t)
    BY <1>1, <1>2, <1>3, <1>4, <1>5, <1>6 DEF Entries, UniqueKeys
  <2>2. IsFiniteSet(F) /\ m.size = Cardinality(F) /\ Cardinality(F) \in Nat
    BY <1>1, FilledFinite DEF Entries, Table
  <2>3. Cardinality(F \cup {i}) = Cardinality(F) + 1
    <3> HIDE DEF F, i
    <3> QED
      BY <1>3, <2>2, FS_AddElement
  <2> QED
    BY <1>2, <1>5, <2>1, <2>2, <2>3 DEF Entries
<1>8. Holds(t, d)
  <2>1. DOMAIN d = DOMAIN c \cup {key} /\ \A x \in DOMAIN d : d[x] = IF x = key THEN ZeroValue ELSE c[x]
    BY DEF With
  <2>2. DOMAIN c = {m.nodes[j].key : j \in F} /\ \A j \in F : c[m.nodes[j].key] = m.nodes[j].value
    BY <1>1 DEF Holds
  <2> HIDE DEF F, d, i
  <2>3. \A j \in F : t.nodes[j].key = m.nodes[j].key /\ t.nodes[j].value = m.nodes[j].value
    BY <1>2, <1>3, <1>4
  <2>4. DOMAIN d = {t.nodes[j].key : j \in F \cup {i}}
    BY <1>2, <2>1, <2>2, <2>3
  <2>5. \A j \in F \cup {i} : d[t.nodes[j].key] = t.nodes[j].value
    BY <1>2, <1>6, <2>1, <2>2, <2>3
  <2> QED
    BY <1>5, <2>4, <2>5 DEF Holds
<1>9. ASSUME NEW j PROVE BucketOf(j, t.buckets) = BucketOf(j, m.buckets)
  BY <1>2 DEF BucketOf, Span
<1>10. \A h : InBucket(t, h) = IF h = hk THEN InBucket(m, h) \cup {i} ELSE InBucket(m, h)
  <2> TAKE h
  <2>1. InBucket(t, h) = {j \in F \cup {i} : BucketOf(t.nodes[j].key, m.buckets) = h}
    BY <1>5, <1>9 DEF InBucket
  <2>2. \A j \in F : t.nodes[j].key = m.nodes[j].key
    BY <1>2, <1>3, <1>4
  <2>3. InBucket(m, h) = {j \in F : BucketOf(m.nodes[j].key, m.buckets) = h}
    BY DEF InBucket
  <2>4. t.nodes[i].key = key
    BY <1>2
  <2> HIDE DEF F, i
  <2> QED
    BY <2>1, <2>2, <2>3, <2>4
<1>11. INVALID_INDEX \notin DOMAIN m.nodes /\ \A h : InBucket(m, h) \subseteq F
  BY <1>1, NodesAreValid DEF InBucket
<1>12. Linkage(t)
  <2>1. SUFFICES ASSUME NEW h \in DOMAIN m.buckets PROVE Chain(t.nodes, t.buckets[h], InBucket(t, h))
    BY <1>2 DEF Linkage
  <2> DEFINE S == InBucket(m, h)
  <2>2. Chain(m.nodes, m.buckets[h], S)
    BY <1>1 DEF Linkage
  <2>3. S \subseteq DOMAIN m.nodes \ {i} /\ INVALID_INDEX \notin S /\ i \notin S
    BY <1>3, <1>4, <1>11
  <2>4. CASE h # hk
    <3>1. \A j \in S : t.nodes[j].next = m.nodes[j].next
      <4>1. prev \notin S \/ prev = INVALID_INDEX
        BY <1>6, <2>4 DEF InBucket
      <4> HIDE DEF S
      <4> QED
        BY <1>2, <2>3, <4>1
    <3>2. InBucket(t, h) = S /\ t.buckets[h] = m.buckets[h]
      BY <1>2, <1>10, <2>4
    <3> HIDE DEF S
    <3> QED
      BY <2>2, <3>1, <3>2, ChainKept
  <2>5. CASE h = hk /\ prev = INVALID_INDEX /\ S = {}
    <3>1. InBucket(t, h) = {i} /\ t.buckets[h] = i
      BY <1>2, <1>10, <2>5
    <3>2. t.nodes[i].next = INVALID_INDEX
      BY <1>2
    <3> QED
      BY <1>3, <3>1, <3>2, ChainOfOne
  <2>6. CASE h = hk /\ prev \in S /\ m.nodes[prev].next = INVALID_INDEX
    <3>1. prev # INVALID_INDEX
      BY <2>3, <2>6
    <3>2. InBucket(t, h) = S \cup {i} /\ t.buckets[h] = m.buckets[h]
      BY <1>2, <1>10, <2>6, <3>1
    <3>3. \A j \in S \ {prev} : t.nodes[j].next = m.nodes[j].next
      BY <1>2, <2>3
    <3>4. t.nodes[prev].next = i /\ t.nodes[i].next = INVALID_INDEX
      BY <1>2, <2>3, <2>6
    <3> DEFINE x == i
    <3>5. x \notin S /\ x # INVALID_INDEX /\ t.nodes[prev].next = x /\ t.nodes[x].next = INVALID_INDEX
      BY <1>3, <2>3, <3>4
    <3> HIDE DEF S, x
    <3>6. Chain(t.nodes, m.buckets[h], S \cup {x})
      BY <2>2, <2>3, <2>6, <3>3, <3>5, ChainAppend
    <3> QED
      BY <3>2, <3>6 DEF x
  <2> QED
    BY <1>6, <2>4, <2>5, <2>6
<1>13. FreeList(t)
  <2> DEFINE S == Spare(m)
  <2>1. Spare(t) = S \ {i}
    BY <1>2, <1>5 DEF Spare
  <2>2. Chain(m.nodes, i, S) /\ S # {} /\ INVALID_INDEX \notin S
    BY FreeNode DEF FreeList
  <2>3. \A j \in S \ {i} : t.nodes[j].next = m.nodes[j].next
    <3>1. prev \notin S
      BY <1>6, <1>11 DEF Spare
    <3>2. S \subseteq DOMAIN m.nodes
      BY DEF Spare
    <3> HIDE DEF S
    <3> QED
      BY <1>2, <3>1, <3>2
  <2> HIDE DEF S
  <2>4. Chain(t.nodes, m.nodes[i].next, S \ {i})
    BY <2>2, <2>3, ChainPop
  <2> QED
    BY <1>2, <2>1, <2>4 DEF FreeList
<1> QED
  BY <1>5, <1>7, <1>8, <1>12, <1>13

LEMMA DropSound ==
  ASSUME NEW m, NEW c, NEW t, NEW key \in Keys, NEW f, Sound(m, c), FreeList(m),
         Here(m, key, f), Drops(m, t, key, f.node, f.prev)
  PROVE  /\ Sound(t, Without(c, key)) /\ FreeList(t)
         /\ Filled(t.nodes) = Filled(m.nodes) \ {f.node}
<1> DEFINE F == Filled(m.nodes)
           i == f.node
           prev == f.prev
           hk == BucketOf(key, m.buckets)
           d == Without(c, key)
<1>1. m \in Table /\ Entries(m) /\ Holds(m, c) /\ Room(m) /\ Linkage(m)
  BY DEF Sound
<1>2. /\ t \in Table /\ t.size = m.size - 1 /\ t.free_index = i
      /\ DOMAIN t.nodes = DOMAIN m.nodes /\ DOMAIN t.buckets = DOMAIN m.buckets
      /\ t.nodes[i].filled = FALSE /\ t.nodes[i].next = m.free_index
      /\ \A j \in DOMAIN m.nodes \ {i} :
           /\ t.nodes[j].key = m.nodes[j].key /\ t.nodes[j].value = m.nodes[j].value
           /\ t.nodes[j].filled = m.nodes[j].filled
           /\ t.nodes[j].next = IF j = prev THEN m.nodes[i].next ELSE m.nodes[j].next
      /\ \A h \in DOMAIN m.buckets :
           t.buckets[h] = IF prev = INVALID_INDEX /\ h = hk THEN m.nodes[i].next ELSE m.buckets[h]
  BY DEF Drops
<1>3. /\ i \in InBucket(m, hk) /\ m.nodes[i].key = key
      /\ \/ prev = INVALID_INDEX /\ m.buckets[hk] = i
         \/ prev \in InBucket(m, hk) /\ m.nodes[prev].next = i
  BY DEF Here
<1>4. /\ F \subseteq DOMAIN m.nodes /\ i \in F /\ INVALID_INDEX \notin DOMAIN m.nodes
      /\ \A h : InBucket(m, h) \subseteq F
  BY <1>1, <1>3, NodesAreValid DEF Filled, InBucket
<1>5. Filled(t.nodes) = F \ {i}
  BY <1>2, <1>4 DEF Filled
<1>6. Entries(t)
  <2>1. UniqueKeys(t)
    BY <1>1, <1>2, <1>4, <1>5 DEF Entries, UniqueKeys
  <2>2. IsFiniteSet(F) /\ m.size = Cardinality(F) /\ Cardinality(F) \in Nat
    BY <1>1, FilledFinite DEF Entries, Table
  <2>3. Cardinality(F \ {i}) = Cardinality(F) - 1
    <3> HIDE DEF F, i
    <3> QED
      BY <1>4, <2>2, FS_RemoveElement
  <2> QED
    BY <1>2, <1>5, <2>1, <2>2, <2>3 DEF Entries
<1>7. \A j \in F : j # i => m.nodes[j].key # key
  BY <1>1, <1>3, <1>4 DEF Entries, UniqueKeys
<1>8. Holds(t, d)
  <2>1. DOMAIN d = DOMAIN c \ {key} /\ \A x \in DOMAIN d : d[x] = c[x]
    BY DEF Without
  <2>2. DOMAIN c = {m.nodes[j].key : j \in F} /\ \A j \in F : c[m.nodes[j].key] = m.nodes[j].value
    BY <1>1 DEF Holds
  <2> HIDE DEF F, d, i
  <2>3. \A j \in F \ {i} : t.nodes[j].key = m.nodes[j].key /\ t.nodes[j].value = m.nodes[j].value
    BY <1>2, <1>4
  <2>4. DOMAIN d = {t.nodes[j].key : j \in F \ {i}}
    BY <1>3, <1>7, <2>1, <2>2, <2>3
  <2>5. \A j \in F \ {i} : d[t.nodes[j].key] = t.nodes[j].value
    BY <1>7, <2>1, <2>2, <2>3
  <2> QED
    BY <1>5, <2>4, <2>5 DEF Holds
<1>9. ASSUME NEW j PROVE BucketOf(j, t.buckets) = BucketOf(j, m.buckets)
  BY <1>2 DEF BucketOf, Span
<1>10. \A h : InBucket(t, h) = InBucket(m, h) \ {i}
  <2> TAKE h
  <2>1. InBucket(t, h) = {j \in F \ {i} : BucketOf(t.nodes[j].key, m.buckets) = h}
    BY <1>5, <1>9 DEF InBucket
  <2>2. \A j \in F \ {i} : t.nodes[j].key = m.nodes[j].key
    BY <1>2, <1>4
  <2>3. InBucket(m, h) = {j \in F : BucketOf(m.nodes[j].key, m.buckets) = h}
    BY DEF InBucket
  <2> HIDE DEF F, i
  <2> QED
    BY <2>1, <2>2, <2>3
<1>11. Linkage(t)
  <2>1. SUFFICES ASSUME NEW h \in DOMAIN m.buckets PROVE Chain(t.nodes, t.buckets[h], InBucket(t, h))
    BY <1>2 DEF Linkage
  <2> DEFINE S == InBucket(m, h)
             x == i
  <2>2. Chain(m.nodes, m.buckets[h], S)
    BY <1>1 DEF Linkage
  <2>3. S \subseteq DOMAIN m.nodes /\ INVALID_INDEX \notin S /\ InBucket(t, h) = S \ {x}
    BY <1>4, <1>10
  <2>4. CASE h # hk
    <3>1. x \notin S /\ (prev \notin S \/ prev = INVALID_INDEX)
      BY <1>3, <2>4 DEF InBucket
    <3>2. S \ {x} = S /\ t.buckets[h] = m.buckets[h]
      BY <1>2, <2>4, <3>1
    <3>3. \A j \in S : t.nodes[j].next = m.nodes[j].next
      <4> HIDE DEF S
      <4> QED
        BY <1>2, <2>3, <3>1
    <3> HIDE DEF S, x
    <3> QED
      BY <2>2, <2>3, <3>2, <3>3, ChainKept
  <2>5. CASE h = hk /\ prev = INVALID_INDEX /\ m.buckets[hk] = i
    <3>1. t.buckets[h] = m.nodes[x].next /\ m.buckets[h] = x
      BY <1>2, <2>5
    <3>2. S # {}
      BY <1>3, <2>5
    <3>3. \A j \in S \ {x} : t.nodes[j].next = m.nodes[j].next
      BY <1>2, <2>3, <2>5
    <3> HIDE DEF S, x
    <3>4. Chain(t.nodes, m.nodes[x].next, S \ {x})
      BY <2>2, <2>3, <3>1, <3>2, <3>3, ChainPop
    <3> QED
      BY <2>3, <3>1, <3>4
  <2>6. CASE h = hk /\ prev \in S /\ m.nodes[prev].next = i
    <3>1. prev # INVALID_INDEX
      BY <2>3, <2>6
    <3>2. t.buckets[h] = m.buckets[h] /\ x \in S /\ m.nodes[prev].next = x
      BY <1>2, <1>3, <2>6, <3>1
    <3>3. \A j \in S \ {x, prev} : t.nodes[j].next = m.nodes[j].next
      BY <1>2, <2>3
    <3>4. prev # x
      <4>1. PICK r \in [S -> Int] : Ordered(m.nodes, m.buckets[h], S, r)
        BY <2>2 DEF Chain
      <4> HIDE DEF S, x
      <4>2. Follows(m.nodes, S, r, prev) /\ m.nodes[prev].next \in S
        BY <2>6, <3>2, <4>1 DEF Ordered
      <4> QED
        BY <2>3, <2>6, <3>2, <4>1, <4>2 DEF Follows
    <3>5. t.nodes[prev].next = m.nodes[x].next
      BY <1>2, <2>3, <2>6, <3>4
    <3> HIDE DEF S, x
    <3>6. Chain(t.nodes, m.buckets[h], S \ {x})
      BY <2>2, <2>3, <2>6, <3>2, <3>3, <3>5, ChainCut
    <3> QED
      BY <2>3, <3>2, <3>6
  <2> QED
    BY <1>3, <2>4, <2>5, <2>6
<1>12. FreeList(t)
  <2> DEFINE S == Spare(m)
             x == i
  <2>1. Spare(t) = S \cup {x}
    BY <1>2, <1>4, <1>5 DEF Spare
  <2>2. Chain(m.nodes, m.free_index, S) /\ INVALID_INDEX \notin S /\ x \notin S
    BY <1>4 DEF FreeList, Spare
  <2>3. \A j \in S : t.nodes[j].next = m.nodes[j].next
    <3>1. prev \notin S
      BY <1>3, <1>4 DEF Spare
    <3>2. S \subseteq DOMAIN m.nodes
      BY DEF Spare
    <3> HIDE DEF S
    <3> QED
      BY <1>2, <2>2, <3>1, <3>2
  <2>4. t.nodes[x].next = m.free_index /\ t.free_index = x
    BY <1>2
  <2> HIDE DEF S, x
  <2>5. Chain(t.nodes, x, S \cup {x})
    BY <2>2, <2>3, <2>4, ChainPush
  <2> QED
    BY <2>1, <2>4, <2>5 DEF FreeList
<1>13. Room(t)
  <2>1. Span(t.nodes) = Span(m.nodes) /\ Span(t.buckets) = Span(m.buckets)
    BY <1>2 DEF Span
  <2>2. m.size \in Nat /\ t.size < m.size
    BY <1>1, <1>2 DEF Table
  <2>3. t.size \in Nat /\ Span(m.nodes) \in Nat
    BY <1>1, <1>2, NodesAreValid DEF Table
  <2> QED
    BY <1>1, <2>1, <2>2, <2>3 DEF Room
<1> QED
  BY <1>2, <1>5, <1>6, <1>8, <1>11, <1>12, <1>13 DEF Sound
-------------------------------------------------------------------------------
(* What the calls do to a sound map.                                       *)

(* Nodes that keep their index and, of the keys of K, their key            *)
Stays(m, t, K) ==
  \A i \in Filled(m.nodes) : m.nodes[i].key \in K =>
    i \in Filled(t.nodes) /\ t.nodes[i].key = m.nodes[i].key

LEMMA PreparedIs ==
  ASSUME NEW m, NEW c, Sound(m, c), m.buckets # Empty => FreeList(m)
  PROVE  /\ Sound(Prepared(m), c) /\ FreeList(Prepared(m)) /\ Prepared(m).buckets # Empty
         /\ Stays(m, Prepared(m), Keys)
<1>1. m \in Table /\ Entries(m) /\ Holds(m, c) /\ Room(m)
  BY DEF Sound
<1>2. CASE m.buckets # Empty
  <2>1. Prepared(m) = m
    BY <1>2 DEF Prepared
  <2> QED
    BY <1>2, <2>1 DEF Stays
<1>3. CASE m.buckets = Empty
  <2> DEFINE t == Rehashed(m, INIT_CAPACITY)
             n == BucketCount(m.size, INIT_CAPACITY)
  <2>1. INIT_CAPACITY \in Nat /\ INIT_CAPACITY > 0 /\ INIT_CAPACITY \in Wanted(m.size)
    BY HashMapConstants DEF Wanted
  <2>2. Sound(t, c) /\ FreeList(t) /\ Span(t.buckets) = n
    BY <1>1, <2>1, RehashedSound
  <2>3. m.size \in Nat
    BY <1>1 DEF Table
  <2>4. n \in Nat /\ n > 0
    <3> DEFINE w == INIT_CAPACITY
    <3>1. w \in Nat /\ w > 0
      BY <2>1
    <3> HIDE DEF w
    <3>2. BucketCount(m.size, w) \in Nat /\ BucketCount(m.size, w) >= w
      BY <2>3, <3>1, BucketCountIs
    <3> QED
      BY <3>1, <3>2 DEF w
  <2>5. t.buckets \in Arrays(Nat)
    BY <2>2 DEF Sound, Table
  <2> HIDE DEF n
  <2>6. t.buckets # Empty
    <3> DEFINE b == t.buckets
    <3>1. Span(b) # 0 /\ b \in Arrays(Nat)
      BY <2>2, <2>4, <2>5
    <3> HIDE DEF b
    <3>2. b # Empty
      BY <3>1, ArrayIs
    <3> QED
      BY <3>2 DEF b
  <2>7. Filled(m.nodes) = {}
    BY <1>1, <1>3, NoBuckets
  <2>8. Prepared(m) = t
    BY <1>3 DEF Prepared
  <2> HIDE DEF t
  <2> QED
    BY <2>2, <2>6, <2>7, <2>8 DEF Stays
<1> QED
  BY <1>2, <1>3

(* Growing a map that is at the load limit moves no node.                  *)
LEMMA GrownIs ==
  ASSUME NEW m \in Table, NEW c, Entries(m), Holds(m, c), m.size > 0, Overloaded(m),
         Span(m.nodes) <= CeilDiv(Span(m.buckets) * MAX_LOAD_FACTOR, 100) + 1
  PROVE  LET g == Rehashed(m, GrowCount(m)) IN
         /\ Sound(g, c) /\ FreeList(g) /\ ~ RehashPanics(m, GrowCount(m))
         /\ \A i \in DOMAIN m.nodes :
              /\ i \in DOMAIN g.nodes /\ g.nodes[i].key = m.nodes[i].key
              /\ g.nodes[i].value = m.nodes[i].value /\ g.nodes[i].filled = m.nodes[i].filled
<1> DEFINE wanted == GrowCount(m)
           load == Span(m.buckets) * MAX_LOAD_FACTOR
           n == BucketCount(m.size, wanted)
           count == NodeCount(m.size, n)
           g == Rehashed(m, wanted)
<1>1. /\ m.size \in Nat /\ m.size = Cardinality(Filled(m.nodes))
      /\ Span(m.nodes) \in Nat /\ Span(m.buckets) \in Nat
  BY ArrayIs DEF Table, Entries
<1>2. MAX_LOAD_FACTOR \in Nat /\ MAX_LOAD_FACTOR > 0 /\ GROW_RATE \in Nat
  BY HashMapConstants
<1>3. m.size * GROW_RATE \in Nat
  BY <1>1, <1>2
<1>4. wanted \in Nat /\ wanted \in Wanted(m.size)
  <2>1. wanted \in Nat
    BY <1>2, <1>3, CeilDivIs DEF GrowCount
  <2>2. wanted \in Wanted(m.size)
    BY DEF Wanted, GrowCount
  <2> QED
    BY <2>1, <2>2
<1>5. load \in Nat /\ load <= m.size * 100
  BY <1>1, <1>2 DEF Overloaded
<1> HIDE DEF load, wanted
<1>6. CeilDiv(load, 100) <= m.size /\ CeilDiv(load, 100) \in Nat
  BY <1>1, <1>5, CeilDivIsLeast, CeilDivIs
<1>7. Span(m.nodes) <= m.size + 1
  BY <1>1, <1>6 DEF load
<1>8. n \in Nat /\ n > 0 /\ n * MAX_LOAD_FACTOR >= m.size * 100
  BY <1>1, <1>4, BucketCountIs
<1> HIDE DEF n
<1>9. count \in Nat /\ count > m.size
  BY <1>1, <1>8, NodeCountIs
<1> HIDE DEF count
<1>10. Span(m.nodes) <= count
  BY <1>1, <1>7, <1>9
<1>11. Sound(g, c) /\ FreeList(g) /\ ~ RehashPanics(m, wanted)
  BY <1>4, RehashedSound
<1>12. Span(m.nodes) <= count =>
         \A i \in DOMAIN m.nodes :
           /\ i \in DOMAIN g.nodes /\ g.nodes[i].key = m.nodes[i].key
           /\ g.nodes[i].value = m.nodes[i].value /\ g.nodes[i].filled = m.nodes[i].filled
  BY <1>1, <1>4, RehashedIs DEF count, n
<1> QED
  BY <1>10, <1>11, <1>12 DEF wanted

(* The map to whose node _at returned the index                            *)
Added(m, key, prev) ==
  LET a == Appended(m, key, prev)
  IN  IF Overloaded(a) THEN Rehashed(a, GrowCount(a)) ELSE a

LEMMA AddedIs ==
  ASSUME NEW m, NEW c, NEW key \in Keys, NEW f, Sound(m, c), FreeList(m), m.buckets # Empty,
         Nowhere(m, key, f)
  PROVE  LET i == m.free_index
             t == Added(m, key, f.prev)
         IN  /\ ~ AddPanics(m, key, f.prev)
             /\ Sound(t, With(c, key, ZeroValue)) /\ FreeList(t) /\ Stays(m, t, Keys)
             /\ i \in Filled(t.nodes) /\ t.nodes[i].key = key /\ t.nodes[i].value = ZeroValue
<1> DEFINE i == m.free_index
           prev == f.prev
           a == Appended(m, key, prev)
           d == With(c, key, ZeroValue)
           t == Added(m, key, prev)
<1>1. m \in Table /\ Room(m) /\ Entries(m)
  BY DEF Sound
<1>2. i \in Spare(m) /\ i \in DOMAIN m.nodes /\ i \notin Filled(m.nodes)
  BY FreeNode DEF Spare
<1>3. prev = INVALID_INDEX \/ (prev \in DOMAIN m.nodes /\ prev \in Filled(m.nodes))
  BY DEF Nowhere, InBucket, Filled
<1>4. i # INVALID_INDEX
  BY FreeNode
<1>5. Adds(m, a, key, prev)
  BY <1>1, <1>2, <1>3, <1>4, AppendedIs
<1> HIDE DEF a
<1>6. /\ Entries(a) /\ Holds(a, d) /\ Linkage(a) /\ FreeList(a)
      /\ Filled(a.nodes) = Filled(m.nodes) \cup {i}
  BY <1>5, AddSound
<1>7. /\ a \in Table /\ a.size = m.size + 1 /\ DOMAIN a.nodes = DOMAIN m.nodes
      /\ DOMAIN a.buckets = DOMAIN m.buckets
      /\ a.nodes[i].key = key /\ a.nodes[i].value = ZeroValue
      /\ \A j \in DOMAIN m.nodes \ {i} : a.nodes[j].key = m.nodes[j].key
  BY <1>5 DEF Adds
<1>8. Span(a.nodes) = Span(m.nodes) /\ Span(a.buckets) = Span(m.buckets)
  BY <1>7 DEF Span
<1>9. Stays(m, a, Keys)
  BY <1>2, <1>6, <1>7 DEF Stays, Filled
<1>10. m.size \in Nat /\ Span(m.nodes) \in Nat /\ Span(m.buckets) \in Nat /\ Span(m.buckets) > 0
  BY <1>1, ArrayIs DEF Table
<1> DEFINE load == Span(m.buckets) * MAX_LOAD_FACTOR
<1>11. load \in Nat
  BY <1>10, HashMapConstants
<1>12. /\ Span(m.nodes) <= INVALID_INDEX
       /\ CeilDiv(load, 100) <= Span(m.nodes) /\ Span(m.nodes) <= CeilDiv(load, 100) + 1
  BY <1>1 DEF Room
<1>13. ~ NodesRunOut(m)
  BY <1>2 DEF NodesRunOut
<1>14. CASE Overloaded(a)
  <2> DEFINE g == Rehashed(a, GrowCount(a))
  <2>1. a.size > 0 /\ Span(a.nodes) <= CeilDiv(Span(a.buckets) * MAX_LOAD_FACTOR, 100) + 1
    BY <1>7, <1>8, <1>10, <1>12
  <2>2. /\ Sound(g, d) /\ FreeList(g) /\ ~ RehashPanics(a, GrowCount(a))
        /\ \A j \in DOMAIN a.nodes :
             /\ j \in DOMAIN g.nodes /\ g.nodes[j].key = a.nodes[j].key
             /\ g.nodes[j].value = a.nodes[j].value /\ g.nodes[j].filled = a.nodes[j].filled
    BY <1>6, <1>7, <1>14, <2>1, GrownIs
  <2>3. t = g
    BY <1>14 DEF Added, a
  <2> HIDE DEF g
  <2>4. Stays(m, g, Keys) /\ i \in Filled(g.nodes)
    BY <1>2, <1>6, <1>7, <1>9, <2>2 DEF Stays, Filled
  <2>5. ~ AddPanics(m, key, prev)
    BY <1>13, <2>2 DEF AddPanics, a
  <2>6. g.nodes[i].key = key /\ g.nodes[i].value = ZeroValue
    BY <1>2, <1>7, <2>2
  <2> HIDE DEF t
  <2> QED
    BY <2>2, <2>3, <2>4, <2>5, <2>6 DEF t
<1>15. CASE ~ Overloaded(a)
  <2>1. t = a
    BY <1>15 DEF Added, a
  <2>2. ~ AddPanics(m, key, prev)
    BY <1>13, <1>15 DEF AddPanics, a
  <2>3. a.size * 100 < load
    BY <1>7, <1>8, <1>10, <1>11, <1>15 DEF Overloaded
  <2> HIDE DEF load
  <2>4. a.size < CeilDiv(load, 100)
    <3>1. CeilDiv(load, 100) \in Nat /\ CeilDiv(load, 100) * 100 >= load
      BY <1>11, CeilDivIs
    <3> QED
      BY <1>7, <1>10, <1>11, <2>3, <3>1
  <2>5. a.size < Span(m.nodes)
    <3>1. CeilDiv(load, 100) \in Nat
      BY <1>11, CeilDivIs
    <3> QED
      BY <1>7, <1>10, <1>12, <2>4, <3>1
  <2>6. Room(a)
    BY <1>7, <1>8, <1>10, <1>12, <2>5 DEF Room, load
  <2>7. Sound(a, d)
    BY <1>6, <1>7, <2>6 DEF Sound
  <2> HIDE DEF t
  <2> QED
    BY <1>6, <1>7, <1>9, <2>1, <2>2, <2>7 DEF t
<1> QED
  BY <1>14, <1>15
-------------------------------------------------------------------------------
(* The inductive invariant.  Between two calls the map is sound for the    *)
(* function that the calls define, no check failed, and the free list runs *)
(* through the unused nodes unless clear undid it.  A traversal has behind *)
(* it a node of every key it has seen, and ahead of it one of every key    *)
(* that stayed and that it has not.                                        *)
Wiped(m) ==
  m.free_index = 0 /\ Filled(m.nodes) = {} /\ \A i \in DOMAIN m.nodes : m.nodes[i].next = 0

Tour(m, it) ==
  /\ it \in [on : BOOLEAN, index : Nat, seen : SUBSET Keys, stable : SUBSET Keys]
  /\ it.on = TRUE =>
       /\ it.index = INVALID_INDEX => it.seen = {}
       /\ \A key \in it.seen : \E i \in Filled(m.nodes) : m.nodes[i].key = key /\ i <= it.index
       /\ \A key \in it.stable \ it.seen :
            \E i \in Filled(m.nodes) :
              m.nodes[i].key = key /\ (it.index = INVALID_INDEX \/ i > it.index)

Inv ==
  /\ status = "ok" /\ cleared \in BOOLEAN
  /\ Sound(map, content)
  /\ cleared = FALSE /\ map.buckets # Empty => FreeList(map)
  /\ cleared = TRUE => Wiped(map)
  /\ Tour(map, iter)

LEMMA TourKept ==
  ASSUME NEW m, NEW t, NEW it, Tour(m, it), Stays(m, t, Keys)
  PROVE  Tour(t, it)
<1>1. it.seen \subseteq Keys /\ it.stable \subseteq Keys
  BY DEF Tour
<1> QED
  BY <1>1 DEF Tour, Stays

LEMMA ZeroMapIs == \A c : DOMAIN c = {} => Sound(ZeroMap, c)
<1> SUFFICES ASSUME NEW c, DOMAIN c = {} PROVE Sound(ZeroMap, c)
  OBVIOUS
<1>1. \A S : Empty \in Arrays(S)
  <2>1. \A S : Empty \in [0..(0 - 1) -> S]
    BY DEF Empty
  <2> QED
    BY <2>1 DEF Arrays
<1>2. Span(Empty) = 0 /\ DOMAIN Empty = {} /\ Filled(Empty) = {}
  BY FS_EmptySet DEF Span, Empty, Filled
<1>3. ZeroMap.buckets = Empty /\ ZeroMap.nodes = Empty /\ ZeroMap.size = 0 /\ ZeroMap.free_index = 0
  BY DEF ZeroMap
<1>4. ZeroMap \in Table
  BY <1>1 DEF Table, ZeroMap
<1>5. Entries(ZeroMap) /\ Holds(ZeroMap, c)
  BY <1>2, <1>3, FS_EmptySet DEF Entries, UniqueKeys, Holds
<1>6. Room(ZeroMap)
  <2>1. CeilDiv(0 * MAX_LOAD_FACTOR, 100) = 0
    <3>1. 0 * MAX_LOAD_FACTOR = 0
      BY HashMapConstants
    <3> QED
      BY <3>1, CeilDivIs
  <2> QED
    BY <1>2, <1>3, <2>1, HashMapConstants DEF Room
<1>7. Linkage(ZeroMap)
  BY <1>2, <1>3 DEF Linkage
<1> QED
  BY <1>4, <1>5, <1>6, <1>7 DEF Sound

LEMMA InitInv == Init => Inv
<1> SUFFICES ASSUME Init PROVE Inv
  OBVIOUS
<1>1. DOMAIN content = {}
  BY DEF Init, Empty
<1>2. Sound(map, content) /\ map.buckets = Empty
  BY <1>1, ZeroMapIs DEF Init, ZeroMap
<1>3. Tour(map, iter)
  BY HashMapConstants DEF Tour, Init, Idle
<1> QED
  BY <1>2, <1>3 DEF Inv, Init

(* Put and Touch                                                           *)
LEMMA IndexStep ==
  ASSUME Inv, ~ ReusesAfterClear, NEW key \in Keys, NEW write \in [Values -> Values], Index(key, write)
  PROVE  Inv' /\ Stays(map, map', Keys)
<1> DEFINE m == Prepared(map)
           at == Find(m, key)
           old == Old(key)
           v == write[old]
<1>1. Sound(map, content) /\ cleared \in BOOLEAN /\ (cleared = FALSE /\ map.buckets # Empty => FreeList(map))
  BY DEF Inv
<1>2. map.buckets # Empty => cleared = FALSE
  BY <1>1 DEF Index
<1>3. Sound(m, content) /\ FreeList(m) /\ m.buckets # Empty /\ Stays(map, m, Keys)
  BY <1>1, <1>2, PreparedIs
<1> HIDE DEF m
<1>4. at.hangs = FALSE /\ (Here(m, key, at) \/ Nowhere(m, key, at))
  <2>1. ~ at.hangs /\ (Here(m, key, at) \/ Nowhere(m, key, at))
    BY <1>3, FindIs
  <2>2. at.hangs \in BOOLEAN
    BY DEF Find
  <2> QED
    BY <2>1, <2>2
<1>5. m \in Table /\ Room(m) /\ Holds(m, content)
  BY <1>3 DEF Sound
<1>6. INVALID_INDEX \notin DOMAIN m.nodes /\ \A j \in DOMAIN m.nodes : m.nodes[j] \in Node
  <2> DEFINE k == Span(m.nodes)
  <2>1. INVALID_INDEX \notin DOMAIN m.nodes /\ m.nodes \in [0..(k - 1) -> Node]
    BY <1>5, NodesAreValid
  <2> HIDE DEF k
  <2> QED
    BY <2>1
<1>7. old \in Values
  <2>1. CASE key \in DOMAIN content
    <3>1. PICK j \in Filled(m.nodes) : m.nodes[j].key = key
      BY <1>5, <2>1 DEF Holds
    <3>2. content[key] = m.nodes[j].value /\ j \in DOMAIN m.nodes
      BY <1>5, <3>1 DEF Holds, Filled
    <3>3. m.nodes[j].value \in Values
      BY <1>6, <3>2 DEF Node
    <3> QED
      BY <2>1, <3>2, <3>3 DEF Old
  <2>2. CASE key \notin DOMAIN content
    BY <2>2, HashMapConstants DEF Old
  <2> QED
    BY <2>1, <2>2
<1>8. v \in Values
  BY <1>7
<1>9. WithEntry(key, v) = With(content, key, v)
  BY DEF WithEntry, With
<1>10. SUFFICES /\ status' = "ok" /\ iter' = iter /\ content' = With(content, key, v)
                /\ cleared' = FALSE
                /\ Sound(map', content') /\ FreeList(map') /\ Stays(m, map', Keys)
  <2>1. ASSUME Stays(m, map', Keys) PROVE Stays(map, map', Keys)
    BY <1>3, <2>1 DEF Stays
  <2> HIDE DEF v
  <2>2. Tour(map, iter)
    BY DEF Inv
  <2>3. ASSUME Stays(m, map', Keys) PROVE Tour(map', iter)
    BY <2>1, <2>2, <2>3, TourKept
  <2> QED
    BY <2>1, <2>3 DEF Inv
<1>11. CASE Here(m, key, at)
  <2> DEFINE i == at.node
             t == [m EXCEPT !.nodes[i].value = v]
  <2>1. i \in Filled(m.nodes) /\ m.nodes[i].key = key /\ i \in DOMAIN m.nodes /\ i # INVALID_INDEX
    BY <1>6, <1>11 DEF Here, InBucket, Filled
  <2>2. content[key] = m.nodes[i].value /\ key \in DOMAIN content
    BY <1>5, <2>1 DEF Holds
  <2>3. m.nodes[i].value = old
    BY <2>2 DEF Old
  <2>4. Writes(m, t, i, v)
    BY <1>5, <1>8, <2>1, WrittenIs
  <2>5. /\ map' = [m EXCEPT !.nodes[i].value = write[@]] /\ cleared' = cleared
        /\ content' = WithEntry(key, v) /\ status' = status /\ iter' = iter
    BY <1>4, <2>1 DEF Index, m
  <2>6. map' = t
    BY <2>3, <2>5
  <2>7. cleared = FALSE
    <3>1. SUFFICES ASSUME map.buckets = Empty PROVE FALSE
      BY <1>2
    <3>2. Filled(map.nodes) = {}
      BY <1>1, <3>1, NoBuckets DEF Sound
    <3>3. DOMAIN content = {}
      BY <1>1, <3>2 DEF Sound, Holds
    <3> QED
      BY <2>2, <3>3
  <2> HIDE DEF t, v, i, old
  <2>8. /\ Sound(t, With(content, m.nodes[i].key, v)) /\ (FreeList(m) => FreeList(t))
        /\ Filled(t.nodes) = Filled(m.nodes)
    BY <1>3, <2>1, <2>4, WriteSound
  <2>9. Stays(m, t, Keys)
    BY <2>1, <2>4, <2>8 DEF Stays, Writes, Filled
  <2> QED
    BY <1>3, <1>9, <2>1, <2>5, <2>6, <2>7, <2>8, <2>9 DEF Inv
<1>12. CASE Nowhere(m, key, at)
  <2> DEFINE i == m.free_index
             prev == at.prev
             a == Appended(m, key, prev)
             g == Added(m, key, prev)
             t == [g EXCEPT !.nodes[i].value = v]
             d == With(content, key, ZeroValue)
  <2>1. /\ ~ AddPanics(m, key, prev)
        /\ Sound(g, d) /\ FreeList(g) /\ Stays(m, g, Keys)
        /\ i \in Filled(g.nodes) /\ g.nodes[i].key = key /\ g.nodes[i].value = ZeroValue
    BY <1>3, <1>12, AddedIs
  <2>2. at.node = INVALID_INDEX
    BY <1>12 DEF Nowhere
  <2>3. AddNode(m, key, prev, write) /\ content' = WithEntry(key, v) /\ status' = status /\ iter' = iter
    BY <1>4, <2>1, <2>2 DEF Index, m
  <2>4. old = ZeroValue
    <3>1. key \notin DOMAIN content
      BY <1>5, <1>12 DEF Nowhere, Holds
    <3> QED
      BY <3>1 DEF Old
  <2>5. cleared' = FALSE /\ map' = [g EXCEPT !.nodes[i].value = write[@]]
    <3>1. CASE Overloaded(a)
      BY <2>3, <3>1 DEF AddNode, Added
    <3>2. CASE ~ Overloaded(a)
      BY <1>2, <2>3, <3>2 DEF AddNode, Added
    <3> QED
      BY <3>1, <3>2
  <2> HIDE DEF g
  <2>6. map' = t
    BY <2>1, <2>4, <2>5
  <2>7. Writes(g, t, i, v)
    <3>1. g \in Table /\ i \in DOMAIN g.nodes
      BY <2>1 DEF Sound, Filled
    <3> QED
      BY <1>8, <3>1, WrittenIs
  <2> HIDE DEF t, v, i, d
  <2>8. Sound(t, With(d, g.nodes[i].key, v)) /\ FreeList(t) /\ Filled(t.nodes) = Filled(g.nodes)
    BY <2>1, <2>7, WriteSound
  <2>9. With(d, key, v) = With(content, key, v)
    BY DEF With, d
  <2>10. Stays(m, t, Keys)
    BY <2>1, <2>7, <2>8 DEF Stays, Writes, Filled
  <2> QED
    BY <1>9, <2>1, <2>3, <2>5, <2>6, <2>8, <2>9, <2>10 DEF Inv
<1> QED
  BY <1>4, <1>11, <1>12
LEMMA RemoveStep ==
  ASSUME Inv, NEW key \in Keys, Remove(key)
  PROVE  Inv'
<1> DEFINE at == Find(map, key)
           i == at.node
           t == Unlinked(map, key, at)
<1>1. Sound(map, content) /\ cleared \in BOOLEAN /\ Tour(map, iter)
  BY DEF Inv
<1>2. map \in Table /\ Room(map) /\ Entries(map)
  BY <1>1 DEF Sound
<1>3. map.buckets # Empty
  <2>1. SUFFICES ASSUME map.buckets = Empty PROVE FALSE
    OBVIOUS
  <2>2. at.node = INVALID_INDEX /\ ~ at.hangs
    BY <2>1, FindInNone
  <2> QED
    BY <2>2 DEF Remove
<1>4. ~ at.hangs /\ (Here(map, key, at) \/ Nowhere(map, key, at))
  BY <1>1, <1>3, FindIs
<1>5. /\ i # INVALID_INDEX /\ map' = t /\ content' = WithoutEntry(key)
      /\ iter' = [iter EXCEPT !.stable = @ \ {key}, !.seen = @ \ {key}]
      /\ status' = status /\ cleared' = cleared
  BY <1>4 DEF Remove
<1>6. Here(map, key, at)
  BY <1>4, <1>5 DEF Nowhere
<1>7. i \in Filled(map.nodes) /\ map.nodes[i].key = key /\ i \in DOMAIN map.nodes
  BY <1>6 DEF Here, InBucket, Filled
<1>8. FreeList(map) /\ cleared = FALSE
  BY <1>1, <1>3, <1>7 DEF Inv, Wiped
<1>9. at.prev = INVALID_INDEX \/ (at.prev \in DOMAIN map.nodes /\ map.nodes[at.prev].next = i)
  BY <1>6 DEF Here, InBucket, Filled
<1>10. at.prev # i
  <2> DEFINE h == BucketOf(key, map.buckets)
             S == InBucket(map, h)
             prev == at.prev
  <2>1. SUFFICES ASSUME prev \in S, map.nodes[prev].next = i, prev = i PROVE FALSE
    BY <1>5, <1>6 DEF Here
  <2>2. h \in DOMAIN map.buckets
    BY <1>2, <1>3, BucketIs
  <2>3. Chain(map.nodes, map.buckets[h], S)
    BY <1>1, <2>2 DEF Sound, Linkage
  <2> HIDE DEF S, h
  <2>4. PICK r \in [S -> Int] : Ordered(map.nodes, map.buckets[h], S, r)
    BY <2>3 DEF Chain
  <2>5. Follows(map.nodes, S, r, prev)
    BY <2>1, <2>4 DEF Ordered
  <2> HIDE DEF prev
  <2>6. map.nodes[prev].next = prev
    BY <2>1 DEF prev
  <2>7. prev # INVALID_INDEX
    BY <1>5, <2>1
  <2>8. r[prev] \in Int
    BY <2>1, <2>4
  <2> QED
    BY <2>5, <2>6, <2>7, <2>8 DEF Follows
<1>11. map.size > 0
  <2>1. IsFiniteSet(Filled(map.nodes)) /\ map.size = Cardinality(Filled(map.nodes)) /\ map.size \in Nat
    BY <1>2, FilledFinite DEF Entries, Table
  <2>2. map.size # 0
    BY <1>7, <2>1, FS_EmptySet
  <2> QED
    BY <2>1, <2>2
<1>12. Drops(map, t, key, i, at.prev)
  BY <1>2, <1>7, <1>9, <1>10, <1>11, UnlinkedIs
<1> HIDE DEF t, at
<1>13. /\ Sound(t, Without(content, key)) /\ FreeList(t)
       /\ Filled(t.nodes) = Filled(map.nodes) \ {i}
  BY <1>1, <1>6, <1>8, <1>12, DropSound
<1>14. WithoutEntry(key) = Without(content, key)
  BY DEF WithoutEntry, Without
<1>15. Stays(map, t, Keys \ {key})
  BY <1>7, <1>12, <1>13 DEF Stays, Drops, Filled
<1>16. Tour(t, iter')
  <2>1. iter \in [on : BOOLEAN, index : Nat, seen : SUBSET Keys, stable : SUBSET Keys]
    BY <1>1 DEF Tour
  <2>2. /\ iter' \in [on : BOOLEAN, index : Nat, seen : SUBSET Keys, stable : SUBSET Keys]
        /\ iter'.on = iter.on /\ iter'.index = iter.index
        /\ iter'.seen = iter.seen \ {key} /\ iter'.stable = iter.stable \ {key}
    BY <1>5, <2>1
  <2>3. iter'.seen \subseteq Keys \ {key} /\ iter'.stable \subseteq Keys \ {key}
    BY <2>2
  <2>4. \A j \in Filled(map.nodes) : map.nodes[j].key \in Keys \ {key} =>
          j \in Filled(t.nodes) /\ t.nodes[j].key = map.nodes[j].key
    BY <1>15 DEF Stays
  <2>5. SUFFICES ASSUME iter.on = TRUE
                 PROVE  /\ iter.index = INVALID_INDEX => iter'.seen = {}
                        /\ \A k \in iter'.seen :
                             \E j \in Filled(t.nodes) : t.nodes[j].key = k /\ j <= iter.index
                        /\ \A k \in iter'.stable \ iter'.seen :
                             \E j \in Filled(t.nodes) :
                               t.nodes[j].key = k /\ (iter.index = INVALID_INDEX \/ j > iter.index)
    BY <2>2 DEF Tour
  <2>6. /\ iter.index = INVALID_INDEX => iter.seen = {}
        /\ \A k \in iter.seen : \E j \in Filled(map.nodes) : map.nodes[j].key = k /\ j <= iter.index
        /\ \A k \in iter.stable \ iter.seen :
             \E j \in Filled(map.nodes) :
               map.nodes[j].key = k /\ (iter.index = INVALID_INDEX \/ j > iter.index)
    BY <1>1, <2>5 DEF Tour
  <2>7. \A k \in iter'.seen : \E j \in Filled(t.nodes) : t.nodes[j].key = k /\ j <= iter.index
    BY <2>2, <2>3, <2>4, <2>6
  <2>8. \A k \in iter'.stable \ iter'.seen :
          \E j \in Filled(t.nodes) :
            t.nodes[j].key = k /\ (iter.index = INVALID_INDEX \/ j > iter.index)
    BY <2>2, <2>3, <2>4, <2>6
  <2> QED
    BY <2>2, <2>6, <2>7, <2>8
<1> QED
  BY <1>1, <1>5, <1>8, <1>13, <1>14, <1>16 DEF Inv

LEMMA TourOff ==
  ASSUME NEW m, NEW t, NEW it, Tour(m, it), ~ it.on
  PROVE  Tour(t, it)
BY DEF Tour

LEMMA RehashStep ==
  ASSUME Inv, NEW wanted \in Nat, wanted \in Wanted(map.size), Rehash(wanted)
  PROVE  Inv'
<1> DEFINE t == Rehashed(map, wanted)
<1>1. Sound(map, content) /\ Tour(map, iter)
  BY DEF Inv
<1>2. map \in Table /\ Entries(map) /\ Holds(map, content)
  BY <1>1 DEF Sound
<1>3. Sound(t, content) /\ FreeList(t) /\ ~ RehashPanics(map, wanted)
  BY <1>2, RehashedSound
<1>4. map' = t /\ cleared' = FALSE /\ status' = status /\ iter' = iter /\ content' = content /\ ~ iter.on
  BY <1>3 DEF Rehash
<1>5. Tour(t, iter)
  BY <1>1, <1>4, TourOff
<1> HIDE DEF t
<1> QED
  BY <1>3, <1>4, <1>5 DEF Inv

LEMMA CountsWanted ==
  ASSUME NEW n \in Counts, NEW size
  PROVE  /\ n \in Nat /\ n \in Wanted(size)
         /\ CeilDiv(n * 100, MAX_LOAD_FACTOR) \in Nat
         /\ CeilDiv(n * 100, MAX_LOAD_FACTOR) \in Wanted(size)
<1>1. n \in Nat /\ MAX_LOAD_FACTOR \in Nat /\ MAX_LOAD_FACTOR > 0
  BY HashMapConstants
<1>2. n * 100 \in Nat
  BY <1>1
<1>3. CeilDiv(n * 100, MAX_LOAD_FACTOR) \in Nat
  BY <1>1, <1>2, CeilDivIs
<1> QED
  BY <1>1, <1>3 DEF Wanted

LEMMA ReserveStep ==
  ASSUME Inv, NEW n \in Counts, Reserve(n)
  PROVE  Inv'
BY CountsWanted, RehashStep DEF Reserve

LEMMA ClearStep ==
  ASSUME Inv, Clear
  PROVE  Inv'
<1>1. Sound(map, content) /\ Tour(map, iter)
  BY DEF Inv
<1>2. map \in Table /\ Room(map)
  BY <1>1 DEF Sound
<1>3. /\ map' = [buckets |-> [h \in DOMAIN map.buckets |-> INVALID_INDEX],
                 nodes |-> [i \in DOMAIN map.nodes |-> ZeroNode], size |-> 0, free_index |-> 0]
      /\ cleared' = TRUE /\ content' = Empty /\ status' = status /\ iter' = iter /\ ~ iter.on
  BY DEF Clear
<1> DEFINE t == map'
           b == t.buckets
           a == t.nodes
<1>4. /\ b = [h \in DOMAIN map.buckets |-> INVALID_INDEX]
      /\ a = [i \in DOMAIN map.nodes |-> ZeroNode] /\ t.size = 0 /\ t.free_index = 0
      /\ t = [buckets |-> b, nodes |-> a, size |-> 0, free_index |-> 0]
  BY <1>3
<1> HIDE DEF a, b
<1>5. ZeroNode \in Node /\ INVALID_INDEX \in Nat
  BY HashMapConstants DEF Node, ZeroNode
<1>6. b \in Arrays(Nat) /\ Span(b) = Span(map.buckets) /\ Span(b) \in Nat
  <2> DEFINE n == Span(map.buckets)
  <2>1. n \in Nat /\ DOMAIN map.buckets = 0..(n - 1)
    BY <1>2, ArrayIs DEF Table
  <2> HIDE DEF n
  <2>2. b \in [0..(n - 1) -> Nat]
    BY <1>4, <1>5, <2>1
  <2> QED
    BY <2>1, <2>2, ArrayMade DEF n
<1>7. a \in Arrays(Node) /\ Span(a) = Span(map.nodes) /\ Span(a) \in Nat
  <2> DEFINE n == Span(map.nodes)
  <2>1. n \in Nat /\ DOMAIN map.nodes = 0..(n - 1)
    BY <1>2, ArrayIs DEF Table
  <2> HIDE DEF n
  <2>2. a \in [0..(n - 1) -> Node]
    BY <1>4, <1>5, <2>1
  <2> QED
    BY <2>1, <2>2, ArrayMade DEF n
<1>8. Filled(a) = {} /\ \A i \in DOMAIN a : a[i].next = 0
  <2>1. ZeroNode.filled = FALSE /\ ZeroNode.next = 0
    BY DEF ZeroNode
  <2> QED
    BY <1>4, <2>1 DEF Filled
<1>9. t \in Table
  BY <1>4, <1>6, <1>7 DEF Table
<1>10. t.nodes = a /\ t.buckets = b
  BY DEF a, b
<1>11. Entries(t) /\ Holds(t, Empty)
  BY <1>4, <1>8, <1>10, FS_EmptySet DEF Entries, UniqueKeys, Holds, Empty
<1>12. Room(t)
  <2>1. map.size \in Nat /\ Span(map.nodes) \in Nat
    BY <1>2, NodesAreValid DEF Table
  <2> QED
    BY <1>2, <1>4, <1>6, <1>7, <1>10, <2>1 DEF Room
<1>13. Linkage(t)
  <2>1. SUFFICES ASSUME NEW h \in DOMAIN b PROVE Chain(a, b[h], InBucket(t, h))
    BY <1>10 DEF Linkage
  <2>2. InBucket(t, h) = {} /\ b[h] = INVALID_INDEX
    BY <1>4, <1>8, <1>10, <2>1 DEF InBucket
  <2> QED
    BY <2>2, ChainOfNone
<1>14. Sound(t, Empty)
  BY <1>9, <1>11, <1>12, <1>13 DEF Sound
<1>15. Wiped(t)
  BY <1>4, <1>8, <1>10 DEF Wiped
<1>16. Tour(t, iter)
  BY <1>1, <1>3, TourOff
<1> QED
  BY <1>3, <1>14, <1>15, <1>16 DEF Inv

LEMMA DestroyStep ==
  ASSUME Inv, Destroy
  PROVE  Inv'
<1>1. /\ map' = ZeroMap /\ cleared' = FALSE /\ content' = Empty /\ status' = status
      /\ iter' = iter /\ ~ iter.on
  BY DEF Destroy
<1>2. Sound(ZeroMap, Empty) /\ ZeroMap.buckets = Empty
  BY ZeroMapIs DEF Empty, ZeroMap
<1>3. Tour(ZeroMap, iter)
  BY <1>1, TourOff DEF Inv
<1> QED
  BY <1>1, <1>2, <1>3 DEF Inv
LEMMA StartStep ==
  ASSUME Inv, StartTraversal
  PROVE  Inv'
<1> DEFINE F == Filled(map.nodes)
           stable == {map.nodes[i].key : i \in F}
<1>1. /\ iter' = [on |-> TRUE, index |-> INVALID_INDEX, seen |-> {}, stable |-> stable]
      /\ map' = map /\ status' = status /\ cleared' = cleared /\ content' = content
  BY DEF StartTraversal
<1>2. \A i \in F : map.nodes[i].key \in Keys
  <2> DEFINE k == Span(map.nodes)
  <2>1. map.nodes \in [0..(k - 1) -> Node] /\ F \subseteq 0..(k - 1)
    BY NodesAreValid DEF Inv, Sound
  <2> HIDE DEF k
  <2> QED
    BY <2>1 DEF Node
<1>3. stable \subseteq Keys
  BY <1>2
<1>4. \A key \in stable : \E i \in F : map.nodes[i].key = key
  OBVIOUS
<1> HIDE DEF stable
<1>5. Tour(map, iter')
  BY <1>1, <1>3, <1>4, HashMapConstants DEF Tour
<1> QED
  BY <1>1, <1>5 DEF Inv

(* The node that a step of the traversal goes to is the first one ahead,   *)
(* and no traversal has seen its key.                                      *)
LEMMA VisitStep ==
  ASSUME Inv, Visit
  PROVE  Inv' /\ map.nodes[iter'.index].key \notin iter.seen
<1> DEFINE F == Filled(map.nodes)
           n == Least(Ahead)
           new == map.nodes[n].key
<1>1. /\ iter' = [iter EXCEPT !.index = n, !.seen = @ \cup {new}] /\ iter.on /\ Ahead # {}
      /\ map' = map /\ status' = status /\ cleared' = cleared /\ content' = content
  BY DEF Visit
<1>2. /\ iter \in [on : BOOLEAN, index : Nat, seen : SUBSET Keys, stable : SUBSET Keys]
      /\ iter.on = TRUE
      /\ iter.index = INVALID_INDEX => iter.seen = {}
      /\ \A key \in iter.seen : \E i \in F : map.nodes[i].key = key /\ i <= iter.index
      /\ \A key \in iter.stable \ iter.seen :
           \E i \in F : map.nodes[i].key = key /\ (iter.index = INVALID_INDEX \/ i > iter.index)
  <2>1. Tour(map, iter)
    BY DEF Inv
  <2>2. iter.on = TRUE
    BY <1>1, <2>1 DEF Tour
  <2> QED
    BY <2>1, <2>2 DEF Tour
<1>3. /\ INVALID_INDEX \in Nat /\ INVALID_INDEX \notin F /\ F \subseteq Nat
      /\ \A i \in F : map.nodes[i].key \in Keys
  <2> DEFINE k == Span(map.nodes)
  <2>1. /\ map.nodes \in [0..(k - 1) -> Node] /\ F \subseteq 0..(k - 1)
        /\ INVALID_INDEX \in Nat /\ INVALID_INDEX \notin DOMAIN map.nodes /\ k \in Nat
    BY NodesAreValid DEF Inv, Sound
  <2> HIDE DEF k
  <2> QED
    BY <2>1 DEF Node
<1>4. Ahead = {i \in F : iter.index = INVALID_INDEX \/ i > iter.index}
  BY DEF Ahead
<1>5. n \in Ahead /\ \A j \in Ahead : n <= j
  BY <1>1, <1>3, <1>4, LeastIs
<1>6. \A i, j \in F : map.nodes[i].key = map.nodes[j].key => i = j
  BY DEF Inv, Sound, Entries, UniqueKeys
<1> HIDE DEF n
<1>7. n \in F /\ n \in Nat /\ n # INVALID_INDEX
  BY <1>3, <1>4, <1>5
<1>8. new \notin iter.seen
  <2>1. SUFFICES ASSUME new \in iter.seen PROVE FALSE
    OBVIOUS
  <2>2. PICK i \in F : map.nodes[i].key = new /\ i <= iter.index
    BY <1>2, <2>1
  <2>3. i = n
    BY <1>6, <1>7, <2>2
  <2>4. iter.index # INVALID_INDEX /\ iter.index \in Nat
    BY <1>2, <2>1
  <2>5. n > iter.index
    BY <1>4, <1>5, <2>4
  <2> QED
    BY <1>7, <2>2, <2>3, <2>4, <2>5
<1>9. /\ iter'.on = iter.on /\ iter'.index = n /\ iter'.stable = iter.stable
      /\ iter'.seen = iter.seen \cup {new}
      /\ iter' \in [on : BOOLEAN, index : Nat, seen : SUBSET Keys, stable : SUBSET Keys]
  <2>1. new \in Keys
    BY <1>3, <1>7
  <2> HIDE DEF new
  <2> QED
    BY <1>1, <1>2, <1>7, <2>1
<1>10. ASSUME NEW key \in iter'.seen PROVE \E i \in F : map.nodes[i].key = key /\ i <= n
  <2>1. CASE key = new
    BY <1>7, <2>1
  <2>2. CASE key # new
    <3>1. key \in iter.seen
      BY <1>9, <2>2
    <3>2. PICK i \in F : map.nodes[i].key = key /\ i <= iter.index
      BY <1>2, <3>1
    <3>3. iter.index # INVALID_INDEX /\ iter.index \in Nat
      BY <1>2, <3>1
    <3>4. n > iter.index
      BY <1>4, <1>5, <3>3
    <3>5. i \in Nat /\ i <= n
      BY <1>3, <1>7, <3>2, <3>3, <3>4
    <3> QED
      BY <3>2, <3>5
  <2> QED
    BY <2>1, <2>2
<1>11. ASSUME NEW key \in iter'.stable \ iter'.seen PROVE \E i \in F : map.nodes[i].key = key /\ i > n
  <2>1. key \in iter.stable \ iter.seen /\ key # new
    BY <1>9
  <2>2. PICK i \in F : map.nodes[i].key = key /\ (iter.index = INVALID_INDEX \/ i > iter.index)
    BY <1>2, <2>1
  <2>3. i \in Ahead /\ i # n
    BY <1>4, <2>1, <2>2
  <2>4. n <= i /\ i \in Nat
    BY <1>3, <1>5, <2>2, <2>3
  <2> QED
    BY <1>7, <2>2, <2>3, <2>4
<1>12. Tour(map, iter')
  <2> HIDE DEF new
  <2> QED
    BY <1>7, <1>9, <1>10, <1>11 DEF Tour
<1> QED
  BY <1>1, <1>8, <1>9, <1>12 DEF Inv

LEMMA EndStep ==
  ASSUME Inv, EndTraversal
  PROVE  Inv' /\ iter.stable \subseteq iter.seen
<1>1. /\ iter' = Idle /\ iter.on /\ Ahead = {}
      /\ map' = map /\ status' = status /\ cleared' = cleared /\ content' = content
  BY DEF EndTraversal
<1>2. Tour(map, iter)
  BY DEF Inv
<1>3. iter.stable \subseteq iter.seen
  <2>1. iter.on = TRUE
    BY <1>1, <1>2 DEF Tour
  <2> QED
    BY <1>1, <1>2, <2>1 DEF Tour, Ahead
<1>4. Tour(map, Idle)
  BY HashMapConstants DEF Tour, Idle
<1> QED
  BY <1>1, <1>3, <1>4 DEF Inv

LEMMA NextInv ==
  ASSUME Inv, ~ ReusesAfterClear, [Next]_vars
  PROVE  Inv'
<1>1. CASE \E key \in Keys, v \in Values : Put(key, v)
  <2>1. PICK key \in Keys, v \in Values : Put(key, v)
    BY <1>1
  <2> DEFINE write == [old \in Values |-> v]
  <2>2. write \in [Values -> Values] /\ Index(key, write)
    BY <2>1 DEF Put
  <2> HIDE DEF write
  <2> QED
    BY <2>2, IndexStep
<1>2. CASE \E key \in Keys : Touch(key)
  <2>1. PICK key \in Keys : Touch(key)
    BY <1>2
  <2> DEFINE write == [old \in Values |-> old]
  <2>2. write \in [Values -> Values] /\ Index(key, write)
    BY <2>1 DEF Touch
  <2> HIDE DEF write
  <2> QED
    BY <2>2, IndexStep
<1>3. CASE \E key \in Keys : Remove(key)
  BY <1>3, RemoveStep
<1>4. CASE \E n \in Counts : Rehash(n)
  BY <1>4, RehashStep, CountsWanted
<1>5. CASE \E n \in Counts : Reserve(n)
  BY <1>5, ReserveStep
<1>6. CASE Clear
  BY <1>6, ClearStep
<1>7. CASE Destroy
  BY <1>7, DestroyStep
<1>8. CASE StartTraversal
  BY <1>8, StartStep
<1>9. CASE Visit
  BY <1>9, VisitStep
<1>10. CASE EndTraversal
  BY <1>10, EndStep
<1>11. CASE UNCHANGED vars
  BY <1>11 DEF Inv, vars
<1> QED
  BY <1>1, <1>2, <1>3, <1>4, <1>5, <1>6, <1>7, <1>8, <1>9, <1>10, <1>11 DEF Next

(* The invariant holds of every program that does not insert again after   *)
(* clear: the code's own condition, as the run MCHashMap_clear shows.      *)
LEMMA Invariant ==
  ASSUME ~ ReusesAfterClear
  PROVE  Spec => []Inv
<1>1. Init => Inv
  BY InitInv
<1>2. Inv /\ [Next]_vars => Inv'
  BY NextInv
<1> QED
  BY <1>1, <1>2, PTL DEF Spec

-------------------------------------------------------------------------------
(* What the invariant says.                                                *)

(* The indices that the walk from a head meets                             *)
LEMMA WalkIs ==
  ASSUME NEW k \in Nat, NEW nodes, Span(nodes) = k, NEW head,
         NEW S, S \subseteq 0..(k - 1), INVALID_INDEX \notin S, Chain(nodes, head, S)
  PROVE  /\ {Path(nodes, head)[n] : n \in DOMAIN Path(nodes, head)} \ {INVALID_INDEX} = S
         /\ Path(nodes, head)[Cardinality(S)] = INVALID_INDEX
<1> DEFINE P == Path(nodes, head)
<1>1. PICK r \in [S -> Int] : Ordered(nodes, head, S, r)
  BY DEF Chain
<1>2. DOMAIN P = 0..k
  BY PathIs
<1>3. \A n \in 0..k : P[n] \in S \cup {INVALID_INDEX}
  BY <1>1, WalkMeets
<1>4. ASSUME NEW i \in S PROVE \E n \in 0..k : P[n] = i
  <2>1. Meets(nodes, head, k, i)
    BY <1>1, WalkReaches
  <2> QED
    BY <2>1 DEF Meets
<1>5. Cardinality(S) \in 0..k
  <2>1. Cardinality(S) \in Nat /\ Cardinality(S) <= k
    BY NodesFinite
  <2> QED
    BY <2>1
<1>6. P[Cardinality(S)] = INVALID_INDEX
  <2>1. Ordered(nodes, head, S, r)
    BY <1>1
  <2>2. ASSUME NEW n \in 0..k, Cardinality(S) <= n PROVE Ends(nodes, head, k, n)
    BY <2>1, <2>2, WalkEnds
  <2>3. Cardinality(S) <= Cardinality(S)
    BY <1>5
  <2> QED
    BY <1>5, <2>2, <2>3 DEF Ends
<1> HIDE DEF P
<1>7. {P[n] : n \in DOMAIN P} \ {INVALID_INDEX} = S
  <2>1. \A n \in DOMAIN P : P[n] \in S \cup {INVALID_INDEX}
    BY <1>2, <1>3
  <2>2. \A i \in S : \E n \in DOMAIN P : P[n] = i
    BY <1>2, <1>4
  <2> QED
    BY <2>1, <2>2
<1> QED
  BY <1>6, <1>7 DEF P
LEMMA InvTypeOK == Inv => TypeOK
<1> SUFFICES ASSUME Inv PROVE TypeOK
  OBVIOUS
<1> DEFINE k == Span(map.nodes)
           b == Span(map.buckets)
           F == Filled(map.nodes)
           Link == DOMAIN map.nodes \cup {INVALID_INDEX}
<1>1. /\ Sound(map, content) /\ map \in Table /\ Room(map) /\ Linkage(map)
      /\ status = "ok" /\ cleared \in BOOLEAN
  BY DEF Inv, Sound
<1>2. /\ k \in Nat /\ map.nodes \in [0..(k - 1) -> Node] /\ DOMAIN map.nodes = 0..(k - 1)
      /\ F \subseteq 0..(k - 1)
  BY <1>1, NodesAreValid
<1>3. b \in Nat /\ map.buckets \in [0..(b - 1) -> Nat] /\ map.size \in Nat
  BY <1>1, ArrayIs DEF Table
<1>4. INVALID_INDEX \notin F /\ INVALID_INDEX \notin Spare(map)
  <2>1. INVALID_INDEX \notin DOMAIN map.nodes
    BY <1>1, NodesAreValid
  <2> QED
    BY <2>1 DEF Filled, Spare
<1>5. ASSUME NEW h \in DOMAIN map.buckets PROVE map.buckets[h] \in Link
  <2>1. Chain(map.nodes, map.buckets[h], InBucket(map, h))
    BY <1>1 DEF Linkage
  <2>2. InBucket(map, h) \subseteq F
    BY DEF InBucket
  <2>3. map.buckets[h] \in InBucket(map, h) \cup {INVALID_INDEX}
    BY <1>4, <2>1, <2>2, EmptyChain
  <2> QED
    BY <1>2, <2>2, <2>3
<1>6. ASSUME NEW i \in F PROVE map.nodes[i].next \in Link
  <2> DEFINE h == BucketOf(map.nodes[i].key, map.buckets)
             S == InBucket(map, h)
  <2>1. map.nodes[i].key \in Keys
    <3> HIDE DEF k, F
    <3> QED
      BY <1>2 DEF Node
  <2>2. map.buckets # Empty
    BY <1>1, NoBuckets
  <2>3. h \in DOMAIN map.buckets
    BY <1>1, <2>1, <2>2, BucketIs
  <2>4. Chain(map.nodes, map.buckets[h], S) /\ i \in S /\ S \subseteq F
    BY <1>1, <2>3 DEF Linkage, InBucket
  <2> HIDE DEF S
  <2>5. map.nodes[i].next \in S \cup {INVALID_INDEX}
    BY <2>4, ChainClosed
  <2> QED
    BY <1>2, <2>4, <2>5
<1>7. ASSUME map.nodes # Empty PROVE cleared = TRUE \/ FreeList(map)
  <2>1. map.buckets # Empty
    BY <1>1, <1>7, NoBuckets
  <2> QED
    BY <1>1, <2>1 DEF Inv
<1>8. ASSUME map.nodes # Empty, cleared = TRUE
      PROVE  /\ map.free_index \in Link
             /\ \A i \in DOMAIN map.nodes : map.nodes[i].next \in Link
  <2>1. Wiped(map)
    BY <1>8 DEF Inv
  <2>2. k # 0
    BY <1>1, <1>8, ArrayIs DEF Table
  <2>3. 0 \in Link
    BY <1>2, <2>2
  <2> QED
    BY <2>1, <2>3 DEF Wiped
<1>9. ASSUME FreeList(map)
      PROVE  map.free_index \in Link /\ \A i \in Spare(map) : map.nodes[i].next \in Link
  <2>1. Chain(map.nodes, map.free_index, Spare(map)) /\ Spare(map) \subseteq DOMAIN map.nodes
    BY <1>9 DEF FreeList, Spare
  <2>2. map.free_index \in Spare(map) \cup {INVALID_INDEX}
    BY <1>4, <2>1, EmptyChain
  <2>3. \A i \in Spare(map) : map.nodes[i].next \in Spare(map) \cup {INVALID_INDEX}
    BY <2>1, ChainClosed
  <2> QED
    BY <2>1, <2>2, <2>3
<1>10. map.nodes # Empty => map.free_index \in Link
  BY <1>7, <1>8, <1>9
<1>11. ASSUME NEW i \in DOMAIN map.nodes PROVE map.nodes[i].next \in Link
  <2>1. map.nodes # Empty
    BY DEF Empty
  <2>2. i \in F \/ i \in Spare(map)
    BY DEF Spare
  <2> QED
    BY <1>6, <1>7, <1>8, <1>9, <2>1, <2>2
<1> HIDE DEF Link
<1>12. map.nodes \in [0..(k - 1) -> [key : Keys, value : Values, filled : BOOLEAN, next : Link]]
  <2> HIDE DEF k
  <2> QED
    BY <1>2, <1>11 DEF Node
<1>13. map.buckets \in [0..(b - 1) -> Link]
  <2> HIDE DEF b
  <2> QED
    BY <1>3, <1>5
<1>14. iter \in [on : BOOLEAN, index : Nat, seen : SUBSET Keys, stable : SUBSET Keys]
  BY DEF Inv, Tour
<1> QED
  BY <1>1, <1>3, <1>10, <1>12, <1>13, <1>14 DEF TypeOK, Link

LEMMA InvTableExact == Inv => TableExact
<1> SUFFICES ASSUME Inv PROVE TableExact
  OBVIOUS
<1> DEFINE k == Span(map.nodes)
           F == Filled(map.nodes)
           PathOf(i) == Path(map.nodes, i)
           On(i) == {PathOf(i)[n] : n \in DOMAIN PathOf(i)} \ {INVALID_INDEX}
           spare == DOMAIN map.nodes \ F
<1>1. /\ Sound(map, content) /\ map \in Table /\ Room(map) /\ Entries(map) /\ Linkage(map)
      /\ status = "ok" /\ cleared \in BOOLEAN
  BY DEF Inv, Sound
<1>2. k \in Nat /\ DOMAIN map.nodes = 0..(k - 1) /\ F \subseteq 0..(k - 1) /\ INVALID_INDEX \notin 0..(k - 1)
  BY <1>1, NodesAreValid
<1>3. ASSUME NEW h \in DOMAIN map.buckets
      PROVE  On(map.buckets[h]) = {i \in F : BucketOf(map.nodes[i].key, map.buckets) = h}
  <2> DEFINE S == InBucket(map, h)
             head == map.buckets[h]
             nodes == map.nodes
  <2>1. Chain(nodes, head, S)
    BY <1>1 DEF Linkage
  <2>2. S = {i \in F : BucketOf(map.nodes[i].key, map.buckets) = h}
    BY DEF InBucket
  <2>3. S \subseteq 0..(k - 1) /\ INVALID_INDEX \notin S /\ Span(nodes) = k
    BY <1>2, <2>2
  <2>4. On(head) = {Path(nodes, head)[n] : n \in DOMAIN Path(nodes, head)} \ {INVALID_INDEX}
    OBVIOUS
  <2> HIDE DEF S, head, nodes, k, On
  <2>5. {Path(nodes, head)[n] : n \in DOMAIN Path(nodes, head)} \ {INVALID_INDEX} = S
    BY <1>2, <2>1, <2>3, WalkIs
  <2> QED
    BY <2>2, <2>4, <2>5 DEF head
<1>4. ASSUME cleared = FALSE, map.buckets # Empty
      PROVE  /\ spare # {} /\ On(map.free_index) = spare
             /\ PathOf(map.free_index)[Cardinality(spare)] = INVALID_INDEX
  <2> DEFINE head == map.free_index
             nodes == map.nodes
  <2>1. FreeList(map)
    BY <1>4 DEF Inv
  <2>2. head \in Spare(map)
    BY <1>1, <1>4, <2>1, FreeNode
  <2>3. spare = Spare(map)
    BY DEF Spare
  <2>4. Chain(nodes, head, spare)
    BY <2>1, <2>3 DEF FreeList
  <2>5. spare \subseteq 0..(k - 1) /\ INVALID_INDEX \notin spare /\ Span(nodes) = k
    BY <1>2
  <2>6. On(head) = {Path(nodes, head)[n] : n \in DOMAIN Path(nodes, head)} \ {INVALID_INDEX}
    OBVIOUS
  <2> HIDE DEF spare, head, nodes, k, On
  <2>7. /\ {Path(nodes, head)[n] : n \in DOMAIN Path(nodes, head)} \ {INVALID_INDEX} = spare
        /\ Path(nodes, head)[Cardinality(spare)] = INVALID_INDEX
    BY <1>2, <2>4, <2>5, WalkIs
  <2> QED
    BY <2>2, <2>3, <2>6, <2>7 DEF head, nodes
<1>5. map.size = Cardinality(F) /\ \A i, j \in F : map.nodes[i].key = map.nodes[j].key => i = j
  BY <1>1 DEF Entries, UniqueKeys
<1> HIDE DEF On, F
<1> QED
  BY <1>1, <1>3, <1>4, <1>5 DEF TableExact, On, F

LEMMA InvFinds == Inv => FindsWhatWasPut
<1> SUFFICES ASSUME Inv, NEW key \in Keys
             PROVE  LET i == Find(map, key).node IN
                    IF key \in DOMAIN content
                    THEN i # INVALID_INDEX /\ map.nodes[i].value = content[key] ELSE i = INVALID_INDEX
  BY DEF FindsWhatWasPut
<1> QED
  BY FindIsContent DEF Inv

(* In a program that does not insert again after clear, the map is well    *)
(* formed between any two calls: every index that it keeps is a node's or  *)
(* INVALID_INDEX, however it grew, shrank, was cleared or destroyed        *)
(* (hashmapT).                                                             *)
THEOREM MapTypeOK == ~ ReusesAfterClear => (Spec => []TypeOK)
<1> SUFFICES ASSUME ~ ReusesAfterClear PROVE Spec => []TypeOK
  OBVIOUS
<1>1. Spec => []Inv
  BY Invariant
<1>2. Inv => TypeOK
  BY InvTypeOK
<1> QED
  BY <1>1, <1>2, PTL

(* In such a program no check of the map fails and no search is endless;   *)
(* each chain holds the nodes of its bucket and no others, no key is in    *)
(* two nodes, and the free list holds the unused nodes, of which there is  *)
(* one at least (hashmapT:_find, _at, remove and rehash).                  *)
THEOREM MapExact == ~ ReusesAfterClear => (Spec => []TableExact)
<1> SUFFICES ASSUME ~ ReusesAfterClear PROVE Spec => []TableExact
  OBVIOUS
<1>1. Spec => []Inv
  BY Invariant
<1>2. Inv => TableExact
  BY InvTableExact
<1> QED
  BY <1>1, <1>2, PTL

(* In such a program looking a key up finds the value last put there, and  *)
(* nothing when there is none, through every rehash (hashmapT:_find, _at,  *)
(* remove and rehash).                                                     *)
THEOREM MapFinds == ~ ReusesAfterClear => (Spec => []FindsWhatWasPut)
<1> SUFFICES ASSUME ~ ReusesAfterClear PROVE Spec => []FindsWhatWasPut
  OBVIOUS
<1>1. Spec => []Inv
  BY Invariant
<1>2. Inv => FindsWhatWasPut
  BY InvFinds
<1> QED
  BY <1>1, <1>2, PTL

(* In such a program a traversal visits each element that stays exactly    *)
(* once, though the map grows or loses others meanwhile (hashmapT:next).   *)
THEOREM MapTraversed == ~ ReusesAfterClear => (Spec => TraversalExact)
<1> SUFFICES ASSUME ~ ReusesAfterClear PROVE Spec => TraversalExact
  OBVIOUS
<1>1. Spec => []Inv
  BY Invariant
<1>2. Inv /\ [Next]_vars =>
        [/\ Visit => map.nodes[iter'.index].key \notin iter.seen
         /\ EndTraversal => iter.stable \subseteq iter.seen]_vars
  BY VisitStep, EndStep
<1> QED
  BY <1>1, <1>2, PTL DEF Spec, TraversalExact
===============================================================================
