------------------------------ MODULE HeapProofs ------------------------------
(***************************************************************************)
(* The heap allocator keeps its buffer tiled and its blocks apart, for any *)
(* buffer that holds a chunk, any sizes that leave room for rounding and   *)
(* any number of bins.                                                     *)
(***************************************************************************)
EXTENDS Heap, FiniteSetTheorems, SequenceTheorems, WellFoundedInduction, TLAPS

NodeRec == [size : Nat, prev_adj : Nat, used : BOOLEAN]
IsHeap(h) == h = [nodes |-> h.nodes, bins |-> h.bins]
After(h, n) == n + HeapNode + h.nodes[n].size
FreeIn(h) == {n \in DOMAIN h.nodes : ~h.nodes[n].used}
HeldIn(h) == {n \in DOMAIN h.nodes : h.nodes[n].used} \ {End}

(* The chunks tile the buffer.                                             *)
Tiles(h) ==
  /\ IsHeap(h)
  /\ DOMAIN h.nodes \subseteq Nat
  /\ h.nodes \in [DOMAIN h.nodes -> NodeRec]
  /\ Start \in DOMAIN h.nodes /\ End \in DOMAIN h.nodes
  /\ h.nodes[End].used /\ h.nodes[Start].prev_adj = NIL
  /\ \A n \in DOMAIN h.nodes : Start <= n /\ n <= End
  /\ \A n \in DOMAIN h.nodes \ {End} :
       n % 16 = 0 /\ After(h, n) \in DOMAIN h.nodes /\ h.nodes[After(h, n)].prev_adj = n
  /\ \A n \in DOMAIN h.nodes \ {End}, m \in DOMAIN h.nodes : m > n => m >= After(h, n)
  /\ \A m \in DOMAIN h.nodes \ {Start} :
       h.nodes[m].prev_adj \in DOMAIN h.nodes \ {End} /\ After(h, h.nodes[m].prev_adj) = m

(* The nodes that the bins list, and what a heap lists between operations. *)
Has(s, n) == \E i \in DOMAIN s : s[i] = n
In(bins, b, n) == Has(bins[b], n)
NoDuplicates(s) == \A i, j \in DOMAIN s : s[i] = s[j] => i = j
AreLists(bins) == bins \in [Bins -> Seq(Nat)] /\ \A b \in Bins : NoDuplicates(bins[b])
BinOf(h, n) == get_bin_index(h.nodes[n].size)
Lists(h, X) ==
  /\ AreLists(h.bins)
  /\ \A b \in Bins, n \in Nat : In(h.bins, b, n) <=> n \in X /\ BinOf(h, n) = b
WellFormed(h) == Tiles(h) /\ Lists(h, FreeIn(h))

(* Within an operation on node n of heap h: the bins L list n, everything  *)
(* else is listed as it should be, and the other nodes in use are H, with  *)
(* the sizes they had.                                                     *)
Others(g, n, H, h) == HeldIn(g) \ {n} = H /\ \A m \in H : g.nodes[m].size = h.nodes[m].size
Open(g, n, L, H, h) ==
  /\ Tiles(g) /\ n \in DOMAIN g.nodes \ {End} /\ AreLists(g.bins)
  /\ \A b \in Bins, m \in Nat :
       In(g.bins, b, m) <=> IF m = n THEN b \in L ELSE m \in FreeIn(g) /\ BinOf(g, m) = b
  /\ Others(g, n, H, h)
(* ... and the node after it, listed nowhere, is about to be absorbed.     *)
Joinable(g, n, next, L, H, h) ==
  /\ Tiles(g) /\ n \in DOMAIN g.nodes \ {End} /\ AreLists(g.bins)
  /\ next = After(g, n) /\ next # End
  /\ \A b \in Bins, m \in Nat :
       In(g.bins, b, m) <=> IF m = n THEN b \in L ELSE m \in FreeIn(g) \ {next} /\ BinOf(g, m) = b
  /\ HeldIn(g) \ {n, next} = H /\ \A m \in H : g.nodes[m].size = h.nodes[m].size

(* The blocks D of sizes B are the nodes H in use, and fit in them.        *)
Covers(D, B, h, H) ==
  /\ D \subseteq Nat /\ H \subseteq Nat
  /\ \A p \in D : p - HeapNode \in H /\ B[p] <= h.nodes[p - HeapNode].size
  /\ \A n \in H : n + HeapNode \in D

(* The inductive invariant.                                                *)
IInv ==
  /\ initialized \in BOOLEAN
  /\ DOMAIN blocks \subseteq Nat /\ blocks \in [DOMAIN blocks -> Sizes]
  /\ initialized => WellFormed(heap) /\ Covers(DOMAIN blocks, blocks, heap, HeldIn(heap))
  /\ ~initialized => heap = NoHeap /\ DOMAIN blocks = {}
-------------------------------------------------------------------------------
(* Arithmetic.                                                             *)
LEMMA Parameters ==
  /\ HeapNode \in Nat /\ HeapNode >= 16 /\ HeapNode % 16 = 0
  /\ WORD \in Nat /\ WORD % 16 = 0
  /\ Buffer \in Nat /\ SIZE \in Nat /\ Buffer > 0 /\ Buffer + SIZE + 16 <= WORD
BY HeapParameters DEF ALLOC_ALIGN

(* Sums below WORD do not wrap around.                                     *)
LEMMA ModSmall ==
  ASSUME NEW a \in Nat, a < WORD
  PROVE  a % WORD = a
BY Parameters

(* align_forward returns the next multiple of ALLOC_ALIGN.                 *)
LEMMA AlignForward ==
  ASSUME NEW a \in Nat, a + 15 < WORD
  PROVE  /\ align_forward(a) \in Nat /\ align_forward(a) % 16 = 0
         /\ a <= align_forward(a) /\ align_forward(a) <= a + 15
<1>1. (a + 15) % WORD = a + 15
  BY ModSmall
<1>2. align_forward(a) = ((a + 15) \div 16) * 16
  BY <1>1 DEF align_forward, ALLOC_ALIGN
<1> QED
  BY <1>2

(* A size that leaves room for rounding is rounded up, without overflow.   *)
LEMMA RoundedIs ==
  ASSUME NEW n \in Nat, n + HeapNode + 16 <= WORD
  PROVE  /\ Rounded(n) \in Nat /\ Rounded(n) % 16 = 0
         /\ n <= Rounded(n) /\ Rounded(n) + HeapNode + 16 <= WORD
<1>1. (n + HeapNode) % WORD = n + HeapNode
  BY Parameters, ModSmall
<1>2. n + HeapNode \in Nat /\ (n + HeapNode) + 15 < WORD
  BY Parameters
<1> DEFINE r == align_forward(n + HeapNode)
<1>3. r \in Nat /\ r % 16 = 0 /\ n + HeapNode <= r /\ r <= n + HeapNode + 15
  BY <1>2, AlignForward, Parameters
<1>4. Rounded(n) = (r - HeapNode) % WORD
  BY <1>1 DEF Rounded
<1> HIDE DEF r
<1>5. r - HeapNode \in Nat /\ r - HeapNode < WORD
  BY <1>3, <1>2, Parameters
<1>6. Rounded(n) = r - HeapNode
  BY <1>4, <1>5, ModSmall
<1>7. r + 16 <= WORD
  BY <1>2, <1>3, Parameters
<1> QED
  BY <1>3, <1>6, <1>7, Parameters

(* The first and the last node of the buffer.                              *)
LEMMA Ends ==
  ASSUME Reasonable
  PROVE  /\ Start \in Nat /\ End \in Nat /\ 0 < Start /\ Start % 16 = 0
         /\ Buffer <= Start /\ End + HeapNode = Buffer + SIZE
         /\ Start + HeapNode <= End /\ End < WORD
<1>1. Start \in Nat /\ Start % 16 = 0 /\ Buffer <= Start /\ Start <= Buffer + 15
  BY AlignForward, Parameters DEF Start, Reasonable, ALLOC_ALIGN
<1> QED
  BY <1>1, Parameters DEF End, Reasonable, ALLOC_ALIGN

(* get_next_adj_node returns the node after, without overflow.             *)
LEMMA NextIs ==
  ASSUME Reasonable, NEW h, Tiles(h), NEW n \in DOMAIN h.nodes \ {End}
  PROVE  /\ get_next_adj_node(h, n) = After(h, n)
         /\ After(h, n) \in DOMAIN h.nodes /\ h.nodes[n] \in NodeRec
         /\ n \in Nat /\ After(h, n) \in Nat /\ n < After(h, n) /\ After(h, n) <= End
<1>1. After(h, n) \in DOMAIN h.nodes /\ After(h, n) <= End /\ h.nodes[n] \in NodeRec
  BY DEF Tiles
<1>2. h.nodes[n].size \in Nat /\ n \in Nat /\ After(h, n) \in Nat /\ n < After(h, n)
  BY <1>1, Parameters DEF Tiles, NodeRec, After
<1>3. \A a \in Nat : a <= End => a < WORD
  BY Ends, Parameters
<1>4. After(h, n) % WORD = After(h, n)
  BY <1>1, <1>2, <1>3, ModSmall
<1>5. get_next_adj_node(h, n) = After(h, n) % WORD
  BY DEF get_next_adj_node, After
<1> QED
  BY <1>1, <1>2, <1>4, <1>5
-------------------------------------------------------------------------------
(* Joining a node with the next one, and cutting a node in two, rewrite    *)
(* the neighbours so that the chunks still tile the buffer.                *)
LEMMA AbsorbTiles ==
  ASSUME Reasonable, NEW h, Tiles(h), NEW n \in DOMAIN h.nodes \ {End}, After(h, n) # End,
         NEW g, g = Absorbed(h, n)
  PROVE  /\ Tiles(g) /\ g.bins = h.bins
         /\ DOMAIN g.nodes = DOMAIN h.nodes \ {After(h, n)} /\ n # After(h, n)
         /\ g.nodes[n].size = h.nodes[n].size + HeapNode + h.nodes[After(h, n)].size
         /\ g.nodes[n].used = h.nodes[n].used
         /\ \A m \in DOMAIN h.nodes \ {n, After(h, n)} :
              g.nodes[m].size = h.nodes[m].size /\ g.nodes[m].used = h.nodes[m].used
<1> DEFINE next == After(h, n)
           after == After(h, next)
           D == DOMAIN h.nodes
           total == h.nodes[n].size + HeapNode + h.nodes[next].size
<1>1. /\ next \in D \ {End} /\ n \in Nat /\ next \in Nat /\ n < next
      /\ get_next_adj_node(h, n) = next /\ h.nodes[n] \in NodeRec
  BY NextIs
<1>2. /\ after \in D /\ after \in Nat /\ next < after
      /\ get_next_adj_node(h, next) = after /\ h.nodes[next] \in NodeRec
  BY <1>1, NextIs
<1> DEFINE node(m) == IF m = after THEN [h.nodes[m] EXCEPT !.prev_adj = n]
                      ELSE IF m = n THEN [h.nodes[m] EXCEPT !.size = total]
                      ELSE h.nodes[m]
<1>3. h = [nodes |-> h.nodes, bins |-> h.bins] /\ h.nodes \in [D -> NodeRec]
  BY DEF Tiles, IsHeap
<1>4. g.nodes = [Forgotten(h.nodes, next) EXCEPT ![n].size = total, ![after].prev_adj = n]
      /\ g = [nodes |-> g.nodes, bins |-> h.bins] /\ g.bins = h.bins
  BY <1>1, <1>2, <1>3 DEF Absorbed
<1> DEFINE F == Forgotten(h.nodes, next)
           grown == [h.nodes[n] EXCEPT !.size = total]
           F1 == [F EXCEPT ![n] = grown]
<1>5. g.nodes = [m \in D \ {next} |-> node(m)]
  <2>1. F = [m \in D \ {next} |-> h.nodes[m]] /\ n \in D \ {next} /\ after \in D \ {next} /\ n # after
    BY <1>1, <1>2 DEF Forgotten
  <2>2. F1 = [m \in D \ {next} |-> IF m = n THEN grown ELSE h.nodes[m]]
    BY <2>1
  <2>3. g.nodes = [F1 EXCEPT ![after] = [F1[after] EXCEPT !.prev_adj = n]]
    BY <1>4, <2>1
  <2>4. F1[after] = h.nodes[after]
    BY <2>1, <2>2
  <2> QED
    BY <2>1, <2>2, <2>3, <2>4
<1> HIDE DEF F, F1
<1>6. /\ g.nodes[n].size = h.nodes[n].size + HeapNode + h.nodes[next].size
      /\ g.nodes[n].used = h.nodes[n].used /\ g.nodes[n].prev_adj = h.nodes[n].prev_adj
  BY <1>1, <1>2, <1>5 DEF NodeRec
<1>7. \A m \in D \ {n, next} : /\ g.nodes[m].size = h.nodes[m].size
                               /\ g.nodes[m].used = h.nodes[m].used
                               /\ g.nodes[m].prev_adj = IF m = after THEN n ELSE h.nodes[m].prev_adj
  BY <1>1, <1>2, <1>3, <1>5 DEF NodeRec
<1>8. DOMAIN g.nodes = D \ {next}
  BY <1>5
<1> HIDE DEF node
<1>9. After(g, n) = after /\ \A m \in D \ {n, next} : After(g, m) = After(h, m)
  BY <1>1, <1>2, <1>6, <1>7, Parameters DEF After, NodeRec
<1>10. Tiles(g)
  <2> USE <1>1, <1>2, <1>8
  <2>1. IsHeap(g) /\ D \ {next} \subseteq Nat
    BY <1>4 DEF IsHeap, Tiles
  <2>2. g.nodes \in [D \ {next} -> NodeRec]
    BY <1>3, <1>5, Parameters DEF NodeRec, node
  <2>3. Start \in D \ {next} /\ End \in D \ {next} /\ \A m \in D \ {next} : Start <= m /\ m <= End
    BY Ends DEF Tiles
  <2>4. g.nodes[End].used /\ g.nodes[Start].prev_adj = NIL
    BY <1>6, <1>7, Ends DEF Tiles
  <2>5. ASSUME NEW m \in D \ {next, End}
        PROVE  m % 16 = 0 /\ After(g, m) \in D \ {next} /\ g.nodes[After(g, m)].prev_adj = m
    BY <1>6, <1>7, <1>9 DEF Tiles
  <2>6. ASSUME NEW k \in D \ {next, End}, NEW m \in D \ {next}, m > k
        PROVE  m >= After(g, k)
    <3>1. CASE k = n
      <4>1. m >= next /\ m \in Nat
        BY <3>1, <2>6 DEF Tiles
      <4>2. m > next
        BY <4>1
      <4>3. m >= after
        BY <4>2 DEF Tiles
      <4> QED
        BY <3>1, <4>3, <1>9
    <3>2. CASE k # n
      BY <3>2, <2>6, <1>9 DEF Tiles
    <3> QED
      BY <3>1, <3>2
  <2>7. ASSUME NEW m \in D \ {next, Start}
        PROVE  g.nodes[m].prev_adj \in D \ {next, End} /\ After(g, g.nodes[m].prev_adj) = m
    BY <1>6, <1>7, <1>9 DEF Tiles
  <2> QED
    BY <2>1, <2>2, <2>3, <2>4, <2>5, <2>6, <2>7 DEF Tiles
<1>11. n # next /\ g.bins = h.bins
  BY <1>1, <1>4
<1>12. \A m \in D \ {n, next} : g.nodes[m].size = h.nodes[m].size /\ g.nodes[m].used = h.nodes[m].used
  BY <1>7
<1>13. g.nodes[n].size = total /\ g.nodes[n].used = h.nodes[n].used
  BY <1>6
<1> QED
  BY <1>8, <1>10, <1>11, <1>12, <1>13

(* SplitOff puts a free node between a node and the next one.              *)
LEMMA SplitTiles ==
  ASSUME Reasonable, NEW h, Tiles(h), NEW n \in DOMAIN h.nodes \ {End},
         NEW size \in Nat, size % 16 = 0, Splits(h, n, size),
         NEW g, g = SplitOff(h, n, size), NEW split, split = n + HeapNode + size
  PROVE  /\ Tiles(g) /\ g.bins = h.bins
         /\ DOMAIN g.nodes = DOMAIN h.nodes \cup {split} /\ split \notin DOMAIN h.nodes /\ split # End
         /\ g.nodes[n].size = size /\ g.nodes[n].used = h.nodes[n].used
         /\ g.nodes[split].size = h.nodes[n].size - size - HeapNode /\ ~g.nodes[split].used
         /\ \A m \in DOMAIN h.nodes \ {n} :
              g.nodes[m].size = h.nodes[m].size /\ g.nodes[m].used = h.nodes[m].used
<1> DEFINE next == After(h, n)
           D == DOMAIN h.nodes
           rest == [size |-> h.nodes[n].size - size - HeapNode, prev_adj |-> n, used |-> FALSE]
           node(m) == CASE m = split -> rest
                        [] m = n -> [h.nodes[m] EXCEPT !.size = size]
                        [] m = next -> [h.nodes[m] EXCEPT !.prev_adj = split]
                        [] OTHER -> h.nodes[m]
<1>1. /\ next \in D /\ n \in Nat /\ next \in Nat /\ n < next /\ next <= End
      /\ get_next_adj_node(h, n) = next /\ h.nodes[n] \in NodeRec /\ h.nodes[next] \in NodeRec
  BY NextIs DEF Tiles
<1>2. h.nodes[n].size > size + HeapNode + 16
  BY DEF Splits, MIN_ALLOC_SIZE
<1>3. /\ h.nodes[n].size \in Nat /\ h.nodes[n].size - size - HeapNode \in Nat
      /\ split \in Nat /\ n < split /\ split < next
  BY <1>1, <1>2, Parameters DEF NodeRec, After
<1>4. split \notin D
  <2>1. \A m \in D : m > n => m >= next
    BY DEF Tiles
  <2>2. ~(split >= next)
    BY <1>1, <1>3
  <2> QED
    BY <2>1, <2>2, <1>3
<1>5. /\ g = [nodes |-> [m \in D \cup {split} |-> node(m)], bins |-> h.bins]
      /\ h.nodes \in [D -> NodeRec]
  <2>1. h = [nodes |-> h.nodes, bins |-> h.bins] /\ h.nodes \in [D -> NodeRec]
    BY DEF Tiles, IsHeap
  <2>2. g = [h EXCEPT !.nodes = [m \in D \cup {split} |-> node(m)]]
    BY <1>1 DEF SplitOff
  <2> HIDE DEF node
  <2> QED
    BY <2>1, <2>2
<1>6. /\ g.nodes = [m \in D \cup {split} |-> node(m)] /\ g.bins = h.bins
      /\ IsHeap(g) /\ DOMAIN g.nodes = D \cup {split}
  BY <1>5 DEF IsHeap
<1>7. g.nodes[split] = rest
  <2> HIDE DEF rest
  <2>1. node(split) = rest
    BY <1>1, <1>3
  <2> HIDE DEF node
  <2> QED
    BY <2>1, <1>6
<1>8. g.nodes[n] = [h.nodes[n] EXCEPT !.size = size]
  BY <1>3, <1>6, <1>1
<1>9. \A m \in D \ {n} : /\ g.nodes[m].size = h.nodes[m].size
                         /\ g.nodes[m].used = h.nodes[m].used
                         /\ g.nodes[m].prev_adj = IF m = next THEN split ELSE h.nodes[m].prev_adj
                         /\ g.nodes[m] \in NodeRec
  <2>1. SUFFICES ASSUME NEW m \in D \ {n}
                 PROVE  /\ g.nodes[m].size = h.nodes[m].size
                        /\ g.nodes[m].used = h.nodes[m].used
                        /\ g.nodes[m].prev_adj = IF m = next THEN split ELSE h.nodes[m].prev_adj
                        /\ g.nodes[m] \in NodeRec
    OBVIOUS
  <2>2. h.nodes[m] \in NodeRec
    BY <1>5
  <2>3. g.nodes[m] = IF m = next THEN [h.nodes[m] EXCEPT !.prev_adj = split] ELSE h.nodes[m]
    BY <1>4, <1>6
  <2> QED
    BY <2>2, <2>3, <1>3 DEF NodeRec
<1>10. /\ g.nodes[n].size = size /\ g.nodes[n].used = h.nodes[n].used
       /\ g.nodes[n].prev_adj = h.nodes[n].prev_adj /\ g.nodes[n] \in NodeRec
  BY <1>8, <1>1 DEF NodeRec
<1>11. g.nodes[split].size = h.nodes[n].size - size - HeapNode /\ g.nodes[split].prev_adj = n
  BY <1>7
<1>12. ~g.nodes[split].used /\ g.nodes[split] \in NodeRec
  <2>1. rest \in NodeRec
    BY <1>1, <1>3 DEF NodeRec
  <2> QED
    BY <2>1, <1>7
<1> HIDE DEF node, rest
<1>13. /\ After(g, n) = split
       /\ \A m \in D \ {n} : After(g, m) = After(h, m)
  BY <1>9, <1>10 DEF After
<1>14. After(g, split) = next
  BY <1>11, <1>3, <1>1, Parameters DEF After
<1>15. Tiles(g)
  <2>1. /\ IsHeap(g) /\ D \cup {split} \subseteq Nat /\ g.nodes \in [D \cup {split} -> NodeRec]
        /\ Start \in D /\ End \in D
    BY <1>3, <1>6, <1>9, <1>10, <1>12 DEF Tiles
  <2>2. g.nodes[End].used /\ g.nodes[Start].prev_adj = NIL
    <3>1. Start # next
      BY <1>1, Ends DEF Tiles
    <3> QED
      BY <3>1, <1>9, <1>10 DEF Tiles
  <2>3. \A m \in D \cup {split} : Start <= m /\ m <= End
    <3>1. Start <= n
      BY DEF Tiles
    <3>2. Start <= split /\ split <= End
      BY <3>1, <1>1, <1>3, Ends
    <3> QED
      BY <3>2 DEF Tiles
  <2>4. ASSUME NEW m \in (D \cup {split}) \ {End}
        PROVE  m % 16 = 0 /\ After(g, m) \in D \cup {split} /\ g.nodes[After(g, m)].prev_adj = m
    <3>1. CASE m = split
      <4>1. n % 16 = 0
        BY DEF Tiles
      <4>2. split % 16 = 0
        BY <4>1, <1>1, Parameters
      <4> QED
        BY <3>1, <4>2, <1>14, <1>1, <1>9
    <3>2. CASE m = n
      BY <3>2, <1>13, <1>11 DEF Tiles
    <3>3. CASE m \in D \ {n}
      <4>1. m % 16 = 0 /\ After(h, m) \in D /\ h.nodes[After(h, m)].prev_adj = m
        BY <3>3 DEF Tiles
      <4>2. After(h, m) # next
        BY <4>1, <3>3 DEF Tiles
      <4> QED
        BY <4>1, <4>2, <3>3, <1>13, <1>9, <1>10
    <3> QED
      BY <3>1, <3>2, <3>3
  <2>5. ASSUME NEW k \in (D \cup {split}) \ {End}, NEW m \in D \cup {split}, m > k
        PROVE  m >= After(g, k)
    <3>0. \A a \in D \ {End}, b \in D : b > a => b >= After(h, a)
      BY DEF Tiles
    <3>1. CASE k = n
      BY <3>0, <3>1, <2>1, <2>5, <1>1, <1>3, <1>13
    <3>2. CASE k = split
      <4>1. m \in D /\ m > n
        BY <3>2, <2>1, <2>5, <1>1, <1>3
      <4> QED
        BY <4>1, <3>0, <3>2, <1>14
    <3>3. CASE k \in D \ {n} /\ m \in D
      BY <3>0, <3>3, <2>5, <1>13
    <3>4. CASE k \in D \ {n} /\ m = split
      <4>1. k \in Nat /\ ~(k >= next)
        BY <3>4, <2>1, <2>5, <1>1, <1>3
      <4>2. n > k
        BY <4>1, <3>0, <3>4, <1>1
      <4>3. n >= After(h, k) /\ After(h, k) \in Nat
        BY <4>2, <3>0, <3>4, NextIs
      <4> QED
        BY <4>3, <3>4, <1>1, <1>3, <1>13
    <3> QED
      BY <3>1, <3>2, <3>3, <3>4
  <2>6. ASSUME NEW m \in (D \cup {split}) \ {Start}
        PROVE  /\ g.nodes[m].prev_adj \in (D \cup {split}) \ {End}
               /\ After(g, g.nodes[m].prev_adj) = m
    <3>0. split # End
      BY <1>4 DEF Tiles
    <3>1. CASE m = split
      BY <3>1, <1>11, <1>13
    <3>2. CASE m = next
      <4>1. g.nodes[m].prev_adj = split
        BY <3>2, <1>1, <1>9
      <4> QED
        BY <4>1, <3>0, <3>2, <1>14
    <3>3. CASE m \in D \ {next}
      <4>1. h.nodes[m].prev_adj \in D \ {End} /\ After(h, h.nodes[m].prev_adj) = m
        BY <3>3, <1>4 DEF Tiles
      <4>2. g.nodes[m].prev_adj = h.nodes[m].prev_adj /\ h.nodes[m].prev_adj # n
        BY <3>3, <4>1, <1>9, <1>10
      <4> QED
        BY <4>1, <4>2, <1>13
    <3> QED
      BY <3>1, <3>2, <3>3
  <2> QED
    BY <2>1, <2>2, <2>3, <2>4, <2>5, <2>6, <1>6 DEF Tiles
<1>16. split # End /\ \A m \in D \ {n} : g.nodes[m].size = h.nodes[m].size /\ g.nodes[m].used = h.nodes[m].used
  BY <1>4, <1>9 DEF Tiles
<1> QED
  BY <1>4, <1>6, <1>10, <1>11, <1>12, <1>15, <1>16
-------------------------------------------------------------------------------
(* The bins.                                                               *)
LEMMA BinIndex ==
  ASSUME NEW s \in Nat
  PROVE  /\ get_bin_index(s) \in Bins
         /\ \A t \in Nat : s <= t => get_bin_index(s) <= get_bin_index(t)
<1> DEFINE B(n) == {b \in 1..(BIN_COUNT - 1) : 2 ^ (b + 3) <= n}
<1>0. BIN_COUNT \in Nat /\ BIN_COUNT > 0 /\ 1 \in Int /\ BIN_COUNT - 1 \in Int
  BY HeapParameters
<1>1. IsFiniteSet(1..(BIN_COUNT - 1)) /\ Cardinality(1..(BIN_COUNT - 1)) = BIN_COUNT - 1
  <2>1. /\ IsFiniteSet(1..(BIN_COUNT - 1))
        /\ Cardinality(1..(BIN_COUNT - 1))
             = IF 1 > BIN_COUNT - 1 THEN 0 ELSE BIN_COUNT - 1 - 1 + 1
    BY <1>0, FS_Interval, Zenon
  <2> QED
    BY <2>1, <1>0
<1>2. \A n \in Nat : IsFiniteSet(B(n)) /\ Cardinality(B(n)) \in Nat /\ Cardinality(B(n)) <= BIN_COUNT - 1
  <2>1. TAKE n \in Nat
  <2>2. B(n) \subseteq 1..(BIN_COUNT - 1)
    OBVIOUS
  <2> QED
    BY <2>2, <1>1, FS_Subset, FS_CardinalityType
<1>3. ASSUME NEW t \in Nat, s <= t
      PROVE  Cardinality(B(s)) <= Cardinality(B(t))
  <2>1. ASSUME NEW b \in 1..(BIN_COUNT - 1)
        PROVE  2 ^ (b + 3) \in Nat
    <3> DEFINE S == 1..(b + 3)
    <3>1. b \in Nat /\ 1 \in Int /\ b + 3 \in Int
      BY <1>0
    <3>2. IsFiniteSet(S) /\ Cardinality(S) = IF 1 > b + 3 THEN 0 ELSE b + 3 - 1 + 1
      BY <3>1, FS_Interval
    <3>3. Cardinality(S) = b + 3
      BY <3>1, <3>2
    <3>4. IsFiniteSet(SUBSET S) /\ Cardinality(SUBSET S) = 2 ^ Cardinality(S)
      BY <3>2, FS_SUBSET
    <3>5. Cardinality(SUBSET S) \in Nat
      BY <3>4, FS_CardinalityType
    <3> HIDE DEF S
    <3> QED
      BY <3>3, <3>4, <3>5
  <2>2. B(s) \subseteq B(t)
    BY <1>3, <2>1
  <2> QED
    BY <2>2, <1>2, FS_Subset
<1>4. \A n \in Nat : get_bin_index(n) = Cardinality(B(n))
  BY DEF get_bin_index
<1> HIDE DEF B
<1>5. \A t \in Nat : s <= t => get_bin_index(s) <= get_bin_index(t)
  BY <1>3, <1>4
<1>6. get_bin_index(s) \in 0..(BIN_COUNT - 1)
  BY <1>0, <1>2, <1>4
<1> QED
  BY <1>5, <1>6 DEF Bins

(* remove_bin_node takes the node, and only it, out of the list.           *)
LEMMA UnlinkedIs ==
  ASSUME NEW s \in Seq(Nat), NoDuplicates(s), NEW n \in Nat, NEW t, t = Unlinked(s, n)
  PROVE  /\ t \in Seq(Nat) /\ NoDuplicates(t)
         /\ \A m \in Nat : Has(t, m) <=> m # n /\ Has(s, m)
<1>1. CASE ~Has(s, n)
  BY <1>1 DEF Unlinked, Has
<1>2. CASE Has(s, n)
  <2>1. PICK k \in DOMAIN s : s[k] = n
    BY <1>2 DEF Has
  <2>2. Len(s) \in Nat /\ DOMAIN s = 1..Len(s) /\ k \in 1..Len(s) /\ \A i \in 1..Len(s) : s[i] \in Nat
    BY <2>1
  <2>3. \A j \in 1..(Len(s) - 1) : (\E i \in 1..j : s[i] = n) <=> k <= j
    BY <2>1, <2>2 DEF NoDuplicates
  <2>4. t = [j \in 1..(Len(s) - 1) |-> IF k <= j THEN s[j + 1] ELSE s[j]]
    BY <1>2, <2>3 DEF Unlinked, Has
  <2>5. t \in Seq(Nat) /\ Len(t) = Len(s) - 1 /\ DOMAIN t = 1..(Len(s) - 1)
    BY <2>2, <2>4
  <2>6. NoDuplicates(t)
    <3>1. SUFFICES ASSUME NEW i \in DOMAIN t, NEW j \in DOMAIN t, t[i] = t[j]
                   PROVE  i = j
      BY DEF NoDuplicates
    <3> DEFINE old(x) == IF k <= x THEN x + 1 ELSE x
    <3>2. /\ old(i) \in DOMAIN s /\ t[i] = s[old(i)]
          /\ old(j) \in DOMAIN s /\ t[j] = s[old(j)]
      BY <2>2, <2>4, <2>5
    <3> HIDE DEF old
    <3>3. old(i) = old(j)
      BY <3>1, <3>2 DEF NoDuplicates
    <3>4. i \in Nat /\ j \in Nat /\ k \in Nat
      BY <2>2, <2>5
    <3> QED
      BY <3>3, <3>4 DEF old
  <2>7. ASSUME NEW m \in Nat
        PROVE  Has(t, m) <=> m # n /\ Has(s, m)
    <3>1. ASSUME NEW i \in DOMAIN t, t[i] = m
          PROVE  m # n /\ \E j \in DOMAIN s : s[j] = m
      <4>1. t[i] = s[IF k <= i THEN i + 1 ELSE i] /\ (IF k <= i THEN i + 1 ELSE i) \in DOMAIN s \ {k}
        BY <2>2, <2>4, <2>5
      <4> QED
        BY <3>1, <4>1, <2>1 DEF NoDuplicates
    <3>2. ASSUME NEW j \in DOMAIN s, s[j] = m, m # n
          PROVE  \E i \in DOMAIN t : t[i] = m
      <4>1. CASE j < k
        <5>1. j \in DOMAIN t /\ t[j] = s[j]
          BY <4>1, <2>2, <2>4, <2>5
        <5> QED
          BY <5>1, <3>2
      <4>2. CASE j > k
        <5>1. j - 1 \in DOMAIN t /\ t[j - 1] = s[j]
          BY <4>2, <2>2, <2>4, <2>5
        <5> QED
          BY <5>1, <3>2
      <4> QED
        BY <4>1, <4>2, <3>2, <2>1, <2>2
    <3> QED
      BY <3>1, <3>2 DEF Has
  <2> QED
    BY <2>5, <2>6, <2>7
<1> QED
  BY <1>1, <1>2

(* add_node puts the node in front of the list.                            *)
LEMMA PushedIs ==
  ASSUME NEW s \in Seq(Nat), NoDuplicates(s), NEW n \in Nat, ~Has(s, n),
         NEW t, t = <<n>> \o s
  PROVE  /\ t \in Seq(Nat) /\ NoDuplicates(t)
         /\ \A m \in Nat : Has(t, m) <=> m = n \/ Has(s, m)
<1>1. /\ t \in Seq(Nat) /\ Len(t) = Len(s) + 1 /\ DOMAIN t = 1..(Len(s) + 1)
      /\ DOMAIN s = 1..Len(s) /\ Len(s) \in Nat
      /\ \A i \in 1..(Len(s) + 1) : t[i] = IF i = 1 THEN n ELSE s[i - 1]
  OBVIOUS
<1>2. NoDuplicates(t)
  <2>1. SUFFICES ASSUME NEW i \in DOMAIN t, NEW j \in DOMAIN t, t[i] = t[j]
                 PROVE  i = j
    BY DEF NoDuplicates
  <2>2. /\ i > 1 => i - 1 \in DOMAIN s /\ t[i] = s[i - 1]
        /\ j > 1 => j - 1 \in DOMAIN s /\ t[j] = s[j - 1]
    BY <1>1
  <2>3. i > 1 /\ j > 1 => i - 1 = j - 1
    BY <2>1, <2>2 DEF NoDuplicates
  <2>4. i > 1 <=> j > 1
    BY <1>1, <2>1, <2>2 DEF Has
  <2> QED
    BY <1>1, <2>3, <2>4
<1>3. ASSUME NEW m \in Nat
      PROVE  Has(t, m) <=> m = n \/ Has(s, m)
  <2>1. ASSUME NEW i \in DOMAIN s, s[i] = m
        PROVE  \E j \in DOMAIN t : t[j] = m
    <3>1. i + 1 \in DOMAIN t /\ t[i + 1] = s[i]
      BY <1>1
    <3> QED
      BY <2>1, <3>1
  <2> QED
    BY <1>1, <2>1 DEF Has
<1> QED
  BY <1>1, <1>2, <1>3
-------------------------------------------------------------------------------
(* What the helpers do to a heap.                                          *)
LEMMA SameTiles ==
  ASSUME NEW h, Tiles(h), NEW g, IsHeap(g), DOMAIN g.nodes = DOMAIN h.nodes,
         g.nodes[End].used,
         \A m \in DOMAIN h.nodes : /\ g.nodes[m] \in NodeRec
                                   /\ g.nodes[m].size = h.nodes[m].size
                                   /\ g.nodes[m].prev_adj = h.nodes[m].prev_adj,
         g.nodes = [m \in DOMAIN h.nodes |-> g.nodes[m]]
  PROVE  Tiles(g)
<1> DEFINE D == DOMAIN h.nodes
<1>1. \A m \in D : After(g, m) = After(h, m)
  BY DEF After
<1>2. g.nodes \in [D -> NodeRec]
  OBVIOUS
<1>3. /\ D \subseteq Nat /\ Start \in D /\ End \in D /\ g.nodes[Start].prev_adj = NIL
      /\ \A n \in D : Start <= n /\ n <= End
  BY DEF Tiles
<1>4. \A n \in D \ {End} : n % 16 = 0 /\ After(g, n) \in D /\ g.nodes[After(g, n)].prev_adj = n
  BY <1>1 DEF Tiles
<1>5. \A n \in D \ {End}, m \in D : m > n => m >= After(g, n)
  BY <1>1 DEF Tiles
<1>6. \A m \in D \ {Start} : g.nodes[m].prev_adj \in D \ {End} /\ After(g, g.nodes[m].prev_adj) = m
  BY <1>1 DEF Tiles
<1> QED
  BY <1>2, <1>3, <1>4, <1>5, <1>6 DEF Tiles

(* Heap:remove_bin_node changes one bin, and no node.                      *)
LEMMA RemovedIs ==
  ASSUME Reasonable, NEW h, Tiles(h), AreLists(h.bins), NEW b \in Bins, NEW n \in Nat,
         NEW g, g = Removed(h, b, n)
  PROVE  /\ Tiles(g) /\ g.nodes = h.nodes /\ AreLists(g.bins)
         /\ \A c \in Bins, m \in Nat : In(g.bins, c, m) <=> In(h.bins, c, m) /\ ~(c = b /\ m = n)
<1>1. h = [nodes |-> h.nodes, bins |-> h.bins] /\ h.bins \in [Bins -> Seq(Nat)]
  BY DEF Tiles, IsHeap, AreLists
<1>2. g = [nodes |-> h.nodes, bins |-> [h.bins EXCEPT ![b] = Unlinked(h.bins[b], n)]]
  BY <1>1 DEF Removed
<1>3. IsHeap(g) /\ g.nodes = h.nodes /\ g.bins = [h.bins EXCEPT ![b] = Unlinked(h.bins[b], n)]
  BY <1>2 DEF IsHeap
<1>4. Tiles(g)
  BY <1>3, SameTiles DEF Tiles
<1>5. /\ Unlinked(h.bins[b], n) \in Seq(Nat) /\ NoDuplicates(Unlinked(h.bins[b], n))
      /\ \A m \in Nat : In(g.bins, b, m) <=> m # n /\ In(h.bins, b, m)
  <2>1. h.bins[b] \in Seq(Nat) /\ NoDuplicates(h.bins[b])
    BY DEF AreLists
  <2>2. g.bins[b] = Unlinked(h.bins[b], n)
    BY <1>1, <1>3
  <2> QED
    BY <2>1, <2>2, UnlinkedIs DEF In
<1>6. \A c \in Bins \ {b} : g.bins[c] = h.bins[c]
  BY <1>1, <1>3
<1>7. AreLists(g.bins)
  BY <1>1, <1>3, <1>5, <1>6 DEF AreLists
<1> QED
  BY <1>3, <1>4, <1>5, <1>6, <1>7 DEF In

(* Heap:add_node frees a node and lists it in the bin of its size.         *)
LEMMA AddedIs ==
  ASSUME Reasonable, NEW h, Tiles(h), AreLists(h.bins), NEW n \in DOMAIN h.nodes \ {End},
         ~In(h.bins, BinOf(h, n), n), NEW g, g = Added(h, n)
  PROVE  /\ Tiles(g) /\ DOMAIN g.nodes = DOMAIN h.nodes /\ AreLists(g.bins)
         /\ \A c \in Bins, m \in Nat :
              In(g.bins, c, m) <=> In(h.bins, c, m) \/ (c = BinOf(h, n) /\ m = n)
         /\ ~g.nodes[n].used
         /\ \A m \in DOMAIN h.nodes : g.nodes[m].size = h.nodes[m].size
         /\ \A m \in DOMAIN h.nodes \ {n} : g.nodes[m].used = h.nodes[m].used
<1> DEFINE D == DOMAIN h.nodes
           b == BinOf(h, n)
<1>1. /\ h = [nodes |-> h.nodes, bins |-> h.bins] /\ h.bins \in [Bins -> Seq(Nat)]
      /\ h.nodes \in [D -> NodeRec] /\ D \subseteq Nat /\ n \in D /\ n \in Nat
  BY DEF Tiles, IsHeap, AreLists
<1>2. b \in Bins
  BY <1>1, BinIndex DEF BinOf, NodeRec
<1> DEFINE node == [h.nodes[n] EXCEPT !.used = FALSE]
<1>3. g = [nodes |-> [h.nodes EXCEPT ![n] = node], bins |-> [h.bins EXCEPT ![b] = <<n>> \o h.bins[b]]]
  BY <1>1 DEF Added, BinOf
<1>4. /\ IsHeap(g) /\ g.nodes = [h.nodes EXCEPT ![n] = node]
      /\ g.bins = [h.bins EXCEPT ![b] = <<n>> \o h.bins[b]]
  BY <1>3 DEF IsHeap
<1>5. /\ node \in NodeRec /\ node.size = h.nodes[n].size /\ node.prev_adj = h.nodes[n].prev_adj
  BY <1>1 DEF NodeRec
<1>6. ~node.used
  BY <1>1 DEF NodeRec
<1> HIDE DEF node
<1>7. /\ DOMAIN g.nodes = D /\ g.nodes[n] = node /\ \A m \in D \ {n} : g.nodes[m] = h.nodes[m]
      /\ g.nodes = [m \in D |-> g.nodes[m]]
  BY <1>1, <1>4
<1>8. \A m \in D : /\ g.nodes[m] \in NodeRec /\ g.nodes[m].size = h.nodes[m].size
                   /\ g.nodes[m].prev_adj = h.nodes[m].prev_adj
  BY <1>1, <1>5, <1>7
<1>9. Tiles(g)
  <2>1. g.nodes[End].used
    BY <1>7 DEF Tiles
  <2> QED
    BY <2>1, <1>4, <1>7, <1>8, SameTiles
<1>10. /\ g.bins[b] \in Seq(Nat) /\ NoDuplicates(g.bins[b])
       /\ \A m \in Nat : In(g.bins, b, m) <=> m = n \/ In(h.bins, b, m)
  <2>1. h.bins[b] \in Seq(Nat) /\ NoDuplicates(h.bins[b])
    BY <1>2 DEF AreLists
  <2>2. g.bins[b] = <<n>> \o h.bins[b]
    BY <1>1, <1>2, <1>4
  <2> QED
    BY <1>1, <2>1, <2>2, PushedIs DEF In
<1>11. \A c \in Bins \ {b} : g.bins[c] = h.bins[c]
  BY <1>1, <1>4
<1>12. AreLists(g.bins)
  <2> HIDE DEF b
  <2>1. \A c \in Bins : g.bins[c] \in Seq(Nat) /\ NoDuplicates(g.bins[c])
    BY <1>10, <1>11 DEF AreLists
  <2>2. g.bins = [c \in Bins |-> g.bins[c]]
    BY <1>1, <1>4
  <2> QED
    BY <2>1, <2>2 DEF AreLists
<1>13. \A c \in Bins, m \in Nat : In(g.bins, c, m) <=> In(h.bins, c, m) \/ (c = BinOf(h, n) /\ m = n)
  BY <1>10, <1>11 DEF In
<1> QED
  BY <1>6, <1>7, <1>8, <1>9, <1>12, <1>13
-------------------------------------------------------------------------------
(* An operation opens a heap at a node, changes it, and closes it.         *)
LEMMA Opened ==
  ASSUME NEW h, WellFormed(h), NEW n \in DOMAIN h.nodes \ {End}
  PROVE  Open(h, n, IF h.nodes[n].used THEN {} ELSE {BinOf(h, n)}, HeldIn(h) \ {n}, h)
BY DEF WellFormed, Lists, FreeIn, HeldIn, Open, Others

(* The node at which the heap is open is taken out of a bin.               *)
LEMMA RemovedOpen ==
  ASSUME Reasonable, NEW h, NEW g, NEW n, NEW L, NEW H, Open(g, n, L, H, h),
         NEW b \in Bins, NEW f, f = Removed(g, b, n)
  PROVE  Open(f, n, L \ {b}, H, h) /\ f.nodes = g.nodes
<1>1. n \in Nat /\ Tiles(g) /\ AreLists(g.bins)
  BY DEF Open, Tiles
<1>2. /\ Tiles(f) /\ f.nodes = g.nodes /\ AreLists(f.bins)
      /\ \A c \in Bins, m \in Nat : In(f.bins, c, m) <=> In(g.bins, c, m) /\ ~(c = b /\ m = n)
  BY <1>1, RemovedIs
<1>3. Others(f, n, H, h) /\ FreeIn(f) = FreeIn(g) /\ \A m : BinOf(f, m) = BinOf(g, m)
  BY <1>2 DEF Open, Others, HeldIn, FreeIn, BinOf
<1>4. \A c \in Bins, m \in Nat :
        In(f.bins, c, m) <=> IF m = n THEN c \in L \ {b} ELSE m \in FreeIn(f) /\ BinOf(f, m) = c
  BY <1>2, <1>3 DEF Open
<1> QED
  BY <1>2, <1>3, <1>4 DEF Open

(* The node absorbs the next one.                                          *)
LEMMA AbsorbOpen ==
  ASSUME Reasonable, NEW h, NEW g, NEW n, NEW next, NEW L, NEW H, Joinable(g, n, next, L, H, h)
  PROVE  /\ Open(Absorbed(g, n), n, L, H, h) /\ Absorbed(g, n).nodes[n].used = g.nodes[n].used
         /\ Absorbed(g, n).nodes[n].size = g.nodes[n].size + HeapNode + g.nodes[next].size
<1> DEFINE f == Absorbed(g, n)
<1> HIDE DEF f
<1>1. /\ Tiles(f) /\ f.bins = g.bins
      /\ DOMAIN f.nodes = DOMAIN g.nodes \ {next} /\ n # next
      /\ f.nodes[n].size = g.nodes[n].size + HeapNode + g.nodes[next].size
      /\ f.nodes[n].used = g.nodes[n].used
      /\ \A m \in DOMAIN g.nodes \ {n, next} :
           f.nodes[m].size = g.nodes[m].size /\ f.nodes[m].used = g.nodes[m].used
  BY AbsorbTiles DEF Joinable, f
<1>2. Others(f, n, H, h)
  <2>1. HeldIn(f) \ {n} = H
    BY <1>1 DEF HeldIn, Joinable
  <2> QED
    BY <2>1, <1>1 DEF Others, HeldIn, Joinable
<1>3. FreeIn(f) \ {n} = FreeIn(g) \ {n, next}
  BY <1>1 DEF FreeIn
<1>4. \A m \in FreeIn(f) \ {n} : BinOf(f, m) = BinOf(g, m)
  BY <1>1, <1>3 DEF FreeIn, BinOf
<1>5. ASSUME NEW b \in Bins, NEW m \in Nat
      PROVE  In(f.bins, b, m) <=> IF m = n THEN b \in L ELSE m \in FreeIn(f) /\ BinOf(f, m) = b
  BY <1>1, <1>3, <1>4 DEF Joinable
<1>6. n \in DOMAIN f.nodes \ {End} /\ AreLists(f.bins)
  BY <1>1 DEF Joinable
<1>7. Open(f, n, L, H, h)
  BY <1>1, <1>2, <1>5, <1>6 DEF Open
<1>8. f.nodes[n].used = g.nodes[n].used
  BY <1>1
<1>9. f.nodes[n].size = g.nodes[n].size + HeapNode + g.nodes[next].size
  BY <1>1
<1> QED
  BY <1>7, <1>8, <1>9 DEF f

(* The node absorbs the next one, which is free, after it left its bin.    *)
LEMMA JoinedOpen ==
  ASSUME Reasonable, NEW h, NEW g, NEW n, NEW L, NEW H, Open(g, n, L, H, h),
         IsFree(g, get_next_adj_node(g, n)), NEW f, f = Joined(g, n)
  PROVE  /\ Open(f, n, L, H, h) /\ f.nodes[n].used = g.nodes[n].used
         /\ f.nodes[n].size = g.nodes[n].size + HeapNode + g.nodes[get_next_adj_node(g, n)].size
<1> DEFINE next == After(g, n)
<1>1. /\ Tiles(g) /\ n \in DOMAIN g.nodes \ {End} /\ AreLists(g.bins)
      /\ get_next_adj_node(g, n) = next /\ next \in DOMAIN g.nodes /\ next \in Nat /\ n \in Nat /\ n < next
  BY NextIs DEF Open
<1>2. next # End /\ next \in FreeIn(g)
  BY <1>1 DEF IsFree, FreeIn, Tiles
<1>3. g.nodes[next].size \in Nat
  BY <1>1 DEF Tiles, NodeRec
<1> DEFINE b == BinOf(g, next)
<1>4. b \in Bins
  BY <1>3, BinIndex DEF BinOf
<1> HIDE DEF b, next
<1>5. PICK e : e = Removed(g, b, next)
  OBVIOUS
<1>6. Tiles(g) /\ AreLists(g.bins) /\ next \in Nat
  BY <1>1
<1>7. /\ Tiles(e) /\ e.nodes = g.nodes /\ AreLists(e.bins)
      /\ \A c \in Bins, m \in Nat : In(e.bins, c, m) <=> In(g.bins, c, m) /\ ~(c = b /\ m = next)
  BY <1>4, <1>5, <1>6, RemovedIs
<1>8. f = Absorbed(e, n)
  BY <1>1, <1>5 DEF Joined, BinOf, b
<1>9. After(e, n) = next /\ FreeIn(e) = FreeIn(g) /\ HeldIn(e) = HeldIn(g) /\ \A m : BinOf(e, m) = BinOf(g, m)
  BY <1>7 DEF After, FreeIn, HeldIn, BinOf, next
<1>10. HeldIn(e) \ {n, next} = H /\ \A m \in H : e.nodes[m].size = h.nodes[m].size
  BY <1>2, <1>7, <1>9 DEF Open, Others, HeldIn, FreeIn
<1>11. \A c \in Bins, m \in Nat :
        In(e.bins, c, m) <=> IF m = n THEN c \in L ELSE m \in FreeIn(e) \ {next} /\ BinOf(e, m) = c
  BY <1>1, <1>2, <1>7, <1>9 DEF Open, b
<1>12. n \in DOMAIN e.nodes \ {End}
  BY <1>1, <1>7
<1>13. Joinable(e, n, next, L, H, h)
  BY <1>2, <1>7, <1>9, <1>10, <1>11, <1>12 DEF Joinable
<1>14. /\ Open(f, n, L, H, h) /\ f.nodes[n].used = e.nodes[n].used
       /\ f.nodes[n].size = e.nodes[n].size + HeapNode + e.nodes[next].size
  BY <1>8, <1>13, AbsorbOpen
<1> QED
  BY <1>1, <1>7, <1>14

(* The node is cut in two, and the second part is free and listed.         *)
LEMMA SplitOpen ==
  ASSUME Reasonable, NEW h, NEW g, NEW n, NEW L, NEW H, Open(g, n, L, H, h),
         NEW size \in Nat, size % 16 = 0, size <= g.nodes[n].size, NEW f, f = Split(g, n, size)
  PROVE  /\ Open(f, n, L, H, h) /\ f.nodes[n].used = g.nodes[n].used
         /\ size <= f.nodes[n].size
<1>1. CASE ~Splits(g, n, size)
  BY <1>1 DEF Split
<1>2. CASE Splits(g, n, size)
  <2>1. /\ Tiles(g) /\ n \in DOMAIN g.nodes \ {End} /\ AreLists(g.bins) /\ n \in Nat
    BY DEF Open, Tiles
  <2>2. PICK e : e = SplitOff(g, n, size)
    OBVIOUS
  <2>3. PICK split : split = n + HeapNode + size
    OBVIOUS
  <2>4. /\ Tiles(e) /\ e.bins = g.bins
        /\ DOMAIN e.nodes = DOMAIN g.nodes \cup {split} /\ split \notin DOMAIN g.nodes /\ split # End
        /\ e.nodes[n].size = size /\ e.nodes[n].used = g.nodes[n].used
        /\ \A m \in DOMAIN g.nodes \ {n} :
             e.nodes[m].size = g.nodes[m].size /\ e.nodes[m].used = g.nodes[m].used
    BY <1>2, <2>1, <2>2, <2>3, SplitTiles
  <2>5. split \in Nat /\ e.nodes[split].size \in Nat /\ split # n
    BY <2>1, <2>4 DEF Tiles, NodeRec
  <2>6. BinOf(e, split) \in Bins
    BY <2>5, BinIndex DEF BinOf
  <2>7. \A c \in Bins : ~In(e.bins, c, split)
    BY <2>4, <2>5 DEF Open, FreeIn
  <2>8. split \in DOMAIN e.nodes \ {End} /\ AreLists(e.bins) /\ ~In(e.bins, BinOf(e, split), split)
    BY <2>1, <2>4, <2>6, <2>7
  <2>9. f = Added(e, split)
    BY <1>2, <2>2, <2>3 DEF Split
  <2>10. /\ Tiles(f) /\ DOMAIN f.nodes = DOMAIN e.nodes /\ AreLists(f.bins)
         /\ \A c \in Bins, m \in Nat :
              In(f.bins, c, m) <=> In(e.bins, c, m) \/ (c = BinOf(e, split) /\ m = split)
         /\ ~f.nodes[split].used
         /\ \A m \in DOMAIN e.nodes : f.nodes[m].size = e.nodes[m].size
         /\ \A m \in DOMAIN e.nodes \ {split} : f.nodes[m].used = e.nodes[m].used
    BY <2>4, <2>8, <2>9, AddedIs
  <2>11. f.nodes[n].size = size /\ f.nodes[n].used = g.nodes[n].used
    BY <2>1, <2>4, <2>5, <2>10
  <2>12. FreeIn(f) \ {n} = (FreeIn(g) \ {n}) \cup {split}
    BY <2>4, <2>5, <2>10 DEF FreeIn
  <2>13. \A m \in FreeIn(g) \ {n} : m # split /\ BinOf(f, m) = BinOf(g, m)
    BY <2>4, <2>10 DEF FreeIn, BinOf
  <2>14. BinOf(f, split) = BinOf(e, split)
    BY <2>4, <2>10 DEF BinOf
  <2>15. ASSUME NEW c \in Bins, NEW m \in Nat
         PROVE  In(f.bins, c, m) <=> IF m = n THEN c \in L ELSE m \in FreeIn(f) /\ BinOf(f, m) = c
    <3>1. In(g.bins, c, m) <=> IF m = n THEN c \in L ELSE m \in FreeIn(g) /\ BinOf(g, m) = c
      BY DEF Open
    <3> QED
      BY <3>1, <2>4, <2>5, <2>7, <2>10, <2>12, <2>13, <2>14
  <2>16. HeldIn(f) \ {n} = HeldIn(g) \ {n}
    BY <2>4, <2>10 DEF HeldIn
  <2>17. Others(f, n, H, h)
    BY <2>4, <2>10, <2>16 DEF Open, Others, HeldIn
  <2> QED
    BY <2>1, <2>4, <2>10, <2>11, <2>15, <2>17 DEF Open
<1> QED
  BY <1>1, <1>2

(* The node is freed.                                                      *)
LEMMA AddedClose ==
  ASSUME Reasonable, NEW h, NEW g, NEW n, NEW H, Open(g, n, {}, H, h), NEW f, f = Added(g, n)
  PROVE  WellFormed(f) /\ HeldIn(f) = H /\ \A m \in H : f.nodes[m].size = h.nodes[m].size
<1>1. /\ Tiles(g) /\ n \in DOMAIN g.nodes \ {End} /\ AreLists(g.bins) /\ n \in Nat
  BY DEF Open, Tiles
<1>2. g.nodes[n].size \in Nat
  BY <1>1 DEF Tiles, NodeRec
<1>3. BinOf(g, n) \in Bins
  BY <1>2, BinIndex DEF BinOf
<1>4. ~In(g.bins, BinOf(g, n), n)
  BY <1>1, <1>3 DEF Open
<1>5. /\ Tiles(f) /\ DOMAIN f.nodes = DOMAIN g.nodes /\ AreLists(f.bins)
      /\ \A c \in Bins, m \in Nat : In(f.bins, c, m) <=> In(g.bins, c, m) \/ (c = BinOf(g, n) /\ m = n)
      /\ ~f.nodes[n].used
      /\ \A m \in DOMAIN g.nodes : f.nodes[m].size = g.nodes[m].size
      /\ \A m \in DOMAIN g.nodes \ {n} : f.nodes[m].used = g.nodes[m].used
  BY <1>1, <1>4, AddedIs
<1>6. FreeIn(f) = (FreeIn(g) \ {n}) \cup {n} /\ HeldIn(f) = HeldIn(g) \ {n}
  BY <1>1, <1>5 DEF FreeIn, HeldIn
<1>7. \A m \in DOMAIN g.nodes : BinOf(f, m) = BinOf(g, m)
  BY <1>5 DEF BinOf
<1>8. ASSUME NEW c \in Bins, NEW m \in Nat
      PROVE  In(f.bins, c, m) <=> m \in FreeIn(f) /\ BinOf(f, m) = c
  <2>1. In(g.bins, c, m) <=> m # n /\ m \in FreeIn(g) /\ BinOf(g, m) = c
    BY DEF Open
  <2>2. m \in FreeIn(g) => m \in DOMAIN g.nodes
    BY DEF FreeIn
  <2> QED
    BY <2>1, <2>2, <1>1, <1>5, <1>6, <1>7
<1>9. HeldIn(f) = H /\ \A m \in H : f.nodes[m].size = h.nodes[m].size
  BY <1>5, <1>6 DEF Open, Others, HeldIn
<1> QED
  BY <1>5, <1>8, <1>9 DEF WellFormed, Lists

(* The node stays in use.                                                  *)
LEMMA HeldClose ==
  ASSUME Reasonable, NEW h, NEW g, NEW n, NEW H, Open(g, n, {}, H, h), g.nodes[n].used
  PROVE  WellFormed(g) /\ HeldIn(g) = H \cup {n} /\ \A m \in H : g.nodes[m].size = h.nodes[m].size
<1>1. n \notin FreeIn(g) /\ n \in HeldIn(g)
  BY DEF FreeIn, HeldIn, Open
<1> QED
  BY <1>1 DEF Open, Others, WellFormed, Lists

(* The flag that Heap:alloc sets.                                          *)
MarkedUsed(g, n) == [g EXCEPT !.nodes[n].used = TRUE]

(* The node, listed nowhere, is put in use.                                *)
LEMMA UsedClose ==
  ASSUME Reasonable, NEW h, NEW g, NEW n, NEW H, Open(g, n, {}, H, h),
         NEW f, f = MarkedUsed(g, n)
  PROVE  /\ WellFormed(f) /\ HeldIn(f) = H \cup {n} /\ f.nodes[n].size = g.nodes[n].size
         /\ \A m \in H : f.nodes[m].size = h.nodes[m].size
<1> DEFINE D == DOMAIN g.nodes
           node == [g.nodes[n] EXCEPT !.used = TRUE]
<1>1. /\ g = [nodes |-> g.nodes, bins |-> g.bins] /\ g.nodes \in [D -> NodeRec]
      /\ Tiles(g) /\ n \in D \ {End} /\ AreLists(g.bins) /\ n \in Nat
  BY DEF Open, Tiles, IsHeap
<1>2. f = [nodes |-> [g.nodes EXCEPT ![n] = node], bins |-> g.bins]
  BY <1>1 DEF MarkedUsed
<1>3. IsHeap(f) /\ f.nodes = [g.nodes EXCEPT ![n] = node] /\ f.bins = g.bins
  BY <1>2 DEF IsHeap
<1>4. node \in NodeRec /\ node.size = g.nodes[n].size /\ node.prev_adj = g.nodes[n].prev_adj
  BY <1>1 DEF NodeRec
<1>5. node.used
  BY <1>1 DEF NodeRec
<1> HIDE DEF node
<1>6. /\ DOMAIN f.nodes = D /\ f.nodes[n] = node /\ \A m \in D \ {n} : f.nodes[m] = g.nodes[m]
      /\ f.nodes = [m \in D |-> f.nodes[m]]
  BY <1>1, <1>3
<1>7. \A m \in D : /\ f.nodes[m] \in NodeRec /\ f.nodes[m].size = g.nodes[m].size
                   /\ f.nodes[m].prev_adj = g.nodes[m].prev_adj
  BY <1>1, <1>4, <1>6
<1>8. Tiles(f)
  <2>1. f.nodes[End].used
    BY <1>1, <1>6 DEF Tiles
  <2>2. Tiles(g) /\ IsHeap(f)
    BY <1>1, <1>3
  <2>3. DOMAIN f.nodes = D /\ f.nodes = [m \in D |-> f.nodes[m]]
    BY <1>6
  <2> QED
    BY <1>7, <2>1, <2>2, <2>3, SameTiles
<1>9. f.nodes[n].used /\ \A m \in D \ {n} : f.nodes[m].used = g.nodes[m].used
  BY <1>5, <1>6
<1>10. FreeIn(f) = FreeIn(g) \ {n} /\ HeldIn(f) = (HeldIn(g) \ {n}) \cup {n}
  BY <1>1, <1>6, <1>9 DEF FreeIn, HeldIn
<1>11. \A m \in FreeIn(f) : BinOf(f, m) = BinOf(g, m)
  BY <1>6, <1>7 DEF BinOf, FreeIn
<1>12. Lists(f, FreeIn(f))
  BY <1>1, <1>3, <1>10, <1>11 DEF Open, Lists
<1>13. HeldIn(f) = H \cup {n} /\ \A m \in H : f.nodes[m].size = h.nodes[m].size
  BY <1>7, <1>10 DEF Open, Others, HeldIn
<1> QED
  BY <1>1, <1>7, <1>8, <1>12, <1>13 DEF WellFormed
-------------------------------------------------------------------------------
(* The search.                                                             *)
LEMMA LeastIs ==
  ASSUME NEW S \in SUBSET Nat, S # {}
  PROVE  Least(S) \in S
<1>1. PICK i \in S : \A j \in S : ~(j < i)
  <2>1. IsWellFoundedOn(OpToRel(<, Nat), Nat)
    BY NatLessThanWellFounded
  <2>2. PICK x \in S : \A y \in S : ~(<<y, x>> \in OpToRel(<, Nat))
    BY <2>1, WFMin
  <2> QED
    BY <2>2 DEF OpToRel
<1>2. \E x \in S : \A j \in S : x <= j
  BY <1>1
<1> QED
  BY <1>2 DEF Least

(* A place is a bin and an index of it.                                    *)
LEMMA PlacesAre ==
  ASSUME NEW h, AreLists(h.bins), NEW at \in Places(h)
  PROVE  /\ at = <<at[1], at[2]>> /\ at[1] \in Bins /\ at[1] \in Nat
         /\ at[2] \in DOMAIN h.bins[at[1]] /\ at[2] \in Nat
<1>1. PICK b \in Bins : at \in {b} \X DOMAIN h.bins[b]
  BY DEF Places
<1>2. h.bins[b] \in Seq(Nat) /\ b \in Nat
  BY HeapParameters DEF AreLists, Bins
<1>3. DOMAIN h.bins[b] = 1..Len(h.bins[b])
  BY <1>2
<1> QED
  BY <1>1, <1>2, <1>3

(* The search returns one of the places found.                             *)
LEMMA FirstIn ==
  ASSUME NEW h, AreLists(h.bins), NEW S \in SUBSET Places(h), S # {}
  PROVE  FirstOf(S) \in S
<1> DEFINE B == {at[1] : at \in S}
           b == Least(B)
           I == {at[2] : at \in {other \in S : other[1] = b}}
<1>1. \A at \in S : at = <<at[1], at[2]>> /\ at[1] \in Nat /\ at[2] \in Nat
  BY PlacesAre
<1>2. B \subseteq Nat /\ B # {}
  BY <1>1
<1>3. b \in B
  BY <1>2, LeastIs
<1> HIDE DEF b
<1>4. I \subseteq Nat /\ I # {}
  BY <1>1, <1>3
<1>5. Least(I) \in I
  BY <1>4, LeastIs
<1>6. PICK at \in S : at[1] = b /\ at[2] = Least(I)
  BY <1>5
<1>7. at = <<b, Least(I)>>
  BY <1>1, <1>6
<1> QED
  BY <1>7 DEF FirstOf, b

(* Heap:alloc returns nothing and changes nothing, or hands out a chunk of *)
(* the size asked for that no block had.                                   *)
LEMMA AllocatedIs ==
  ASSUME Reasonable, NEW h, WellFormed(h), NEW size \in Nat, size + HeapNode + 16 <= WORD,
         NEW r, r = Allocated(h, size)
  PROVE  /\ r.ptr = NIL => r.heap = h
         /\ r.ptr = NIL => size = 0 \/ \A n \in FreeIn(h) : h.nodes[n].size < Rounded(size)
         /\ r.ptr # NIL =>
              \E n \in Nat \ HeldIn(h) :
                /\ r.ptr = n + HeapNode /\ WellFormed(r.heap) /\ HeldIn(r.heap) = HeldIn(h) \cup {n}
                /\ size <= r.heap.nodes[n].size
                /\ \A m \in HeldIn(h) : r.heap.nodes[m].size = h.nodes[m].size
<1> DEFINE R == Rounded(size)
           S == Candidates(h, R)
           at == FirstOf(S)
           found == h.bins[at[1]][at[2]]
<1>1. R \in Nat /\ R % 16 = 0 /\ size <= R
  BY RoundedIs
<1>2. Tiles(h) /\ AreLists(h.bins)
  BY DEF WellFormed, Lists
<1>3. S \subseteq Fits(h, R) /\ (S = {} <=> Fits(h, R) = {})
  BY DEF Candidates, Quick
<1>4. Fits(h, R) \subseteq Places(h)
  BY DEF Fits
<1> HIDE DEF R, S
<1>5. CASE size = 0 \/ S = {}
  <2>1. r = [heap |-> h, ptr |-> NIL]
    BY <1>5 DEF Allocated, R, S
  <2>2. ASSUME S = {}, NEW n \in FreeIn(h), ~(h.nodes[n].size < R)
        PROVE  FALSE
    <3>1. n \in Nat /\ h.nodes[n].size \in Nat /\ h.nodes[n].size >= R
      BY <1>1, <1>2, <2>2 DEF FreeIn, Tiles, NodeRec
    <3>2. BinOf(h, n) \in Bins /\ BinOf(h, n) >= get_bin_index(R)
      BY <3>1, <1>1, BinIndex DEF BinOf, Bins
    <3>3. PICK i \in DOMAIN h.bins[BinOf(h, n)] : h.bins[BinOf(h, n)][i] = n
      BY <2>2, <3>1, <3>2 DEF WellFormed, Lists, In, Has
    <3>4. <<BinOf(h, n), i>> \in Places(h)
      BY <3>2, <3>3 DEF Places
    <3>5. <<BinOf(h, n), i>> \in Fits(h, R)
      BY <3>1, <3>2, <3>3, <3>4 DEF Fits
    <3> QED
      BY <3>5, <2>2, <1>3
  <2> QED
    BY <2>1, <2>2, <1>5 DEF R
<1>6. CASE size # 0 /\ S # {}
  <2>1. at \in Fits(h, R)
    BY <1>2, <1>3, <1>4, <1>6, FirstIn
  <2>2. at[1] \in Bins /\ at[2] \in DOMAIN h.bins[at[1]] /\ R <= h.nodes[found].size
    BY <2>1, <1>2, <1>4, PlacesAre DEF Fits
  <2> DEFINE b == at[1]
             s == Split(h, found, R)
             h1 == Removed(s, b, found)
  <2>3. r = [heap |-> MarkedUsed(h1, found), ptr |-> found + HeapNode]
    BY <1>6 DEF Allocated, R, S, MarkedUsed
  <2> HIDE DEF at
  <2>4. found \in Nat /\ In(h.bins, b, found)
    BY <1>2, <2>2 DEF AreLists, In, Has
  <2>5. found \in FreeIn(h) /\ BinOf(h, found) = b /\ found # End
    BY <1>2, <2>2, <2>4 DEF WellFormed, Lists, FreeIn, Tiles
  <2> HIDE DEF found, b
  <2>6. Open(h, found, {b}, HeldIn(h), h)
    BY <2>5, Opened DEF FreeIn, HeldIn
  <2>7. Open(s, found, {b}, HeldIn(h), h) /\ R <= s.nodes[found].size
    BY <1>1, <2>2, <2>6, SplitOpen
  <2> HIDE DEF s
  <2>8. Open(h1, found, {b} \ {b}, HeldIn(h), h) /\ h1.nodes = s.nodes
    BY <2>2, <2>7, RemovedOpen DEF b
  <2> HIDE DEF h1
  <2>9. Open(h1, found, {}, HeldIn(h), h)
    BY <2>8
  <2> DEFINE g == MarkedUsed(h1, found)
  <2>10. /\ WellFormed(g) /\ HeldIn(g) = HeldIn(h) \cup {found} /\ g.nodes[found].size = h1.nodes[found].size
         /\ \A m \in HeldIn(h) : g.nodes[m].size = h.nodes[m].size
    BY <2>9, UsedClose
  <2>11. r.heap = g /\ r.ptr = found + HeapNode
    BY <2>3
  <2> HIDE DEF g
  <2>12. found \notin HeldIn(h) /\ found + HeapNode # NIL
    BY <2>4, <2>5, Parameters DEF FreeIn, HeldIn, NIL
  <2>13. R <= g.nodes[found].size /\ g.nodes[found].size \in Nat
    BY <2>7, <2>8, <2>10 DEF WellFormed, Tiles, NodeRec, HeldIn
  <2>14. size <= g.nodes[found].size
    BY <2>13, <1>1
  <2> QED
    BY <2>4, <2>10, <2>11, <2>12, <2>14
<1> QED
  BY <1>5, <1>6
-------------------------------------------------------------------------------
(* Heap:dealloc takes the chunk of the block out of use, and Heap:realloc  *)
(* resizes it or moves it; the other blocks keep theirs.                   *)
LEMMA DeallocatedIs ==
  ASSUME Reasonable, NEW h, WellFormed(h), NEW p \in Nat, NEW head \in HeldIn(h), head = p - HeapNode,
         NEW g, g = Deallocated(h, p)
  PROVE  /\ WellFormed(g) /\ HeldIn(g) = HeldIn(h) \ {head}
         /\ \A m \in HeldIn(h) \ {head} : g.nodes[m].size = h.nodes[m].size
<1> DEFINE H == HeldIn(h) \ {head}
           prev == h.nodes[head].prev_adj
           joinsPrev == IsFree(h, prev)
           h1 == IF joinsPrev
                 THEN Absorbed(Removed(h, get_bin_index(h.nodes[prev].size), prev), prev) ELSE h
           node == IF joinsPrev THEN prev ELSE head
           h2 == IF IsFree(h1, get_next_adj_node(h1, node)) THEN Joined(h1, node) ELSE h1
<1>1. head \in DOMAIN h.nodes \ {End} /\ h.nodes[head].used /\ Tiles(h) /\ AreLists(h.bins)
  BY DEF HeldIn, WellFormed, Lists
<1>2. g = Added(h2, node)
  BY DEF Deallocated
<1>3. Open(h1, node, {}, H, h)
  <2>1. CASE ~joinsPrev
    <3>1. Open(h, head, {}, H, h)
      BY <1>1, Opened
    <3> QED
      BY <2>1, <3>1
  <2>2. CASE joinsPrev
    <3>1. head # Start
      BY <2>2, <1>1 DEF IsFree, Tiles
    <3>2. prev \in DOMAIN h.nodes \ {End} /\ After(h, prev) = head /\ prev \in Nat
      BY <1>1, <3>1 DEF Tiles
    <3>3. ~h.nodes[prev].used /\ h.nodes[prev].size \in Nat
      BY <1>1, <2>2, <3>2 DEF IsFree, Tiles, NodeRec
    <3>4. HeldIn(h) \ {prev} = HeldIn(h)
      BY <3>3 DEF HeldIn
    <3> DEFINE b == BinOf(h, prev)
    <3>5. b \in Bins
      BY <3>3, BinIndex DEF BinOf
    <3>6. PICK e : e = Removed(h, b, prev)
      OBVIOUS
    <3>7. h1 = Absorbed(e, prev) /\ node = prev
      BY <2>2, <3>6 DEF BinOf
    <3> HIDE DEF h1, node, b
    <3>8. Open(h, prev, {b}, HeldIn(h), h)
      BY <3>2, <3>3, <3>4, Opened DEF b
    <3> HIDE DEF prev
    <3>9. Open(e, prev, {b} \ {b}, HeldIn(h), h) /\ e.nodes = h.nodes
      BY <3>5, <3>6, <3>8, RemovedOpen
    <3>10. /\ Tiles(e) /\ prev \in DOMAIN e.nodes \ {End} /\ AreLists(e.bins)
           /\ After(e, prev) = head /\ head # End
      BY <1>1, <3>2, <3>9 DEF Open, After
    <3>11. FreeIn(e) \ {head} = FreeIn(e) /\ HeldIn(e) = HeldIn(h)
      BY <1>1, <3>9 DEF FreeIn, HeldIn
    <3>12. HeldIn(e) \ {prev, head} = H /\ \A m \in H : e.nodes[m].size = h.nodes[m].size
      BY <3>4, <3>9, <3>11
    <3>13. \A c \in Bins, m \in Nat :
             In(e.bins, c, m)
               <=> IF m = prev THEN c \in {} ELSE m \in FreeIn(e) \ {head} /\ BinOf(e, m) = c
      BY <3>9, <3>11 DEF Open
    <3>14. Joinable(e, prev, head, {}, H, h)
      BY <3>10, <3>12, <3>13 DEF Joinable
    <3> QED
      BY <3>7, <3>14, AbsorbOpen
  <2> QED
    BY <2>1, <2>2
<1> HIDE DEF h1, node
<1>4. Open(h2, node, {}, H, h)
  <2>1. CASE IsFree(h1, get_next_adj_node(h1, node))
    <3>1. h2 = Joined(h1, node)
      BY <2>1
    <3> QED
      BY <1>3, <2>1, <3>1, JoinedOpen
  <2>2. CASE ~IsFree(h1, get_next_adj_node(h1, node))
    BY <1>3, <2>2
  <2> QED
    BY <2>1, <2>2
<1> HIDE DEF h2
<1> QED
  BY <1>2, <1>4, AddedClose

(* A realloc that finds no memory leaves the heap as it was.               *)
LEMMA ReallocatedFails ==
  ASSUME Reasonable, NEW h, WellFormed(h), NEW p \in Nat, NEW head \in HeldIn(h), head = p - HeapNode,
         NEW size \in Nat, size # 0, size + HeapNode + 16 <= WORD,
         NEW r, r = Reallocated(h, p, size), r.ptr = NIL
  PROVE  r.heap = h
<1> DEFINE next == get_next_adj_node(h, head)
           rounded == Rounded(size)
           grows == rounded > h.nodes[head].size
           joins == IsFree(h, next) /\ h.nodes[head].size + h.nodes[next].size + HeapNode >= rounded
           moved == Allocated(h, rounded)
<1>1. head \in Nat /\ p # NIL
  BY Parameters DEF HeldIn, WellFormed, Tiles, NIL
<1>2. grows /\ ~joins
  BY <1>1 DEF Reallocated
<1>3. r = IF moved.ptr = NIL THEN moved ELSE [heap |-> Deallocated(moved.heap, p), ptr |-> moved.ptr]
  BY <1>2 DEF Reallocated
<1>4. rounded \in Nat /\ rounded + HeapNode + 16 <= WORD
  BY RoundedIs
<1> HIDE DEF moved, rounded
<1>5. r = moved /\ moved.ptr = NIL
  BY <1>3
<1> QED
  BY <1>4, <1>5, AllocatedIs DEF moved

(* One that finds some returns a chunk of the size asked for, which no     *)
(* other block has.                                                        *)
LEMMA ReallocatedIs ==
  ASSUME Reasonable, NEW h, WellFormed(h), NEW p \in Nat, NEW head \in HeldIn(h), head = p - HeapNode,
         NEW size \in Nat, size # 0, size + HeapNode + 16 <= WORD,
         NEW r, r = Reallocated(h, p, size), r.ptr # NIL
  PROVE  \E n \in Nat \ (HeldIn(h) \ {head}) :
           /\ r.ptr = n + HeapNode /\ WellFormed(r.heap)
           /\ HeldIn(r.heap) = (HeldIn(h) \ {head}) \cup {n}
           /\ size <= r.heap.nodes[n].size
           /\ \A m \in HeldIn(h) \ {head} : r.heap.nodes[m].size = h.nodes[m].size
<1> DEFINE H == HeldIn(h) \ {head}
           next == get_next_adj_node(h, head)
           rounded == Rounded(size)
           grows == rounded > h.nodes[head].size
           joins == IsFree(h, next) /\ h.nodes[head].size + h.nodes[next].size + HeapNode >= rounded
           moved == Allocated(h, rounded)
<1>1. head \in DOMAIN h.nodes \ {End} /\ h.nodes[head].used /\ Tiles(h) /\ head \in Nat
  BY DEF HeldIn, WellFormed, Tiles
<1>2. rounded \in Nat /\ rounded % 16 = 0 /\ size <= rounded /\ rounded + HeapNode + 16 <= WORD
  BY RoundedIs
<1>3. Open(h, head, {}, H, h)
  BY <1>1, Opened
<1>4. h.nodes[head].size \in Nat
  BY <1>1 DEF Tiles, NodeRec
<1> HIDE DEF rounded
<1>5. CASE grows /\ ~joins
  <2>1. r = IF moved.ptr = NIL THEN moved
            ELSE [heap |-> Deallocated(moved.heap, p), ptr |-> moved.ptr]
    BY <1>5 DEF Reallocated, rounded
  <2> HIDE DEF moved
  <2>2. r.ptr = moved.ptr /\ r.heap = Deallocated(moved.heap, p) /\ moved.ptr # NIL
    BY <2>1
  <2>3. PICK n \in Nat \ HeldIn(h) :
          /\ moved.ptr = n + HeapNode /\ WellFormed(moved.heap)
          /\ HeldIn(moved.heap) = HeldIn(h) \cup {n}
          /\ rounded <= moved.heap.nodes[n].size
          /\ \A m \in HeldIn(h) : moved.heap.nodes[m].size = h.nodes[m].size
    BY <1>2, <2>2, AllocatedIs DEF moved
  <2>4. head \in HeldIn(moved.heap)
    BY <2>3
  <2>5. /\ WellFormed(r.heap) /\ HeldIn(r.heap) = HeldIn(moved.heap) \ {head}
        /\ \A m \in HeldIn(moved.heap) \ {head} : r.heap.nodes[m].size = moved.heap.nodes[m].size
    BY <2>2, <2>3, <2>4, DeallocatedIs
  <2>6. n # head /\ HeldIn(r.heap) = H \cup {n}
    BY <2>3, <2>5
  <2>7. n \in HeldIn(moved.heap) /\ moved.heap.nodes[n].size \in Nat
    BY <2>3 DEF WellFormed, Tiles, NodeRec, HeldIn
  <2>8. size <= r.heap.nodes[n].size
    BY <1>2, <2>3, <2>5, <2>6, <2>7
  <2>9. \A m \in H : r.heap.nodes[m].size = h.nodes[m].size
    BY <2>3, <2>5
  <2> QED
    BY <2>2, <2>3, <2>5, <2>6, <2>8, <2>9
<1>6. CASE ~grows \/ joins
  <2> DEFINE h1 == IF grows THEN Joined(h, head) ELSE h
  <2>0. PICK g : g = Split(h1, head, rounded)
    OBVIOUS
  <2>1. r = [heap |-> g, ptr |-> p]
    BY <1>6, <2>0 DEF Reallocated, rounded
  <2>2. Open(h1, head, {}, H, h) /\ rounded <= h1.nodes[head].size /\ h1.nodes[head].used
    <3>1. CASE ~grows
      BY <1>1, <1>2, <1>3, <1>4, <3>1
    <3>2. CASE grows /\ joins
      <4>1. h1 = Joined(h, head) /\ IsFree(h, next)
        BY <3>2
      <4>2. /\ Open(h1, head, {}, H, h) /\ h1.nodes[head].used = h.nodes[head].used
            /\ h1.nodes[head].size = h.nodes[head].size + HeapNode + h.nodes[next].size
        BY <1>3, <4>1, JoinedOpen
      <4>3. h.nodes[next].size \in Nat
        BY <1>1, NextIs DEF Tiles, NodeRec
      <4>4. rounded <= h1.nodes[head].size
        BY <1>2, <1>4, <3>2, <4>2, <4>3, Parameters
      <4> QED
        BY <1>1, <4>2, <4>4
    <3> QED
      BY <1>6, <3>1, <3>2
  <2> HIDE DEF h1
  <2>3. Open(g, head, {}, H, h) /\ g.nodes[head].used = h1.nodes[head].used /\ rounded <= g.nodes[head].size
    <3> HIDE DEF H
    <3>1. rounded % 16 = 0 /\ rounded \in Nat
      BY <1>2
    <3>2. Open(h1, head, {}, H, h) /\ rounded <= h1.nodes[head].size
      BY <2>2
    <3>3. Open(g, head, {}, H, h) /\ rounded <= g.nodes[head].size
      BY <3>1, <3>2, <2>0, SplitOpen
    <3>4. g.nodes[head].used = h1.nodes[head].used
      BY <3>1, <3>2, <2>0, SplitOpen
    <3> QED
      BY <3>3, <3>4
  <2>4. g.nodes[head].used
    BY <2>2, <2>3
  <2>5. WellFormed(g) /\ HeldIn(g) = H \cup {head} /\ \A m \in H : g.nodes[m].size = h.nodes[m].size
    BY <2>3, <2>4, HeldClose
  <2>6. g.nodes[head].size \in Nat
    BY <2>3 DEF Open, Tiles, NodeRec
  <2>7. size <= g.nodes[head].size
    BY <1>2, <2>3, <2>6
  <2>8. r.heap = g /\ r.ptr = p
    BY <2>1
  <2>9. p = head + HeapNode
    BY <1>1, <2>8, Parameters
  <2> QED
    BY <1>1, <2>5, <2>7, <2>8, <2>9
<1> QED
  BY <1>5, <1>6
-------------------------------------------------------------------------------
(* The blocks the program holds.                                           *)
(* The blocks with one more; the node the heap granted for it.             *)
With(B, D, q, n) == [p \in D \cup {q} |-> IF p = q THEN n ELSE B[p]]
Grants(g, x, n, h, H) ==
  /\ x \in Nat \ H /\ n <= g.nodes[x].size
  /\ \A m \in H : g.nodes[m].size = h.nodes[m].size

(* A block more: the node x, of at least n bytes.                          *)
LEMMA CoversMore ==
  ASSUME NEW D, NEW B, NEW h, NEW H, Covers(D, B, h, H), NEW g, NEW x, NEW n,
         Grants(g, x, n, h, H), NEW q, q = x + HeapNode, NEW C, C = With(B, D, q, n)
  PROVE  Covers(DOMAIN C, C, g, H \cup {x})
<1>1. q \in Nat /\ q - HeapNode = x /\ q \notin D
  BY Parameters DEF Covers, Grants
<1>2. DOMAIN C = D \cup {q} /\ C[q] = n /\ \A p \in D : C[p] = B[p]
  BY <1>1 DEF With
<1> QED
  BY <1>1, <1>2 DEF Covers, Grants

(* A block less.                                                           *)
LEMMA CoversLess ==
  ASSUME NEW D, NEW B, NEW h, NEW H, Covers(D, B, h, H), NEW p \in D, NEW g,
         \A m \in H \ {p - HeapNode} : g.nodes[m].size = h.nodes[m].size
  PROVE  Covers(D \ {p}, B, g, H \ {p - HeapNode})
<1>1. \A q \in D : q # p => q - HeapNode # p - HeapNode
  BY Parameters DEF Covers
<1>2. \A n \in H : n # p - HeapNode => n + HeapNode # p
  BY Parameters DEF Covers
<1> QED
  BY <1>1, <1>2 DEF Covers

(* The same blocks, of the same sizes.                                     *)
LEMMA CoversAgain ==
  ASSUME NEW D, NEW B, NEW h, NEW H, Covers(D, B, h, H), NEW C, C = [p \in D |-> B[p]]
  PROVE  Covers(DOMAIN C, C, h, H)
BY DEF Covers

(* Heap:add_memory_region makes one free chunk of the buffer.              *)
LEMMA FreshIs ==
  ASSUME Reasonable
  PROVE  WellFormed(FreshHeap) /\ HeldIn(FreshHeap) = {}
<1> DEFINE size == (End - Start - HeapNode) % WORD
           start == [size |-> size, prev_adj |-> NIL, used |-> FALSE]
           end == [size |-> 0, prev_adj |-> Start, used |-> TRUE]
           raw == [nodes |-> [n \in {Start, End} |-> IF n = End THEN end ELSE start],
                   bins |-> [b \in Bins |-> <<>>]]
<1>1. /\ Start \in Nat /\ End \in Nat /\ 0 < Start /\ Start % 16 = 0
      /\ Start + HeapNode <= End /\ Start < End /\ End < WORD /\ Start # End
  BY Ends, Parameters
<1>2. size = End - Start - HeapNode /\ size \in Nat
  <2>1. End - Start - HeapNode \in Nat /\ End - Start - HeapNode < WORD
    BY <1>1, Parameters
  <2> QED
    BY <2>1, ModSmall
<1> HIDE DEF size
<1>3. start \in NodeRec /\ end \in NodeRec
  BY <1>1, <1>2 DEF NodeRec, NIL
<1>4. PICK h : h = raw
  OBVIOUS
<1>5. FreshHeap = Added(h, Start)
  BY <1>4 DEF FreshHeap, size
<1>6. /\ IsHeap(h) /\ h.nodes = [n \in {Start, End} |-> IF n = End THEN end ELSE start]
      /\ h.bins = [b \in Bins |-> <<>>]
  BY <1>4 DEF IsHeap
<1> HIDE DEF start, end
<1>7. DOMAIN h.nodes = {Start, End} /\ h.nodes[Start] = start /\ h.nodes[End] = end
  BY <1>1, <1>6
<1>8. /\ start.size = size /\ start.prev_adj = NIL /\ end.size = 0 /\ end.prev_adj = Start
  BY DEF start, end
<1>9. ~start.used
  BY DEF start
<1>10. end.used
  BY DEF end
<1>11. After(h, Start) = End
  BY <1>1, <1>2, <1>7, <1>8, Parameters DEF After
<1>12. Tiles(h)
  <2>1. /\ DOMAIN h.nodes \subseteq Nat /\ h.nodes \in [DOMAIN h.nodes -> NodeRec]
        /\ h.nodes[End].used /\ h.nodes[Start].prev_adj = NIL
    BY <1>1, <1>3, <1>6, <1>7, <1>8, <1>10
  <2>2. \A n \in {Start, End} : Start <= n /\ n <= End
    BY <1>1
  <2>3. \A n \in {Start, End} \ {End}, m \in {Start, End} : m > n => m >= After(h, n)
    BY <1>1, <1>11
  <2>4. \A n \in {Start, End} \ {End} :
          n % 16 = 0 /\ After(h, n) \in {Start, End} /\ h.nodes[After(h, n)].prev_adj = n
    BY <1>1, <1>7, <1>8, <1>11
  <2>5. \A m \in {Start, End} \ {Start} :
          h.nodes[m].prev_adj \in {Start, End} \ {End} /\ After(h, h.nodes[m].prev_adj) = m
    BY <1>1, <1>7, <1>8, <1>11
  <2> QED
    BY <1>6, <1>7, <2>1, <2>2, <2>3, <2>4, <2>5 DEF Tiles
<1>13. AreLists(h.bins) /\ \A b \in Bins, m \in Nat : ~In(h.bins, b, m)
  BY <1>6 DEF AreLists, NoDuplicates, In, Has
<1>14. FreeIn(h) = {Start} /\ HeldIn(h) \ {Start} = {}
  BY <1>1, <1>7, <1>9, <1>10 DEF FreeIn, HeldIn
<1>15. Open(h, Start, {}, {}, h)
  BY <1>1, <1>7, <1>12, <1>13, <1>14 DEF Open, Others
<1> QED
  BY <1>5, <1>15, AddedClose
-------------------------------------------------------------------------------
(* Every operation keeps the invariant.                                    *)
LEMMA SizeIs ==
  ASSUME Reasonable, NEW n \in Sizes
  PROVE  n \in Nat /\ n # 0 /\ n + HeapNode + 16 <= WORD
BY HeapParameters, Parameters DEF Reasonable, ALLOC_ALIGN

(* It holds before the first allocation,                                   *)
LEMMA InitInv == Init => IInv
BY DEF Init, IInv

(* after HeapAllocator:alloc,                                              *)
LEMMA AllocInv ==
  ASSUME Reasonable, IInv, NEW n \in Sizes, Alloc(n)
  PROVE  IInv'
<1>1. n \in Nat /\ n # 0 /\ n + HeapNode + 16 <= WORD
  BY SizeIs
<1>2. PICK h : h = Ready
  OBVIOUS
<1>3. WellFormed(h) /\ Covers(DOMAIN blocks, blocks, h, HeldIn(h))
  <2>1. CASE initialized
    BY <1>2, <2>1 DEF Ready, IInv
  <2>2. CASE ~initialized
    <3>1. WellFormed(h) /\ HeldIn(h) = {} /\ DOMAIN blocks = {}
      BY <1>2, <2>2, FreshIs DEF Ready, IInv
    <3> QED
      BY <3>1 DEF Covers
  <2> QED
    BY <2>1, <2>2
<1>4. PICK r : r = Allocated(h, n)
  OBVIOUS
<1>5. /\ heap' = r.heap /\ initialized' = TRUE
      /\ blocks' = IF r.ptr = NIL THEN blocks
                   ELSE [p \in DOMAIN blocks \cup {r.ptr} |-> IF p = r.ptr THEN n ELSE blocks[p]]
  BY <1>2, <1>4 DEF Alloc
<1>6. DOMAIN blocks \subseteq Nat /\ blocks \in [DOMAIN blocks -> Sizes]
  BY DEF IInv
<1>7. CASE r.ptr = NIL
  <2>1. heap' = h /\ blocks' = blocks
    BY <1>1, <1>3, <1>4, <1>5, <1>7, AllocatedIs
  <2> QED
    BY <2>1, <1>3, <1>5, <1>6 DEF IInv
<1>8. CASE r.ptr # NIL
  <2>1. PICK x \in Nat \ HeldIn(h) :
          /\ r.ptr = x + HeapNode /\ WellFormed(r.heap) /\ HeldIn(r.heap) = HeldIn(h) \cup {x}
          /\ n <= r.heap.nodes[x].size
          /\ \A m \in HeldIn(h) : r.heap.nodes[m].size = h.nodes[m].size
    BY <1>1, <1>3, <1>4, <1>8, AllocatedIs
  <2>2. PICK q : q = r.ptr
    OBVIOUS
  <2>3. blocks' = [p \in DOMAIN blocks \cup {q} |-> IF p = q THEN n ELSE blocks[p]]
    BY <1>5, <1>8, <2>2
  <2>4. PICK g : g = r.heap
    OBVIOUS
  <2>5. /\ Covers(DOMAIN (blocks'), blocks', g, HeldIn(h) \cup {x})
        /\ DOMAIN (blocks') = DOMAIN blocks \cup {q}
    <3>1. PICK C : C = blocks'
      OBVIOUS
    <3>2. PICK D : D = DOMAIN blocks
      OBVIOUS
    <3>3. PICK H : H = HeldIn(h)
      OBVIOUS
    <3>4. PICK G : G = H \cup {x}
      OBVIOUS
    <3>5. C = With(blocks, D, q, n)
      BY <2>3, <3>1, <3>2 DEF With
    <3>6. DOMAIN C = D \cup {q}
      BY <3>5 DEF With
    <3>7. Covers(DOMAIN C, C, g, G)
      <4>1. Covers(D, blocks, h, H)
        BY <1>3, <3>2, <3>3
      <4>2. q = x + HeapNode /\ Grants(g, x, n, h, H)
        BY <2>1, <2>2, <2>4, <3>3 DEF Grants
      <4> QED
        BY <4>1, <4>2, <3>4, <3>5, CoversMore
    <3> QED
      BY <3>1, <3>2, <3>3, <3>4, <3>6, <3>7
  <2>6. q \in Nat /\ \A p \in DOMAIN (blocks') : blocks'[p] \in Sizes
    BY <1>6, <2>1, <2>2, <2>3, Parameters
  <2>7. DOMAIN (blocks') \subseteq Nat /\ blocks' \in [DOMAIN (blocks') -> Sizes]
    BY <1>6, <2>3, <2>5, <2>6
  <2>8. /\ WellFormed(heap') /\ Covers(DOMAIN (blocks'), blocks', heap', HeldIn(heap'))
    BY <1>5, <2>1, <2>4, <2>5
  <2> QED
    BY <1>5, <2>7, <2>8 DEF IInv
<1> QED
  BY <1>7, <1>8

(* The block p is the node in front of it.                                 *)
LEMMA HeadIs ==
  ASSUME IInv, NEW p \in DOMAIN blocks
  PROVE  /\ initialized /\ p \in Nat /\ p - HeapNode \in HeldIn(heap)
         /\ WellFormed(heap) /\ Covers(DOMAIN blocks, blocks, heap, HeldIn(heap))
BY DEF IInv, Covers

(* after HeapAllocator:dealloc,                                            *)
LEMMA DeallocInv ==
  ASSUME Reasonable, IInv, NEW p \in DOMAIN blocks, Dealloc(p)
  PROVE  IInv'
<1> DEFINE H == HeldIn(heap)
<1>1. PICK head : head = p - HeapNode
  OBVIOUS
<1>2. /\ initialized /\ p \in Nat /\ head \in H /\ WellFormed(heap)
      /\ Covers(DOMAIN blocks, blocks, heap, H)
  BY <1>1, HeadIs
<1>3. PICK g : g = Deallocated(heap, p)
  OBVIOUS
<1>4. heap' = g /\ blocks' = [q \in DOMAIN blocks \ {p} |-> blocks[q]] /\ initialized' = initialized
  BY <1>3 DEF Dealloc
<1>5. WellFormed(g) /\ HeldIn(g) = H \ {head} /\ \A m \in H \ {head} : g.nodes[m].size = heap.nodes[m].size
  BY <1>1, <1>2, <1>3, DeallocatedIs
<1> HIDE DEF H
<1>6. Covers(DOMAIN blocks \ {p}, blocks, g, H \ {head})
  BY <1>1, <1>2, <1>5, CoversLess
<1>7. Covers(DOMAIN (blocks'), blocks', g, H \ {head})
  BY <1>4, <1>6, CoversAgain
<1>8. DOMAIN (blocks') \subseteq Nat /\ blocks' \in [DOMAIN (blocks') -> Sizes]
  BY <1>4 DEF IInv
<1> QED
  BY <1>2, <1>4, <1>5, <1>7, <1>8 DEF IInv

(* after HeapAllocator:realloc,                                            *)
LEMMA ReallocInv ==
  ASSUME Reasonable, IInv, NEW p \in DOMAIN blocks, NEW n \in Sizes, Realloc(p, n)
  PROVE  IInv'
<1> DEFINE H == HeldIn(heap)
           D == DOMAIN blocks
<1>1. PICK head : head = p - HeapNode
  OBVIOUS
<1>2. /\ initialized /\ p \in Nat /\ head \in H /\ WellFormed(heap) /\ Covers(D, blocks, heap, H)
  BY <1>1, HeadIs
<1>3. PICK r : r = Reallocated(heap, p, n)
  OBVIOUS
<1>4. /\ heap' = r.heap /\ initialized' = initialized
      /\ blocks' = IF r.ptr = NIL THEN blocks
                   ELSE [q \in (D \ {p}) \cup {r.ptr} |-> IF q = r.ptr THEN n ELSE blocks[q]]
  BY <1>3 DEF Realloc
<1>5. n \in Nat /\ n # 0 /\ n + HeapNode + 16 <= WORD
  BY SizeIs
<1>6. CASE r.ptr = NIL
  BY <1>1, <1>2, <1>3, <1>4, <1>5, <1>6, ReallocatedFails DEF IInv
<1>7. CASE r.ptr # NIL
  <2>1. PICK x \in Nat \ (H \ {head}) :
          /\ r.ptr = x + HeapNode /\ WellFormed(r.heap)
          /\ HeldIn(r.heap) = (H \ {head}) \cup {x}
          /\ n <= r.heap.nodes[x].size
          /\ \A m \in H \ {head} : r.heap.nodes[m].size = heap.nodes[m].size
    <3>1. p \in Nat /\ head \in HeldIn(heap) /\ WellFormed(heap)
      BY <1>2
    <3> QED
      BY <1>1, <1>3, <1>5, <1>7, <3>1, ReallocatedIs
  <2>2. PICK q : q = r.ptr
    OBVIOUS
  <2>3. PICK g : g = r.heap
    OBVIOUS
  <2> HIDE DEF H
  <2>4. Covers(D \ {p}, blocks, g, H \ {head})
    BY <1>1, <1>2, <2>1, <2>3, CoversLess
  <2>5. PICK K : K = D \ {p}
    OBVIOUS
  <2>6. PICK G : G = H \ {head}
    OBVIOUS
  <2>7. blocks' = [b \in K \cup {q} |-> IF b = q THEN n ELSE blocks[b]]
    BY <1>4, <1>7, <2>2, <2>5
  <2>8. Covers(DOMAIN (blocks'), blocks', g, G \cup {x}) /\ DOMAIN (blocks') = K \cup {q}
    <3>1. PICK C : C = blocks'
      OBVIOUS
    <3>2. Covers(K, blocks, g, G)
      BY <2>4, <2>5, <2>6
    <3>3. q = x + HeapNode /\ Grants(g, x, n, g, G)
      BY <2>1, <2>2, <2>3, <2>6 DEF Grants
    <3>4. C = With(blocks, K, q, n)
      BY <2>7, <3>1 DEF With
    <3>5. PICK Z : Z = G \cup {x}
      OBVIOUS
    <3>6. Covers(DOMAIN C, C, g, Z)
      BY <3>2, <3>3, <3>4, <3>5, CoversMore
    <3>7. DOMAIN C = K \cup {q}
      BY <3>4 DEF With
    <3> QED
      BY <3>1, <3>5, <3>6, <3>7
  <2>9. q \in Nat /\ D \subseteq Nat /\ blocks \in [D -> Sizes]
    BY <2>1, <2>2, Parameters DEF IInv
  <2>10. DOMAIN (blocks') \subseteq Nat /\ blocks' \in [DOMAIN (blocks') -> Sizes]
    BY <2>5, <2>7, <2>8, <2>9
  <2>11. WellFormed(heap') /\ Covers(DOMAIN (blocks'), blocks', heap', HeldIn(heap'))
    BY <1>4, <2>1, <2>3, <2>6, <2>8
  <2> QED
    BY <1>2, <1>4, <2>10, <2>11 DEF IInv
<1> QED
  BY <1>6, <1>7

(* and after every step.                                                   *)
LEMMA NextInv ==
  ASSUME Reasonable, IInv, [Next]_vars
  PROVE  IInv'
<1>1. CASE \E n \in Sizes : Alloc(n)
  BY <1>1, AllocInv
<1>2. CASE \E p \in DOMAIN blocks : Dealloc(p)
  BY <1>2, DeallocInv
<1>3. CASE \E p \in DOMAIN blocks, n \in Sizes : Realloc(p, n)
  BY <1>3, ReallocInv
<1>4. CASE DeallocAll
  BY <1>4 DEF DeallocAll, IInv
<1>5. CASE UNCHANGED vars
  BY <1>5 DEF vars, IInv
<1> QED
  BY <1>1, <1>2, <1>3, <1>4, <1>5 DEF Next

(* So it always holds.                                                     *)
LEMMA Invariance ==
  ASSUME Reasonable
  PROVE  Spec => []IInv
<1>1. IInv /\ [Next]_vars => IInv'
  BY NextInv
<1> QED
  BY <1>1, InitInv, PTL DEF Spec
-------------------------------------------------------------------------------
(* What the invariant implies.                                             *)
LEMMA EmptyHeap ==
  ASSUME IInv, ~initialized
  PROVE  /\ Nodes = {} /\ Free = {} /\ DOMAIN blocks = {}
         /\ heap.nodes = [n \in {} |-> 0] /\ heap.bins = [b \in Bins |-> <<>>]
BY DEF IInv, NoHeap, Nodes, Free

(* The nodes that the bins list are nodes of the heap.                     *)
LEMMA InvTypeOK == IInv => TypeOK
<1> SUFFICES ASSUME IInv PROVE TypeOK
  OBVIOUS
<1>1. CASE ~initialized
  <2>1. heap.nodes \in [Nodes -> [size : Nat, prev_adj : Nat, used : BOOLEAN]]
    <3>1. \A S : [n \in {} |-> 0] \in [{} -> S]
      OBVIOUS
    <3> QED
      BY <1>1, <3>1, EmptyHeap
  <2>2. heap.bins \in [Bins -> Seq(Nodes)]
    <3>1. heap.bins = [b \in Bins |-> <<>>]
      BY <1>1, EmptyHeap
    <3>2. <<>> \in Seq(Nodes)
      OBVIOUS
    <3> QED
      BY <3>1, <3>2
  <2> QED
    BY <1>1, <2>1, <2>2, EmptyHeap DEF TypeOK, IInv
<1>2. CASE initialized
  <2>1. Tiles(heap) /\ Lists(heap, FreeIn(heap))
    BY <1>2 DEF IInv, WellFormed
  <2>2. Nodes \subseteq Nat /\ heap.nodes \in [Nodes -> [size : Nat, prev_adj : Nat, used : BOOLEAN]]
    BY <2>1 DEF Tiles, NodeRec, Nodes
  <2>3. ASSUME NEW b \in Bins
        PROVE  heap.bins[b] \in Seq(Nodes)
    <3>1. heap.bins[b] \in Seq(Nat)
      BY <2>1 DEF Lists, AreLists
    <3>2. \A i \in DOMAIN heap.bins[b] : heap.bins[b][i] \in Nat
      BY <3>1
    <3>3. \A i \in DOMAIN heap.bins[b] : heap.bins[b][i] \in Nodes
      BY <2>1, <3>2 DEF Lists, In, Has, FreeIn, Nodes
    <3> QED
      BY <3>1, <3>3
  <2>4. heap.bins \in [Bins -> Seq(Nodes)]
    BY <2>1, <2>3 DEF Lists, AreLists
  <2> QED
    BY <2>2, <2>4 DEF TypeOK, IInv
<1> QED
  BY <1>1, <1>2

(* The chunks tile the buffer, and the links of every node are right.      *)
LEMMA InvTiled == ASSUME Reasonable PROVE IInv => Tiled
<1> SUFFICES ASSUME IInv, initialized PROVE Tiled
  BY DEF Tiled
<1>1. Tiles(heap)
  BY DEF IInv, WellFormed
<1>2. \A n \in Nodes \ {End} : NextOf(n) = After(heap, n)
  BY <1>1, NextIs DEF NextOf, Nodes
<1> QED
  BY <1>1, <1>2 DEF Tiled, Tiles, Nodes, After

(* The bins hold the free chunks.                                          *)
LEMMA InvBinsExact == IInv => BinsExact
<1> SUFFICES ASSUME IInv PROVE BinsExact
  OBVIOUS
<1>1. CASE ~initialized
  BY <1>1, EmptyHeap DEF BinsExact
<1>2. CASE initialized
  <2>1. Tiles(heap) /\ AreLists(heap.bins) /\ Lists(heap, FreeIn(heap)) /\ Free = FreeIn(heap)
    BY <1>2 DEF IInv, WellFormed, Lists, Free, FreeIn, Nodes
  <2>2. ASSUME NEW b \in Bins, NEW i \in DOMAIN heap.bins[b]
        PROVE  /\ heap.bins[b][i] \in Free /\ get_bin_index(heap.nodes[heap.bins[b][i]].size) = b
               /\ \A j \in DOMAIN heap.bins[b] : heap.bins[b][i] = heap.bins[b][j] => i = j
    <3>1. heap.bins[b] \in Seq(Nat) /\ NoDuplicates(heap.bins[b])
      BY <2>1 DEF AreLists
    <3>2. heap.bins[b][i] \in Nat
      BY <3>1
    <3>3. In(heap.bins, b, heap.bins[b][i])
      BY DEF In, Has
    <3>4. heap.bins[b][i] \in Free /\ BinOf(heap, heap.bins[b][i]) = b
      BY <2>1, <3>2, <3>3 DEF Lists
    <3> QED
      BY <3>1, <3>4 DEF NoDuplicates, BinOf
  <2>3. ASSUME NEW n \in Free
        PROVE  LET bin == heap.bins[get_bin_index(heap.nodes[n].size)]
               IN  \E i \in DOMAIN bin : bin[i] = n
    <3>1. n \in Nat /\ heap.nodes[n].size \in Nat
      BY <2>1 DEF Tiles, NodeRec, FreeIn
    <3>2. BinOf(heap, n) \in Bins
      BY <3>1, BinIndex DEF BinOf
    <3>3. In(heap.bins, BinOf(heap, n), n)
      BY <2>1, <3>1, <3>2 DEF Lists
    <3> QED
      BY <3>3 DEF In, Has, BinOf
  <2> QED
    BY <2>2, <2>3 DEF BinsExact
<1> QED
  BY <1>1, <1>2

(* The blocks are apart, because their chunks are.                         *)
LEMMA InvBlocksFit == ASSUME Reasonable PROVE IInv => BlocksFit
<1> SUFFICES ASSUME IInv PROVE BlocksFit
  OBVIOUS
<1>1. CASE ~initialized
  BY <1>1, EmptyHeap DEF BlocksFit
<1>2. CASE initialized
  <2>1. /\ Tiles(heap) /\ Covers(DOMAIN blocks, blocks, heap, HeldIn(heap))
        /\ DOMAIN blocks \subseteq Nat /\ blocks \in [DOMAIN blocks -> Sizes] /\ Sizes \subseteq Nat
    BY <1>2, HeapParameters DEF IInv, WellFormed
  <2>2. ASSUME NEW p \in DOMAIN blocks
        PROVE  /\ p \in Nat /\ blocks[p] \in Nat /\ p - HeapNode \in DOMAIN heap.nodes \ {End}
               /\ p - HeapNode \in Nat /\ (p - HeapNode) % 16 = 0 /\ Start <= p - HeapNode
               /\ After(heap, p - HeapNode) \in Nat /\ After(heap, p - HeapNode) <= End
               /\ p + blocks[p] <= After(heap, p - HeapNode)
    <3>1. PICK n : n = p - HeapNode
      OBVIOUS
    <3>2. p \in Nat /\ blocks[p] \in Nat /\ n \in HeldIn(heap) /\ blocks[p] <= heap.nodes[n].size
      BY <2>1, <3>1 DEF Covers
    <3>3. n \in DOMAIN heap.nodes \ {End} /\ n % 16 = 0 /\ Start <= n
      BY <2>1, <3>2 DEF HeldIn, Tiles
    <3>4. /\ n \in Nat /\ After(heap, n) \in Nat /\ After(heap, n) <= End /\ heap.nodes[n].size \in Nat
      BY <2>1, <3>3, NextIs DEF NodeRec
    <3>5. p + blocks[p] <= After(heap, n)
      BY <3>1, <3>2, <3>4, Parameters DEF After
    <3> QED
      BY <3>1, <3>2, <3>3, <3>4, <3>5
  <2>3. ASSUME NEW p \in DOMAIN blocks
        PROVE  p % 16 = 0 /\ Buffer <= p /\ p + blocks[p] <= Buffer + SIZE
    <3>1. PICK n : n = p - HeapNode
      OBVIOUS
    <3>2. n \in Nat /\ n % 16 = 0 /\ p = n + HeapNode
      BY <2>2, <3>1, Parameters
    <3>3. p % 16 = 0
      BY <3>2, Parameters
    <3> QED
      BY <2>2, <3>3, Ends, Parameters
  <2>4. ASSUME NEW p \in DOMAIN blocks, NEW q \in DOMAIN blocks, p < q
        PROVE  p + blocks[p] <= q - HeapNode
    <3>1. q - HeapNode > p - HeapNode
      BY <2>2, <2>4, Parameters
    <3>2. q - HeapNode >= After(heap, p - HeapNode)
      BY <2>1, <2>2, <3>1 DEF Tiles
    <3> QED
      BY <2>2, <3>2, Parameters
  <2>5. {p - HeapNode : p \in DOMAIN blocks} = (Nodes \ Free) \ {End}
    <3>1. HeldIn(heap) = (Nodes \ Free) \ {End}
      BY DEF HeldIn, Nodes, Free
    <3>2. \A n \in HeldIn(heap) : n + HeapNode \in DOMAIN blocks /\ n = (n + HeapNode) - HeapNode
      BY <2>1, Parameters DEF Covers
    <3>3. \A p \in DOMAIN blocks : p - HeapNode \in HeldIn(heap)
      BY <2>1 DEF Covers
    <3> QED
      BY <3>1, <3>2, <3>3
  <2> QED
    BY <2>3, <2>4, <2>5 DEF BlocksFit, ALLOC_ALIGN
<1> QED
  BY <1>1, <1>2

(* A failed search has seen every free chunk that is large enough.         *)
LEMMA InvSearchComplete == ASSUME Reasonable PROVE IInv => SearchComplete
<1> SUFFICES ASSUME IInv, initialized, NEW n \in Sizes, Allocated(heap, n).ptr = NIL,
                    NEW f \in Free
             PROVE  heap.nodes[f].size < Rounded(n)
  BY DEF SearchComplete
<1>1. n \in Nat /\ n # 0 /\ n + HeapNode + 16 <= WORD
  BY SizeIs
<1>2. WellFormed(heap) /\ f \in FreeIn(heap)
  BY DEF IInv, Free, FreeIn, Nodes
<1>3. PICK r : r = Allocated(heap, n)
  OBVIOUS
<1> QED
  BY <1>1, <1>2, <1>3, AllocatedIs
-------------------------------------------------------------------------------
(* Adjacent free chunks.                                                   *)
Pairs(h) == {n \in FreeIn(h) : After(h, n) \in FreeIn(h)}

LEMMA PairsAre ==
  ASSUME Reasonable, NEW h, Tiles(h)
  PROVE  /\ IsFiniteSet(Pairs(h))
         /\ {n \in FreeIn(h) : get_next_adj_node(h, n) \in FreeIn(h)} = Pairs(h)
<1>1. \A n \in FreeIn(h) : n \in DOMAIN h.nodes \ {End}
  BY DEF FreeIn, Tiles
<1>2. \A n \in FreeIn(h) : get_next_adj_node(h, n) = After(h, n)
  BY <1>1, NextIs
<1>3. IsFiniteSet(Start..End) /\ Pairs(h) \in SUBSET (Start..End)
  <2>1. IsFiniteSet(Start..End)
    BY Ends, FS_Interval
  <2>2. Pairs(h) \in SUBSET (Start..End)
    BY Ends DEF Pairs, FreeIn, Tiles
  <2> QED
    BY <2>1, <2>2
<1>4. IsFiniteSet(Pairs(h))
  BY <1>3, FS_Subset
<1> QED
  BY <1>2, <1>4 DEF Pairs

(* A heap whose pairs are those of another, x perhaps in the place of y,   *)
(* has no more of them.                                                    *)
LEMMA NoMorePairs ==
  ASSUME Reasonable, NEW h, Tiles(h), NEW g, Tiles(g), NEW x, NEW y,
         Pairs(g) \ {x} \subseteq Pairs(h) \ {y}, x \in Pairs(g) => y \in Pairs(h)
  PROVE  Cardinality(Pairs(g)) <= Cardinality(Pairs(h))
<1> DEFINE S == Pairs(h)
           T == Pairs(g)
<1>1. IsFiniteSet(S) /\ IsFiniteSet(T)
  BY PairsAre
<1> HIDE DEF S, T
<1>2. Cardinality(S) \in Nat /\ Cardinality(T) \in Nat
  BY <1>1, FS_CardinalityType
<1>3. Cardinality(T \ {x}) = IF x \in T THEN Cardinality(T) - 1 ELSE Cardinality(T)
  BY <1>1, FS_RemoveElement
<1>4. Cardinality(S \ {y}) = IF y \in S THEN Cardinality(S) - 1 ELSE Cardinality(S)
  BY <1>1, FS_RemoveElement
<1>5. Cardinality(T \ {x}) <= Cardinality(S \ {y})
  <2>1. IsFiniteSet(S \ {y})
    BY <1>1, FS_RemoveElement
  <2>2. T \ {x} \in SUBSET (S \ {y})
    BY DEF S, T
  <2> QED
    BY <2>1, <2>2, FS_Subset
<1>6. x \in T => y \in S
  BY DEF S, T
<1>7. Cardinality(T) <= Cardinality(S)
  BY <1>2, <1>3, <1>4, <1>5, <1>6
<1> QED
  BY <1>7 DEF S, T

(* What the helpers do to the nodes alone.                                 *)
LEMMA AddedNodes ==
  ASSUME NEW h, Tiles(h), NEW n \in DOMAIN h.nodes, NEW g, g = Added(h, n)
  PROVE  /\ DOMAIN g.nodes = DOMAIN h.nodes /\ ~g.nodes[n].used
         /\ \A m \in DOMAIN h.nodes : g.nodes[m].size = h.nodes[m].size
         /\ \A m \in DOMAIN h.nodes \ {n} : g.nodes[m].used = h.nodes[m].used
<1> DEFINE node == [h.nodes[n] EXCEPT !.used = FALSE]
<1>1. h = [nodes |-> h.nodes, bins |-> h.bins] /\ h.nodes \in [DOMAIN h.nodes -> NodeRec]
  BY DEF Tiles, IsHeap
<1>2. g.nodes = [h.nodes EXCEPT ![n] = node]
  BY <1>1 DEF Added
<1>3. node.size = h.nodes[n].size /\ ~node.used
  BY <1>1 DEF NodeRec
<1> HIDE DEF node
<1> QED
  BY <1>1, <1>2, <1>3

LEMMA JoinedNodes ==
  ASSUME Reasonable, NEW h, Tiles(h), AreLists(h.bins), NEW n \in DOMAIN h.nodes \ {End},
         IsFree(h, After(h, n)), NEW f, f = Joined(h, n)
  PROVE  /\ DOMAIN f.nodes = DOMAIN h.nodes \ {After(h, n)} /\ n # After(h, n)
         /\ After(f, n) = After(h, After(h, n)) /\ Tiles(f)
         /\ \A m \in DOMAIN h.nodes \ {n, After(h, n)} :
              f.nodes[m].size = h.nodes[m].size /\ f.nodes[m].used = h.nodes[m].used
<1> DEFINE next == After(h, n)
<1>1. /\ get_next_adj_node(h, n) = next /\ next \in DOMAIN h.nodes /\ next \in Nat
      /\ n \in Nat /\ n < next /\ h.nodes[n].size \in Nat
  BY NextIs DEF NodeRec
<1>2. next # End /\ h.nodes[next].size \in Nat
  BY <1>1 DEF IsFree, Tiles, NodeRec
<1> DEFINE b == BinOf(h, next)
<1>3. b \in Bins
  BY <1>2, BinIndex DEF BinOf
<1>4. PICK e : e = Removed(h, b, next)
  OBVIOUS
<1>5. f = Absorbed(e, n)
  BY <1>1, <1>4 DEF Joined, BinOf
<1> HIDE DEF b
<1>6. Tiles(e) /\ e.nodes = h.nodes
  BY <1>1, <1>3, <1>4, RemovedIs
<1>7. After(e, n) = next
  BY <1>6 DEF After
<1>8. /\ Tiles(f) /\ DOMAIN f.nodes = DOMAIN h.nodes \ {next}
      /\ f.nodes[n].size = h.nodes[n].size + HeapNode + h.nodes[next].size
      /\ \A m \in DOMAIN h.nodes \ {n, next} :
           f.nodes[m].size = h.nodes[m].size /\ f.nodes[m].used = h.nodes[m].used
  BY <1>2, <1>5, <1>6, <1>7, AbsorbTiles
<1>9. n + HeapNode + (h.nodes[n].size + HeapNode + h.nodes[next].size) = next + HeapNode + h.nodes[next].size
  BY <1>1, <1>2, Parameters DEF After
<1>10. After(f, n) = After(h, next)
  BY <1>8, <1>9 DEF After
<1> QED
  BY <1>1, <1>8, <1>10

(* Heap g is heap s with node n in use.                                    *)
Uses(g, s, n) ==
  /\ DOMAIN g.nodes = DOMAIN s.nodes /\ g.nodes[n].used
  /\ \A m \in DOMAIN s.nodes : g.nodes[m].size = s.nodes[m].size
  /\ \A m \in DOMAIN s.nodes \ {n} : g.nodes[m].used = s.nodes[m].used

(* A chunk that is cut and put in use: only the rest of it can be first of *)
(* a pair that is new, and the whole was.                                  *)
LEMMA TakenPairs ==
  ASSUME Reasonable, NEW h, Tiles(h), NEW n \in FreeIn(h), NEW size \in Nat, size % 16 = 0,
         NEW s, s = Split(h, n, size),
         NEW g, Tiles(g), Uses(g, s, n)
  PROVE  Cardinality(Pairs(g)) <= Cardinality(Pairs(h))
<1>0. n \in DOMAIN h.nodes \ {End} /\ n \in Nat /\ h.nodes[n].size \in Nat
  BY DEF FreeIn, Tiles, NodeRec
<1>1. CASE ~Splits(h, n, size)
  <2>1. s = h
    BY <1>1 DEF Split
  <2>2. FreeIn(g) = FreeIn(h) \ {n}
    BY <2>1 DEF Uses, FreeIn
  <2>3. \A m \in FreeIn(g) : After(g, m) = After(h, m)
    BY <2>1 DEF Uses, After, FreeIn
  <2>4. Pairs(g) \ {n} \subseteq Pairs(h) \ {n} /\ n \notin Pairs(g)
    BY <2>2, <2>3 DEF Pairs
  <2> QED
    BY <2>4, NoMorePairs
<1>2. CASE Splits(h, n, size)
  <2>1. PICK split : split = n + HeapNode + size
    OBVIOUS
  <2>2. PICK e : e = SplitOff(h, n, size)
    OBVIOUS
  <2>3. /\ Tiles(e) /\ DOMAIN e.nodes = DOMAIN h.nodes \cup {split} /\ split \notin DOMAIN h.nodes
        /\ e.nodes[split].size = h.nodes[n].size - size - HeapNode
        /\ \A m \in DOMAIN h.nodes \ {n} :
             e.nodes[m].size = h.nodes[m].size /\ e.nodes[m].used = h.nodes[m].used
    BY <1>0, <1>2, <2>1, <2>2, SplitTiles
  <2>4. s = Added(e, split)
    BY <1>2, <2>1, <2>2 DEF Split
  <2>5. /\ DOMAIN s.nodes = DOMAIN e.nodes
        /\ \A m \in DOMAIN e.nodes : s.nodes[m].size = e.nodes[m].size
        /\ \A m \in DOMAIN e.nodes \ {split} : s.nodes[m].used = e.nodes[m].used
    BY <2>3, <2>4, AddedNodes
  <2>6. After(g, split) = After(h, n)
    <3>1. g.nodes[split].size = h.nodes[n].size - size - HeapNode
      BY <2>3, <2>5 DEF Uses
    <3>2. split + HeapNode + (h.nodes[n].size - size - HeapNode) = n + HeapNode + h.nodes[n].size
      BY <1>0, <2>1, Parameters
    <3> QED
      BY <3>1, <3>2 DEF After
  <2>7. \A m \in DOMAIN h.nodes \ {n} : After(g, m) = After(h, m)
    BY <2>3, <2>5 DEF Uses, After
  <2>8. FreeIn(g) \ {split} \subseteq FreeIn(h) \ {n}
    BY <2>3, <2>5 DEF Uses, FreeIn
  <2>9. \A m \in FreeIn(h) : After(h, m) \in DOMAIN h.nodes
    BY DEF FreeIn, Tiles
  <2>10. Pairs(g) \ {split} \subseteq Pairs(h) \ {n}
    <3> SUFFICES ASSUME NEW m \in Pairs(g) \ {split}
                 PROVE  m \in Pairs(h) \ {n}
      OBVIOUS
    <3>1. m \in FreeIn(h) \ {n} /\ After(g, m) \in FreeIn(g)
      BY <2>8 DEF Pairs
    <3>2. After(h, m) \in FreeIn(g) /\ After(h, m) # split
      BY <3>1, <2>3, <2>7, <2>9 DEF FreeIn
    <3> QED
      BY <3>1, <3>2, <2>8 DEF Pairs
  <2>11. split \in Pairs(g) => n \in Pairs(h)
    BY <2>3, <2>6, <2>8, <2>9 DEF Pairs
  <2> QED
    BY <2>10, <2>11, NoMorePairs
<1> QED
  BY <1>1, <1>2

LEMMA AllocatedPairs ==
  ASSUME Reasonable, NEW h, WellFormed(h), NEW size \in Nat, size + HeapNode + 16 <= WORD,
         NEW r, r = Allocated(h, size)
  PROVE  Cardinality(Pairs(r.heap)) <= Cardinality(Pairs(h))
<1> DEFINE R == Rounded(size)
           S == Candidates(h, R)
           at == FirstOf(S)
           found == h.bins[at[1]][at[2]]
<1>1. R \in Nat /\ R % 16 = 0
  BY RoundedIs
<1>2. Tiles(h) /\ AreLists(h.bins)
  BY DEF WellFormed, Lists
<1>3. S \subseteq Fits(h, R) /\ Fits(h, R) \subseteq Places(h)
  BY DEF Candidates, Quick, Fits
<1> HIDE DEF R, S
<1>4. CASE size = 0 \/ S = {}
  <2>1. r.heap = h
    BY <1>4 DEF Allocated, R, S
  <2>2. Cardinality(Pairs(h)) \in Nat
    BY <1>2, PairsAre, FS_CardinalityType
  <2> QED
    BY <2>1, <2>2
<1>5. CASE size # 0 /\ S # {}
  <2>1. at \in Fits(h, R)
    BY <1>2, <1>3, <1>5, FirstIn
  <2>2. at[1] \in Bins /\ at[2] \in DOMAIN h.bins[at[1]] /\ R <= h.nodes[found].size
    BY <2>1, <1>2, <1>3, PlacesAre DEF Fits
  <2> DEFINE b == at[1]
             s == Split(h, found, R)
             h1 == Removed(s, b, found)
  <2>3. r = [heap |-> MarkedUsed(h1, found), ptr |-> found + HeapNode]
    BY <1>5 DEF Allocated, R, S, MarkedUsed
  <2> HIDE DEF at
  <2>4. found \in Nat /\ In(h.bins, b, found)
    BY <1>2, <2>2 DEF AreLists, In, Has
  <2>5. found \in FreeIn(h) /\ BinOf(h, found) = b /\ found # End
    BY <1>2, <2>2, <2>4 DEF WellFormed, Lists, FreeIn, Tiles
  <2> HIDE DEF found, b
  <2>6. Open(h, found, {b}, HeldIn(h), h)
    BY <2>5, Opened DEF FreeIn, HeldIn
  <2>7. Open(s, found, {b}, HeldIn(h), h)
    BY <1>1, <2>2, <2>6, SplitOpen
  <2>8. PICK t : t = s
    OBVIOUS
  <2>9. Open(h1, found, {b} \ {b}, HeldIn(h), h) /\ h1.nodes = t.nodes
    <3> HIDE DEF s
    <3> QED
      BY <2>2, <2>7, <2>8, RemovedOpen DEF b
  <2> HIDE DEF h1
  <2>10. PICK g : g = MarkedUsed(h1, found)
    OBVIOUS
  <2>11. Open(h1, found, {}, HeldIn(h), h)
    BY <2>9
  <2>12. Tiles(g)
    BY <2>10, <2>11, UsedClose DEF WellFormed
  <2>13. Uses(g, t, found)
    <3> DEFINE node == [h1.nodes[found] EXCEPT !.used = TRUE]
    <3>1. /\ h1 = [nodes |-> h1.nodes, bins |-> h1.bins] /\ found \in DOMAIN h1.nodes
          /\ h1.nodes \in [DOMAIN h1.nodes -> NodeRec]
      BY <2>11 DEF Open, Tiles, IsHeap
    <3>2. g.nodes = [h1.nodes EXCEPT ![found] = node]
      BY <2>10, <3>1 DEF MarkedUsed
    <3>3. node.size = h1.nodes[found].size /\ node.used
      BY <3>1 DEF NodeRec
    <3> HIDE DEF node
    <3> QED
      BY <2>9, <3>1, <3>2, <3>3 DEF Uses
  <2>14. Cardinality(Pairs(g)) <= Cardinality(Pairs(h))
    <3>1. t = Split(h, found, R)
      BY <2>8
    <3> HIDE DEF s
    <3> QED
      BY <1>1, <1>2, <2>5, <2>12, <2>13, <3>1, TakenPairs
  <2> QED
    BY <2>3, <2>10, <2>14
<1> QED
  BY <1>4, <1>5

(* A chunk that is freed takes in its free neighbours: a pair that it is   *)
(* first of was its second neighbour's.                                    *)
LEMMA DeallocatedPairs ==
  ASSUME Reasonable, NEW h, WellFormed(h), NEW p \in Nat, NEW head \in HeldIn(h), head = p - HeapNode,
         NEW g, g = Deallocated(h, p)
  PROVE  Cardinality(Pairs(g)) <= Cardinality(Pairs(h))
<1> DEFINE prev == h.nodes[head].prev_adj
           joinsPrev == IsFree(h, prev)
           h1 == IF joinsPrev
                 THEN Absorbed(Removed(h, get_bin_index(h.nodes[prev].size), prev), prev) ELSE h
           node == IF joinsPrev THEN prev ELSE head
           joinsNext == IsFree(h1, get_next_adj_node(h1, node))
           h2 == IF joinsNext THEN Joined(h1, node) ELSE h1
           next == After(h, head)
<1>1. /\ head \in DOMAIN h.nodes \ {End} /\ h.nodes[head].used /\ Tiles(h) /\ AreLists(h.bins)
      /\ next \in DOMAIN h.nodes /\ head \in Nat /\ next \in Nat /\ head < next
  BY NextIs DEF HeldIn, WellFormed, Lists
<1>2. g = Added(h2, node)
  BY DEF Deallocated
<1>3. Tiles(g)
  BY DeallocatedIs DEF WellFormed
<1>4. /\ Tiles(h1) /\ AreLists(h1.bins) /\ node \in DOMAIN h1.nodes \ {End} /\ node \in Nat
      /\ DOMAIN h1.nodes = (DOMAIN h.nodes \ {head}) \cup {node} /\ node < next
      /\ After(h1, node) = next
      /\ \A m \in DOMAIN h1.nodes \ {node} :
           h1.nodes[m].size = h.nodes[m].size /\ h1.nodes[m].used = h.nodes[m].used
      /\ node = head \/ node \in FreeIn(h)
      /\ \A m \in FreeIn(h) \ {node} : After(h, m) # head
  <2>0. \A m \in FreeIn(h) : After(h, m) = head => prev = m /\ m \in Nat /\ m > 0
    BY <1>1, Ends DEF FreeIn, Tiles
  <2>1. CASE ~joinsPrev
    <3>1. \A m \in FreeIn(h) : After(h, m) # head
      BY <2>0, <2>1 DEF IsFree, FreeIn, NIL
    <3> QED
      BY <1>1, <2>1, <3>1
  <2>2. CASE joinsPrev
    <3>1. head # Start
      BY <2>2, <1>1 DEF IsFree, Tiles
    <3>2. prev \in DOMAIN h.nodes \ {End} /\ After(h, prev) = head /\ prev \in Nat
      BY <1>1, <3>1 DEF Tiles
    <3>3. ~h.nodes[prev].used /\ h.nodes[prev].size \in Nat /\ h.nodes[head].size \in Nat
      BY <1>1, <2>2, <3>2 DEF IsFree, Tiles, NodeRec
    <3>4. prev < head
      BY <1>1, <3>2, NextIs
    <3> DEFINE b == BinOf(h, prev)
    <3>5. b \in Bins
      BY <3>3, BinIndex DEF BinOf
    <3>6. PICK e : e = Removed(h, b, prev)
      OBVIOUS
    <3>7. PICK f : f = Absorbed(e, prev)
      OBVIOUS
    <3>8. h1 = f /\ node = prev
      BY <2>2, <3>6, <3>7 DEF BinOf
    <3> HIDE DEF b
    <3>9. Tiles(e) /\ e.nodes = h.nodes /\ AreLists(e.bins)
      BY <1>1, <3>2, <3>5, <3>6, RemovedIs
    <3>10. After(e, prev) = head
      BY <3>2, <3>9 DEF After
    <3>11. /\ Tiles(f) /\ f.bins = e.bins /\ DOMAIN f.nodes = DOMAIN h.nodes \ {head}
           /\ f.nodes[prev].size = h.nodes[prev].size + HeapNode + h.nodes[head].size
           /\ \A m \in DOMAIN h.nodes \ {prev, head} :
                f.nodes[m].size = h.nodes[m].size /\ f.nodes[m].used = h.nodes[m].used
      BY <1>1, <3>2, <3>7, <3>9, <3>10, AbsorbTiles
    <3>12. prev + HeapNode + (h.nodes[prev].size + HeapNode + h.nodes[head].size)
             = head + HeapNode + h.nodes[head].size
      BY <1>1, <3>2, <3>3, Parameters DEF After
    <3>13. After(f, prev) = next
      BY <3>11, <3>12 DEF After
    <3>14. prev \in FreeIn(h) /\ \A m \in FreeIn(h) \ {prev} : After(h, m) # head
      BY <2>0, <3>2, <3>3 DEF FreeIn
    <3>15. DOMAIN f.nodes = (DOMAIN h.nodes \ {head}) \cup {prev} /\ prev < next
      BY <1>1, <3>2, <3>4, <3>11
    <3> HIDE DEF h1, node, prev, next
    <3> QED
      BY <3>2, <3>8, <3>9, <3>11, <3>13, <3>14, <3>15
  <2> QED
    BY <2>1, <2>2
<1>5. joinsNext <=> IsFree(h1, next)
  <2> HIDE DEF h1, node, next
  <2> QED
    BY <1>4, NextIs
<1>6. PICK f : f = h1
  OBVIOUS
<1>7. h2 = IF IsFree(f, next) THEN Joined(f, node) ELSE f
  BY <1>5, <1>6
<1> HIDE DEF h1, h2, node, next, prev
<1>8. ASSUME NEW m \in FreeIn(h) \ {node}, m # head, After(g, m) = After(h, m), m \in Pairs(g),
             FreeIn(g) \subseteq FreeIn(h) \cup {node}
      PROVE  m \in Pairs(h)
  BY <1>4, <1>8 DEF Pairs
<1>9. CASE ~IsFree(f, next)
  <2>1. h2 = f
    BY <1>7, <1>9
  <2>2. /\ DOMAIN g.nodes = DOMAIN f.nodes
        /\ \A m \in DOMAIN f.nodes : g.nodes[m].size = f.nodes[m].size
        /\ \A m \in DOMAIN f.nodes \ {node} : g.nodes[m].used = f.nodes[m].used
    BY <1>2, <1>4, <1>6, <2>1, AddedNodes
  <2>3. FreeIn(g) \ {node} \subseteq FreeIn(h) \ {head}
    BY <1>4, <1>6, <2>2 DEF FreeIn
  <2>4. \A m \in FreeIn(g) \ {node} : After(g, m) = After(h, m)
    BY <1>4, <1>6, <2>2 DEF FreeIn, After
  <2>5. Pairs(g) \ {node} \subseteq Pairs(h) \ {node}
    BY <1>8, <2>3, <2>4 DEF Pairs
  <2>6. node \notin Pairs(g)
    <3>1. After(g, node) = next
      BY <1>4, <1>6, <2>2 DEF After
    <3>2. next # NIL
      BY <1>4, <1>1 DEF NIL
    <3>3. next \notin FreeIn(g)
      BY <1>4, <1>6, <1>9, <2>2, <3>2 DEF FreeIn, IsFree
    <3> QED
      BY <3>1, <3>3 DEF Pairs
  <2> QED
    BY <1>1, <1>3, <2>5, <2>6, NoMorePairs
<1>10. CASE IsFree(f, next)
  <2>1. h2 = Joined(f, node)
    BY <1>7, <1>10
  <2>2. /\ DOMAIN h2.nodes = DOMAIN f.nodes \ {next} /\ node # next
        /\ After(h2, node) = After(f, next) /\ Tiles(h2)
        /\ \A m \in DOMAIN f.nodes \ {node, next} :
             h2.nodes[m].size = f.nodes[m].size /\ h2.nodes[m].used = f.nodes[m].used
    BY <1>4, <1>6, <1>10, <2>1, JoinedNodes
  <2>3. /\ DOMAIN g.nodes = DOMAIN h2.nodes
        /\ \A m \in DOMAIN h2.nodes : g.nodes[m].size = h2.nodes[m].size
        /\ \A m \in DOMAIN h2.nodes \ {node} : g.nodes[m].used = h2.nodes[m].used
    BY <1>2, <1>4, <1>6, <2>2, AddedNodes
  <2>4. FreeIn(g) \ {node} \subseteq FreeIn(h) \ {head, next}
    BY <1>4, <1>6, <2>2, <2>3 DEF FreeIn
  <2>5. \A m \in FreeIn(g) \ {node} : After(g, m) = After(h, m)
    BY <1>4, <1>6, <2>2, <2>3 DEF FreeIn, After
  <2>6. Pairs(g) \ {node} \subseteq Pairs(h) \ {next}
    BY <1>8, <2>4, <2>5 DEF Pairs
  <2>7. node \in Pairs(g) => next \in Pairs(h)
    <3>1. After(g, node) = After(h2, node)
      BY <1>4, <1>6, <2>2, <2>3 DEF After
    <3>2. next \in DOMAIN f.nodes /\ next # node /\ f.nodes[next].size = h.nodes[next].size
          /\ f.nodes[next].used = h.nodes[next].used
      BY <1>1, <1>4, <1>6, <2>2
    <3>3. After(g, node) = After(h, next)
      BY <2>2, <3>1, <3>2 DEF After
    <3>4. next \in FreeIn(h)
      BY <1>1, <1>10, <3>2 DEF IsFree, FreeIn
    <3>5. node \in DOMAIN g.nodes \ {End}
      BY <1>4, <1>6, <2>2, <2>3
    <3>6. After(g, node) # node
      BY <1>3, <3>5, NextIs
    <3> QED
      BY <2>4, <3>3, <3>4, <3>6 DEF Pairs
  <2> QED
    BY <1>1, <1>3, <2>6, <2>7, NoMorePairs
<1> QED
  BY <1>9, <1>10

(* The fresh heap has one free chunk.                                      *)
LEMMA FreshPairs ==
  ASSUME Reasonable
  PROVE  Pairs(FreshHeap) = {}
<1>1. Tiles(FreshHeap)
  BY FreshIs DEF WellFormed
<1>2. DOMAIN FreshHeap.nodes = {Start, End}
  BY DEF FreshHeap, Added
<1>3. FreeIn(FreshHeap) \subseteq {Start} /\ End \notin FreeIn(FreshHeap)
  BY <1>1, <1>2 DEF FreeIn, Tiles
<1>4. ASSUME NEW n \in Pairs(FreshHeap)
      PROVE  FALSE
  <2>1. n \in DOMAIN FreshHeap.nodes \ {End} /\ After(FreshHeap, n) = n
    BY <1>3 DEF Pairs, FreeIn
  <2> QED
    BY <1>1, <2>1, NextIs
<1> QED
  BY <1>4

(* Only a realloc may leave more adjacent free chunks than there were.     *)
LEMMA StepCoalesces ==
  ASSUME Reasonable, IInv, IInv',
         (\E n \in Sizes : Alloc(n)) \/ (\E p \in DOMAIN blocks : Dealloc(p))
  PROVE  Cardinality(FreePairs') <= Cardinality(FreePairs)
<1>1. ASSUME initialized
      PROVE  FreePairs = Pairs(heap)
  <2>1. Tiles(heap)
    BY <1>1 DEF IInv, WellFormed
  <2>2. FreePairs = {n \in FreeIn(heap) : get_next_adj_node(heap, n) \in FreeIn(heap)}
    BY DEF FreePairs, Free, Nodes, NextOf, FreeIn
  <2> QED
    BY <2>1, <2>2, PairsAre
<1>2. ASSUME initialized'
      PROVE  FreePairs' = Pairs(heap')
  <2>1. Tiles(heap')
    BY <1>2 DEF IInv, WellFormed
  <2>2. FreePairs' = {n \in FreeIn(heap') : get_next_adj_node(heap', n) \in FreeIn(heap')}
    BY DEF FreePairs, Free, Nodes, NextOf, FreeIn
  <2> QED
    BY <2>1, <2>2, PairsAre
<1>3. CASE \E n \in Sizes : Alloc(n)
  <2>1. PICK n \in Sizes : Alloc(n)
    BY <1>3
  <2>2. n \in Nat /\ n + HeapNode + 16 <= WORD
    BY SizeIs
  <2>3. PICK h : h = Ready
    OBVIOUS
  <2>4. PICK r : r = Allocated(h, n)
    OBVIOUS
  <2>5. heap' = r.heap /\ initialized'
    BY <2>1, <2>3, <2>4 DEF Alloc
  <2>6. WellFormed(h) /\ Pairs(h) = FreePairs
    <3>1. CASE initialized
      BY <1>1, <2>3, <3>1 DEF Ready, IInv
    <3>2. CASE ~initialized
      <4>1. FreePairs = {}
        BY <3>2, EmptyHeap DEF FreePairs
      <4>2. WellFormed(h) /\ Pairs(h) = {}
        BY <2>3, <3>2, FreshIs, FreshPairs DEF Ready
      <4> QED
        BY <4>1, <4>2
    <3> QED
      BY <3>1, <3>2
  <2>7. Cardinality(Pairs(r.heap)) <= Cardinality(Pairs(h))
    BY <2>2, <2>4, <2>6, AllocatedPairs
  <2> QED
    BY <1>2, <2>5, <2>6, <2>7
<1>4. CASE \E p \in DOMAIN blocks : Dealloc(p)
  <2>1. PICK p \in DOMAIN blocks : Dealloc(p)
    BY <1>4
  <2>2. PICK head : head = p - HeapNode
    OBVIOUS
  <2>3. initialized /\ p \in Nat /\ head \in HeldIn(heap) /\ WellFormed(heap)
    BY <2>2, HeadIs
  <2>4. heap' = Deallocated(heap, p) /\ initialized'
    BY <2>1, <2>3 DEF Dealloc
  <2>5. Cardinality(Pairs(heap')) <= Cardinality(Pairs(heap))
    BY <2>2, <2>3, <2>4, DeallocatedPairs
  <2> QED
    BY <1>1, <1>2, <2>3, <2>4, <2>5
<1> QED
  BY <1>3, <1>4
-------------------------------------------------------------------------------
(* heap.nelua: the state is always well typed; in particular every node in *)
(* a bin is one of the region.                                             *)
THEOREM TypeCorrect ==
  ASSUME Reasonable
  PROVE  Spec => []TypeOK
BY Invariance, InvTypeOK, PTL

(* The chunks of the heap always tile the buffer: splitting and coalescing *)
(* keep the links of the neighbours right.                                 *)
THEOREM AlwaysTiled ==
  ASSUME Reasonable
  PROVE  Spec => []Tiled
<1>1. IInv => Tiled
  BY InvTiled
<1> QED
  BY <1>1, Invariance, PTL

(* The bins always hold exactly the free chunks, by size.                  *)
THEOREM AlwaysBinned ==
  ASSUME Reasonable
  PROVE  Spec => []BinsExact
BY Invariance, InvBinsExact, PTL

(* The blocks handed out by alloc and realloc always have the size asked   *)
(* for, lie in the buffer, and do not overlap.                             *)
THEOREM AlwaysFit ==
  ASSUME Reasonable
  PROVE  Spec => []BlocksFit
<1>1. IInv => BlocksFit
  BY InvBlocksFit
<1> QED
  BY <1>1, Invariance, PTL

(* Heap:alloc never fails while a free chunk is large enough, whatever     *)
(* BIN_MAX_LOOKUPS is.                                                     *)
THEOREM AlwaysFound ==
  ASSUME Reasonable
  PROVE  Spec => []SearchComplete
<1>1. IInv => SearchComplete
  BY InvSearchComplete
<1> QED
  BY <1>1, Invariance, PTL

(* Alloc and dealloc never leave more adjacent free chunks than they find: *)
(* dealloc coalesces with both neighbours, and the rest of a chunk that is *)
(* cut stands where the whole stood.                                       *)
THEOREM AlwaysCoalesces ==
  ASSUME Reasonable
  PROVE  Spec => Coalesces
<1>1. IInv /\ IInv' =>
        ((\E n \in Sizes : Alloc(n)) \/ (\E p \in DOMAIN blocks : Dealloc(p))
           => Cardinality(FreePairs') <= Cardinality(FreePairs))
  BY StepCoalesces
<1> QED
  BY <1>1, Invariance, PTL DEF Coalesces
===============================================================================
