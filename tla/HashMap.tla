------------------------------- MODULE HashMap -------------------------------
(***************************************************************************)
(* The hash map of lib/hashmap.nelua: buckets that head singly linked      *)
(* chains of nodes, all nodes in one span, the unused ones linked in a     *)
(* free list through the same `next' field, and rehash, which rebuilds     *)
(* every link.  Indices start at 0, as in the code.  The operations on the *)
(* record are operators from a map to a map; the actions are the calls.    *)
(***************************************************************************)
EXTENDS Integers, FiniteSets

CONSTANTS
  Keys, Values,     (* What the map is instantiated with.                  *)
  ZeroKey,          (* K(): the key of a zeroed node.                      *)
  ZeroValue,        (* V(): the value of a zeroed or new node.             *)
  Hash,             (* Hash of each key.                                   *)
  INIT_CAPACITY,
  MAX_LOAD_FACTOR,  (* In percent.                                         *)
  GROW_RATE,        (* In percent.                                         *)
  INVALID_INDEX,    (* UINTPTR_MAX                                         *)
  Counts,           (* Arguments the program gives to rehash and reserve.  *)
  Traverses,        (* The program iterates over the map.                  *)
  ReusesAfterClear  (* The program inserts again after clear.              *)

ASSUME HashMapConstants ==
  /\ ZeroKey \in Keys /\ ZeroValue \in Values
  /\ IsFiniteSet(Keys)
  /\ Hash \in [Keys -> Nat]
  /\ INIT_CAPACITY \in Nat \ {0}
  /\ MAX_LOAD_FACTOR \in 1..99 /\ GROW_RATE \in Nat /\ GROW_RATE > 100
  /\ INVALID_INDEX \in Nat
  /\ Counts \subseteq Nat
  /\ Traverses \in BOOLEAN /\ ReusesAfterClear \in BOOLEAN

VARIABLES
  map,         (* The record hashmapT: buckets, nodes, size, free_index.   *)
  status,      (* "ok", "panic" (a check failed) or "hang" (endless loop). *)
  cleared,     (* clear was called and nothing rebuilt the links since.    *)
  iter,        (* A traversal by pairs: its index, and as history the keys *)
               (* visited and those present ever since it began.           *)
  content      (* History: the function from keys to values that the calls *)
               (* so far define.                                           *)

vars == <<map, status, cleared, iter, content>>

Span(f) == Cardinality(DOMAIN f)
Empty == [i \in {} |-> 0]
ZeroMap == [buckets |-> Empty, nodes |-> Empty, size |-> 0, free_index |-> 0]
ZeroNode == [key |-> ZeroKey, value |-> ZeroValue, filled |-> FALSE, next |-> 0]
Idle == [on |-> FALSE, index |-> INVALID_INDEX, seen |-> {}, stable |-> {}]

Least(S) == IF S = {} THEN INVALID_INDEX ELSE CHOOSE i \in S : \A j \in S : i <= j
Filled(nodes) == {i \in DOMAIN nodes : nodes[i].filled}
-------------------------------------------------------------------------------
CeilDiv(x, y) == (x + y - 1) \div y
(* The least power of 2 that is not less than n, and 0 for 0.  A power of  *)
(* 2 is a number that no odd number but 1 divides.                         *)
PowerOf2(p) == \A d \in 1..p : p % d = 0 => d = 1 \/ d % 2 = 0
RoundPow2(n) == IF n = 0 THEN 0 ELSE Least({p \in n..(2 * n) : PowerOf2(p)})
(* h % ((n - 1) | 1), where n is a power of 2.                             *)
HashMod(h, n) == h % (IF n <= 2 THEN 1 ELSE n - 1)
BucketOf(key, buckets) == HashMod(Hash[key], Span(buckets))

(* The indices met from `head' on, one more than there are nodes.          *)
Path(nodes, head) ==
  LET next(i) == IF i = INVALID_INDEX THEN i ELSE nodes[i].next
      path[n \in 0..Span(nodes)] == IF n = 0 THEN head ELSE next(path[n - 1])
  IN  [n \in 0..Span(nodes) |-> path[n]]

(* hashmapT:_find: where the walk along the chain of a key ends, if ever,  *)
(* and the node before.                                                    *)
FindHeadOnly(m, key) ==
  LET head == IF m.buckets = Empty THEN INVALID_INDEX ELSE m.buckets[BucketOf(key, m.buckets)]
  IN  IF head # INVALID_INDEX /\ m.nodes[head].key # key
      THEN [node |-> INVALID_INDEX, prev |-> head, hangs |-> FALSE]
      ELSE [node |-> head, prev |-> INVALID_INDEX, hangs |-> FALSE]
Find(m, key) ==
  IF m.buckets = Empty
  THEN [node |-> INVALID_INDEX, prev |-> INVALID_INDEX, hangs |-> FALSE]
  ELSE LET path == Path(m.nodes, m.buckets[BucketOf(key, m.buckets)])
           stops == {n \in DOMAIN path : path[n] = INVALID_INDEX \/ m.nodes[path[n]].key = key}
           n == Least(stops)
       IN  IF stops = {}
           THEN [node |-> INVALID_INDEX, prev |-> INVALID_INDEX, hangs |-> TRUE]
           ELSE [node |-> path[n], hangs |-> FALSE,
                 prev |-> IF n = 0 THEN INVALID_INDEX ELSE path[n - 1]]
-------------------------------------------------------------------------------
(* hashmapT:rehash, in its four parts: how many buckets and nodes, the     *)
(* filled nodes shifted down in their order when the span shrinks, one     *)
(* list of the unused nodes, and one chain of used nodes per bucket.       *)
BucketCount(size, wanted) ==
  LET least == CeilDiv(size * 100, MAX_LOAD_FACTOR)
  IN  RoundPow2(IF wanted < least THEN least ELSE wanted)
NodeCount(size, bucketCount) ==
  LET n == CeilDiv(bucketCount * MAX_LOAD_FACTOR, 100)
  IN  IF bucketCount > 0 /\ n <= size THEN size + 1 ELSE n

(* No table the program can make has so many nodes that one of them would  *)
(* have UINTPTR_MAX for its index.                                         *)
Wanted(size) ==
  Counts \cup {CeilDiv(n * 100, MAX_LOAD_FACTOR) : n \in Counts}
         \cup {INIT_CAPACITY, CeilDiv(size * GROW_RATE, MAX_LOAD_FACTOR)}
ASSUME HashMapRoom ==
  \A size \in 0..Cardinality(Keys) : \A wanted \in Wanted(size) :
    NodeCount(size, BucketCount(size, wanted)) <= INVALID_INDEX

Shrinks(nodes, count) == 0 < count /\ count < Span(nodes)
Compacted(nodes) ==
  LET rank(i) == Cardinality({k \in Filled(nodes) : k < i})
  IN  [i \in DOMAIN nodes |-> IF \E j \in Filled(nodes) : rank(j) = i
                              THEN nodes[CHOOSE j \in Filled(nodes) : rank(j) = i]
                              ELSE ZeroNode]
Resized(nodes, count) ==
  [i \in 0..(count - 1) |-> IF i \in DOMAIN nodes THEN nodes[i] ELSE ZeroNode]
ShiftedNever(nodes, count) == Resized(nodes, count)
Shifted(nodes, count) ==
  Resized(IF Shrinks(nodes, count) THEN Compacted(nodes) ELSE nodes, count)

LinkedOver(nodes, bucket) ==
  [i \in DOMAIN nodes |->
     LET after == {j \in DOMAIN nodes : /\ j > i /\ nodes[j].filled = nodes[i].filled
                                        /\ nodes[i].filled => bucket[j] = bucket[i]}
     IN  IF nodes[i].filled /\ after = {} THEN nodes[i]
         ELSE [nodes[i] EXCEPT !.next = Least(after)]]
Linked(nodes, bucket) ==
  [i \in DOMAIN nodes |->
     [nodes[i] EXCEPT !.next =
        Least({j \in DOMAIN nodes : /\ j > i /\ nodes[j].filled = nodes[i].filled
                                    /\ nodes[i].filled => bucket[j] = bucket[i]})]]

Rehashed(m, wanted) ==
  LET n == BucketCount(m.size, wanted)
      nodes == Shifted(m.nodes, NodeCount(m.size, n))
      bucketOf == [key \in Keys |-> HashMod(Hash[key], n)]
  IN  [m EXCEPT
         !.nodes = Linked(nodes, [i \in DOMAIN nodes |-> bucketOf[nodes[i].key]]),
         !.buckets = [h \in 0..(n - 1) |-> Least({i \in Filled(nodes) : bucketOf[nodes[i].key] = h})],
         !.free_index = Least(DOMAIN nodes \ Filled(nodes))]
(* check(j == self.size)                                                   *)
RehashPanics(m, wanted) ==
  /\ Shrinks(m.nodes, NodeCount(m.size, BucketCount(m.size, wanted)))
  /\ m.size # Cardinality(Filled(m.nodes))
-------------------------------------------------------------------------------
(* hashmapT:_at, for a key that is not found: take a free node, append it  *)
(* to its chain, and rehash at the load limit.                             *)
Prepared(m) == IF m.buckets = Empty THEN Rehashed(m, INIT_CAPACITY) ELSE m

Appended(m, key, prev) ==
  LET i == m.free_index
      node == [key |-> key, value |-> ZeroValue, filled |-> TRUE, next |-> INVALID_INDEX]
      taken == [m EXCEPT !.free_index = m.nodes[i].next, !.size = @ + 1, !.nodes[i] = node]
  IN  IF prev = INVALID_INDEX
      THEN [taken EXCEPT !.buckets[BucketOf(key, m.buckets)] = i]
      ELSE [taken EXCEPT !.nodes[prev].next = i]

Overloaded(m) == m.size * 100 >= Span(m.buckets) * MAX_LOAD_FACTOR
GrowCount(m) == CeilDiv(m.size * GROW_RATE, MAX_LOAD_FACTOR)

Fail(how) == status' = how /\ UNCHANGED <<map, cleared, iter, content>>

(* The caller writes the value of node i, which _at returned: the index    *)
(* taken before the rehash.                                                *)
AddNode(m, key, prev, write) ==
  LET i == m.free_index
      added == Appended(m, key, prev)
  IN  IF Overloaded(added)
      THEN /\ map' = [Rehashed(added, GrowCount(added)) EXCEPT !.nodes[i].value = write[@]]
           /\ cleared' = FALSE
      ELSE /\ map' = [added EXCEPT !.nodes[i].value = write[@]]
           /\ cleared' = (cleared /\ map.buckets # Empty)
NodesRunOut(m) == m.free_index \notin DOMAIN m.nodes
AddPanics(m, key, prev) ==
  \/ NodesRunOut(m)  (* not enough space to add a node *)
  \/ LET added == Appended(m, key, prev)
     IN  Overloaded(added) /\ RehashPanics(added, GrowCount(added))

Ready == status = "ok"
Old(key) == IF key \in DOMAIN content THEN content[key] ELSE ZeroValue
WithEntry(key, v) ==
  [k \in DOMAIN content \cup {key} |-> IF k = key THEN v ELSE content[k]]
WithoutEntry(key) == [k \in DOMAIN content \ {key} |-> content[k]]

(* hashmapT:__atindex and a write through the reference it returns.        *)
Index(key, write) ==
  LET m == Prepared(map)
      at == Find(m, key)
      found == at.node # INVALID_INDEX
  IN  /\ Ready
      /\ ~cleared \/ ReusesAfterClear \/ map.buckets = Empty
      /\ \/ at.hangs /\ Fail("hang")
         \/ ~at.hangs /\ ~found /\ AddPanics(m, key, at.prev) /\ Fail("panic")
         \/ /\ ~at.hangs
            /\ IF found
               THEN /\ map' = [m EXCEPT !.nodes[at.node].value = write[@]]
                    /\ cleared' = cleared
               ELSE ~AddPanics(m, key, at.prev) /\ AddNode(m, key, at.prev, write)
            /\ content' = WithEntry(key, write[Old(key)])
            /\ UNCHANGED <<status, iter>>

(* map[key] = v                                                            *)
Put(key, v) == Index(key, [old \in Values |-> v])
(* map[key], which inserts a zeroed value when the key is missing.         *)
Touch(key) == Index(key, [old \in Values |-> old])

(* hashmapT:remove: unlink the node and put it on the free list.           *)
UnlinkedDangling(m, key, at) ==
  LET after == m.nodes[at.node].next
      freed == [m EXCEPT !.nodes[at.node] = [ZeroNode EXCEPT !.next = m.free_index],
                         !.free_index = at.node, !.size = @ - 1]
  IN  IF at.prev = INVALID_INDEX THEN [freed EXCEPT !.buckets[BucketOf(key, m.buckets)] = after]
      ELSE freed
Unlinked(m, key, at) ==
  LET after == m.nodes[at.node].next
      freed == [m EXCEPT !.nodes[at.node] = [ZeroNode EXCEPT !.next = m.free_index],
                         !.free_index = at.node, !.size = @ - 1]
  IN  IF at.prev = INVALID_INDEX THEN [freed EXCEPT !.buckets[BucketOf(key, m.buckets)] = after]
      ELSE [freed EXCEPT !.nodes[at.prev].next = after]
Remove(key) ==
  LET at == Find(map, key)
  IN  /\ Ready
      /\ \/ at.hangs /\ Fail("hang")
         \/ /\ at.node # INVALID_INDEX
            /\ map' = Unlinked(map, key, at)
            /\ iter' = [iter EXCEPT !.stable = @ \ {key}, !.seen = @ \ {key}]
            /\ content' = WithoutEntry(key)
            /\ UNCHANGED <<status, cleared>>

(* hashmapT:rehash, and hashmapT:reserve, which calls it to get more       *)
(* buckets only.                                                           *)
Rehash(wanted) ==
  /\ Ready /\ ~iter.on
  /\ IF RehashPanics(map, wanted) THEN Fail("panic")
     ELSE /\ map' = Rehashed(map, wanted)
          /\ cleared' = FALSE
          /\ UNCHANGED <<status, iter, content>>

Reserve(count) ==
  /\ CeilDiv(count * 100, MAX_LOAD_FACTOR) > Span(map.buckets)
  /\ Rehash(CeilDiv(count * 100, MAX_LOAD_FACTOR))

(* hashmapT:clear zeroes the nodes and makes the first one the free list.  *)
Clear ==
  /\ Ready /\ ~iter.on
  /\ map' = [buckets |-> [h \in DOMAIN map.buckets |-> INVALID_INDEX],
             nodes |-> [i \in DOMAIN map.nodes |-> ZeroNode],
             size |-> 0, free_index |-> 0]
  /\ cleared' = TRUE
  /\ content' = Empty
  /\ UNCHANGED <<status, iter>>

Destroy ==
  /\ Ready /\ ~iter.on
  /\ map' = ZeroMap
  /\ cleared' = FALSE
  /\ content' = Empty
  /\ UNCHANGED <<status, iter>>

(* A traversal by pairs or mpairs, during which the program may insert and *)
(* remove elements.                                                        *)
StartTraversal ==
  /\ Ready /\ Traverses /\ ~iter.on
  /\ iter' = [on |-> TRUE, index |-> INVALID_INDEX, seen |-> {},
              stable |-> {map.nodes[i].key : i \in Filled(map.nodes)}]
  /\ UNCHANGED <<map, status, cleared, content>>
Ahead == {i \in Filled(map.nodes) : iter.index = INVALID_INDEX \/ i > iter.index}
Visit ==
  /\ Ready /\ iter.on /\ Ahead # {}
  /\ iter' = [iter EXCEPT !.index = Least(Ahead), !.seen = @ \cup {map.nodes[Least(Ahead)].key}]
  /\ UNCHANGED <<map, status, cleared, content>>
EndTraversal ==
  /\ Ready /\ iter.on /\ Ahead = {}
  /\ iter' = Idle
  /\ UNCHANGED <<map, status, cleared, content>>

Init == map = ZeroMap /\ status = "ok" /\ cleared = FALSE /\ iter = Idle
        /\ content = Empty

Next ==
  \/ \E key \in Keys, v \in Values : Put(key, v)
  \/ \E key \in Keys : Touch(key)
  \/ \E key \in Keys : Remove(key)
  \/ \E n \in Counts : Rehash(n)
  \/ \E n \in Counts : Reserve(n)
  \/ Clear
  \/ Destroy
  \/ StartTraversal
  \/ Visit
  \/ EndTraversal

Spec == Init /\ [][Next]_vars
-------------------------------------------------------------------------------
(* Every index kept in the map is a node's or INVALID_INDEX (rehash after  *)
(* a shift leaves none that points past the new end).                      *)
TypeOK ==
  LET Link == DOMAIN map.nodes \cup {INVALID_INDEX}
  IN  /\ map.nodes \in [0..(Span(map.nodes) - 1) ->
                          [key : Keys, value : Values, filled : BOOLEAN, next : Link]]
      /\ map.buckets \in [0..(Span(map.buckets) - 1) -> Link]
      /\ map.size \in Nat
      /\ map.nodes # Empty => map.free_index \in Link
      /\ status \in {"ok", "panic", "hang"} /\ cleared \in BOOLEAN
      /\ iter \in [on : BOOLEAN, index : Nat, seen : SUBSET Keys, stable : SUBSET Keys]

(* The table is sound between any two calls, so that every call finds what *)
(* it looks for and ends: no check fails and no walk along a chain is      *)
(* endless; the chain of a bucket meets the used nodes whose keys belong   *)
(* there, and nothing else; no key is in two nodes; the free list runs     *)
(* through the unused nodes, all of them and each once; the size counts    *)
(* the used ones, and one node is free, so an insertion never runs out.    *)
TableExact ==
  LET filled == Filled(map.nodes)
      spare == DOMAIN map.nodes \ filled
      PathOf(i) == Path(map.nodes, i)
      On(i) == {PathOf(i)[n] : n \in DOMAIN PathOf(i)} \ {INVALID_INDEX}
  IN  /\ status = "ok"
      /\ \A h \in DOMAIN map.buckets :
           On(map.buckets[h]) = {i \in filled : BucketOf(map.nodes[i].key, map.buckets) = h}
      /\ \A i, j \in filled : map.nodes[i].key = map.nodes[j].key => i = j
      /\ map.size = Cardinality(filled)
      /\ ~cleared /\ map.buckets # Empty =>
           /\ spare # {}
           /\ On(map.free_index) = spare
           /\ PathOf(map.free_index)[Cardinality(spare)] = INVALID_INDEX

(* A traversal visits every element that stays in the map while it runs,   *)
(* whatever else is inserted or removed meanwhile, growth included, and    *)
(* visits no element twice.                                                *)
TraversalExact ==
  [][/\ Visit => map.nodes[iter'.index].key \notin iter.seen
     /\ EndTraversal => iter.stable \subseteq iter.seen]_vars

(* The map is the function the calls define: looking up any key finds the  *)
(* value last put there, or nothing when it was removed or never put,      *)
(* through every rehash; and map[key] keeps the value that is there.       *)
FindsWhatWasPut ==
  status = "ok" =>
    \A key \in Keys :
      LET i == Find(map, key).node
      IN  IF key \in DOMAIN content
          THEN i # INVALID_INDEX /\ map.nodes[i].value = content[key]
          ELSE i = INVALID_INDEX
===============================================================================
