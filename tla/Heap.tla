--------------------------------- MODULE Heap ---------------------------------
(***************************************************************************)
(* The heap allocator of lib/allocators/heap.nelua: a region of memory     *)
(* tiled by chunks, each with a node in front of it, and one bin of free   *)
(* chunks for each power of 2.  Splitting and coalescing rewrite the nodes *)
(* of the neighbours; an error there is found much later, by an allocation *)
(* that overlaps another.                                                  *)
(*                                                                         *)
(* A node is named by its address.  A bin, in the code a doubly linked     *)
(* list through the nodes, is here the sequence of the nodes it links.     *)
(***************************************************************************)
EXTENDS Integers, Sequences, FiniteSets

CONSTANTS
  BIN_COUNT,
  BIN_MAX_LOOKUPS,
  HeapNode,        (* #@HeapNode, the size of a node.                      *)
  WORD,            (* usize arithmetic is modulo WORD.                     *)
  Buffer,          (* Address of the buffer.                               *)
  SIZE,            (* Size of the buffer.                                  *)
  Sizes            (* Sizes the program asks for.                          *)

ALLOC_ALIGN == 16
MIN_ALLOC_SIZE == 16
NIL == 0
Bins == 0..(BIN_COUNT - 1)

ASSUME HeapParameters ==
  /\ HeapNode \in {16, 32}
  /\ BIN_COUNT \in Nat \ {0} /\ BIN_MAX_LOOKUPS \in Nat
  /\ WORD \in Nat /\ WORD % ALLOC_ALIGN = 0
  /\ Buffer \in Nat \ {0} /\ SIZE \in Nat
  /\ Buffer + SIZE + ALLOC_ALIGN <= WORD
  /\ Sizes \subseteq 1..(WORD - 1)

(* The buffer holds a chunk, and the sizes leave room for rounding.        *)
Reasonable ==
  /\ SIZE >= 2 * HeapNode + ALLOC_ALIGN
  /\ \A n \in Sizes : n + HeapNode + ALLOC_ALIGN <= WORD

VARIABLES
  initialized,
  heap,      (* nodes: the nodes in use; bins: the free ones, by size.     *)
  blocks     (* History: the sizes asked for the blocks handed out.        *)

vars == <<initialized, heap, blocks>>
-------------------------------------------------------------------------------
(* floor(log2(size)) - 3, between 0 and BIN_COUNT - 1.                     *)
get_bin_index(size) == Cardinality({b \in 1..(BIN_COUNT - 1) : 2 ^ (b + 3) <= size})
align_forward(addr) == (((addr + ALLOC_ALIGN - 1) % WORD) \div ALLOC_ALIGN) * ALLOC_ALIGN
(* "We always want to allocate aligned sizes".                             *)
RoundedDown(size) == ((size \div ALLOC_ALIGN) * ALLOC_ALIGN) % WORD
Rounded(size) == (align_forward((size + HeapNode) % WORD) - HeapNode) % WORD

get_next_adj_node(h, node) == (node + HeapNode + h.nodes[node].size) % WORD

(* Heap:add_node and Heap:remove_bin_node.                                 *)
Added(h, node) ==
  [h EXCEPT !.nodes[node].used = FALSE,
            !.bins[get_bin_index(h.nodes[node].size)] = <<node>> \o @]
Unlinked(bin, node) ==
  IF \E i \in DOMAIN bin : bin[i] = node
  THEN [j \in 1..(Len(bin) - 1) |-> IF \E i \in 1..j : bin[i] = node THEN bin[j + 1] ELSE bin[j]]
  ELSE bin
Removed(h, bin, node) == [h EXCEPT !.bins[bin] = Unlinked(@, node)]

Forgotten(nodes, node) == [n \in DOMAIN nodes \ {node} |-> nodes[n]]
(* The node absorbs the chunk after it, which is in no bin.                *)
Absorbed(h, node) ==
  LET next == get_next_adj_node(h, node)
      after == get_next_adj_node(h, next)
      size == h.nodes[node].size + HeapNode + h.nodes[next].size
  IN  [h EXCEPT !.nodes = [Forgotten(h.nodes, next) EXCEPT ![node].size = size,
                                                          ![after].prev_adj = node]]
(* A free chunk after the node leaves its bin and is absorbed.             *)
JoinedBinned(h, node) == Absorbed(h, node)
JoinedLate(h, node) ==
  LET next == get_next_adj_node(h, node)
      joined == Absorbed(h, node)
  IN  Removed(joined, get_bin_index(joined.nodes[node].size), next)
Joined(h, node) ==
  LET next == get_next_adj_node(h, node)
  IN  Absorbed(Removed(h, get_bin_index(h.nodes[next].size), next), node)

(* A chunk much larger than `size' is cut in two, and the rest is free.    *)
Splits(h, node, size) == h.nodes[node].size > size + HeapNode + MIN_ALLOC_SIZE
SplitOffUnlinked(h, node, size) ==
  LET split == node + HeapNode + size
      rest == [size |-> h.nodes[node].size - size - HeapNode, prev_adj |-> node, used |-> FALSE]
      at(n) == CASE n = split -> rest
                 [] n = node -> [h.nodes[n] EXCEPT !.size = size]
                 [] OTHER -> h.nodes[n]
  IN  [h EXCEPT !.nodes = [n \in DOMAIN h.nodes \cup {split} |-> at(n)]]
SplitOff(h, node, size) ==
  LET split == node + HeapNode + size
      rest == [size |-> h.nodes[node].size - size - HeapNode, prev_adj |-> node, used |-> FALSE]
      at(n) == CASE n = split -> rest
                 [] n = node -> [h.nodes[n] EXCEPT !.size = size]
                 [] n = get_next_adj_node(h, node) -> [h.nodes[n] EXCEPT !.prev_adj = split]
                 [] OTHER -> h.nodes[n]
  IN  [h EXCEPT !.nodes = [n \in DOMAIN h.nodes \cup {split} |-> at(n)]]
Split(h, node, size) ==
  IF Splits(h, node, size) THEN Added(SplitOff(h, node, size), node + HeapNode + size) ELSE h
-------------------------------------------------------------------------------
(* Heap:alloc: the first chunk that fits, from the bin of the size on,     *)
(* first with a limit on the lookups per bin, then without.                *)
Places(h) == UNION {{b} \X DOMAIN h.bins[b] : b \in Bins}
Fits(h, size) == {at \in Places(h) : /\ at[1] >= get_bin_index(size)
                                     /\ h.nodes[h.bins[at[1]][at[2]]].size >= size}
Quick(S) == {at \in S : at[2] <= BIN_MAX_LOOKUPS}
CandidatesLimited(h, size) == Quick(Fits(h, size))
Candidates(h, size) ==
  IF Quick(Fits(h, size)) # {} THEN Quick(Fits(h, size)) ELSE Fits(h, size)
Least(S) == CHOOSE i \in S : \A j \in S : i <= j
FirstOf(S) ==
  LET b == Least({at[1] : at \in S})
  IN  <<b, Least({at[2] : at \in {other \in S : other[1] = b}})>>

(* The heap after an allocation, and the pointer that is returned.         *)
Allocated(h, size) ==
  LET S == Candidates(h, Rounded(size))
      at == FirstOf(S)
      found == h.bins[at[1]][at[2]]
      h1 == Removed(Split(h, found, Rounded(size)), at[1], found)
  IN  IF size = 0 \/ S = {} THEN [heap |-> h, ptr |-> NIL]
      ELSE [heap |-> [h1 EXCEPT !.nodes[found].used = TRUE], ptr |-> found + HeapNode]

(* Heap:dealloc                                                            *)
IsFree(h, node) == node # NIL /\ ~h.nodes[node].used
DeallocatedBackward(h, p) ==
  LET head == p - HeapNode
      prev == h.nodes[head].prev_adj
  IN  IF IsFree(h, prev)
      THEN Added(Absorbed(Removed(h, get_bin_index(h.nodes[prev].size), prev), prev), prev)
      ELSE Added(h, head)
Deallocated(h, p) ==
  LET head == p - HeapNode
      prev == h.nodes[head].prev_adj
      joinsPrev == IsFree(h, prev)
      h1 == IF joinsPrev
            THEN Absorbed(Removed(h, get_bin_index(h.nodes[prev].size), prev), prev) ELSE h
      node == IF joinsPrev THEN prev ELSE head
      h2 == IF IsFree(h1, get_next_adj_node(h1, node)) THEN Joined(h1, node) ELSE h1
  IN  Added(h2, node)

(* Heap:realloc of a block to a size that is not 0.                        *)
Reallocated(h, p, size) ==
  LET head == p - HeapNode
      next == get_next_adj_node(h, head)
      rounded == Rounded(size)
      grows == rounded > h.nodes[head].size
      joins == IsFree(h, next) /\ h.nodes[head].size + h.nodes[next].size + HeapNode >= rounded
      moved == Allocated(h, rounded)
  IN  IF grows /\ ~joins
      THEN IF moved.ptr = NIL THEN moved
           ELSE [heap |-> Deallocated(moved.heap, p), ptr |-> moved.ptr]
      ELSE [heap |-> Split(IF grows THEN Joined(h, head) ELSE h, head, rounded), ptr |-> p]
-------------------------------------------------------------------------------
(* Heap:add_memory_region on an empty heap.                                *)
Start == align_forward(Buffer)
End == Start + (SIZE - (Start - Buffer) - HeapNode)
FreshHeap ==
  LET start == [size |-> (End - Start - HeapNode) % WORD, prev_adj |-> NIL, used |-> FALSE]
      end == [size |-> 0, prev_adj |-> Start, used |-> TRUE]
  IN  Added([nodes |-> [n \in {Start, End} |-> IF n = End THEN end ELSE start],
             bins |-> [b \in Bins |-> <<>>]], Start)
Ready == IF initialized THEN heap ELSE FreshHeap
NoHeap == [nodes |-> [n \in {} |-> 0], bins |-> [b \in Bins |-> <<>>]]

(* HeapAllocator:alloc, when it returns a block.                           *)
Alloc(n) ==
  LET r == Allocated(Ready, n)
  IN  /\ heap' = r.heap
      /\ initialized' = TRUE
      /\ blocks' = IF r.ptr = NIL THEN blocks
                   ELSE [p \in DOMAIN blocks \cup {r.ptr} |-> IF p = r.ptr THEN n ELSE blocks[p]]

(* HeapAllocator:dealloc, and HeapAllocator:realloc to size 0.             *)
Dealloc(p) ==
  /\ p \in DOMAIN blocks
  /\ heap' = Deallocated(heap, p)
  /\ blocks' = [q \in DOMAIN blocks \ {p} |-> blocks[q]]
  /\ UNCHANGED initialized

(* HeapAllocator:realloc                                                   *)
Realloc(p, n) ==
  /\ p \in DOMAIN blocks /\ n # blocks[p]
  /\ LET r == Reallocated(heap, p, n)
     IN  /\ heap' = r.heap
         /\ blocks' = IF r.ptr = NIL THEN blocks
                      ELSE [q \in (DOMAIN blocks \ {p}) \cup {r.ptr} |->
                              IF q = r.ptr THEN n ELSE blocks[q]]
  /\ UNCHANGED initialized

(* HeapAllocator:deallocall                                                *)
DeallocAll ==
  /\ heap' = NoHeap
  /\ initialized' = FALSE
  /\ blocks' = [p \in {} |-> 0]

Init ==
  /\ initialized = FALSE
  /\ heap = NoHeap
  /\ blocks = [p \in {} |-> 0]

Next ==
  \/ \E n \in Sizes : Alloc(n)
  \/ \E p \in DOMAIN blocks : Dealloc(p)
  \/ \E p \in DOMAIN blocks, n \in Sizes : Realloc(p, n)
  \/ DeallocAll

Spec == Init /\ [][Next]_vars
-------------------------------------------------------------------------------
Nodes == DOMAIN heap.nodes
Free == {n \in Nodes : ~heap.nodes[n].used}
NextOf(n) == get_next_adj_node(heap, n)

TypeOK ==
  /\ initialized \in BOOLEAN
  /\ Nodes \subseteq Nat
  /\ heap.nodes \in [Nodes -> [size : Nat, prev_adj : Nat, used : BOOLEAN]]
  /\ heap.bins \in [Bins -> Seq(Nodes)]
  /\ DOMAIN blocks \subseteq Nat /\ blocks \in [DOMAIN blocks -> Sizes]

(* The chunks tile the region: from any node but the last one leads to the *)
(* next one in the region and back, and no node is inside of a chunk.      *)
Tiled ==
  initialized =>
    /\ Start \in Nodes /\ End \in Nodes
    /\ heap.nodes[Start].prev_adj = NIL
    /\ \A n \in Nodes \ {End} : NextOf(n) \in Nodes /\ heap.nodes[NextOf(n)].prev_adj = n
    /\ \A n \in Nodes \ {End}, m \in Nodes : m > n => m >= n + HeapNode + heap.nodes[n].size
    /\ \A n \in Nodes : Start <= n /\ n <= End

(* The free chunks are in the bins, each once and in the bin of its size,  *)
(* and nothing else is.                                                    *)
BinsExact ==
  /\ \A b \in Bins : \A i \in DOMAIN heap.bins[b] :
       /\ heap.bins[b][i] \in Free
       /\ get_bin_index(heap.nodes[heap.bins[b][i]].size) = b
       /\ \A j \in DOMAIN heap.bins[b] : heap.bins[b][i] = heap.bins[b][j] => i = j
  /\ \A n \in Free : LET bin == heap.bins[get_bin_index(heap.nodes[n].size)]
                     IN  \E i \in DOMAIN bin : bin[i] = n

(* The blocks the program holds are the used chunks; each has the size     *)
(* asked for and lies in the buffer, aligned, and no two overlap.          *)
BlocksFit ==
  /\ \A p \in DOMAIN blocks : /\ p % ALLOC_ALIGN = 0
                              /\ Buffer <= p /\ p + blocks[p] <= Buffer + SIZE
  /\ \A p, q \in DOMAIN blocks : p < q => p + blocks[p] <= q - HeapNode
  /\ initialized => {p - HeapNode : p \in DOMAIN blocks} = (Nodes \ Free) \ {End}

(* An allocation fails only when no free chunk is large enough, whatever   *)
(* the lookup limit has skipped.                                           *)
SearchComplete ==
  initialized =>
    \A n \in Sizes : Allocated(heap, n).ptr = NIL =>
                       \A f \in Free : heap.nodes[f].size < Rounded(n)

(* Only realloc, when it shrinks a block next to a free chunk, leaves two  *)
(* adjacent free chunks; dealloc coalesces with both neighbours.           *)
FreePairs == {n \in Free : NextOf(n) \in Free}
Coalesces ==
  [][(\E n \in Sizes : Alloc(n)) \/ (\E p \in DOMAIN blocks : Dealloc(p))
       => Cardinality(FreePairs') <= Cardinality(FreePairs)]_vars
===============================================================================
