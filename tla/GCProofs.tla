------------------------------- MODULE GCProofs -------------------------------
(***************************************************************************)
(* Type correctness of the collector, and the exactness of its mark phase. *)
(***************************************************************************)
EXTENDS GC, FiniteSetTheorems, SequenceTheorems, WellFoundedInduction, TLAPS

Slots == Addr \cup {NIL}

(* The least index of a set of indices belongs to it.                      *)
LEMMA FirstIsFirst ==
  ASSUME NEW S, S \subseteq Nat, S # {}
  PROVE  First(S) \in S /\ \A j \in S : First(S) <= j
<1>1. PICK x \in S : \A y \in S : ~ (<<y, x>> \in OpToRel(<, Nat))
  BY NatLessThanWellFounded, WFMin
<1>2. \A y \in S : ~ (y < x)
  BY <1>1, Zenon DEF OpToRel
<1>3. \A y \in S : x <= y
  BY <1>2
<1> QED
  BY <1>3 DEF First

(* An order of traversal is a sequence that lists the set.                 *)
LEMMA OrdersAreSequences ==
  ASSUME NEW S, IsFiniteSet(S), NEW s \in Orders(S)
  PROVE  s \in Seq(S) /\ S = {s[i] : i \in DOMAIN s}
<1>1. Cardinality(S) \in Nat
  BY FS_CardinalityType
<1>2. s \in [1..Cardinality(S) -> S] /\ \A a \in S : \E i \in DOMAIN s : s[i] = a
  BY DEF Orders
<1>3. s \in Seq(S)
  BY <1>1, <1>2, IsASeq
<1> QED
  BY <1>2, <1>3

(* The free list and the call stack keep their type when a sweep begins.   *)
LEMMA SweepTyped ==
  ASSUME NEW op \in {"collect", "destroy"}, NEW garbage, garbage \subseteq Addr,
         NEW frs \in Seq(Slots), NEW below \in Seq(Frame),
         BeginSweep(op, garbage, frs, below)
  PROVE  frees' \in Seq(Slots) /\ calls' \in Seq(Frame)
<1>1. IsFiniteSet(garbage)
  BY FS_Subset, GCAddresses
<1>2. PICK s \in Orders(garbage) : frees' = frs \o s
  BY DEF BeginSweep
<1>3. s \in Seq(garbage)
  BY <1>1, OrdersAreSequences
<1>4. s \in Seq(Slots)
  BY <1>3, SeqMonotonic DEF Slots
<1>5. frees' \in Seq(Slots)
  BY <1>2, <1>4, ConcatProperties
<1>6. SweepFrame(op) \in Frame
  BY DEF SweepFrame, Frame
<1>7. calls' \in Seq(Frame)
  BY <1>6, AppendProperties DEF BeginSweep
<1> QED
  BY <1>5, <1>7

(* A cycle keeps the types of what it sets,                                *)
LEMMA CycleTyped ==
  ASSUME NEW frs \in Seq(Slots), NEW below \in Seq(Frame),
         DOMAIN items' \subseteq Addr, Cycle(frs, below)
  PROVE  /\ frees' \in Seq(Slots) /\ calls' \in Seq(Frame)
         /\ condemned' \subseteq Addr /\ collecting' \in BOOLEAN
<1>1. BeginSweep("collect", DOMAIN items' \ Marked', frs, below)
  BY DEF Cycle
<1>2. DOMAIN items' \ Marked' \subseteq Addr
  OBVIOUS
<1>3. frees' \in Seq(Slots) /\ calls' \in Seq(Frame)
  BY <1>1, <1>2, SweepTyped
<1> QED
  BY <1>3 DEF Cycle

(* and so does a step that may begin one.                                  *)
LEMMA MaybeCollectTyped ==
  ASSUME TypeOK, DOMAIN items' \subseteq Addr,
         NEW frs \in Seq(Slots), NEW cnd, cnd \subseteq Addr, NEW below \in Seq(Frame),
         MaybeCollect(frs, cnd, below)
  PROVE  /\ frees' \in Seq(Slots) /\ calls' \in Seq(Frame)
         /\ condemned' \subseteq Addr /\ collecting' \in BOOLEAN
<1>1. CASE Triggers
  <2>1. calls \o below \in Seq(Frame)
    BY ConcatProperties DEF TypeOK
  <2>2. Cycle(frs, calls \o below)
    BY <1>1 DEF MaybeCollect
  <2> QED
    BY <2>1, <2>2, CycleTyped
<1>2. CASE ~Triggers
  BY <1>2 DEF MaybeCollect, TypeOK
<1> QED
  BY <1>1, <1>2

(* Tracking a block keeps the types of the map and of the bounds.          *)
LEMMA TrackTyped ==
  ASSUME TypeOK, NEW its, DOMAIN its \subseteq Addr, its \in [DOMAIN its -> Item],
         NEW p \in Addr, NEW item \in Item, Track(its, p, item)
  PROVE  /\ DOMAIN items' = DOMAIN its \cup {p} /\ items' \in [DOMAIN items' -> Item]
         /\ DOMAIN items' \subseteq Addr
         /\ minaddr' \in Nat /\ maxaddr' \in Nat /\ stack' \subseteq Addr
<1> DEFINE tracked == [item EXCEPT !.leaf = @ \/ item.size < Word]
<1>1. tracked \in Item
  BY DEF Item
<1>2. items' = With(its, p, tracked)
  BY DEF Track
<1>3. DOMAIN items' = DOMAIN its \cup {p} /\ items' \in [DOMAIN items' -> Item]
  BY <1>1, <1>2 DEF With
<1>4. p \in Nat /\ item.size \in Nat
  BY GCAddresses, GCParameters DEF Item
<1>5. minaddr' \in Nat /\ maxaddr' \in Nat
  BY <1>4 DEF Track, TypeOK
<1>6. stack' \subseteq Addr
  BY DEF Track, TypeOK
<1> QED
  BY <1>3, <1>5, <1>6

(* Forgetting a block keeps the types of the map,                          *)
LEMMA WithoutTyped ==
  ASSUME TypeOK, NEW p
  PROVE  /\ Without(items, p) \in [DOMAIN Without(items, p) -> Item]
         /\ DOMAIN Without(items, p) = DOMAIN items \ {p}
         /\ DOMAIN Without(items, p) \subseteq Addr
BY DEF Without, TypeOK

(* and patching the free list those of the list.                           *)
LEMMA PatchedTyped ==
  ASSUME TypeOK, NEW p, NEW x \in Slots
  PROVE  Patched(p, x) \in Seq(Slots)
<1>1. frees \in Seq(Slots)
  BY DEF TypeOK, Slots
<1> DEFINE k == First(Listed(p))
<1>2. CASE Listed(p) = {}
  BY <1>1, <1>2 DEF Patched
<1>3. CASE Listed(p) # {}
  <2>1. Listed(p) \subseteq Nat
    BY <1>1, LenProperties DEF Listed
  <2>2. k \in 1..Len(frees)
    BY <1>1, <1>3, <2>1, FirstIsFirst, LenProperties DEF Listed
  <2>3. [frees EXCEPT ![k] = x] \in Seq(Slots)
    BY <1>1, <2>2, ExceptSeq
  <2> QED
    BY <1>3, <2>3 DEF Patched
<1> QED
  BY <1>2, <1>3

(* Leaving or advancing the innermost operation keeps the call stack typed. *)
LEMMA CallsTyped ==
  ASSUME TypeOK, calls # <<>>
  PROVE  /\ Top \in Frame
         /\ Pop \in Seq(Frame)
         /\ \A phase \in {"finalize", "call", "free", "recheck"}, at \in Nat :
              TopAt(phase, at) \in Seq(Frame)
<1>1. calls \in Seq(Frame) /\ Len(calls) \in 1..Len(calls)
  BY LenProperties, EmptySeq DEF TypeOK
<1>2. Top \in Frame
  BY <1>1, ElementOfSeq DEF Top
<1>3. Pop \in Seq(Frame)
  BY <1>1 DEF Pop
<1>4. ASSUME NEW phase \in {"finalize", "call", "free", "recheck"}, NEW at \in Nat
      PROVE  TopAt(phase, at) \in Seq(Frame)
  <2>1. [calls[Len(calls)] EXCEPT !.phase = phase, !.at = at] \in Frame
    BY <1>2 DEF Top, Frame
  <2> QED
    BY <1>1, <2>1, ExceptSeq DEF TopAt
<1> QED
  BY <1>2, <1>3, <1>4
-------------------------------------------------------------------------------
(* Type correctness: every step of the program and of the collector keeps  *)
(* every field of the GC record, the free list and the call stack typed.   *)
LEMMA TypeInit == Init => TypeOK
<1> SUFFICES ASSUME Init PROVE TypeOK
  OBVIOUS
<1>1. IsFiniteSet(Static)
  BY FS_Subset, GCAddresses DEF Addr
<1>2. Cardinality(Static) \in Nat
  BY <1>1, FS_CardinalityType
<1>3. membytes \in Int
  BY <1>2, GCParameters DEF Init
<1>4. RootItem \in Item
  BY GCParameters DEF RootItem, Item
<1>5. DOMAIN items \subseteq Addr /\ items \in [DOMAIN items -> Item]
  BY <1>4 DEF Init, Addr
<1>6. frees \in Seq(Addr \cup {NIL}) /\ calls \in Seq(Frame)
  BY EmptySeq DEF Init
<1>7. /\ content \in [Addr -> SUBSET Addr]
      /\ fate \in [Addr -> {"none", "owed", "done"}]
  BY DEF Init
<1>8. /\ alloced \subseteq Heap /\ stack \subseteq Addr /\ condemned \subseteq Addr
      /\ lastmembytes \in Int /\ minaddr \in Nat /\ maxaddr \in Nat /\ pause \in Nat
      /\ status \in {"run", "exited", "panic"}
  BY GCAddresses DEF Init
<1>9. running \in BOOLEAN /\ collecting \in BOOLEAN
  BY Zenon DEF Init
<1> QED
  BY <1>3, <1>5, <1>6, <1>7, <1>8, <1>9 DEF TypeOK

(* What the program registers has the type of an item,                     *)
LEMMA NewItemTyped ==
  ASSUME NEW n \in Sizes, NEW kind \in Kinds, NEW extern \in BOOLEAN
  PROVE  NewItem(n, kind, extern) \in Item
<1>1. kind \in BOOLEAN \X BOOLEAN \X BOOLEAN
  BY GCParameters
<1> QED
  BY <1>1 DEF NewItem, Item

(* and what is owed for it that of a debt.                                 *)
LEMMA OwedTyped == \A fin : Owed(fin) \in {"none", "owed", "done"}
BY DEF Owed

(* Every step keeps the types, by cases on the step.                       *)
LEMMA TypeNext == TypeOK /\ [Next]_vars => TypeOK'
<1> SUFFICES ASSUME TypeOK, [Next]_vars PROVE TypeOK'
  OBVIOUS
<1> USE DEF Slots
<1>panic. CASE Panic
  BY <1>panic DEF Panic, TypeOK
<1>same. CASE UNCHANGED vars
  BY <1>same DEF vars, TypeOK
<1>1. ASSUME NEW p \in Heap, NEW n \in Sizes, NEW kind \in Kinds, Alloc(p, n, kind)
      PROVE  TypeOK'
  <2>1. CASE p \in DOMAIN items
    BY <1>1, <1>panic, <2>1 DEF Alloc
  <2>2. CASE p \notin DOMAIN items
    <3>1. NewItem(n, kind, FALSE) \in Item /\ p \in Addr
      BY NewItemTyped DEF Addr
    <3>2. /\ items' \in [DOMAIN items' -> Item] /\ DOMAIN items' \subseteq Addr
          /\ minaddr' \in Nat /\ maxaddr' \in Nat /\ stack' \subseteq Addr
      BY <1>1, <2>2, <3>1, TrackTyped DEF Alloc, TypeOK
    <3>3. /\ frees' \in Seq(Slots) /\ calls' \in Seq(Frame)
          /\ condemned' \subseteq Addr /\ collecting' \in BOOLEAN
      BY <1>1, <2>2, <3>2, MaybeCollectTyped, EmptySeq DEF Alloc, TypeOK
    <3>4. alloced' \subseteq Heap /\ content' \in [Addr -> SUBSET Addr]
      BY <1>1, <2>2, <3>1 DEF Alloc, TypeOK
    <3>5. membytes' \in Int
      BY <1>1, <2>2, GCParameters DEF Alloc, TypeOK
    <3>6. fate' \in [Addr -> {"none", "owed", "done"}]
      BY <1>1, <2>2, OwedTyped DEF Alloc, TypeOK
    <3> QED
      BY <1>1, <2>2, <3>2, <3>3, <3>4, <3>5, <3>6 DEF Alloc, settings, TypeOK
  <2> QED
    BY <2>1, <2>2
<1>2. ASSUME NEW p \in External, NEW kind \in Kinds, RegisterExtern(p, Word, kind)
      PROVE  TypeOK'
  <2>1. NewItem(Word, kind, TRUE) \in Item /\ p \in Addr
    BY NewItemTyped, GCParameters DEF Addr
  <2>2. /\ items' \in [DOMAIN items' -> Item] /\ DOMAIN items' \subseteq Addr
        /\ minaddr' \in Nat /\ maxaddr' \in Nat /\ stack' \subseteq Addr
    BY <1>2, <2>1, TrackTyped DEF RegisterExtern, TypeOK
  <2>3. /\ frees' \in Seq(Slots) /\ calls' \in Seq(Frame)
        /\ condemned' \subseteq Addr /\ collecting' \in BOOLEAN
    BY <1>2, <2>2, MaybeCollectTyped, EmptySeq DEF RegisterExtern, TypeOK
  <2>4. /\ content' \in [Addr -> SUBSET Addr]
        /\ membytes' \in Int /\ fate' \in [Addr -> {"none", "owed", "done"}]
    BY <1>2, <2>1, OwedTyped, GCParameters DEF RegisterExtern, TypeOK
  <2> QED
    BY <1>2, <2>2, <2>3, <2>4 DEF RegisterExtern, settings, TypeOK
<1>3. ASSUME NEW p \in External, Unregister(p)
      PROVE  TypeOK'
  <2>1. items' \in [DOMAIN items' -> Item] /\ DOMAIN items' \subseteq Addr
    BY <1>3, WithoutTyped DEF Unregister, Forget
  <2>2. frees' \in Seq(Slots)
    BY <1>3, PatchedTyped DEF Unregister
  <2>3. items[p].size \in Nat /\ p \in Addr
    BY <1>3, GCParameters DEF Unregister, TypeOK, Item
  <2> QED
    BY <1>3, <2>1, <2>2, <2>3 DEF Unregister, Forget, settings, TypeOK
<1>4. ASSUME NEW p \in Heap, Dealloc(p)
      PROVE  TypeOK'
  <2>1. items' \in [DOMAIN items' -> Item] /\ DOMAIN items' \subseteq Addr
    BY <1>4, WithoutTyped DEF Dealloc, Forget
  <2>2. frees' \in Seq(Slots)
    BY <1>4, PatchedTyped DEF Dealloc
  <2>3. items[p].size \in Nat /\ p \in Addr
    BY <1>4, GCParameters DEF Dealloc, TypeOK, Item
  <2>4. DeallocFrame(p) \in Frame
    BY <2>3 DEF DeallocFrame, Frame
  <2>5. Append(calls, DeallocFrame(p)) \in Seq(Frame)
    BY <2>4, AppendProperties DEF TypeOK
  <2>6. /\ calls' \in Seq(Frame) /\ alloced' \subseteq Heap
        /\ content' \in [Addr -> SUBSET Addr] /\ fate' \in [Addr -> {"none", "owed", "done"}]
    BY <1>4, <2>3, <2>5 DEF Dealloc, TypeOK
  <2> QED
    BY <1>4, <2>1, <2>2, <2>3, <2>6 DEF Dealloc, Forget, settings, TypeOK
<1>5. ASSUME NEW p \in Heap, NEW n \in Sizes, ReallocInPlace(p, n)
      PROVE  TypeOK'
  <2>1. items[p] \in Item /\ p \in Addr
    BY <1>5 DEF ReallocInPlace, TypeOK
  <2>2. items' \in [DOMAIN items' -> Item] /\ DOMAIN items' \subseteq Addr
    BY <1>5, <2>1 DEF ReallocInPlace, TypeOK, Item
  <2>3. /\ frees' \in Seq(Slots) /\ calls' \in Seq(Frame)
        /\ condemned' \subseteq Addr /\ collecting' \in BOOLEAN
    <3>1. CASE n > items[p].size
      BY <1>5, <2>2, <3>1, MaybeCollectTyped, EmptySeq DEF ReallocInPlace, TypeOK
    <3>2. CASE ~ (n > items[p].size)
      BY <1>5, <3>2 DEF ReallocInPlace, TypeOK
    <3> QED
      BY <3>1, <3>2
  <2>4. membytes' \in Int /\ content' \in [Addr -> SUBSET Addr]
    BY <1>5, <2>1, GCParameters DEF ReallocInPlace, TypeOK, Item
  <2> QED
    BY <1>5, <2>2, <2>3, <2>4 DEF ReallocInPlace, settings, TypeOK
<1>6. ASSUME NEW p \in Heap, NEW q \in Heap, NEW n \in Sizes, ReallocMoved(p, q, n)
      PROVE  TypeOK'
  <2>1. CASE q \in DOMAIN items
    BY <1>6, <1>panic, <2>1 DEF ReallocMoved
  <2>2. CASE q \notin DOMAIN items
    <3> DEFINE its == Without(items, p)
               item == [items[p] EXCEPT !.size = n]
               below == IF n > items[p].size THEN <<ReregisterFrame>> ELSE <<>>
               cnd == IF p \in condemned THEN (condemned \ {p}) \cup {q} ELSE condemned
    <3>0. p \in Addr /\ q \in Addr /\ items[p] \in Item
      BY <1>6 DEF ReallocMoved, TypeOK, Addr
    <3>1. item \in Item /\ p \in Addr /\ q \in Addr /\ items[p].size \in Nat
      BY <3>0, GCParameters DEF Item
    <3>2. Track(its, q, item)
      BY <1>6, <2>2 DEF ReallocMoved
    <3>3. /\ items' \in [DOMAIN items' -> Item] /\ DOMAIN items' \subseteq Addr
          /\ minaddr' \in Nat /\ maxaddr' \in Nat /\ stack' \subseteq Addr
      BY <3>1, <3>2, WithoutTyped, TrackTyped
    <3>4. Patched(p, q) \in Seq(Slots)
      BY <3>1, PatchedTyped
    <3>5. ReregisterFrame \in Frame
      BY DEF ReregisterFrame, Frame
    <3>6. below \in Seq(Frame)
      BY <3>5
    <3>7. cnd \subseteq Addr
      BY <3>1 DEF TypeOK
    <3>8. MaybeCollect(Patched(p, q), cnd, below)
      BY <1>6, <2>2 DEF ReallocMoved
    <3>9. /\ frees' \in Seq(Slots) /\ calls' \in Seq(Frame)
          /\ condemned' \subseteq Addr /\ collecting' \in BOOLEAN
      BY <3>3, <3>4, <3>6, <3>7, <3>8, MaybeCollectTyped
    <3>10. alloced' \subseteq Heap /\ fate' \in [Addr -> {"none", "owed", "done"}]
      BY <1>6, <2>2, <3>0 DEF ReallocMoved, TypeOK
    <3>11. membytes' \in Int
      BY <1>6, <2>2, <3>1, GCParameters DEF ReallocMoved, TypeOK
    <3>12. content' \in [Addr -> SUBSET Addr]
      <4> DEFINE moved == IF n < Word THEN {} ELSE content[p]
      <4>1. content[p] \in SUBSET Addr
        BY <3>0 DEF TypeOK
      <4>2. moved \in SUBSET Addr
        BY <4>1
      <4>3. content' = [content EXCEPT ![p] = {}, ![q] = moved]
        BY <1>6, <2>2 DEF ReallocMoved
      <4> HIDE DEF moved
      <4> QED
        BY <3>0, <4>2, <4>3 DEF TypeOK
    <3> QED
      BY <1>6, <2>2, <3>3, <3>9, <3>10, <3>11, <3>12 DEF ReallocMoved, settings, TypeOK
  <2> QED
    BY <2>1, <2>2
<1>7. CASE Recheck
  <2>1. Pop \in Seq(Frame)
    BY <1>7, CallsTyped DEF Recheck
  <2>2. DOMAIN items' \subseteq Addr
    BY <1>7 DEF Recheck, TypeOK
  <2>3. /\ frees' \in Seq(Slots) /\ calls' \in Seq(Frame)
        /\ condemned' \subseteq Addr /\ collecting' \in BOOLEAN
    <3>1. CASE Triggers
      BY <1>7, <2>1, <2>2, <3>1, CycleTyped DEF Recheck, TypeOK
    <3>2. CASE ~Triggers
      BY <1>7, <2>1, <3>2 DEF Recheck, TypeOK
    <3> QED
      BY <3>1, <3>2
  <2> QED
    BY <1>7, <2>3 DEF Recheck, memory, settings, TypeOK
<1>8. CASE Collect
  <2>1. DOMAIN items' \subseteq Addr
    BY <1>8 DEF Collect, TypeOK
  <2>2. /\ frees' \in Seq(Slots) /\ calls' \in Seq(Frame)
        /\ condemned' \subseteq Addr /\ collecting' \in BOOLEAN
    BY <1>8, <2>1, CycleTyped DEF Collect, TypeOK
  <2> QED
    BY <1>8, <2>2 DEF Collect, memory, settings, TypeOK
<1>9. ASSUME NEW run \in Modes, NEW pct \in Pauses, Configure(run, pct)
      PROVE  TypeOK'
  BY <1>9, GCParameters DEF Configure, memory, TypeOK
<1>10. ASSUME NEW p \in Addr, NEW a \in Addr, Load(p, a)
       PROVE  TypeOK'
  BY <1>10 DEF Load, Program, settings, TypeOK
<1>11. ASSUME NEW p \in Addr, NEW W \in {{}} \cup {{a} : a \in stack}, Store(p, W)
       PROVE  TypeOK'
  <2>1. W \subseteq Addr
    BY DEF TypeOK
  <2> QED
    BY <1>11, <2>1 DEF Store, Program, settings, TypeOK
<1>12. ASSUME NEW a \in Addr, Drop(a)
       PROVE  TypeOK'
  BY <1>12 DEF Drop, Program, settings, TypeOK
<1>13. CASE CallFinalizer
  <2> DEFINE i == First(Due)
             p == frees[i]
  <2>1. CASE p \notin DOMAIN items
    BY <1>13, <1>panic, <2>1 DEF CallFinalizer
  <2>2. CASE p \in DOMAIN items
    <3>1. Top \in Frame /\ calls # <<>>
      BY <1>13, CallsTyped DEF CallFinalizer, Sweeping
    <3>2. Due \subseteq Nat
      BY <3>1, LenProperties DEF Due, Frame, TypeOK
    <3>3. i \in Nat
      BY <1>13, <3>2, FirstIsFirst DEF CallFinalizer
    <3>4. calls' \in Seq(Frame)
      BY <1>13, <2>2, <3>1, <3>3, CallsTyped DEF CallFinalizer
    <3>5. p \in Addr /\ items[p] \in Item
      BY <2>2 DEF TypeOK
    <3>6. items' \in [DOMAIN items' -> Item] /\ DOMAIN items' \subseteq Addr
      <4>1. [items[p] EXCEPT !.fin = FALSE] \in Item
        BY <3>5 DEF Item
      <4>2. items' = [items EXCEPT ![p] = [items[p] EXCEPT !.fin = FALSE]]
        BY <1>13, <2>2 DEF CallFinalizer, Claimed
      <4> QED
        BY <4>1, <4>2 DEF TypeOK
    <3> QED
      BY <1>13, <2>2, <3>4, <3>5, <3>6 DEF CallFinalizer, settings, TypeOK
  <2> QED
    BY <2>1, <2>2
<1>14. CASE FinalizerReturn
  <2>1. Pop \in Seq(Frame) /\ Top \in Frame
    BY <1>14, CallsTyped DEF FinalizerReturn
  <2>2. TopAt("finalize", Top.at) \in Seq(Frame)
    BY <1>14, <2>1, CallsTyped DEF FinalizerReturn, Frame
  <2>3. /\ calls' \in Seq(Frame) /\ alloced' \subseteq Heap
        /\ content' \in [Addr -> SUBSET Addr] /\ fate' \in [Addr -> {"none", "owed", "done"}]
    BY <1>14, <2>1, <2>2 DEF FinalizerReturn, TypeOK
  <2> QED
    BY <1>14, <2>3 DEF FinalizerReturn, settings, TypeOK
<1>15. CASE FreeNext
  <2> DEFINE i == First(Unfreed)
             p == frees[i]
  <2>1. CASE p \notin DOMAIN items
    BY <1>15, <1>panic, <2>1 DEF FreeNext
  <2>2. CASE p \in DOMAIN items
    <3>1. Top \in Frame /\ calls # <<>>
      BY <1>15, CallsTyped DEF FreeNext, Freeing, Sweeping
    <3>2. Unfreed \subseteq Nat
      BY <3>1, LenProperties DEF Unfreed, Frame, TypeOK
    <3>3. i \in Nat
      BY <1>15, <3>2, FirstIsFirst DEF FreeNext
    <3>4. calls' \in Seq(Frame)
      BY <1>15, <2>2, <3>1, <3>3, CallsTyped DEF FreeNext
    <3>5. p \in Addr /\ items[p].size \in Nat
      BY <2>2, GCParameters DEF TypeOK, Item
    <3>6. items' \in [DOMAIN items' -> Item] /\ DOMAIN items' \subseteq Addr
      BY <1>15, <2>2, WithoutTyped DEF FreeNext, Forget
    <3>7. /\ alloced' \subseteq Heap /\ content' \in [Addr -> SUBSET Addr]
          /\ membytes' \in Int /\ fate' \in [Addr -> {"none", "owed", "done"}]
      <4>1. alloced' \subseteq Heap /\ membytes' \in Int
        BY <1>15, <2>2, <3>5 DEF FreeNext, Forget, TypeOK
      <4>2. content' \in [Addr -> SUBSET Addr] /\ fate' \in [Addr -> {"none", "owed", "done"}]
        BY <1>15, <2>2, <3>5 DEF FreeNext, Forget, TypeOK
      <4> QED
        BY <4>1, <4>2
    <3> QED
      BY <1>15, <2>2, <3>4, <3>6, <3>7 DEF FreeNext, settings, TypeOK
  <2> QED
    BY <2>1, <2>2
<1>16. CASE EndCollect
  <2>1. Pop \in Seq(Frame)
    BY <1>16, CallsTyped DEF EndCollect, Freeing, Sweeping
  <2> QED
    BY <1>16, <2>1, EmptySeq DEF EndCollect, memory, settings, TypeOK
<1>17. CASE Destroy
  <2>1. DOMAIN items \ RootItems \subseteq Addr
    BY DEF TypeOK
  <2>2. frees' \in Seq(Slots) /\ calls' \in Seq(Frame)
    BY <1>17, <2>1, SweepTyped, EmptySeq DEF Destroy, TypeOK
  <2> QED
    BY <1>17, <2>1, <2>2 DEF Destroy, memory, settings, TypeOK
<1>18. CASE EndDestroy
  <2>1. Pop \in Seq(Frame)
    BY <1>18, CallsTyped DEF EndDestroy, Freeing, Sweeping
  <2>2. items' \in [DOMAIN items' -> Item] /\ DOMAIN items' \subseteq Addr
    BY <1>18 DEF EndDestroy
  <2>3. frees' \in Seq(Slots) /\ calls' \in Seq(Frame) /\ condemned' \subseteq Addr
    BY <1>18, <2>1, EmptySeq DEF EndDestroy
  <2>4. /\ membytes' \in Int /\ lastmembytes' \in Int /\ minaddr' \in Nat /\ maxaddr' \in Nat
        /\ pause' \in Nat /\ status' \in {"run", "exited", "panic"}
    BY <1>18 DEF EndDestroy
  <2>5. UNCHANGED <<alloced, content, stack, fate>>
    BY <1>18 DEF EndDestroy, memory
  <2>6. running' \in BOOLEAN /\ collecting' \in BOOLEAN
    BY <1>18, Zenon DEF EndDestroy
  <2> QED
    BY <2>2, <2>3, <2>4, <2>5, <2>6 DEF TypeOK
<1>19. CASE Stopped
  BY <1>19, <1>same DEF Stopped
<1> QED
  BY <1>same, <1>1, <1>2, <1>3, <1>4, <1>5, <1>6, <1>7, <1>8, <1>9, <1>10, <1>11, <1>12,
     <1>13, <1>14, <1>15, <1>16, <1>17, <1>18, <1>19 DEF Next

(* The state of the collector has its types, in every state of every       *)
(* program: among them, that every entry of the free list is an address or *)
(* NIL and every operation in progress a frame.                            *)
THEOREM TypeCorrect == Spec => []TypeOK
BY TypeInit, TypeNext, PTL DEF Spec
-------------------------------------------------------------------------------
(* The least sets computed by GC_mark and by reachability are the same,    *)
(* because a reference out of the bounds is one to a root, and a leaf has  *)
(* no reference to follow.                                                 *)
LEMMA MarkInvSuffices == TypeOK /\ MarkInv => MarkIsReachability
<1> SUFFICES ASSUME TypeOK, MarkInv PROVE Marked = Live
  BY DEF MarkIsReachability
<1>1. \A words : \A a \in words \cap DOMAIN items : a \in RootItems \/ a \in Hits(words)
  BY DEF MarkInv, BoundsCover, RootItems, Hits
<1>2. \A words : Hits(words) \subseteq words \cap DOMAIN items
  BY DEF Hits
<1>3. ASSUME NEW p \in Live, ~items[p].root
      PROVE  p \in Marked
  <2>1. p \in DOMAIN items
    BY DEF Live
  <2>2. ASSUME NEW S \in SUBSET DOMAIN items, Scanned(S)
        PROVE  p \in S
    <3>1. S \cup RootItems \in SUBSET DOMAIN items
      BY DEF RootItems
    <3>2. stack \cap DOMAIN items \subseteq S \cup RootItems
      BY <1>1, <2>2 DEF Scanned
    <3>3. ASSUME NEW q \in S \cup RootItems
          PROVE  content[q] \cap DOMAIN items \subseteq S \cup RootItems
      <4>1. q \in DOMAIN items
        BY <3>1
      <4>2. CASE q \in RootItems
        BY <1>1, <2>2, <4>2 DEF Scanned
      <4>3. CASE q \in S /\ items[q].leaf
        BY <4>1, <4>3 DEF MarkInv, LeafsAreEmpty
      <4>4. CASE q \in S /\ ~items[q].leaf
        BY <1>1, <2>2, <4>4 DEF Scanned
      <4> QED
        BY <4>2, <4>3, <4>4
    <3>4. Reaches(S \cup RootItems)
      BY <3>2, <3>3 DEF Reaches
    <3>5. p \in S \cup RootItems
      BY <3>1, <3>4 DEF Live
    <3> QED
      BY <1>3, <3>5 DEF RootItems
  <2> QED
    BY <2>1, <2>2 DEF Marked
<1>4. ASSUME NEW p \in Marked
      PROVE  p \in Live
  <2>1. p \in DOMAIN items
    BY DEF Marked
  <2>2. ASSUME NEW S \in SUBSET DOMAIN items, Reaches(S)
        PROVE  p \in S
    <3>1. CASE items[p].root
      BY <2>1, <2>2, <3>1 DEF Reaches, RootItems
    <3>2. CASE ~items[p].root
      <4>1. Scanned(S)
        <5>1. Hits(stack) \subseteq S
          BY <1>2, <2>2 DEF Reaches
        <5>2. \A q \in S : Hits(content[q]) \subseteq S
          BY <1>2, <2>2 DEF Reaches
        <5>3. RootItems \subseteq S
          BY <2>2 DEF Reaches
        <5> QED
          BY <5>1, <5>2, <5>3 DEF Scanned
      <4> QED
        BY <3>2, <4>1 DEF Marked
    <3> QED
      BY <3>1, <3>2
  <2> QED
    BY <2>1, <2>2 DEF Live
<1>5. ASSUME NEW p \in Live, items[p].root
      PROVE  p \in Marked
  BY <1>5 DEF Live, Marked
<1> QED
  BY <1>3, <1>4, <1>5

(* A step that tracks no new block, widens no block's words and leaves the *)
(* flags and the bounds alone keeps MarkInv.                               *)
LEMMA MarkInvShrinks ==
  ASSUME MarkInv, DOMAIN items' \subseteq DOMAIN items,
         minaddr' = minaddr, maxaddr' = maxaddr,
         \A p \in DOMAIN items' : /\ items'[p].root = items[p].root
                                  /\ items'[p].leaf = items[p].leaf
                                  /\ content'[p] \subseteq content[p]
  PROVE  MarkInv'
BY DEF MarkInv, BoundsCover, LeafsAreEmpty

(* Tracking a block widens the bounds to take it in and marks it as a leaf *)
(* when it is too small for a pointer.                                     *)
LEMMA MarkInvTracks ==
  ASSUME TypeOK, MarkInv, NEW its, DOMAIN its \subseteq DOMAIN items,
         \A q \in DOMAIN its : its[q] = items[q],
         NEW p \in Addr, p \notin DOMAIN its, NEW item \in Item, Track(its, p, item),
         \A q \in DOMAIN its : content'[q] = content[q],
         item.leaf \/ item.size < Word => content'[p] = {}
  PROVE  MarkInv'
<1> DEFINE tracked == [item EXCEPT !.leaf = @ \/ item.size < Word]
<1>1. /\ DOMAIN items' = DOMAIN its \cup {p}
      /\ items'[p] = tracked
      /\ \A q \in DOMAIN its : items'[q] = items[q]
  BY DEF Track, With
<1>2. tracked.root = item.root /\ (tracked.leaf => item.leaf \/ item.size < Word)
  BY DEF Item
<1>3. p \in Nat /\ item.size \in Nat /\ DOMAIN its \subseteq Nat
  BY GCAddresses, GCParameters DEF TypeOK, Item
<1>4. minaddr' <= minaddr /\ maxaddr <= maxaddr' /\ minaddr' \in Nat /\ maxaddr' \in Nat
  BY <1>3 DEF Track, TypeOK
<1>5. ~item.root => minaddr' <= p /\ p <= maxaddr'
  BY <1>3 DEF Track, TypeOK
<1>6. BoundsCover'
  <2> SUFFICES ASSUME NEW q \in DOMAIN items', ~items'[q].root
               PROVE  minaddr' <= q /\ q <= maxaddr'
    BY DEF BoundsCover
  <2>1. CASE q = p
    BY <1>1, <1>2, <1>5, <2>1
  <2>2. CASE q \in DOMAIN its
    <3>1. minaddr <= q /\ q <= maxaddr
      BY <1>1, <2>2 DEF MarkInv, BoundsCover
    <3> QED
      BY <1>3, <1>4, <2>2, <3>1 DEF TypeOK
  <2> QED
    BY <1>1, <2>1, <2>2
<1>7. LeafsAreEmpty'
  BY <1>1, <1>2 DEF MarkInv, LeafsAreEmpty
<1> QED
  BY <1>6, <1>7 DEF MarkInv

(* What the shortcuts of marking rely on holds at first,                   *)
LEMMA MarkInvInit == Init => MarkInv
<1> SUFFICES ASSUME Init PROVE MarkInv
  OBVIOUS
<1>1. \A p \in DOMAIN items : items[p].root /\ ~items[p].leaf
  BY DEF Init, RootItem
<1> QED
  BY <1>1 DEF MarkInv, BoundsCover, LeafsAreEmpty

(* and every step keeps it, unless a leaf grows.                           *)
LEMMA MarkInvNext ==
  ASSUME ~GrowsLeaf
  PROVE  TypeOK /\ MarkInv /\ [Next]_vars => MarkInv'
<1> SUFFICES ASSUME TypeOK, MarkInv, [Next]_vars PROVE MarkInv'
  OBVIOUS
<1>panic. CASE Panic
  BY <1>panic DEF Panic, MarkInv, BoundsCover, LeafsAreEmpty
<1>same. CASE UNCHANGED vars
  BY <1>same DEF vars, MarkInv, BoundsCover, LeafsAreEmpty
<1>1. ASSUME NEW p \in Heap, NEW n \in Sizes, NEW kind \in Kinds, Alloc(p, n, kind)
      PROVE  MarkInv'
  <2>1. CASE p \in DOMAIN items
    BY <1>1, <1>panic, <2>1 DEF Alloc
  <2>2. CASE p \notin DOMAIN items
    <3>1. NewItem(n, kind, FALSE) \in Item /\ p \in Addr
      BY NewItemTyped DEF Addr
    <3>2. content' = [content EXCEPT ![p] = {}] /\ Track(items, p, NewItem(n, kind, FALSE))
      BY <1>1, <2>2 DEF Alloc
    <3>3. content'[p] = {} /\ \A q \in DOMAIN items : content'[q] = content[q]
      BY <2>2, <3>1, <3>2 DEF TypeOK
    <3> QED
      BY <2>2, <3>1, <3>2, <3>3, MarkInvTracks
  <2> QED
    BY <2>1, <2>2
<1>2. ASSUME NEW p \in External, NEW kind \in Kinds, RegisterExtern(p, Word, kind)
      PROVE  MarkInv'
  <2>1. NewItem(Word, kind, TRUE) \in Item /\ p \in Addr
    BY NewItemTyped, GCParameters DEF Addr
  <2>2. /\ p \notin DOMAIN items /\ content' = [content EXCEPT ![p] = {}]
        /\ Track(items, p, NewItem(Word, kind, TRUE))
    BY <1>2 DEF RegisterExtern
  <2>3. content'[p] = {} /\ \A q \in DOMAIN items : content'[q] = content[q]
    BY <2>1, <2>2 DEF TypeOK
  <2> QED
    BY <2>1, <2>2, <2>3, MarkInvTracks
<1>3. ASSUME NEW p \in External, Unregister(p)
      PROVE  MarkInv'
  BY <1>3, MarkInvShrinks DEF Unregister, Forget, Without, TypeOK
<1>4. ASSUME NEW p \in Heap, Dealloc(p)
      PROVE  MarkInv'
  <2>1. /\ items' = Without(items, p) /\ minaddr' = minaddr /\ maxaddr' = maxaddr
        /\ content' = content \/ content' = [content EXCEPT ![p] = {}]
    BY <1>4 DEF Dealloc, Forget
  <2> QED
    BY <2>1, MarkInvShrinks DEF Without, TypeOK
<1>5. ASSUME NEW p \in Heap, NEW n \in Sizes, ReallocInPlace(p, n)
      PROVE  MarkInv'
  <2>1. /\ p \in DOMAIN items /\ items' = [items EXCEPT ![p].size = n]
        /\ minaddr' = minaddr /\ maxaddr' = maxaddr
    BY <1>5 DEF ReallocInPlace
  <2>2. \A q \in DOMAIN items' : content'[q] \subseteq content[q]
    BY <1>5 DEF ReallocInPlace, TypeOK
  <2>3. \A q \in DOMAIN items' : items'[q].root = items[q].root /\ items'[q].leaf = items[q].leaf
    BY <2>1 DEF TypeOK, Item
  <2> QED
    BY <2>1, <2>2, <2>3, MarkInvShrinks
<1>6. ASSUME NEW p \in Heap, NEW q \in Heap, NEW n \in Sizes, ReallocMoved(p, q, n)
      PROVE  MarkInv'
  <2>1. CASE q \in DOMAIN items
    BY <1>6, <1>panic, <2>1 DEF ReallocMoved
  <2>2. CASE q \notin DOMAIN items
    <3> DEFINE its == Without(items, p)
               item == [items[p] EXCEPT !.size = n]
               moved == IF n < Word THEN {} ELSE content[p]
    <3>1. p \in DOMAIN items /\ p \in Addr /\ q \in Addr /\ p # q /\ items[p] \in Item
      BY <1>6, <2>2 DEF ReallocMoved, TypeOK, Addr
    <3>2. item \in Item /\ item.leaf = items[p].leaf /\ item.size = n
      BY <3>1 DEF Item
    <3>3. Track(its, q, item) /\ content' = [content EXCEPT ![p] = {}, ![q] = moved]
      BY <1>6, <2>2 DEF ReallocMoved
    <3>4. DOMAIN its \subseteq DOMAIN items /\ p \notin DOMAIN its /\ q \notin DOMAIN its
      BY <2>2 DEF Without
    <3>5. \A r \in DOMAIN its : its[r] = items[r]
      BY DEF Without
    <3>6. \A r \in DOMAIN its : content'[r] = content[r]
      <4> HIDE DEF moved, its
      <4> QED
        BY <3>3, <3>4 DEF TypeOK
    <3>7. content'[q] = moved
      <4> HIDE DEF moved
      <4> QED
        BY <3>1, <3>3 DEF TypeOK
    <3>8. item.leaf \/ item.size < Word => content'[q] = {}
      BY <3>1, <3>2, <3>7 DEF MarkInv, LeafsAreEmpty
    <3> HIDE DEF its, item, moved
    <3> QED
      BY <3>1, <3>2, <3>3, <3>4, <3>5, <3>6, <3>8, MarkInvTracks
  <2> QED
    BY <2>1, <2>2
<1>7. CASE Recheck
  BY <1>7 DEF Recheck, memory, MarkInv, BoundsCover, LeafsAreEmpty
<1>8. CASE Collect
  BY <1>8 DEF Collect, memory, MarkInv, BoundsCover, LeafsAreEmpty
<1>9. ASSUME NEW run \in Modes, NEW pct \in Pauses, Configure(run, pct)
      PROVE  MarkInv'
  BY <1>9 DEF Configure, memory, MarkInv, BoundsCover, LeafsAreEmpty
<1>10. ASSUME NEW p \in Addr, NEW a \in Addr, Load(p, a)
       PROVE  MarkInv'
  BY <1>10 DEF Load, Program, MarkInv, BoundsCover, LeafsAreEmpty
<1>11. ASSUME NEW p \in Addr, NEW W \in {{}} \cup {{a} : a \in stack}, Store(p, W)
       PROVE  MarkInv'
  <2>1. /\ p \in DOMAIN items /\ UNCHANGED <<items, minaddr, maxaddr>>
        /\ content' = [content EXCEPT ![p] = W]
    BY <1>11 DEF Store, Program
  <2>2. items[p].leaf => W = {}
    BY <1>11 DEF Store, HoldsPointers
  <2>3. LeafsAreEmpty'
    BY <2>1, <2>2 DEF MarkInv, LeafsAreEmpty, TypeOK
  <2> QED
    BY <2>1, <2>3 DEF MarkInv, BoundsCover
<1>12. ASSUME NEW a \in Addr, Drop(a)
       PROVE  MarkInv'
  BY <1>12 DEF Drop, Program, MarkInv, BoundsCover, LeafsAreEmpty
<1>13. CASE CallFinalizer
  <2> DEFINE p == frees[First(Due)]
  <2>1. CASE p \notin DOMAIN items
    BY <1>13, <1>panic, <2>1 DEF CallFinalizer
  <2>2. CASE p \in DOMAIN items
    <3>1. /\ items' = [items EXCEPT ![p].fin = FALSE]
          /\ UNCHANGED <<content, minaddr, maxaddr>>
      BY <1>13, <2>2 DEF CallFinalizer, Claimed
    <3>2. \A q \in DOMAIN items' : items'[q].root = items[q].root /\ items'[q].leaf = items[q].leaf
      <4> HIDE DEF p
      <4> QED
        BY <2>2, <3>1 DEF TypeOK, Item
    <3> QED
      BY <3>1, <3>2, MarkInvShrinks
  <2> QED
    BY <2>1, <2>2
<1>14. CASE FinalizerReturn
  <2>1. /\ UNCHANGED <<items, minaddr, maxaddr>>
        /\ content' = content \/ content' = [content EXCEPT ![Top.ptr] = {}]
    BY <1>14 DEF FinalizerReturn
  <2> QED
    BY <2>1, MarkInvShrinks DEF TypeOK
<1>15. CASE FreeNext
  <2> DEFINE p == frees[First(Unfreed)]
  <2>1. CASE p \notin DOMAIN items
    BY <1>15, <1>panic, <2>1 DEF FreeNext
  <2>2. CASE p \in DOMAIN items
    <3>1. /\ items' = Without(items, p) /\ content' = [content EXCEPT ![p] = {}]
          /\ UNCHANGED <<minaddr, maxaddr>>
      BY <1>15, <2>2 DEF FreeNext, Forget
    <3> HIDE DEF p
    <3> QED
      BY <3>1, MarkInvShrinks DEF Without, TypeOK
  <2> QED
    BY <2>1, <2>2
<1>16. CASE EndCollect
  BY <1>16 DEF EndCollect, memory, MarkInv, BoundsCover, LeafsAreEmpty
<1>17. CASE Destroy
  BY <1>17 DEF Destroy, memory, MarkInv, BoundsCover, LeafsAreEmpty
<1>18. CASE EndDestroy
  BY <1>18 DEF EndDestroy, MarkInv, BoundsCover, LeafsAreEmpty
<1>19. CASE Stopped
  BY <1>19, <1>same DEF Stopped
<1> QED
  BY <1>same, <1>1, <1>2, <1>3, <1>4, <1>5, <1>6, <1>7, <1>8, <1>9, <1>10, <1>11, <1>12,
     <1>13, <1>14, <1>15, <1>16, <1>17, <1>18, <1>19 DEF Next

(* In a program that keeps its blocks of less than a word free of pointers *)
(* when it grows them, marking is exact: every cycle condemns precisely    *)
(* the blocks the program can no longer reach, for any number of blocks,   *)
(* sizes, roots and nested finalizers.                                     *)
THEOREM MarkIsExact ==
  ASSUME ~GrowsLeaf
  PROVE  Spec => []MarkIsReachability
<1>1. Init => TypeOK /\ MarkInv
  BY TypeInit, MarkInvInit
<1>2. TypeOK /\ MarkInv /\ [Next]_vars => (TypeOK /\ MarkInv)'
  BY TypeNext, MarkInvNext
<1>3. TypeOK /\ MarkInv => MarkIsReachability
  BY MarkInvSuffices
<1> QED
  BY <1>1, <1>2, <1>3, PTL DEF Spec
-------------------------------------------------------------------------------
(* Accounting.  The bytes of one block are as many as its size,            *)
LEMMA BytesOfOne ==
  ASSUME NEW p, NEW n \in Nat
  PROVE  IsFiniteSet({p} \X (1..n)) /\ Cardinality({p} \X (1..n)) = n
<1>1. IsFiniteSet(1..n) /\ Cardinality(1..n) = n
  BY FS_Interval
<1>2. IsFiniteSet({p}) /\ Cardinality({p}) = 1
  BY FS_Singleton
<1> QED
  BY <1>1, <1>2, FS_Product

(* those of any blocks at addresses are finitely many,                     *)
LEMMA BytesFinite ==
  ASSUME NEW its, DOMAIN its \subseteq Addr, \A p \in DOMAIN its : its[p].size \in Nat
  PROVE  IsFiniteSet(Bytes(its)) /\ Cardinality(Bytes(its)) \in Nat
<1> DEFINE parts == {{p} \X (1..its[p].size) : p \in DOMAIN its}
<1>1. IsFiniteSet(DOMAIN its)
  BY FS_Subset, GCAddresses
<1> DEFINE part == [p \in DOMAIN its |-> {p} \X (1..its[p].size)]
<1>2. IsFiniteSet(parts)
  <2>1. part \in Surjection(DOMAIN its, parts)
    BY DEF Surjection
  <2> HIDE DEF part, parts
  <2> QED
    BY <1>1, <2>1, FS_Surjection
<1>3. \A T \in parts : IsFiniteSet(T)
  <2>1. \A p \in DOMAIN its : IsFiniteSet({p} \X (1..its[p].size))
    BY BytesOfOne
  <2> QED
    BY <2>1
<1>4. Bytes(its) = UNION parts
  BY DEF Bytes
<1> HIDE DEF parts
<1>5. IsFiniteSet(UNION parts)
  BY <1>2, <1>3, FS_UNION
<1> QED
  BY <1>4, <1>5, FS_CardinalityType

(* and a block that joins adds its own, to those of the others.            *)
LEMMA BytesJoin ==
  ASSUME NEW its, DOMAIN its \subseteq Addr, \A q \in DOMAIN its : its[q].size \in Nat,
         NEW p \in DOMAIN its, NEW rest, DOMAIN rest = DOMAIN its \ {p},
         \A q \in DOMAIN rest : rest[q].size = its[q].size
  PROVE  Cardinality(Bytes(its)) = Cardinality(Bytes(rest)) + its[p].size
<1> DEFINE own == {p} \X (1..its[p].size)
<1>1. Bytes(its) = Bytes(rest) \cup own
  BY DEF Bytes
<1>2. Bytes(rest) \cap own = {}
  BY DEF Bytes
<1>3. IsFiniteSet(Bytes(rest)) /\ Cardinality(Bytes(rest)) \in Nat
  <2>1. DOMAIN rest \subseteq Addr /\ \A q \in DOMAIN rest : rest[q].size \in Nat
    OBVIOUS
  <2> QED
    BY <2>1, BytesFinite
<1>4. IsFiniteSet(own) /\ Cardinality(own) = its[p].size
  BY BytesOfOne
<1>5. Cardinality({}) = 0
  BY FS_EmptySet
<1> HIDE DEF own
<1>6. Cardinality(Bytes(rest) \cup own)
        = Cardinality(Bytes(rest)) + Cardinality(own) - Cardinality(Bytes(rest) \cap own)
  BY <1>3, <1>4, FS_Union, Zenon
<1>7. Cardinality(Bytes(rest) \cap own) = 0
  BY <1>2, <1>5, Zenon
<1>8. Cardinality(own) = its[p].size /\ its[p].size \in Nat
  BY <1>4
<1>9. Cardinality(Bytes(its)) = Cardinality(Bytes(rest)) + its[p].size - 0
  BY <1>1, <1>6, <1>7, <1>8, Zenon
<1> QED
  BY <1>3, <1>8, <1>9

(* So forgetting a block subtracts its size,                               *)
LEMMA BytesForgotten ==
  ASSUME TypeOK, NEW p \in DOMAIN items
  PROVE  /\ Cardinality(Bytes(Without(items, p))) = Cardinality(Bytes(items)) - items[p].size
         /\ Cardinality(Bytes(items)) \in Nat /\ items[p].size \in Nat
<1>1. \A q \in DOMAIN items : items[q].size \in Nat
  BY GCParameters DEF TypeOK, Item
<1>2. DOMAIN Without(items, p) = DOMAIN items \ {p}
  BY DEF Without
<1>3. \A q \in DOMAIN Without(items, p) : Without(items, p)[q].size = items[q].size
  BY DEF Without
<1>4. DOMAIN items \subseteq Addr
  BY DEF TypeOK
<1>5. Cardinality(Bytes(items)) = Cardinality(Bytes(Without(items, p))) + items[p].size
  BY <1>1, <1>2, <1>3, <1>4, BytesJoin
<1>6. Cardinality(Bytes(Without(items, p))) \in Nat /\ Cardinality(Bytes(items)) \in Nat
  BY <1>1, <1>2, <1>3, <1>4, BytesFinite
<1> QED
  BY <1>1, <1>5, <1>6

(* tracking one adds its size, whatever flags it is tracked with,          *)
LEMMA BytesTracked ==
  ASSUME NEW its, DOMAIN its \subseteq Addr, \A q \in DOMAIN its : its[q].size \in Nat,
         NEW p \in Addr \ DOMAIN its, NEW item \in Item, Track(its, p, item)
  PROVE  Cardinality(Bytes(items')) = Cardinality(Bytes(its)) + item.size
<1>1. item.size \in Nat /\ [item EXCEPT !.leaf = @ \/ item.size < Word].size = item.size
  BY GCParameters DEF Item
<1>2. items' = With(its, p, [item EXCEPT !.leaf = @ \/ item.size < Word])
  BY DEF Track
<1>3. DOMAIN items' = DOMAIN its \cup {p} /\ items'[p].size = item.size
  BY <1>1, <1>2 DEF With
<1>4. \A q \in DOMAIN its : items'[q].size = its[q].size
  BY <1>2 DEF With
<1> QED
  BY <1>1, <1>3, <1>4, BytesJoin

(* and a step that changes no size changes no count.                       *)
LEMMA BytesKept ==
  ASSUME DOMAIN items' = DOMAIN items, \A p \in DOMAIN items : items'[p].size = items[p].size,
         membytes' = membytes, Accounting
  PROVE  Accounting'
BY DEF Accounting, Bytes

(* At first the roots are counted, a word each.                            *)
LEMMA AccountingInit == Init => Accounting
<1> SUFFICES ASSUME Init PROVE Accounting
  OBVIOUS
<1>1. IsFiniteSet(Static)
  BY FS_Subset, GCAddresses DEF Addr
<1>2. Word \in Nat
  BY GCParameters
<1>3. IsFiniteSet(1..Word) /\ Cardinality(1..Word) = Word
  BY <1>2, FS_Interval
<1>4. Cardinality(Static \X (1..Word)) = Cardinality(Static) * Word
  BY <1>1, <1>3, FS_Product
<1>5. Bytes(items) = Static \X (1..Word)
  BY DEF Init, Bytes, RootItem
<1>6. Cardinality(Static) \in Nat
  BY <1>1, FS_CardinalityType
<1>7. Word * Cardinality(Static) = Cardinality(Static) * Word
  BY <1>2, <1>6
<1>8. membytes = Word * Cardinality(Static)
  BY DEF Init
<1> QED
  BY <1>4, <1>5, <1>7, <1>8 DEF Accounting

LEMMA AccountingNext == TypeOK /\ Accounting /\ [Next]_vars => Accounting'
<1> SUFFICES ASSUME TypeOK, Accounting, [Next]_vars PROVE Accounting'
  OBVIOUS
<1>types. DOMAIN items \subseteq Addr /\ \A q \in DOMAIN items : items[q].size \in Nat
  BY GCParameters DEF TypeOK, Item
<1>count. Cardinality(Bytes(items)) \in Nat
  BY <1>types, BytesFinite
<1>still. ASSUME UNCHANGED <<items, membytes>> PROVE Accounting'
  BY <1>still DEF Accounting, Bytes
<1>panic. CASE Panic
  BY <1>panic, <1>still DEF Panic
<1>same. CASE UNCHANGED vars
  BY <1>same, <1>still DEF vars
<1>1. ASSUME NEW p \in Heap, NEW n \in Sizes, NEW kind \in Kinds, Alloc(p, n, kind)
      PROVE  Accounting'
  <2>1. CASE p \in DOMAIN items
    BY <1>1, <1>panic, <2>1 DEF Alloc
  <2>2. CASE p \notin DOMAIN items
    <3>1. NewItem(n, kind, FALSE) \in Item /\ NewItem(n, kind, FALSE).size = n /\ p \in Addr
      BY NewItemTyped DEF Addr, NewItem
    <3>2. Track(items, p, NewItem(n, kind, FALSE)) /\ membytes' = membytes + n
      BY <1>1, <2>2 DEF Alloc
    <3> QED
      BY <1>types, <2>2, <3>1, <3>2, BytesTracked DEF Accounting
  <2> QED
    BY <2>1, <2>2
<1>2. ASSUME NEW p \in External, NEW kind \in Kinds, RegisterExtern(p, Word, kind)
      PROVE  Accounting'
  <2>1. /\ NewItem(Word, kind, TRUE) \in Item /\ NewItem(Word, kind, TRUE).size = Word
        /\ p \in Addr \ DOMAIN items
    BY <1>2, NewItemTyped, GCParameters DEF Addr, NewItem, RegisterExtern
  <2>2. Track(items, p, NewItem(Word, kind, TRUE)) /\ membytes' = membytes + Word
    BY <1>2 DEF RegisterExtern
  <2> QED
    BY <1>types, <2>1, <2>2, BytesTracked DEF Accounting
<1>3. ASSUME NEW p \in External, Unregister(p)
      PROVE  Accounting'
  <2>1. p \in DOMAIN items /\ Forget(p)
    BY <1>3 DEF Unregister
  <2> QED
    BY <2>1, BytesForgotten DEF Forget, Accounting
<1>4. ASSUME NEW p \in Heap, Dealloc(p)
      PROVE  Accounting'
  <2>1. p \in DOMAIN items /\ Forget(p)
    BY <1>4 DEF Dealloc
  <2> QED
    BY <2>1, BytesForgotten DEF Forget, Accounting
<1>5. ASSUME NEW p \in Heap, NEW n \in Sizes, ReallocInPlace(p, n)
      PROVE  Accounting'
  <2> DEFINE rest == Without(items, p)
  <2>1. /\ p \in DOMAIN items /\ items' = [items EXCEPT ![p].size = n]
        /\ membytes' = membytes + n - items[p].size
    BY <1>5 DEF ReallocInPlace
  <2>2. DOMAIN items' = DOMAIN items /\ items'[p].size = n /\ n \in Nat
    BY <2>1, GCParameters DEF TypeOK, Item
  <2>3. \A q \in DOMAIN items \ {p} : items'[q] = items[q]
    BY <2>1 DEF TypeOK
  <2>4. DOMAIN rest = DOMAIN items' \ {p} /\ \A q \in DOMAIN rest : rest[q].size = items'[q].size
    BY <2>2, <2>3 DEF Without
  <2>5. Cardinality(Bytes(items')) = Cardinality(Bytes(rest)) + n
    <3>1. DOMAIN items' \subseteq Addr /\ p \in DOMAIN items'
      BY <1>types, <2>1, <2>2
    <3>2. \A q \in DOMAIN items' : items'[q].size \in Nat
      BY <1>types, <2>2, <2>3
    <3> HIDE DEF rest
    <3> QED
      BY <2>2, <2>4, <3>1, <3>2, BytesJoin
  <2> QED
    BY <2>1, <2>2, <2>5, BytesForgotten DEF Accounting
<1>6. ASSUME NEW p \in Heap, NEW q \in Heap, NEW n \in Sizes, ReallocMoved(p, q, n)
      PROVE  Accounting'
  <2>1. CASE q \in DOMAIN items
    BY <1>6, <1>panic, <2>1 DEF ReallocMoved
  <2>2. CASE q \notin DOMAIN items
    <3> DEFINE its == Without(items, p)
               item == [items[p] EXCEPT !.size = n]
    <3>1. p \in DOMAIN items /\ items[p] \in Item /\ q \in Addr
      BY <1>6 DEF ReallocMoved, TypeOK, Addr
    <3>2. item \in Item /\ item.size = n /\ n \in Nat
      BY <3>1, GCParameters DEF Item
    <3>3. Track(its, q, item) /\ membytes' = membytes - items[p].size + n
      BY <1>6, <2>2 DEF ReallocMoved
    <3>4. /\ DOMAIN its \subseteq Addr /\ q \notin DOMAIN its
          /\ \A r \in DOMAIN its : its[r].size \in Nat
      BY <1>types, <2>2 DEF Without
    <3>5. /\ Cardinality(Bytes(its)) = Cardinality(Bytes(items)) - items[p].size
          /\ items[p].size \in Nat
      BY <3>1, BytesForgotten
    <3> HIDE DEF its, item
    <3>6. Cardinality(Bytes(items')) = Cardinality(Bytes(its)) + item.size
      BY <3>1, <3>2, <3>3, <3>4, BytesTracked
    <3> QED
      BY <1>count, <3>2, <3>3, <3>5, <3>6 DEF Accounting
  <2> QED
    BY <2>1, <2>2
<1>7. CASE Recheck
  BY <1>7, <1>still DEF Recheck
<1>8. CASE Collect
  BY <1>8, <1>still DEF Collect
<1>9. ASSUME NEW run \in Modes, NEW pct \in Pauses, Configure(run, pct)
      PROVE  Accounting'
  BY <1>9, <1>still DEF Configure
<1>10. ASSUME NEW p \in Addr, NEW a \in Addr, Load(p, a)
       PROVE  Accounting'
  BY <1>10, <1>still DEF Load, Program
<1>11. ASSUME NEW p \in Addr, NEW W \in {{}} \cup {{a} : a \in stack}, Store(p, W)
       PROVE  Accounting'
  BY <1>11, <1>still DEF Store, Program
<1>12. ASSUME NEW a \in Addr, Drop(a)
       PROVE  Accounting'
  BY <1>12, <1>still DEF Drop, Program
<1>13. CASE CallFinalizer
  <2> DEFINE p == frees[First(Due)]
  <2>1. CASE p \notin DOMAIN items
    BY <1>13, <1>panic, <2>1 DEF CallFinalizer
  <2>2. CASE p \in DOMAIN items
    <3>1. items' = [items EXCEPT ![p].fin = FALSE] /\ membytes' = membytes
      BY <1>13, <2>2 DEF CallFinalizer, Claimed
    <3> HIDE DEF p
    <3>2. DOMAIN items' = DOMAIN items /\ \A q \in DOMAIN items : items'[q].size = items[q].size
      BY <2>2, <3>1 DEF TypeOK, Item
    <3> QED
      BY <3>1, <3>2, BytesKept
  <2> QED
    BY <2>1, <2>2
<1>14. CASE FinalizerReturn
  BY <1>14, <1>still DEF FinalizerReturn
<1>15. CASE FreeNext
  <2> DEFINE p == frees[First(Unfreed)]
  <2>1. CASE p \notin DOMAIN items
    BY <1>15, <1>panic, <2>1 DEF FreeNext
  <2>2. CASE p \in DOMAIN items
    <3>1. Forget(p)
      BY <1>15, <2>2 DEF FreeNext
    <3> HIDE DEF p
    <3> QED
      BY <2>2, <3>1, BytesForgotten DEF Forget, Accounting
  <2> QED
    BY <2>1, <2>2
<1>16. CASE EndCollect
  BY <1>16, <1>still DEF EndCollect
<1>17. CASE Destroy
  BY <1>17, <1>still DEF Destroy
<1>18. CASE EndDestroy
  <2>1. items' = [p \in {} |-> 0] /\ membytes' = 0
    BY <1>18 DEF EndDestroy
  <2>2. Bytes(items') = {}
    BY <2>1 DEF Bytes
  <2> QED
    BY <2>1, <2>2, FS_EmptySet DEF Accounting
<1>19. CASE Stopped
  BY <1>19, <1>same DEF Stopped
<1> QED
  BY <1>same, <1>1, <1>2, <1>3, <1>4, <1>5, <1>6, <1>7, <1>8, <1>9, <1>10, <1>11, <1>12,
     <1>13, <1>14, <1>15, <1>16, <1>17, <1>18, <1>19 DEF Next

(* GC.membytes is the number of tracked bytes in every state of every      *)
(* program, so the unsigned counter never wraps and a collection is asked  *)
(* for exactly when that many bytes are in use.                            *)
THEOREM BytesAccounted == Spec => []Accounting
<1>1. Init => TypeOK /\ Accounting
  BY TypeInit, AccountingInit
<1>2. TypeOK /\ Accounting /\ [Next]_vars => (TypeOK /\ Accounting)'
  BY TypeNext, AccountingNext
<1> QED
  BY <1>1, <1>2, PTL DEF Spec
===============================================================================
