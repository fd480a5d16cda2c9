---------------------------- MODULE GCSweepProofs ----------------------------
(***************************************************************************)
(* What the finalizers of a sweep cannot break, however they are nested:   *)
(* each runs once, before its block is freed, and the sweep frees exactly  *)
(* the blocks that its cycle condemned.                                    *)
(***************************************************************************)
EXTENDS GCProofs

(* The deallocations that wait for the finalizer of their block.           *)
Outgoing == {k \in 1..Len(calls) : calls[k].op = "dealloc"}
(* The heap knows every tracked block, and the blocks that wait are no     *)
(* longer tracked, not yet freed, finalized and told apart.                *)
LeavingInv ==
  /\ DOMAIN items \cap Heap \subseteq alloced
  /\ \A k \in Outgoing : /\ calls[k].ptr \in (Heap \cap alloced) \ DOMAIN items
                         /\ fate[calls[k].ptr] = "done"
  /\ \A k, m \in Outgoing : k # m => calls[k].ptr # calls[m].ptr
OnceInv == LeavingInv /\ FinalizerOnce

(* A step that begins no deallocation *)
SameOutgoing ==
  \A k \in 1..Len(calls') : calls'[k].op = "dealloc" => k \in 1..Len(calls) /\ calls'[k] = calls[k]
-------------------------------------------------------------------------------
(* The call stack, frame by frame.                                         *)

(* A call puts one frame on top of the others.                             *)
LEMMA Pushed ==
  ASSUME NEW stk \in Seq(Frame), NEW f \in Frame
  PROVE  /\ Append(stk, f) \in Seq(Frame)
         /\ Len(Append(stk, f)) = Len(stk) + 1
         /\ \A k \in 1..Len(stk) : Append(stk, f)[k] = stk[k]
         /\ Append(stk, f)[Len(stk) + 1] = f
BY AppendProperties

(* A return takes one frame away.                                          *)
LEMMA Popped ==
  ASSUME TypeOK, calls # <<>>
  PROVE  /\ Pop \in Seq(Frame) /\ Len(calls) \in Nat /\ Len(calls) >= 1
         /\ Len(Pop) = Len(calls) - 1
         /\ \A k \in 1..Len(calls) - 1 : Pop[k] = calls[k]
<1>1. PICK n \in Nat : n = Len(calls)
  BY LenProperties DEF TypeOK
<1>2. n >= 1 /\ \A k \in 1..n : calls[k] \in Frame
  BY <1>1, EmptySeq, ElementOfSeq DEF TypeOK
<1>3. Pop = SubSeq(calls, 1, n - 1) /\ \A k \in 1..n - 1 : calls[k] \in Frame
  BY <1>1, <1>2 DEF Pop
<1>4. Pop \in Seq(Frame) /\ Len(Pop) = n - 1 /\ \A k \in 1..n - 1 : Pop[k] = calls[k]
  BY <1>2, <1>3, SubSeqProperties
<1> QED
  BY <1>1, <1>2, <1>4

(* The innermost operation goes on to another phase.                       *)
LEMMA Moved ==
  ASSUME TypeOK, calls # <<>>, NEW phase \in {"finalize", "call", "free", "recheck"}, NEW at \in Nat
  PROVE  /\ Len(TopAt(phase, at)) = Len(calls) /\ Len(calls) \in Nat /\ Len(calls) >= 1
         /\ \A k \in 1..Len(calls) : k # Len(calls) => TopAt(phase, at)[k] = calls[k]
         /\ TopAt(phase, at)[Len(calls)].op = Top.op
         /\ TopAt(phase, at)[Len(calls)].ptr = Top.ptr
         /\ TopAt(phase, at)[Len(calls)].phase = phase
         /\ TopAt(phase, at)[Len(calls)].at = at
<1>1. PICK n \in Nat : n = Len(calls)
  BY LenProperties DEF TypeOK
<1>2. n >= 1
  BY <1>1, EmptySeq DEF TypeOK
<1>3. DOMAIN calls = 1..n /\ calls \in [1..n -> Frame]
  BY <1>1, LenProperties DEF TypeOK
<1>4. Top \in Frame
  BY CallsTyped
<1> DEFINE f == [Top EXCEPT !.phase = phase, !.at = at]
<1>5. f \in Frame /\ f.op = Top.op /\ f.ptr = Top.ptr /\ f.phase = phase /\ f.at = at
  BY <1>4 DEF Frame
<1>6. TopAt(phase, at) = [calls EXCEPT ![n] = f]
  BY <1>1 DEF TopAt, Top
<1> HIDE DEF f
<1>7. /\ Len([calls EXCEPT ![n] = f]) = n
      /\ [calls EXCEPT ![n] = f][n] = f
      /\ \A k \in 1..n : k # n => [calls EXCEPT ![n] = f][k] = calls[k]
  <2>1. calls \in Seq(Frame) /\ n \in 1..Len(calls)
    BY <1>1, <1>2 DEF TypeOK
  <2>2. [calls EXCEPT ![n] = f] \in Seq(Frame) /\ Len([calls EXCEPT ![n] = f]) = Len(calls)
    BY <1>5, <2>1, ExceptSeq
  <2> QED
    BY <1>1, <1>2, <1>3, <2>2
<1> QED
  BY <1>1, <1>2, <1>5, <1>6, <1>7 DEF f

(* A collection puts its sweep on top, above what its caller left to do.   *)
LEMMA Collected ==
  ASSUME TypeOK, NEW below \in Seq(Frame), \A k \in 1..Len(below) : below[k].op # "dealloc",
         NEW frs, NEW cnd, MaybeCollect(frs, cnd, below)
  PROVE  SameOutgoing
<1>1. calls \in Seq(Frame) /\ Len(calls) \in Nat /\ Len(below) \in Nat
  BY LenProperties DEF TypeOK
<1>2. CASE ~Triggers
  BY <1>2 DEF MaybeCollect, SameOutgoing
<1>3. CASE Triggers
  <2> DEFINE stk == calls \o below
  <2>1. /\ stk \in Seq(Frame) /\ Len(stk) = Len(calls) + Len(below)
        /\ \A k \in 1..Len(stk) : stk[k] = IF k <= Len(calls) THEN calls[k] ELSE below[k - Len(calls)]
    BY <1>1, ConcatProperties
  <2>2. calls' = Append(stk, SweepFrame("collect"))
    BY <1>3 DEF MaybeCollect, Cycle, BeginSweep
  <2>3. SweepFrame("collect") \in Frame /\ SweepFrame("collect").op = "collect"
    BY DEF SweepFrame, Frame
  <2> HIDE DEF stk
  <2>4. /\ Len(calls') = Len(stk) + 1
        /\ \A k \in 1..Len(stk) : calls'[k] = stk[k]
        /\ calls'[Len(stk) + 1] = SweepFrame("collect")
    BY <2>1, <2>2, <2>3, Pushed
  <2>5. ASSUME NEW k \in 1..Len(calls'), calls'[k].op = "dealloc"
        PROVE  k \in 1..Len(calls) /\ calls'[k] = calls[k]
    <3>1. k # Len(stk) + 1
      BY <2>3, <2>4, <2>5
    <3>a. PICK n \in Nat : n = Len(stk)
      BY <1>1, <2>1
    <3>b. k \in 1..n + 1
      BY <2>4, <3>a
    <3>2. k \in 1..Len(stk)
      BY <3>a, <3>b, <3>1
    <3>3. calls'[k] = stk[k]
      BY <2>4, <3>2
    <3>4. k <= Len(calls)
      <4> SUFFICES ASSUME ~ (k <= Len(calls)) PROVE FALSE
        OBVIOUS
      <4>1. k - Len(calls) \in 1..Len(below)
        BY <1>1, <2>1, <3>2
      <4>2. stk[k] = below[k - Len(calls)]
        BY <2>1, <3>2
      <4> QED
        BY <2>5, <3>3, <4>1, <4>2
    <3> QED
      BY <1>1, <2>1, <3>2, <3>3, <3>4
  <2> QED
    BY <2>5 DEF SameOutgoing
<1> QED
  BY <1>2, <1>3
(* A collection of a step that leaves nothing to do                        *)
LEMMA CollectedAlone ==
  ASSUME TypeOK, NEW frs, NEW cnd, MaybeCollect(frs, cnd, <<>>)
  PROVE  SameOutgoing
<1>1. <<>> \in Seq(Frame)
  BY EmptySeq
<1>2. \A k \in 1..Len(<<>>) : <<>>[k].op # "dealloc"
  OBVIOUS
<1> QED
  BY <1>1, <1>2, Collected

(* The sweep goes on.                                                      *)
LEMMA MovedOutgoing ==
  ASSUME TypeOK, calls # <<>>, Top.op # "dealloc",
         NEW phase \in {"finalize", "call", "free", "recheck"}, NEW at \in Nat,
         calls' = TopAt(phase, at)
  PROVE  SameOutgoing
<1>1. PICK n \in Nat : n = Len(calls)
  BY Moved
<1>2. /\ Len(calls') = n
      /\ \A k \in 1..n : k # n => calls'[k] = calls[k]
      /\ calls'[n].op = Top.op
  <2>1. /\ Len(TopAt(phase, at)) = Len(calls)
        /\ \A k \in 1..Len(calls) : k # Len(calls) => TopAt(phase, at)[k] = calls[k]
        /\ TopAt(phase, at)[Len(calls)].op = Top.op
    BY Moved
  <2> QED
    BY <1>1, <2>1
<1>3. ASSUME NEW k \in 1..n, calls'[k].op = "dealloc"
      PROVE  calls'[k] = calls[k]
  BY <1>2, <1>3
<1> QED
  BY <1>1, <1>2, <1>3 DEF SameOutgoing
-------------------------------------------------------------------------------
(* Finalizers run once.                                                    *)

(* A step that leaves alone the blocks that wait to be freed               *)
LEMMA LeavingKept ==
  ASSUME LeavingInv, SameOutgoing, DOMAIN items' \cap Heap \subseteq alloced',
         \A p \in (Heap \cap alloced) \ DOMAIN items :
           p \in alloced' /\ p \notin DOMAIN items' /\ fate'[p] = fate[p]
  PROVE  LeavingInv'
<1>1. \A k \in Outgoing' : k \in Outgoing /\ calls'[k] = calls[k]
  BY DEF SameOutgoing, Outgoing
<1> QED
  BY <1>1 DEF LeavingInv

(* Tracking a block records its finalizer as it is owed.                   *)
LEMMA TrackOnce ==
  ASSUME NEW its, NEW p \in Addr, NEW item \in Item, p \notin DOMAIN its, Track(its, p, item),
         \A q \in DOMAIN its : its[q].fin <=> fate'[q] = "owed",
         item.fin <=> fate'[p] = "owed"
  PROVE  FinalizerOnce' /\ DOMAIN items' = DOMAIN its \cup {p}
<1>1. items' = With(its, p, [item EXCEPT !.leaf = @ \/ item.size < Word])
  BY DEF Track
<1>2. [item EXCEPT !.leaf = @ \/ item.size < Word].fin = item.fin
  BY DEF Item
<1> QED
  BY <1>1, <1>2 DEF With, FinalizerOnce

(* The invariant holds at first,                                           *)
LEMMA OnceInit == Init => OnceInv
<1> SUFFICES ASSUME Init PROVE OnceInv
  OBVIOUS
<1>1. Outgoing = {}
  BY DEF Init, Outgoing
<1>2. DOMAIN items \cap Heap \subseteq alloced
  BY GCAddresses DEF Init
<1>3. FinalizerOnce
  BY DEF Init, FinalizerOnce, RootItem, Addr
<1> QED
  BY <1>1, <1>2, <1>3 DEF OnceInv, LeavingInv

(* and every step keeps it, by cases on the step.                          *)
LEMMA OnceNext == TypeOK /\ OnceInv /\ [Next]_vars => OnceInv'
<1> SUFFICES ASSUME TypeOK, OnceInv, [Next]_vars PROVE OnceInv'
  OBVIOUS
<1>0. LeavingInv /\ FinalizerOnce
  BY DEF OnceInv
<1>t. DOMAIN items \subseteq Addr /\ fate \in [Addr -> {"none", "owed", "done"}]
  BY DEF TypeOK
<1>same. ASSUME UNCHANGED <<alloced, items, fate>>, SameOutgoing
         PROVE  OnceInv'
  BY <1>0, <1>same, LeavingKept DEF OnceInv, FinalizerOnce, LeavingInv
<1>still. ASSUME UNCHANGED <<alloced, items, fate, calls>>
          PROVE  OnceInv'
  BY <1>0, <1>still DEF OnceInv, FinalizerOnce, LeavingInv, Outgoing
<1>panic. CASE Panic
  BY <1>panic, <1>still DEF Panic
<1>1. ASSUME NEW p \in Heap, NEW n \in Sizes, NEW kind \in Kinds, Alloc(p, n, kind)
      PROVE  OnceInv'
  <2>1. CASE p \in DOMAIN items
    BY <1>1, <1>panic, <2>1 DEF Alloc
  <2>2. CASE p \notin DOMAIN items
    <3>1. NewItem(n, kind, FALSE) \in Item /\ p \in Addr /\ NewItem(n, kind, FALSE).fin = kind[3]
      BY NewItemTyped DEF Addr, NewItem
    <3>2. /\ alloced' = alloced \cup {p} /\ p \notin alloced
          /\ fate' = [fate EXCEPT ![p] = Owed(kind[3])]
          /\ Track(items, p, NewItem(n, kind, FALSE))
          /\ MaybeCollect(frees, condemned, <<>>)
      BY <1>1, <2>2 DEF Alloc
    <3>3. fate'[p] = Owed(kind[3]) /\ \A q \in Addr : q # p => fate'[q] = fate[q]
      BY <1>t, <3>1, <3>2
    <3>4. kind[3] <=> fate'[p] = "owed"
      BY <3>3 DEF Owed
    <3>5. FinalizerOnce' /\ DOMAIN items' = DOMAIN items \cup {p}
      BY <1>0, <1>t, <2>2, <3>1, <3>2, <3>3, <3>4, TrackOnce DEF FinalizerOnce
    <3>6. SameOutgoing
      BY <3>2, CollectedAlone
    <3>7. LeavingInv'
      BY <1>0, <3>2, <3>3, <3>5, <3>6, LeavingKept DEF LeavingInv, Addr
    <3> QED
      BY <3>5, <3>7 DEF OnceInv
  <2> QED
    BY <2>1, <2>2
<1>2. ASSUME NEW p \in External, NEW kind \in Kinds, RegisterExtern(p, Word, kind)
      PROVE  OnceInv'
  <2>1. /\ NewItem(Word, kind, TRUE) \in Item /\ p \in Addr /\ NewItem(Word, kind, TRUE).fin = kind[3]
        /\ p \notin Heap
    BY NewItemTyped, GCParameters, GCAddresses DEF Addr, NewItem
  <2>2. /\ p \notin DOMAIN items /\ alloced' = alloced
        /\ fate' = [fate EXCEPT ![p] = Owed(kind[3])]
        /\ Track(items, p, NewItem(Word, kind, TRUE))
        /\ MaybeCollect(frees, condemned, <<>>)
    BY <1>2 DEF RegisterExtern
  <2>3. fate'[p] = Owed(kind[3]) /\ \A q \in Addr : q # p => fate'[q] = fate[q]
    BY <1>t, <2>1, <2>2
  <2>4. kind[3] <=> fate'[p] = "owed"
    BY <2>3 DEF Owed
  <2>5. FinalizerOnce' /\ DOMAIN items' = DOMAIN items \cup {p}
    BY <1>0, <1>t, <2>1, <2>2, <2>3, <2>4, TrackOnce DEF FinalizerOnce
  <2>6. SameOutgoing
    BY <2>2, CollectedAlone
  <2>7. LeavingInv'
    BY <1>0, <2>1, <2>2, <2>3, <2>5, <2>6, LeavingKept DEF LeavingInv, Addr
  <2> QED
    BY <2>5, <2>7 DEF OnceInv
<1>3. ASSUME NEW p \in External, Unregister(p)
      PROVE  OnceInv'
  <2>1. /\ items' = Without(items, p) /\ UNCHANGED <<alloced, calls>> /\ p \notin Heap
        /\ fate' = [fate EXCEPT ![p] = "none"]
    BY <1>3, GCAddresses DEF Unregister, Forget
  <2>2. \A q \in Addr : q # p => fate'[q] = fate[q]
    BY <1>t, <2>1
  <2>3. DOMAIN items' = DOMAIN items \ {p} /\ \A q \in DOMAIN items' : items'[q] = items[q]
    BY <2>1 DEF Without
  <2>4. FinalizerOnce'
    BY <1>0, <1>t, <2>2, <2>3 DEF FinalizerOnce
  <2>5. SameOutgoing
    BY <2>1 DEF SameOutgoing
  <2>6. LeavingInv'
    BY <1>0, <2>1, <2>2, <2>3, <2>5, LeavingKept DEF LeavingInv, Addr
  <2> QED
    BY <2>4, <2>6 DEF OnceInv
<1>4. ASSUME NEW p \in Heap, Dealloc(p)
      PROVE  OnceInv'
  <2>1. items' = Without(items, p) /\ p \in DOMAIN items /\ p \in alloced
    BY <1>0, <1>4 DEF Dealloc, Forget, LeavingInv
  <2>2. DOMAIN items' = DOMAIN items \ {p} /\ \A q \in DOMAIN items' : items'[q] = items[q]
    BY <2>1 DEF Without
  <2>3. \A q \in Addr : q # p => fate'[q] = fate[q]
    BY <1>4, <1>t DEF Dealloc
  <2>4. FinalizerOnce'
    BY <1>0, <1>t, <2>2, <2>3 DEF FinalizerOnce
  <2>5. CASE items[p].fin
    <3>1. /\ calls' = Append(calls, DeallocFrame(p)) /\ alloced' = alloced
          /\ fate' = [fate EXCEPT ![p] = "done"]
      BY <1>4, <2>5 DEF Dealloc
    <3>2. DeallocFrame(p) \in Frame /\ DeallocFrame(p).ptr = p
      BY DEF DeallocFrame, Frame, Addr
    <3>3. PICK n \in Nat : /\ n = Len(calls) /\ Len(calls') = n + 1
                           /\ \A k \in 1..n : calls'[k] = calls[k]
                           /\ calls'[n + 1] = DeallocFrame(p)
      <4>1. calls \in Seq(Frame) /\ Len(calls) \in Nat
        BY LenProperties DEF TypeOK
      <4> QED
        BY <3>1, <3>2, <4>1, Pushed
    <3>4. \A k \in Outgoing' : (k \in Outgoing /\ calls'[k] = calls[k]) \/ (k = n + 1 /\ calls'[k].ptr = p)
      BY <3>2, <3>3 DEF Outgoing
    <3>5. \A k \in Outgoing : calls[k].ptr \in (Heap \cap alloced) \ DOMAIN items /\ fate[calls[k].ptr] = "done"
      BY <1>0 DEF LeavingInv
    <3>6. fate'[p] = "done"
      BY <1>t, <2>1, <3>1
    <3>7. \A k \in Outgoing' : calls'[k].ptr \in (Heap \cap alloced') \ DOMAIN items' /\ fate'[calls'[k].ptr] = "done"
      BY <2>1, <2>2, <2>3, <3>1, <3>4, <3>5, <3>6 DEF Addr
    <3>8. \A k, m \in Outgoing' : k # m => calls'[k].ptr # calls'[m].ptr
      BY <1>0, <2>1, <3>4, <3>5 DEF LeavingInv
    <3>9. DOMAIN items' \cap Heap \subseteq alloced'
      BY <1>0, <2>2, <3>1 DEF LeavingInv
    <3> QED
      BY <2>4, <3>7, <3>8, <3>9 DEF OnceInv, LeavingInv
  <2>6. CASE ~items[p].fin
    <3>1. calls' = calls /\ alloced' = alloced \ {p}
      BY <1>4, <2>6 DEF Dealloc
    <3>2. SameOutgoing
      BY <3>1 DEF SameOutgoing
    <3>3. LeavingInv'
      BY <1>0, <2>1, <2>2, <2>3, <3>1, <3>2, LeavingKept DEF LeavingInv, Addr
    <3> QED
      BY <2>4, <3>3 DEF OnceInv
  <2> QED
    BY <2>5, <2>6
<1>5. ASSUME NEW p \in Heap, NEW n \in Sizes, ReallocInPlace(p, n)
      PROVE  OnceInv'
  <2>1. /\ items' = [items EXCEPT ![p].size = n] /\ UNCHANGED <<alloced, fate>>
        /\ calls' = calls \/ MaybeCollect(frees, condemned, <<>>)
    BY <1>5 DEF ReallocInPlace
  <2>2. SameOutgoing
    <3>1. calls' = calls => SameOutgoing
      BY DEF SameOutgoing
    <3> QED
      BY <2>1, <3>1, CollectedAlone
  <2>3. DOMAIN items' = DOMAIN items /\ \A q \in DOMAIN items : items'[q].fin = items[q].fin
    BY <2>1 DEF TypeOK, Item
  <2>4. FinalizerOnce'
    BY <1>0, <2>1, <2>3 DEF FinalizerOnce
  <2>5. LeavingInv'
    BY <1>0, <2>1, <2>2, <2>3, LeavingKept DEF LeavingInv
  <2> QED
    BY <2>4, <2>5 DEF OnceInv
<1>6. ASSUME NEW p \in Heap, NEW q \in Heap, NEW n \in Sizes, ReallocMoved(p, q, n)
      PROVE  OnceInv'
  <2>1. CASE q \in DOMAIN items
    BY <1>6, <1>panic, <2>1 DEF ReallocMoved
  <2>2. CASE q \notin DOMAIN items
    <3> DEFINE its == Without(items, p)
               item == [items[p] EXCEPT !.size = n]
               below == IF n > items[p].size THEN <<ReregisterFrame>> ELSE <<>>
               cnd == IF p \in condemned THEN (condemned \ {p}) \cup {q} ELSE condemned
    <3>1. p \in DOMAIN items /\ p \in Addr /\ q \in Addr /\ p # q /\ q \notin alloced /\ items[p] \in Item
      BY <1>6, <2>2 DEF ReallocMoved, TypeOK, Addr
    <3>2. item \in Item /\ item.fin = items[p].fin
      BY <3>1 DEF Item
    <3>3. /\ Track(its, q, item) /\ alloced' = (alloced \ {p}) \cup {q}
          /\ fate' = [fate EXCEPT ![p] = "none", ![q] = fate[p]]
          /\ MaybeCollect(Patched(p, q), cnd, below)
      BY <1>6, <2>2 DEF ReallocMoved
    <3>4. /\ DOMAIN its = DOMAIN items \ {p} /\ q \notin DOMAIN its
          /\ \A r \in DOMAIN its : its[r] = items[r]
      BY <2>2 DEF Without
    <3>5. ReregisterFrame \in Frame /\ ReregisterFrame.op # "dealloc"
      BY DEF ReregisterFrame, Frame
    <3>6. below \in Seq(Frame) /\ \A k \in 1..Len(below) : below[k].op # "dealloc"
      <4>1. CASE n > items[p].size
        BY <3>5, <4>1
      <4>2. CASE ~ (n > items[p].size)
        BY <4>2
      <4> QED
        BY <4>1, <4>2
    <3> HIDE DEF its, item, below, cnd
    <3>7. SameOutgoing
      BY <3>3, <3>6, Collected
    <3>8. fate'[q] = fate[p] /\ \A r \in Addr : r # p /\ r # q => fate'[r] = fate[r]
      BY <1>t, <3>1, <3>3
    <3>9. FinalizerOnce' /\ DOMAIN items' = DOMAIN its \cup {q}
      <4>1. item.fin <=> fate'[q] = "owed"
        BY <1>0, <3>1, <3>2, <3>8 DEF FinalizerOnce
      <4>2. \A r \in DOMAIN its : its[r].fin <=> fate'[r] = "owed"
        BY <1>0, <1>t, <3>1, <3>4, <3>8, <2>2 DEF FinalizerOnce
      <4> QED
        BY <3>1, <3>2, <3>3, <3>4, <4>1, <4>2, TrackOnce
    <3>10. LeavingInv'
      BY <1>0, <3>1, <3>3, <3>4, <3>7, <3>8, <3>9, LeavingKept DEF LeavingInv, Addr
    <3> QED
      BY <3>9, <3>10 DEF OnceInv
  <2> QED
    BY <2>1, <2>2
<1>7. CASE Recheck
  <2>1. calls # <<>> /\ UNCHANGED <<alloced, items, fate>> /\ (Cycle(frees, Pop) \/ calls' = Pop)
    BY <1>7 DEF Recheck, memory
  <2>2. PICK n \in Nat : /\ n >= 1 /\ n = Len(calls) /\ Len(Pop) = n - 1 /\ Pop \in Seq(Frame)
                         /\ \A k \in 1..n - 1 : Pop[k] = calls[k]
    BY <2>1, Popped
  <2>3. SweepFrame("collect") \in Frame /\ SweepFrame("collect").op = "collect"
    BY DEF SweepFrame, Frame
  <2>4. SameOutgoing
    <3>1. CASE calls' = Pop
      BY <2>2, <3>1 DEF SameOutgoing
    <3>2. CASE Cycle(frees, Pop)
      <4>1. calls' = Append(Pop, SweepFrame("collect"))
        BY <3>2 DEF Cycle, BeginSweep
      <4>2. /\ Len(calls') = n /\ calls'[n] = SweepFrame("collect")
            /\ \A k \in 1..n - 1 : calls'[k] = Pop[k]
        BY <2>2, <2>3, <4>1, Pushed
      <4>3. \A k \in 1..n : k = n \/ k \in 1..n - 1
        OBVIOUS
      <4> QED
        BY <2>2, <2>3, <4>2, <4>3 DEF SameOutgoing
    <3> QED
      BY <2>1, <3>1, <3>2
  <2> QED
    BY <1>same, <2>1, <2>4
<1>8. CASE Collect
  <2>1. UNCHANGED <<alloced, items, fate>> /\ calls' = Append(calls, SweepFrame("collect"))
    BY <1>8 DEF Collect, memory, Cycle, BeginSweep
  <2>2. SweepFrame("collect") \in Frame /\ SweepFrame("collect").op = "collect"
    BY DEF SweepFrame, Frame
  <2>3. PICK n \in Nat : /\ n = Len(calls) /\ Len(calls') = n + 1
                         /\ calls'[n + 1] = SweepFrame("collect")
                         /\ \A k \in 1..n : calls'[k] = calls[k]
    <3>1. calls \in Seq(Frame) /\ Len(calls) \in Nat
      BY LenProperties DEF TypeOK
    <3> QED
      BY <2>1, <2>2, <3>1, Pushed
  <2>4. SameOutgoing
    BY <2>2, <2>3 DEF SameOutgoing
  <2> QED
    BY <1>same, <2>1, <2>4
<1>9. ASSUME NEW run \in Modes, NEW pct \in Pauses, Configure(run, pct)
      PROVE  OnceInv'
  BY <1>9, <1>still DEF Configure, memory
<1>10. ASSUME NEW p \in Addr, NEW a \in Addr, Load(p, a)
       PROVE  OnceInv'
  BY <1>10, <1>still DEF Load, Program
<1>11. ASSUME NEW p \in Addr, NEW W \in {{}} \cup {{a} : a \in stack}, Store(p, W)
       PROVE  OnceInv'
  BY <1>11, <1>still DEF Store, Program
<1>12. ASSUME NEW a \in Addr, Drop(a)
       PROVE  OnceInv'
  BY <1>12, <1>still DEF Drop, Program
<1>13. CASE CallFinalizer
  <2> DEFINE p == frees[First(Due)]
  <2>1. CASE p \notin DOMAIN items
    BY <1>13, <1>panic, <2>1 DEF CallFinalizer
  <2>2. CASE p \in DOMAIN items
    <3>1. /\ items' = [items EXCEPT ![p].fin = FALSE] /\ alloced' = alloced
          /\ fate' = [fate EXCEPT ![p] = "done"]
          /\ calls # <<>> /\ Top.op \in {"collect", "destroy"} /\ calls' = TopAt("call", First(Due))
      BY <1>13, <2>2 DEF CallFinalizer, Claimed, Sweeping
    <3>2. First(Due) \in Nat
      <4>1. Due # {} /\ Due \subseteq Nat
        <5>1. Top.at \in Nat
          BY <3>1, CallsTyped DEF Frame
        <5> QED
          BY <1>13, <5>1 DEF CallFinalizer, Due
      <4> QED
        BY <4>1, FirstIsFirst
    <3> HIDE DEF p
    <3>3. SameOutgoing
      BY <3>1, <3>2, MovedOutgoing
    <3>4. /\ DOMAIN items' = DOMAIN items /\ items'[p].fin = FALSE
          /\ \A q \in DOMAIN items : q # p => items'[q] = items[q]
      BY <2>2, <3>1 DEF TypeOK, Item
    <3>5. fate'[p] = "done" /\ \A q \in Addr : q # p => fate'[q] = fate[q]
      BY <1>t, <2>2, <3>1
    <3>6. FinalizerOnce'
      BY <1>0, <1>t, <3>4, <3>5 DEF FinalizerOnce
    <3>7. LeavingInv'
      BY <1>0, <2>2, <3>1, <3>3, <3>4, <3>5, LeavingKept DEF LeavingInv, Addr
    <3> QED
      BY <3>6, <3>7 DEF OnceInv
  <2> QED
    BY <2>1, <2>2
<1>14. CASE FinalizerReturn
  <2>1. CASE Top.op = "dealloc"
    <3>1. /\ calls # <<>> /\ calls' = Pop /\ items' = items /\ alloced' = alloced \ {Top.ptr}
          /\ fate' = [fate EXCEPT ![Top.ptr] = "none"]
      BY <1>14, <2>1 DEF FinalizerReturn
    <3>2. PICK n \in Nat : /\ n >= 1 /\ n = Len(calls) /\ Len(calls') = n - 1
                           /\ \A k \in 1..n - 1 : calls'[k] = calls[k]
      BY <3>1, Popped
    <3>3. n \in Outgoing /\ calls[n] = Top
      BY <2>1, <3>2 DEF Outgoing, Top
    <3>4. \A k \in Outgoing' : k \in Outgoing /\ k # n /\ calls'[k] = calls[k]
      BY <3>2 DEF Outgoing
    <3>5. Top.ptr \in Heap /\ Top.ptr \notin DOMAIN items
      BY <1>0, <3>3 DEF LeavingInv
    <3>6. \A q \in Addr : q # Top.ptr => fate'[q] = fate[q]
      BY <1>t, <3>1
    <3>7. \A k \in Outgoing' : calls'[k].ptr \in (Heap \cap alloced') \ DOMAIN items' /\ fate'[calls'[k].ptr] = "done"
      <4> SUFFICES ASSUME NEW k \in Outgoing'
                   PROVE  calls'[k].ptr \in (Heap \cap alloced') \ DOMAIN items' /\ fate'[calls'[k].ptr] = "done"
        OBVIOUS
      <4>1. /\ calls'[k] = calls[k] /\ calls[k].ptr # Top.ptr
            /\ calls[k].ptr \in (Heap \cap alloced) \ DOMAIN items /\ fate[calls[k].ptr] = "done"
        BY <1>0, <3>3, <3>4 DEF LeavingInv
      <4> QED
        BY <3>1, <3>6, <4>1 DEF Addr
    <3>8. \A k, m \in Outgoing' : k # m => calls'[k].ptr # calls'[m].ptr
      BY <1>0, <3>4 DEF LeavingInv
    <3>9. FinalizerOnce' /\ DOMAIN items' \cap Heap \subseteq alloced'
      BY <1>0, <1>t, <3>1, <3>5, <3>6 DEF FinalizerOnce, LeavingInv
    <3> QED
      BY <3>7, <3>8, <3>9 DEF OnceInv, LeavingInv
  <2>2. CASE Top.op # "dealloc"
    <3>1. calls # <<>> /\ calls' = TopAt("finalize", Top.at) /\ UNCHANGED <<alloced, fate, items>>
      BY <1>14, <2>2 DEF FinalizerReturn
    <3>2. Top.at \in Nat
      BY <3>1, CallsTyped DEF Frame
    <3>3. SameOutgoing
      BY <2>2, <3>1, <3>2, MovedOutgoing
    <3> QED
      BY <1>same, <3>1, <3>3
  <2> QED
    BY <2>1, <2>2
<1>15. CASE FreeNext
  <2> DEFINE p == frees[First(Unfreed)]
  <2>1. CASE p \notin DOMAIN items
    BY <1>15, <1>panic, <2>1 DEF FreeNext
  <2>2. CASE p \in DOMAIN items
    <3>1. /\ items' = Without(items, p) /\ alloced' \in {alloced, alloced \ {p}}
          /\ items[p].extern \/ alloced' = alloced \ {p}
          /\ fate' = [fate EXCEPT ![p] = "none"]
          /\ calls # <<>> /\ Top.op \in {"collect", "destroy"} /\ calls' = TopAt("free", First(Unfreed))
      BY <1>15, <2>2 DEF FreeNext, Freeing, Sweeping, Forget
    <3>2. First(Unfreed) \in Nat
      <4>1. Top.at \in Nat
        BY <3>1, CallsTyped DEF Frame
      <4>2. Unfreed # {} /\ Unfreed \subseteq Nat
        BY <1>15, <4>1 DEF FreeNext, Unfreed
      <4> QED
        BY <4>2, FirstIsFirst
    <3> HIDE DEF p
    <3>3. SameOutgoing
      BY <3>1, <3>2, MovedOutgoing
    <3>4. DOMAIN items' = DOMAIN items \ {p} /\ \A q \in DOMAIN items' : items'[q] = items[q]
      BY <3>1 DEF Without
    <3>5. \A q \in Addr : q # p => fate'[q] = fate[q]
      BY <1>t, <2>2, <3>1
    <3>6. FinalizerOnce'
      BY <1>0, <1>t, <3>4, <3>5 DEF FinalizerOnce
    <3>7. LeavingInv'
      BY <1>0, <2>2, <3>1, <3>3, <3>4, <3>5, LeavingKept DEF LeavingInv, Addr
    <3> QED
      BY <3>6, <3>7 DEF OnceInv
  <2> QED
    BY <2>1, <2>2
<1>16. CASE EndCollect
  <2>1. calls # <<>> /\ calls' = Pop /\ UNCHANGED <<alloced, items, fate>>
    BY <1>16 DEF EndCollect, Freeing, Sweeping, memory
  <2>2. SameOutgoing
    BY <2>1, Popped DEF SameOutgoing
  <2> QED
    BY <1>same, <2>1, <2>2
<1>17. CASE Destroy
  <2>1. calls = <<>> /\ UNCHANGED <<alloced, items, fate>> /\ calls' = <<SweepFrame("destroy")>>
    BY <1>17 DEF Destroy, memory, BeginSweep
  <2>2. SweepFrame("destroy").op = "destroy"
    BY DEF SweepFrame
  <2>3. SameOutgoing
    BY <2>1, <2>2 DEF SameOutgoing
  <2> QED
    BY <1>same, <2>1, <2>3
<1>18. CASE EndDestroy
  <2>1. calls # <<>> /\ calls' = Pop /\ UNCHANGED <<alloced, fate>> /\ DOMAIN items' = {}
    BY <1>18 DEF EndDestroy, Freeing, Sweeping, memory
  <2>2. SameOutgoing
    BY <2>1, Popped DEF SameOutgoing
  <2>3. LeavingInv'
    BY <1>0, <2>1, <2>2, LeavingKept
  <2> QED
    BY <2>1, <2>3 DEF OnceInv, FinalizerOnce
<1>19. CASE Stopped
  BY <1>19, <1>still DEF Stopped, vars
<1>20. CASE UNCHANGED vars
  BY <1>20, <1>still DEF vars
<1> QED
  BY <1>1, <1>2, <1>3, <1>4, <1>5, <1>6, <1>7, <1>8, <1>9, <1>10, <1>11, <1>12,
     <1>13, <1>14, <1>15, <1>16, <1>17, <1>18, <1>19, <1>20 DEF Next

(* A finalizer is recorded exactly while its call is owed, for any program *)
(* and any finalizers: also for those that destroy calls and that allocate.*)
THEOREM FinalizersRunOnce == Spec => []FinalizerOnce
<1>1. Init => TypeOK /\ OnceInv
  BY TypeInit, OnceInit
<1>2. TypeOK /\ OnceInv /\ [Next]_vars => (TypeOK /\ OnceInv)'
  BY TypeNext, OnceNext
<1>3. OnceInv => FinalizerOnce
  BY DEF OnceInv
<1> QED
  BY <1>1, <1>2, <1>3, PTL DEF Spec
-------------------------------------------------------------------------------
(* One sweep at a time, and a free list that finalizers cannot spoil.      *)

SweepOps == {"collect", "destroy"}
FrameOK(f) ==
  \/ f.op \in SweepOps /\ f.phase \in {"finalize", "call", "free"}
  \/ f.op = "dealloc" /\ f.phase = "call"
  \/ f.op = "reregister" /\ f.phase = "recheck"
Sweeps == {k \in 1..Len(calls) : calls[k].op \in SweepOps}
StackInv ==
  /\ \A k \in 1..Len(calls) : FrameOK(calls[k])
  /\ \A k \in 1..Len(calls) : k # Len(calls) => calls[k].phase \in {"call", "recheck"}
  /\ \A k, m \in Sweeps : k = m
  /\ collecting <=> \E k \in 1..Len(calls) : calls[k].op = "collect"
  /\ InDestroy => calls[1].op = "destroy" /\ \A k \in 1..Len(calls) : calls[k].op # "reregister"
  /\ Sweeps = {} => frees = <<>>

(* Entry i is still to be freed; the loop of finalizers has passed it.     *)
Listing(f, i) == f.phase = "free" => i > f.at
Passed(f, i) == f.phase = "free" \/ i <= f.at
Distinct(frs) == \A i, j \in 1..Len(frs) : i # j /\ frs[i] # NIL => frs[i] # frs[j]
ListInv ==
  /\ \A k \in Sweeps : \A i \in 1..Len(frees) :
       frees[i] # NIL /\ Listing(calls[k], i) =>
         frees[i] \in DOMAIN items /\ (Passed(calls[k], i) => ~items[frees[i]].fin)
  /\ Distinct(frees)
SweepInv == StackInv /\ ListInv /\ ChecksHold

(* Whatever a step puts in the free list stands for what was there.        *)
Follows(frs) ==
  /\ Len(frs) = Len(frees)
  /\ \A i \in 1..Len(frees) : frs[i] # NIL =>
       /\ frees[i] # NIL
       /\ frees[i] \in DOMAIN items => /\ frs[i] \in DOMAIN items'
                                       /\ items'[frs[i]].fin => items[frees[i]].fin

(* A step that keeps the sweep and changes its list by patches keeps what  *)
(* the list says.                                                          *)
LEMMA ListKept ==
  ASSUME ListInv, Follows(frees'), Distinct(frees'),
         \A k \in Sweeps' : k \in Sweeps /\ calls'[k] = calls[k]
  PROVE  ListInv'
<1>1. ASSUME NEW k \in Sweeps', NEW i \in 1..Len(frees'), frees'[i] # NIL, Listing(calls'[k], i)
      PROVE  frees'[i] \in DOMAIN items' /\ (Passed(calls'[k], i) => ~items'[frees'[i]].fin)
  <2>1. k \in Sweeps /\ calls'[k] = calls[k] /\ i \in 1..Len(frees) /\ frees[i] # NIL
    BY <1>1 DEF Follows
  <2>2. frees[i] \in DOMAIN items /\ (Passed(calls[k], i) => ~items[frees[i]].fin)
    BY <1>1, <2>1 DEF ListInv
  <2> QED
    BY <1>1, <2>1, <2>2 DEF Follows
<1> QED
  BY <1>1 DEF ListInv, Listing, Passed, Distinct

(* A free list that a step leaves alone                                    *)
LEMMA FollowsSame ==
  ASSUME ListInv, \A p \in DOMAIN items : p \in DOMAIN items' /\ (items'[p].fin => items[p].fin)
  PROVE  Follows(frees) /\ Distinct(frees)
BY DEF Follows, ListInv

(* A step that leaves the calls alone keeps what they say.                 *)
LEMMA StackSame ==
  ASSUME StackInv, UNCHANGED <<calls, collecting>>, frees = <<>> => frees' = <<>>
  PROVE  StackInv'
BY DEF StackInv, Sweeps, InDestroy

(* The program has control: nothing is being freed.                        *)
LEMMA UserLists ==
  ASSUME TypeOK, StackInv, ListInv, UserTurn
  PROVE  \A i \in 1..Len(frees) : frees[i] # NIL => frees[i] \in DOMAIN items
<1>1. CASE Sweeps = {}
  BY <1>1 DEF StackInv
<1>2. ASSUME NEW k \in Sweeps
      PROVE  \A i \in 1..Len(frees) : frees[i] # NIL => frees[i] \in DOMAIN items
  <2>1. k \in 1..Len(calls) /\ Len(calls) \in Nat
    BY <1>2, LenProperties DEF TypeOK, Sweeps
  <2>2. calls # <<>>
    BY <2>1
  <2>3. calls[k].phase # "free"
    <3>1. CASE k = Len(calls)
      BY <2>2, <3>1 DEF UserTurn, Top
    <3>2. CASE k # Len(calls)
      BY <2>1, <3>2 DEF StackInv
    <3> QED
      BY <3>1, <3>2
  <2> QED
    BY <1>2, <2>3 DEF ListInv, Listing
<1> QED
  BY <1>1, <1>2

(* A patched free list, entry by entry                                     *)
LEMMA PatchedEntries ==
  ASSUME TypeOK, Distinct(frees), NEW p \in Addr, NEW x \in Slots
  PROVE  /\ Patched(p, x) \in Seq(Slots) /\ Len(Patched(p, x)) = Len(frees)
         /\ \A i \in 1..Len(frees) : Patched(p, x)[i] = IF frees[i] = p THEN x ELSE frees[i]
         /\ frees = <<>> => Patched(p, x) = <<>>
<1>0. p # NIL
  BY GCAddresses DEF NIL
<1>1. PICK n \in Nat : n = Len(frees) /\ DOMAIN frees = 1..n /\ frees \in [1..n -> Slots]
  BY LenProperties DEF TypeOK, Slots
<1>2. CASE Listed(p) = {}
  <2>1. Patched(p, x) = frees
    BY <1>2 DEF Patched
  <2>2. \A i \in 1..n : frees[i] # p
    BY <1>1, <1>2 DEF Listed
  <2> QED
    BY <1>1, <2>1, <2>2 DEF TypeOK, Slots
<1>3. CASE Listed(p) # {}
  <2> DEFINE m == First(Listed(p))
  <2>1. m \in 1..n /\ frees[m] = p
    <3>1. Listed(p) \subseteq Nat
      BY <1>1 DEF Listed
    <3>2. m \in Listed(p)
      BY <1>3, <3>1, FirstIsFirst
    <3> QED
      BY <1>1, <3>2 DEF Listed
  <2>2. Patched(p, x) = [frees EXCEPT ![m] = x]
    BY <1>3 DEF Patched
  <2> HIDE DEF m
  <2>3. \A i \in 1..n : i # m => frees[i] # p
    BY <1>0, <1>1, <2>1 DEF Distinct
  <2>4. frees # <<>>
    BY <1>1, <2>1
  <2>5. [frees EXCEPT ![m] = x] \in Seq(Slots) /\ Len([frees EXCEPT ![m] = x]) = n
    BY <1>1, <2>1, ExceptSeq DEF TypeOK, Slots
  <2>6. \A i \in 1..n : [frees EXCEPT ![m] = x][i] = IF i = m THEN x ELSE frees[i]
    BY <1>1, <2>1
  <2> QED
    BY <1>1, <2>1, <2>2, <2>3, <2>4, <2>5, <2>6
<1> QED
  BY <1>2, <1>3

(* A block that the program takes away leaves the free list.               *)
LEMMA FollowsGone ==
  ASSUME TypeOK, ListInv, NEW p \in Addr, items' = Without(items, p)
  PROVE  /\ Follows(Patched(p, NIL)) /\ Distinct(Patched(p, NIL))
         /\ frees = <<>> => Patched(p, NIL) = <<>>
<1>1. Distinct(frees)
  BY DEF ListInv
<1> DEFINE frs == Patched(p, NIL)
<1>2. /\ Len(frs) = Len(frees) /\ (frees = <<>> => frs = <<>>)
      /\ \A i \in 1..Len(frees) : frs[i] = IF frees[i] = p THEN NIL ELSE frees[i]
  BY <1>1, PatchedEntries DEF Slots
<1> HIDE DEF frs
<1>3. \A q \in DOMAIN items : q # p => q \in DOMAIN items' /\ items'[q] = items[q]
  BY DEF Without
<1>4. Follows(frs)
  BY <1>2, <1>3 DEF Follows
<1>5. Distinct(frs)
  BY <1>1, <1>2 DEF Distinct
<1> QED
  BY <1>2, <1>4, <1>5 DEF frs

(* A block that realloc(3) moves is followed in the free list.             *)
LEMMA FollowsMoved ==
  ASSUME TypeOK, ListInv, NEW p \in Addr, NEW q \in Addr, p # q, q \notin DOMAIN items,
         \A i \in 1..Len(frees) : frees[i] # NIL => frees[i] \in DOMAIN items,
         DOMAIN items' = (DOMAIN items \ {p}) \cup {q},
         items'[q].fin => items[p].fin,
         \A r \in DOMAIN items \ {p} : items'[r].fin => items[r].fin
  PROVE  /\ Follows(Patched(p, q)) /\ Distinct(Patched(p, q))
         /\ frees = <<>> => Patched(p, q) = <<>>
<1>0. p # NIL /\ q # NIL
  BY GCAddresses DEF NIL
<1>1. Distinct(frees)
  BY DEF ListInv
<1> DEFINE frs == Patched(p, q)
<1>2. /\ Len(frs) = Len(frees) /\ (frees = <<>> => frs = <<>>)
      /\ \A i \in 1..Len(frees) : frs[i] = IF frees[i] = p THEN q ELSE frees[i]
  BY <1>1, PatchedEntries DEF Slots
<1> HIDE DEF frs
<1>3. \A i \in 1..Len(frees) : frees[i] # q
  BY <1>0
<1>4. Follows(frs)
  <2> SUFFICES ASSUME NEW i \in 1..Len(frees), frs[i] # NIL
               PROVE  /\ frees[i] # NIL
                      /\ frs[i] \in DOMAIN items' /\ (items'[frs[i]].fin => items[frees[i]].fin)
    BY <1>2 DEF Follows
  <2>1. CASE frees[i] = p
    BY <1>0, <1>2, <2>1
  <2>2. CASE frees[i] # p
    <3>1. frs[i] = frees[i] /\ frees[i] \in DOMAIN items \ {p}
      BY <1>2, <2>2
    <3> QED
      BY <3>1
  <2> QED
    BY <2>1, <2>2
<1>5. Distinct(frs)
  BY <1>0, <1>1, <1>2, <1>3 DEF Distinct
<1> QED
  BY <1>2, <1>4, <1>5 DEF frs

(* A cycle begins its sweep when there is none.                            *)
LEMMA CycleSweeps ==
  ASSUME TypeOK, DOMAIN items' \subseteq Addr, NEW stk \in Seq(Frame),
         \A k \in 1..Len(stk) : FrameOK(stk[k]) /\ stk[k].op \notin SweepOps,
         Cycle(<<>>, stk)
  PROVE  StackInv' /\ ListInv'
<1> DEFINE garbage == DOMAIN items' \ Marked'
<1>1. PICK s \in Orders(garbage) : frees' = <<>> \o s
  BY DEF Cycle, BeginSweep
<1>2. calls' = Append(stk, SweepFrame("collect")) /\ collecting' = TRUE
  BY DEF Cycle, BeginSweep
<1>3. IsFiniteSet(garbage) /\ garbage \subseteq DOMAIN items'
  BY FS_Subset, GCAddresses
<1> HIDE DEF garbage
<1>4. s \in Seq(garbage) /\ \A i, j \in DOMAIN s : i # j => s[i] # s[j]
  BY <1>3, OrdersAreSequences DEF Orders
<1>5. frees' = s
  BY <1>1, <1>4
<1>6. /\ SweepFrame("collect") \in Frame /\ SweepFrame("collect").op = "collect"
      /\ SweepFrame("collect").phase = "finalize" /\ SweepFrame("collect").at = 0
  BY DEF SweepFrame, Frame
<1>7. PICK n \in Nat : n = Len(stk)
  BY LenProperties
<1>8. /\ Len(calls') = n + 1 /\ calls'[n + 1] = SweepFrame("collect")
      /\ \A k \in 1..n : calls'[k] = stk[k]
  BY <1>2, <1>6, <1>7, Pushed
<1>9. \A k \in 1..n : FrameOK(calls'[k]) /\ calls'[k].op \notin SweepOps /\ calls'[k].phase \in {"call", "recheck"}
  BY <1>7, <1>8 DEF FrameOK
<1>10. \A k \in 1..n + 1 : k = n + 1 \/ k \in 1..n
  OBVIOUS
<1>11. \A k \in Sweeps' : k = n + 1
  BY <1>8, <1>9, <1>10 DEF Sweeps
<1>12. StackInv'
  <2>1. \A k \in 1..Len(calls') : FrameOK(calls'[k])
    BY <1>6, <1>8, <1>9, <1>10 DEF FrameOK, SweepOps
  <2>2. \A k \in 1..Len(calls') : k # Len(calls') => calls'[k].phase \in {"call", "recheck"}
    BY <1>8, <1>9, <1>10
  <2>3. \E k \in 1..Len(calls') : calls'[k].op = "collect"
    BY <1>6, <1>8
  <2>4. \A k \in 1..n + 1 : calls'[k].op # "destroy"
    BY <1>6, <1>8, <1>9, <1>10 DEF SweepOps
  <2>5. ~InDestroy'
    <3>1. calls' \in Seq(Frame)
      BY <1>2, <1>6, Pushed
    <3>2. DOMAIN calls' = 1..n + 1
      BY <1>8, <3>1, LenProperties
    <3> QED
      BY <2>4, <3>2 DEF InDestroy
  <2>6. n + 1 \in Sweeps'
    BY <1>6, <1>8 DEF Sweeps, SweepOps
  <2> QED
    BY <1>2, <1>11, <2>1, <2>2, <2>3, <2>5, <2>6 DEF StackInv
<1>13. ListInv'
  <2>1. DOMAIN s = 1..Len(s) /\ \A i \in 1..Len(s) : s[i] \in garbage
    BY <1>4, LenProperties, ElementOfSeq
  <2>2. Distinct(s)
    BY <1>4, <2>1 DEF Distinct
  <2>3. ASSUME NEW k \in Sweeps', NEW i \in 1..Len(frees')
        PROVE  frees'[i] \in DOMAIN items' /\ ~Passed(calls'[k], i)
    <3>1. ~Passed(SweepFrame("collect"), i)
      BY <1>6, <2>3 DEF Passed
    <3> QED
      BY <1>3, <1>5, <1>8, <1>11, <2>1, <2>3, <3>1
  <2> QED
    BY <1>5, <2>2, <2>3 DEF ListInv, Distinct
<1> QED
  BY <1>12, <1>13

(* The program may not start a second sweep.                               *)
LEMMA NoSweep ==
  ASSUME TypeOK, StackInv, ~InDestroy, ~collecting
  PROVE  frees = <<>> /\ \A k \in 1..Len(calls) : FrameOK(calls[k]) /\ calls[k].op \notin SweepOps
<1>1. DOMAIN calls = 1..Len(calls)
  BY LenProperties DEF TypeOK
<1>2. \A k \in 1..Len(calls) : calls[k].op \notin SweepOps
  BY <1>1 DEF StackInv, InDestroy, SweepOps
<1> QED
  BY <1>2 DEF StackInv, Sweeps

(* A step of the program that may collect                                  *)
LEMMA MayCollect ==
  ASSUME TypeOK, StackInv, ListInv, ~InDestroy, DOMAIN items' \subseteq Addr,
         NEW below \in Seq(Frame), \A k \in 1..Len(below) : below[k] = ReregisterFrame,
         NEW frs, frees = <<>> => frs = <<>>, Follows(frs), Distinct(frs),
         NEW cnd, MaybeCollect(frs, cnd, below)
  PROVE  StackInv' /\ ListInv'
<1>1. CASE ~Triggers
  <2>1. frees' = frs /\ UNCHANGED <<calls, collecting>>
    BY <1>1 DEF MaybeCollect
  <2>2. StackInv'
    BY <2>1, StackSame
  <2>3. \A k \in Sweeps' : k \in Sweeps /\ calls'[k] = calls[k]
    BY <2>1 DEF Sweeps
  <2> QED
    BY <2>1, <2>2, <2>3, ListKept
<1>2. CASE Triggers
  <2>1. ~collecting /\ Cycle(frs, calls \o below)
    BY <1>2 DEF MaybeCollect, Triggers
  <2>2. frs = <<>> /\ \A k \in 1..Len(calls) : FrameOK(calls[k]) /\ calls[k].op \notin SweepOps
    BY <2>1, NoSweep
  <2> DEFINE stk == calls \o below
  <2>3. /\ stk \in Seq(Frame)
        /\ \A k \in 1..Len(stk) : \/ k \in 1..Len(calls) /\ stk[k] = calls[k]
                                  \/ k - Len(calls) \in 1..Len(below) /\ stk[k] = below[k - Len(calls)]
    <3>1. PICK n, m \in Nat : n = Len(calls) /\ m = Len(below)
      BY LenProperties DEF TypeOK
    <3>2. /\ stk \in Seq(Frame) /\ Len(stk) = n + m
          /\ \A k \in 1..n + m : stk[k] = IF k <= n THEN calls[k] ELSE below[k - n]
      BY <3>1, ConcatProperties DEF TypeOK
    <3> HIDE DEF stk
    <3>3. \A k \in 1..n + m : (k \in 1..n /\ k <= n) \/ (k - n \in 1..m /\ ~ (k <= n))
      OBVIOUS
    <3> QED
      BY <3>1, <3>2, <3>3
  <2>4. FrameOK(ReregisterFrame) /\ ReregisterFrame.op \notin SweepOps
    BY DEF FrameOK, ReregisterFrame, SweepOps
  <2> HIDE DEF stk
  <2>5. \A k \in 1..Len(stk) : FrameOK(stk[k]) /\ stk[k].op \notin SweepOps
    BY <2>2, <2>3, <2>4
  <2>6. Cycle(<<>>, stk)
    BY <2>1, <2>2 DEF stk
  <2> QED
    BY <2>3, <2>5, <2>6, CycleSweeps
<1> QED
  BY <1>1, <1>2

(* The innermost operation, when it is a sweep, is the only one.           *)
LEMMA TopSweeps ==
  ASSUME TypeOK, StackInv, calls # <<>>, Top.op \in SweepOps
  PROVE  Len(calls) \in Nat /\ Len(calls) >= 1 /\ calls[Len(calls)] = Top /\ Sweeps = {Len(calls)}
<1>1. PICK n \in Nat : n = Len(calls) /\ n >= 1
  BY Popped
<1>2. n \in Sweeps
  BY <1>1 DEF Sweeps, Top
<1> QED
  BY <1>1, <1>2 DEF StackInv, Top

(* The sweep goes on.                                                      *)
LEMMA MovedStack ==
  ASSUME TypeOK, StackInv, calls # <<>>, Top.op \in SweepOps,
         NEW phase \in {"finalize", "call", "free"}, NEW at \in Nat,
         calls' = TopAt(phase, at), UNCHANGED <<frees, collecting>>
  PROVE  /\ StackInv' /\ Sweeps' = {Len(calls)}
         /\ calls'[Len(calls)].phase = phase /\ calls'[Len(calls)].at = at
<1>1. PICK n \in Nat : n = Len(calls) /\ n >= 1
  BY Popped
<1>2. Sweeps = {n} /\ calls[n] = Top
  BY <1>1, TopSweeps
<1>3. /\ Len(calls') = n
      /\ \A k \in 1..n : k # n => calls'[k] = calls[k]
      /\ calls'[n].op = Top.op /\ calls'[n].phase = phase /\ calls'[n].at = at
  <2>1. /\ Len(TopAt(phase, at)) = Len(calls)
        /\ \A k \in 1..Len(calls) : k # Len(calls) => TopAt(phase, at)[k] = calls[k]
        /\ TopAt(phase, at)[Len(calls)].op = Top.op
        /\ TopAt(phase, at)[Len(calls)].phase = phase
        /\ TopAt(phase, at)[Len(calls)].at = at
    BY Moved
  <2> QED
    BY <1>1, <2>1
<1>4. \A k \in 1..n : calls'[k].op = calls[k].op
  BY <1>2, <1>3
<1>5. Sweeps' = {n}
  BY <1>1, <1>2, <1>3, <1>4 DEF Sweeps
<1>6. InDestroy' <=> InDestroy
  <2>1. calls \in Seq(Frame) /\ calls' \in Seq(Frame)
    BY CallsTyped DEF TypeOK
  <2>2. DOMAIN calls = 1..n /\ DOMAIN calls' = 1..n
    BY <1>1, <1>3, <2>1, LenProperties
  <2> QED
    BY <1>4, <2>2 DEF InDestroy
<1>7. \A k \in 1..n : FrameOK(calls'[k])
  BY <1>1, <1>2, <1>3 DEF StackInv, FrameOK, SweepOps
<1>8. \A k \in 1..n : k # n => calls'[k].phase \in {"call", "recheck"}
  BY <1>1, <1>3 DEF StackInv
<1>9. (\E k \in 1..n : calls'[k].op = "collect") <=> (\E k \in 1..n : calls[k].op = "collect")
  BY <1>4
<1>10. StackInv'
  BY <1>1, <1>3, <1>4, <1>5, <1>6, <1>7, <1>8, <1>9 DEF StackInv
<1> QED
  BY <1>1, <1>3, <1>5, <1>10

(* An operation that is not a sweep returns.                               *)
LEMMA PoppedPlain ==
  ASSUME TypeOK, StackInv, calls # <<>>, Top.op \notin SweepOps, calls' = Pop,
         UNCHANGED <<frees, collecting>>
  PROVE  StackInv' /\ \A k \in Sweeps' : k \in Sweeps /\ calls'[k] = calls[k]
<1>1. PICK n \in Nat : /\ n = Len(calls) /\ n >= 1 /\ Len(calls') = n - 1
                       /\ \A k \in 1..n - 1 : calls'[k] = calls[k]
                       /\ calls' \in Seq(Frame)
  BY Popped
<1>2. calls[n].op \notin SweepOps
  BY <1>1 DEF Top
<1>3. \A k \in 1..n - 1 : k \in 1..n /\ k # n
  OBVIOUS
<1>4. Sweeps' = Sweeps
  <2>1. \A k \in 1..n : k # n => k \in 1..n - 1
    OBVIOUS
  <2> QED
    BY <1>1, <1>2, <1>3, <2>1 DEF Sweeps
<1>5. (\E k \in 1..n - 1 : calls'[k].op = "collect") <=> (\E k \in 1..n : calls[k].op = "collect")
  BY <1>1, <1>2 DEF SweepOps
<1>6. InDestroy' => InDestroy /\ n - 1 >= 1
  <2>1. DOMAIN calls = 1..n /\ DOMAIN calls' = 1..n - 1
    BY <1>1, LenProperties DEF TypeOK
  <2> QED
    BY <1>1, <2>1 DEF InDestroy
<1>7. StackInv'
  <2>1. \A k \in 1..n - 1 : FrameOK(calls'[k]) /\ calls'[k].phase \in {"call", "recheck"}
    BY <1>1, <1>3 DEF StackInv
  <2>2. collecting' <=> \E k \in 1..Len(calls') : calls'[k].op = "collect"
    BY <1>1, <1>5 DEF StackInv
  <2>3. InDestroy' => calls'[1].op = "destroy" /\ \A k \in 1..Len(calls') : calls'[k].op # "reregister"
    BY <1>1, <1>3, <1>6 DEF StackInv
  <2>4. Sweeps' = {} => frees' = <<>>
    BY <1>4 DEF StackInv
  <2>5. \A k, m \in Sweeps' : k = m
    BY <1>4 DEF StackInv
  <2> QED
    BY <1>1, <2>1, <2>2, <2>3, <2>4, <2>5 DEF StackInv
<1>8. \A k \in Sweeps' : k \in 1..n - 1
  BY <1>1 DEF Sweeps
<1> QED
  BY <1>1, <1>4, <1>7, <1>8

(* The sweep ends.                                                         *)
LEMMA PoppedSweep ==
  ASSUME TypeOK, StackInv, calls # <<>>, Top.op \in SweepOps, calls' = Pop,
         frees' = <<>>, collecting' = FALSE
  PROVE  StackInv' /\ Sweeps' = {}
<1>1. PICK n \in Nat : /\ n = Len(calls) /\ n >= 1 /\ Len(calls') = n - 1
                       /\ \A k \in 1..n - 1 : calls'[k] = calls[k]
                       /\ calls' \in Seq(Frame)
  BY Popped
<1>2. Sweeps = {n}
  BY <1>1, TopSweeps
<1>3. \A k \in 1..n - 1 : k \in 1..n /\ k # n
  OBVIOUS
<1>4. \A k \in 1..n - 1 : calls'[k].op \notin SweepOps
  BY <1>1, <1>2, <1>3 DEF Sweeps
<1>5. Sweeps' = {}
  BY <1>1, <1>4 DEF Sweeps
<1>6. ~InDestroy'
  <2>1. DOMAIN calls' = 1..n - 1
    BY <1>1, LenProperties
  <2> QED
    BY <1>4, <2>1 DEF InDestroy, SweepOps
<1>7. \A k \in 1..n - 1 : FrameOK(calls'[k]) /\ calls'[k].phase \in {"call", "recheck"} /\ calls'[k].op # "collect"
  BY <1>1, <1>3, <1>4 DEF StackInv, SweepOps
<1>8. ~ collecting'
  OBVIOUS
<1> QED
  BY <1>1, <1>5, <1>6, <1>7, <1>8 DEF StackInv

(* The program deallocates a block with a finalizer.                       *)
LEMMA PushedDealloc ==
  ASSUME TypeOK, StackInv, UserTurn, NEW p \in Heap, calls' = Append(calls, DeallocFrame(p)),
         frees = <<>> => frees' = <<>>, collecting' = collecting
  PROVE  StackInv' /\ \A k \in Sweeps' : k \in Sweeps /\ calls'[k] = calls[k]
<1>1. /\ DeallocFrame(p) \in Frame /\ DeallocFrame(p).op = "dealloc" /\ DeallocFrame(p).phase = "call"
  BY DEF DeallocFrame, Frame, Addr
<1>2. PICK n \in Nat : /\ n = Len(calls) /\ Len(calls') = n + 1
                       /\ \A k \in 1..n : calls'[k] = calls[k]
                       /\ calls'[n + 1] = DeallocFrame(p)
                       /\ calls' \in Seq(Frame)
  <2>1. calls \in Seq(Frame) /\ Len(calls) \in Nat
    BY LenProperties DEF TypeOK
  <2> QED
    BY <1>1, <2>1, Pushed
<1>3. \A k \in 1..n + 1 : k = n + 1 \/ k \in 1..n
  OBVIOUS
<1>4. \A k \in 1..n : k \in 1..n + 1
  OBVIOUS
<1>5. Sweeps' = Sweeps
  BY <1>1, <1>2, <1>3, <1>4 DEF Sweeps, SweepOps
<1>6. \A k \in 1..n : calls[k].phase \in {"call", "recheck"}
  <2>1. n >= 1 => calls # <<>> /\ calls[n].phase = "call"
    BY <1>2 DEF UserTurn, Top
  <2> QED
    BY <1>2, <2>1 DEF StackInv
<1>7. InDestroy' => InDestroy /\ n >= 1
  <2>1. DOMAIN calls = 1..n /\ DOMAIN calls' = 1..n + 1
    BY <1>2, LenProperties DEF TypeOK
  <2> QED
    BY <1>1, <1>2, <1>3, <2>1 DEF InDestroy
<1>8. StackInv'
  <2>1. \A k \in 1..n + 1 : FrameOK(calls'[k])
    BY <1>1, <1>2, <1>3 DEF StackInv, FrameOK
  <2>2. \A k \in 1..n + 1 : k # n + 1 => calls'[k].phase \in {"call", "recheck"}
    BY <1>2, <1>3, <1>6
  <2>3. collecting' <=> \E k \in 1..n + 1 : calls'[k].op = "collect"
    BY <1>1, <1>2, <1>3, <1>4 DEF StackInv
  <2>4. InDestroy' => calls'[1].op = "destroy" /\ \A k \in 1..n + 1 : calls'[k].op # "reregister"
    BY <1>1, <1>2, <1>3, <1>7 DEF StackInv
  <2>5. \A k, m \in Sweeps' : k = m
    BY <1>5 DEF StackInv
  <2>6. Sweeps' = {} => frees' = <<>>
    BY <1>5 DEF StackInv
  <2> QED
    BY <1>2, <2>1, <2>2, <2>3, <2>4, <2>5, <2>6 DEF StackInv
<1>9. \A k \in Sweeps : k \in 1..n
  BY <1>2 DEF Sweeps
<1> QED
  BY <1>2, <1>5, <1>8, <1>9

(* The invariant holds at first,                                           *)
LEMMA SweepInit == Init => SweepInv
<1> SUFFICES ASSUME Init PROVE SweepInv
  OBVIOUS
<1>1. calls = <<>> /\ Len(calls) = 0 /\ DOMAIN calls = {} /\ frees = <<>> /\ ~collecting /\ status = "run"
  BY DEF Init
<1>2. Sweeps = {} /\ ~InDestroy
  BY <1>1 DEF Sweeps, InDestroy
<1>3. StackInv
  BY <1>1, <1>2 DEF StackInv
<1>4. ListInv
  BY <1>1, <1>2 DEF ListInv, Distinct
<1> QED
  BY <1>1, <1>3, <1>4 DEF SweepInv, ChecksHold

(* Steps that change neither the tracked blocks nor any operation          *)
LEMMA SweepStill ==
  ASSUME SweepInv, UNCHANGED <<items, calls, collecting, frees, status>>
  PROVE  SweepInv'
BY DEF SweepInv, StackInv, Sweeps, InDestroy, ListInv, Distinct, ChecksHold

(* What the operations of the program do to a sweep: each case of Next     *)
(* that the program takes.                                                 *)
LEMMA ProgramKeepsSweep ==
  ASSUME QuietDestroy, TypeOK, TypeOK', OnceInv, SweepInv,
         \/ \E p \in Heap, n \in Sizes, kind \in Kinds : Alloc(p, n, kind)
         \/ \E p \in External, kind \in Kinds : RegisterExtern(p, Word, kind)
         \/ \E p \in External : Unregister(p)
         \/ \E p \in Heap : Dealloc(p)
         \/ \E p \in Heap, n \in Sizes : ReallocInPlace(p, n)
         \/ \E p, q \in Heap, n \in Sizes : ReallocMoved(p, q, n)
         \/ Collect
  PROVE  SweepInv'
<1>0. StackInv /\ ListInv /\ status # "panic"
  BY DEF SweepInv, ChecksHold
<1>t. DOMAIN items \subseteq Addr /\ DOMAIN items' \subseteq Addr /\ DOMAIN items \cap Heap \subseteq alloced
  BY DEF TypeOK, OnceInv, LeavingInv
<1>e. <<>> \in Seq(Frame) /\ \A k \in 1..Len(<<>>) : <<>>[k] = ReregisterFrame
  BY EmptySeq
<1>q. MayUseGC => ~InDestroy /\ UserTurn
  BY DEF MayUseGC
<1>1. ASSUME NEW p \in Heap, NEW n \in Sizes, NEW kind \in Kinds, Alloc(p, n, kind)
      PROVE  SweepInv'
  <2>1. p \notin DOMAIN items /\ ~InDestroy
    BY <1>1, <1>q, <1>t DEF Alloc
  <2>2. /\ Track(items, p, NewItem(n, kind, FALSE)) /\ status' = status
        /\ MaybeCollect(frees, condemned, <<>>)
    BY <1>1, <2>1 DEF Alloc
  <2>3. \A q \in DOMAIN items : q \in DOMAIN items' /\ items'[q] = items[q]
    BY <2>1, <2>2 DEF Track, With
  <2>4. Follows(frees) /\ Distinct(frees)
    BY <1>0, <2>3, FollowsSame
  <2>5. StackInv' /\ ListInv'
    BY <1>0, <1>e, <1>t, <2>1, <2>2, <2>4, MayCollect
  <2> QED
    BY <1>0, <2>2, <2>5 DEF SweepInv, ChecksHold
<1>2. ASSUME NEW p \in External, NEW kind \in Kinds, RegisterExtern(p, Word, kind)
      PROVE  SweepInv'
  <2>1. p \notin DOMAIN items /\ ~InDestroy
    BY <1>2, <1>q DEF RegisterExtern
  <2>2. /\ Track(items, p, NewItem(Word, kind, TRUE)) /\ status' = status
        /\ MaybeCollect(frees, condemned, <<>>)
    BY <1>2 DEF RegisterExtern
  <2>3. \A q \in DOMAIN items : q \in DOMAIN items' /\ items'[q] = items[q]
    BY <2>1, <2>2 DEF Track, With
  <2>4. Follows(frees) /\ Distinct(frees)
    BY <1>0, <2>3, FollowsSame
  <2>5. StackInv' /\ ListInv'
    BY <1>0, <1>e, <1>t, <2>1, <2>2, <2>4, MayCollect
  <2> QED
    BY <1>0, <2>2, <2>5 DEF SweepInv, ChecksHold
<1>3. ASSUME NEW p \in External, Unregister(p)
      PROVE  SweepInv'
  <2>1. /\ items' = Without(items, p) /\ frees' = Patched(p, NIL) /\ p \in Addr
        /\ UNCHANGED <<calls, collecting, status>>
    BY <1>3 DEF Unregister, Forget, Addr
  <2>2. Follows(frees') /\ Distinct(frees') /\ (frees = <<>> => frees' = <<>>)
    BY <1>0, <2>1, FollowsGone
  <2>3. StackInv'
    BY <1>0, <2>1, <2>2, StackSame
  <2>4. \A k \in Sweeps' : k \in Sweeps /\ calls'[k] = calls[k]
    BY <2>1 DEF Sweeps
  <2>5. ListInv'
    BY <1>0, <2>2, <2>4, ListKept
  <2> QED
    BY <1>0, <2>1, <2>3, <2>5 DEF SweepInv, ChecksHold
<1>4. ASSUME NEW p \in Heap, Dealloc(p)
      PROVE  SweepInv'
  <2>1. /\ items' = Without(items, p) /\ frees' = Patched(p, NIL) /\ p \in Addr /\ UserTurn
        /\ calls' = calls \/ calls' = Append(calls, DeallocFrame(p))
        /\ UNCHANGED <<collecting, status>>
    BY <1>4 DEF Dealloc, Forget, Addr
  <2>2. Follows(frees') /\ Distinct(frees') /\ (frees = <<>> => frees' = <<>>)
    BY <1>0, <2>1, FollowsGone
  <2>3. StackInv' /\ \A k \in Sweeps' : k \in Sweeps /\ calls'[k] = calls[k]
    <3>1. CASE calls' = calls
      BY <1>0, <2>1, <2>2, <3>1, StackSame DEF Sweeps
    <3>2. CASE calls' = Append(calls, DeallocFrame(p))
      BY <1>0, <2>1, <2>2, <3>2, PushedDealloc
    <3> QED
      BY <2>1, <3>1, <3>2
  <2>4. ListInv'
    BY <1>0, <2>2, <2>3, ListKept
  <2> QED
    BY <1>0, <2>1, <2>3, <2>4 DEF SweepInv, ChecksHold
<1>5. ASSUME NEW p \in Heap, NEW n \in Sizes, ReallocInPlace(p, n)
      PROVE  SweepInv'
  <2>1. /\ items' = [items EXCEPT ![p].size = n] /\ status' = status /\ ~InDestroy
        /\ \/ MaybeCollect(frees, condemned, <<>>)
           \/ UNCHANGED <<frees, calls, collecting>>
    BY <1>5, <1>q DEF ReallocInPlace
  <2>2. \A q \in DOMAIN items : q \in DOMAIN items' /\ items'[q].fin = items[q].fin
    BY <2>1 DEF TypeOK, Item
  <2>3. Follows(frees) /\ Distinct(frees)
    BY <1>0, <2>2, FollowsSame
  <2>4. StackInv' /\ ListInv'
    <3>1. CASE MaybeCollect(frees, condemned, <<>>)
      BY <1>0, <1>e, <1>t, <2>1, <2>3, <3>1, MayCollect
    <3>2. CASE UNCHANGED <<frees, calls, collecting>>
      <4>1. StackInv'
        BY <1>0, <3>2, StackSame
      <4>2. \A k \in Sweeps' : k \in Sweeps /\ calls'[k] = calls[k]
        BY <3>2 DEF Sweeps
      <4> QED
        BY <1>0, <2>3, <3>2, <4>1, <4>2, ListKept
    <3> QED
      BY <2>1, <3>1, <3>2
  <2> QED
    BY <1>0, <2>1, <2>4 DEF SweepInv, ChecksHold
<1>6. ASSUME NEW p \in Heap, NEW q \in Heap, NEW n \in Sizes, ReallocMoved(p, q, n)
      PROVE  SweepInv'
  <2> DEFINE its == Without(items, p)
             item == [items[p] EXCEPT !.size = n]
             below == IF n > items[p].size THEN <<ReregisterFrame>> ELSE <<>>
             cnd == IF p \in condemned THEN (condemned \ {p}) \cup {q} ELSE condemned
  <2>1. /\ q \notin DOMAIN items /\ p \in DOMAIN items /\ p # q /\ p \in Addr /\ q \in Addr
        /\ items[p] \in Item /\ ~InDestroy /\ UserTurn
    BY <1>6, <1>q, <1>t DEF ReallocMoved, TypeOK, Addr
  <2>2. Track(its, q, item) /\ status' = status /\ MaybeCollect(Patched(p, q), cnd, below)
    BY <1>6, <2>1 DEF ReallocMoved
  <2>3. item.fin = items[p].fin /\ [item EXCEPT !.leaf = @ \/ item.size < Word].fin = item.fin
    BY <2>1 DEF Item
  <2>4. items' = With(its, q, [item EXCEPT !.leaf = @ \/ item.size < Word])
    BY <2>2 DEF Track
  <2>5. DOMAIN its = DOMAIN items \ {p} /\ \A r \in DOMAIN its : its[r] = items[r]
    BY DEF Without
  <2>6. below \in Seq(Frame) /\ \A k \in 1..Len(below) : below[k] = ReregisterFrame
    <3>1. ReregisterFrame \in Frame
      BY DEF ReregisterFrame, Frame
    <3>2. CASE n > items[p].size
      BY <3>1, <3>2
    <3>3. CASE ~ (n > items[p].size)
      BY <3>3
    <3> QED
      BY <3>2, <3>3
  <2> HIDE DEF its, item, below, cnd
  <2>7. DOMAIN items' = (DOMAIN items \ {p}) \cup {q}
    BY <2>4, <2>5 DEF With
  <2>8. items'[q].fin = items[p].fin /\ \A r \in DOMAIN items \ {p} : items'[r] = items[r]
    BY <2>1, <2>3, <2>4, <2>5 DEF With
  <2>9. \A i \in 1..Len(frees) : frees[i] # NIL => frees[i] \in DOMAIN items
    BY <1>0, <2>1, UserLists
  <2>10. Follows(Patched(p, q)) /\ Distinct(Patched(p, q)) /\ (frees = <<>> => Patched(p, q) = <<>>)
    BY <1>0, <2>1, <2>7, <2>8, <2>9, FollowsMoved
  <2>11. StackInv' /\ ListInv'
    BY <1>0, <1>t, <2>1, <2>2, <2>6, <2>10, MayCollect
  <2> QED
    BY <1>0, <2>2, <2>11 DEF SweepInv, ChecksHold
<1>7. CASE Collect
  <2>1. ~InDestroy /\ ~collecting /\ Cycle(frees, calls) /\ status' = status
    BY <1>7, <1>q DEF Collect
  <2>2. frees = <<>> /\ \A k \in 1..Len(calls) : FrameOK(calls[k]) /\ calls[k].op \notin SweepOps
    BY <1>0, <2>1, NoSweep
  <2>3. Cycle(<<>>, calls) /\ calls \in Seq(Frame)
    BY <2>1, <2>2 DEF TypeOK
  <2>4. StackInv' /\ ListInv'
    BY <1>t, <2>2, <2>3, CycleSweeps
  <2> QED
    BY <1>0, <2>1, <2>4 DEF SweepInv, ChecksHold
<1> QED
  BY <1>1, <1>2, <1>3, <1>4, <1>5, <1>6, <1>7

(* A sweep that stays where it is in its list, or moves on in it           *)
LEMMA ListMoves ==
  ASSUME TypeOK, StackInv, ListInv, calls # <<>>, Top.op \in SweepOps,
         NEW phase \in {"finalize", "call", "free"}, NEW at \in Nat,
         calls' = TopAt(phase, at), UNCHANGED <<frees, collecting>>,
         \A i \in 1..Len(frees) : frees[i] # NIL /\ (phase = "free" => i > at) =>
           /\ frees[i] \in DOMAIN items'
           /\ phase = "free" \/ i <= at => ~items'[frees[i]].fin
  PROVE  StackInv' /\ ListInv'
<1>1. /\ StackInv' /\ Sweeps' = {Len(calls)}
      /\ calls'[Len(calls)].phase = phase /\ calls'[Len(calls)].at = at
  BY MovedStack
<1>2. Distinct(frees)
  BY DEF ListInv
<1> QED
  BY <1>1, <1>2 DEF ListInv, Listing, Passed, Distinct

(* What the list holds when the sweep is the innermost operation           *)
LEMMA TopLists ==
  ASSUME TypeOK, StackInv, ListInv, calls # <<>>, Top.op \in SweepOps
  PROVE  /\ Top.phase \in {"finalize", "call", "free"} /\ Top.at \in Nat
         /\ \A i \in 1..Len(frees) : frees[i] # NIL /\ (Top.phase = "free" => i > Top.at) =>
              /\ frees[i] \in DOMAIN items
              /\ Top.phase = "free" \/ i <= Top.at => ~items[frees[i]].fin
         /\ \A i, j \in 1..Len(frees) : i # j /\ frees[i] # NIL => frees[i] # frees[j]
         /\ Len(frees) \in Nat
<1>1. PICK n \in Nat : n >= 1 /\ n = Len(calls) /\ calls[n] = Top /\ n \in Sweeps
  BY TopSweeps
<1>2. FrameOK(Top)
  BY <1>1 DEF StackInv
<1>3. Top.phase \in {"finalize", "call", "free"} /\ Top.at \in Nat
  BY <1>2, CallsTyped DEF FrameOK, SweepOps, Frame
<1>4. \A i \in 1..Len(frees) : frees[i] # NIL /\ (Top.phase = "free" => i > Top.at) =>
              /\ frees[i] \in DOMAIN items
              /\ Top.phase = "free" \/ i <= Top.at => ~items[frees[i]].fin
  BY <1>1 DEF ListInv, Listing, Passed
<1>5. Len(frees) \in Nat
  BY LenProperties DEF TypeOK
<1> QED
  BY <1>3, <1>4, <1>5 DEF ListInv, Distinct

(* What the steps of a sweep do to it                                      *)
LEMMA CollectorKeepsSweep ==
  ASSUME TypeOK, TypeOK', SweepInv,
         Recheck \/ CallFinalizer \/ FinalizerReturn \/ FreeNext \/ EndCollect \/ Destroy \/ EndDestroy
  PROVE  SweepInv'
<1>0. StackInv /\ ListInv /\ status # "panic"
  BY DEF SweepInv, ChecksHold
<1>t. DOMAIN items \subseteq Addr /\ DOMAIN items' \subseteq Addr
  BY DEF TypeOK
<1>1. CASE Recheck
  <2>1. /\ calls # <<>> /\ Top.phase = "recheck" /\ UNCHANGED <<items, status>>
        /\ \/ Triggers /\ Cycle(frees, Pop)
           \/ calls' = Pop /\ UNCHANGED <<frees, collecting>>
    BY <1>1 DEF Recheck
  <2>2. PICK n \in Nat : /\ n >= 1 /\ n = Len(calls) /\ Len(Pop) = n - 1 /\ Pop \in Seq(Frame)
                         /\ \A k \in 1..n - 1 : Pop[k] = calls[k]
    BY <2>1, Popped
  <2>3. FrameOK(calls[n]) /\ calls[n] = Top
    BY <1>0, <2>2 DEF StackInv, Top
  <2>4. Top.op = "reregister"
    BY <2>1, <2>3 DEF FrameOK
  <2>5. ~InDestroy
    BY <1>0, <2>2, <2>3, <2>4 DEF StackInv
  <2>6. StackInv' /\ ListInv'
    <3>1. CASE calls' = Pop /\ UNCHANGED <<frees, collecting>>
      <4>1. StackInv' /\ \A k \in Sweeps' : k \in Sweeps /\ calls'[k] = calls[k]
        BY <1>0, <2>1, <2>4, <3>1, PoppedPlain DEF SweepOps
      <4>2. Follows(frees) /\ Distinct(frees)
        BY <1>0, <2>1, FollowsSame
      <4> QED
        BY <1>0, <3>1, <4>1, <4>2, ListKept
    <3>2. CASE Triggers /\ Cycle(frees, Pop)
      <4>1. frees = <<>> /\ \A k \in 1..n : FrameOK(calls[k]) /\ calls[k].op \notin SweepOps
        BY <1>0, <2>2, <2>5, <3>2, NoSweep DEF Triggers
      <4>2. \A k \in 1..n - 1 : k \in 1..n
        OBVIOUS
      <4>3. \A k \in 1..Len(Pop) : FrameOK(Pop[k]) /\ Pop[k].op \notin SweepOps
        BY <2>2, <4>1, <4>2
      <4>4. Cycle(<<>>, Pop)
        BY <3>2, <4>1
      <4> QED
        BY <1>t, <2>2, <4>3, <4>4, CycleSweeps
    <3> QED
      BY <2>1, <3>1, <3>2
  <2> QED
    BY <1>0, <2>1, <2>6 DEF SweepInv, ChecksHold
<1>2. CASE CallFinalizer
  <2>1. calls # <<>> /\ Top.op \in SweepOps /\ Top.phase = "finalize" /\ Due # {}
    BY <1>2 DEF CallFinalizer, Sweeping, SweepOps
  <2>2. /\ Top.at \in Nat /\ Len(frees) \in Nat
        /\ \A i \in 1..Len(frees) : frees[i] # NIL =>
              frees[i] \in DOMAIN items /\ (i <= Top.at => ~items[frees[i]].fin)
    BY <1>0, <2>1, TopLists
  <2> DEFINE m == First(Due)
  <2>3. m \in Due /\ \A j \in Due : m <= j
    <3>1. Due \subseteq Nat
      BY <2>2 DEF Due
    <3> QED
      BY <2>1, <3>1, FirstIsFirst
  <2> HIDE DEF m
  <2>4. m \in Nat /\ m \in 1..Len(frees) /\ m > Top.at /\ frees[m] # NIL
    BY <2>2, <2>3 DEF Due
  <2>5. frees[m] \in DOMAIN items
    BY <2>2, <2>4
  <2>6. /\ items' = [items EXCEPT ![frees[m]].fin = FALSE] /\ calls' = TopAt("call", m)
        /\ UNCHANGED <<frees, collecting, status>>
    BY <1>2, <2>5 DEF CallFinalizer, Claimed, m
  <2>7. /\ DOMAIN items' = DOMAIN items /\ items'[frees[m]].fin = FALSE
        /\ \A q \in DOMAIN items : q # frees[m] => items'[q] = items[q]
    BY <2>5, <2>6 DEF TypeOK, Item
  <2>8. ASSUME NEW i \in 1..Len(frees), frees[i] # NIL
        PROVE  frees[i] \in DOMAIN items' /\ (i <= m => ~items'[frees[i]].fin)
    <3>1. frees[i] \in DOMAIN items
      BY <2>2, <2>8
    <3>2. ASSUME i <= m, frees[i] # frees[m]
          PROVE  ~items[frees[i]].fin
      <4>1. i # m
        BY <3>2
      <4>2. i \notin Due
        BY <2>2, <2>3, <2>4, <3>2, <4>1
      <4>3. CASE i <= Top.at
        BY <2>2, <2>8, <4>3
      <4>4. CASE i > Top.at
        <5>1. i \in (Top.at + 1)..Len(frees)
          BY <2>2, <4>4
        <5> QED
          BY <2>8, <4>2, <5>1 DEF Due
      <4> QED
        BY <2>2, <4>3, <4>4
    <3>3. CASE frees[i] = frees[m]
      BY <2>7, <3>1, <3>3
    <3>4. CASE frees[i] # frees[m]
      BY <2>7, <3>1, <3>2, <3>4
    <3> QED
      BY <3>3, <3>4
  <2>9. StackInv' /\ ListInv'
    BY <1>0, <2>1, <2>4, <2>6, <2>8, ListMoves
  <2> QED
    BY <1>0, <2>6, <2>9 DEF SweepInv, ChecksHold
<1>3. CASE FinalizerReturn
  <2>1. /\ calls # <<>> /\ Top.phase = "call" /\ UNCHANGED <<items, frees, collecting, status>>
        /\ calls' = IF Top.op = "dealloc" THEN Pop ELSE TopAt("finalize", Top.at)
    BY <1>3 DEF FinalizerReturn
  <2>2. FrameOK(Top)
    BY <1>0, <2>1, Popped DEF StackInv, Top
  <2>3. CASE Top.op = "dealloc"
    <3>1. StackInv' /\ \A k \in Sweeps' : k \in Sweeps /\ calls'[k] = calls[k]
      BY <1>0, <2>1, <2>3, PoppedPlain DEF SweepOps
    <3>2. Follows(frees) /\ Distinct(frees)
      BY <1>0, <2>1, FollowsSame
    <3>3. ListInv'
      BY <1>0, <2>1, <3>1, <3>2, ListKept
    <3> QED
      BY <1>0, <2>1, <3>1, <3>3 DEF SweepInv, ChecksHold
  <2>4. CASE Top.op # "dealloc"
    <3>1. Top.op \in SweepOps
      BY <2>1, <2>2, <2>4 DEF FrameOK
    <3>2. /\ Top.at \in Nat
          /\ \A i \in 1..Len(frees) : frees[i] # NIL =>
                frees[i] \in DOMAIN items' /\ (i <= Top.at => ~items'[frees[i]].fin)
      BY <1>0, <2>1, <3>1, TopLists
    <3>3. calls' = TopAt("finalize", Top.at)
      BY <2>1, <2>4
    <3>4. StackInv' /\ ListInv'
      BY <1>0, <2>1, <3>1, <3>2, <3>3, ListMoves
    <3> QED
      BY <1>0, <2>1, <3>4 DEF SweepInv, ChecksHold
  <2> QED
    BY <2>3, <2>4
<1>4. CASE FreeNext
  <2>1. calls # <<>> /\ Top.op \in SweepOps /\ Unfreed # {}
        /\ (Top.phase = "free" \/ (Top.phase = "finalize" /\ Due = {}))
    BY <1>4 DEF FreeNext, Freeing, Sweeping, SweepOps
  <2>2. /\ Top.at \in Nat /\ Len(frees) \in Nat
        /\ \A i \in 1..Len(frees) : frees[i] # NIL /\ (Top.phase = "free" => i > Top.at) =>
              /\ frees[i] \in DOMAIN items
              /\ Top.phase = "free" \/ i <= Top.at => ~items[frees[i]].fin
        /\ \A i, j \in 1..Len(frees) : i # j /\ frees[i] # NIL => frees[i] # frees[j]
    BY <1>0, <2>1, TopLists
  <2> DEFINE m == First(Unfreed)
  <2>3. m \in Unfreed
    <3>1. Unfreed \subseteq Nat
      BY <2>2 DEF Unfreed
    <3> QED
      BY <2>1, <3>1, FirstIsFirst
  <2> HIDE DEF m
  <2>4. m \in Nat /\ m \in 1..Len(frees) /\ frees[m] # NIL /\ (Top.phase = "free" => m > Top.at)
    BY <2>1, <2>2, <2>3 DEF Unfreed
  <2>5. frees[m] \in DOMAIN items
    BY <2>2, <2>4
  <2>6. /\ items' = Without(items, frees[m]) /\ calls' = TopAt("free", m)
        /\ UNCHANGED <<frees, collecting, status>>
    BY <1>4, <2>5 DEF FreeNext, Forget, m
  <2>7. ASSUME NEW i \in 1..Len(frees), frees[i] # NIL, i > m
        PROVE  frees[i] \in DOMAIN items' /\ ~items'[frees[i]].fin
    <3>1. Top.phase = "free" => i > Top.at
      BY <2>2, <2>4, <2>7
    <3>2. frees[i] \in DOMAIN items /\ frees[i] # frees[m]
      BY <2>2, <2>4, <2>7, <3>1
    <3>3. ~items[frees[i]].fin
      <4>1. CASE Top.phase = "free" \/ i <= Top.at
        BY <2>2, <2>7, <3>1, <4>1
      <4>2. CASE ~ (Top.phase = "free" \/ i <= Top.at)
        <5>1. Due = {} /\ i \in (Top.at + 1)..Len(frees)
          BY <2>1, <2>2, <4>2
        <5> QED
          BY <2>7, <3>2, <5>1 DEF Due
      <4> QED
        BY <4>1, <4>2
    <3> QED
      BY <2>6, <3>2, <3>3 DEF Without
  <2>8. StackInv' /\ ListInv'
    BY <1>0, <2>1, <2>4, <2>6, <2>7, ListMoves
  <2> QED
    BY <1>0, <2>6, <2>8 DEF SweepInv, ChecksHold
<1>5. CASE EndCollect \/ EndDestroy
  <2>1. /\ calls # <<>> /\ Top.op \in SweepOps /\ calls' = Pop /\ frees' = <<>> /\ collecting' = FALSE
        /\ status' \in {status, "exited"}
    BY <1>5 DEF EndCollect, EndDestroy, Freeing, Sweeping, SweepOps
  <2>2. StackInv' /\ Sweeps' = {}
    BY <1>0, <2>1, PoppedSweep
  <2>3. ListInv'
    BY <2>1, <2>2 DEF ListInv, Distinct
  <2> QED
    BY <1>0, <2>1, <2>2, <2>3 DEF SweepInv, ChecksHold
<1>6. CASE Destroy
  <2> DEFINE garbage == DOMAIN items \ RootItems
  <2>1. /\ calls = <<>> /\ UNCHANGED <<items, status, collecting>>
        /\ BeginSweep("destroy", garbage, frees, <<>>)
    BY <1>6 DEF Destroy
  <2>2. Len(calls) = 0
    BY <2>1
  <2>3. frees = <<>> /\ ~collecting
    BY <1>0, <2>2 DEF StackInv, Sweeps
  <2>4. IsFiniteSet(garbage) /\ garbage \subseteq DOMAIN items
    BY <1>t, FS_Subset, GCAddresses
  <2>5. PICK s \in Orders(garbage) : frees' = <<>> \o s
    BY <2>1, <2>3 DEF BeginSweep
  <2>6. calls' = <<SweepFrame("destroy")>>
    BY <2>1 DEF BeginSweep
  <2> HIDE DEF garbage
  <2>7. s \in Seq(garbage) /\ \A i, j \in DOMAIN s : i # j => s[i] # s[j]
    BY <2>4, OrdersAreSequences DEF Orders
  <2>8. frees' = s /\ DOMAIN s = 1..Len(s) /\ \A i \in 1..Len(s) : s[i] \in garbage
    BY <2>5, <2>7, LenProperties, ElementOfSeq
  <2>9. /\ Len(calls') = 1 /\ DOMAIN calls' = 1..1
        /\ calls'[1].op = "destroy" /\ calls'[1].phase = "finalize" /\ calls'[1].at = 0
    BY <2>6 DEF SweepFrame
  <2>10. Sweeps' = {1}
    BY <2>9 DEF Sweeps, SweepOps
  <2>11. StackInv'
    BY <2>1, <2>3, <2>9, <2>10 DEF StackInv, FrameOK, SweepOps
  <2>12. \A i \in 1..Len(s) : ~Passed(calls'[1], i)
    BY <2>9 DEF Passed
  <2>13. ListInv'
    BY <2>1, <2>4, <2>7, <2>8, <2>10, <2>12 DEF ListInv, Distinct
  <2> QED
    BY <1>0, <2>1, <2>11, <2>13 DEF SweepInv, ChecksHold
<1> QED
  BY <1>1, <1>2, <1>3, <1>4, <1>5, <1>6

(* and every step keeps it, by cases on the step.                          *)
LEMMA SweepNext ==
  ASSUME QuietDestroy
  PROVE  TypeOK /\ OnceInv /\ SweepInv /\ [Next]_vars => SweepInv'
<1> SUFFICES ASSUME TypeOK, OnceInv, SweepInv, [Next]_vars PROVE SweepInv'
  OBVIOUS
<1>0. TypeOK'
  BY TypeNext
<1>1. CASE \/ \E p \in Heap, n \in Sizes, kind \in Kinds : Alloc(p, n, kind)
           \/ \E p \in External, kind \in Kinds : RegisterExtern(p, Word, kind)
           \/ \E p \in External : Unregister(p)
           \/ \E p \in Heap : Dealloc(p)
           \/ \E p \in Heap, n \in Sizes : ReallocInPlace(p, n)
           \/ \E p, q \in Heap, n \in Sizes : ReallocMoved(p, q, n)
           \/ Collect
  BY <1>0, <1>1, ProgramKeepsSweep
<1>2. CASE Recheck \/ CallFinalizer \/ FinalizerReturn \/ FreeNext \/ EndCollect \/ Destroy \/ EndDestroy
  BY <1>0, <1>2, CollectorKeepsSweep
<1>3. ASSUME \/ \E run \in Modes, pct \in Pauses : Configure(run, pct)
             \/ \E p \in Addr, a \in Addr : Load(p, a)
             \/ \E p \in Addr, W \in {{}} \cup {{a} : a \in stack} : Store(p, W)
             \/ \E a \in Addr : Drop(a)
             \/ Stopped
             \/ UNCHANGED vars
      PROVE  SweepInv'
  <2>1. UNCHANGED <<items, calls, collecting, frees, status>>
    BY <1>3 DEF Configure, Load, Store, Drop, Program, Stopped, vars
  <2> QED
    BY <2>1, SweepStill
<1> QED
  BY <1>1, <1>2, <1>3 DEF Next

(* GC:register and GC_sweep never find a block they do not expect, as long *)
(* as the finalizers that destroy calls leave the collector alone: the     *)
(* premise says of the program what gc.nelua:440 takes for granted.        *)
THEOREM ChecksNeverFail ==
  ASSUME QuietDestroy
  PROVE  Spec => []ChecksHold
<1>1. Init => TypeOK /\ OnceInv /\ SweepInv
  BY TypeInit, OnceInit, SweepInit
<1>2. TypeOK /\ OnceInv /\ SweepInv /\ [Next]_vars => (TypeOK /\ OnceInv /\ SweepInv)'
  BY TypeNext, OnceNext, SweepNext
<1>3. SweepInv => ChecksHold
  BY DEF SweepInv
<1> QED
  BY <1>1, <1>2, <1>3, PTL DEF Spec
==============================================================================
