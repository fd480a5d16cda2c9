----------------------------- MODULE GCFreeProofs -----------------------------
(***************************************************************************)
(* What the sweeps free: the blocks their cycle condemned and no others,   *)
(* none before its finalizer ran, and at exit all of them.                 *)
(***************************************************************************)
EXTENDS GCSweepProofs

(* Nothing is being freed unless the innermost operation does it.          *)
LEMMA NotFreeing ==
  ASSUME TypeOK, StackInv, calls # <<>> => Top.phase # "free"
  PROVE  ~InFreePhase
<1>1. PICK n \in Nat : n = Len(calls) /\ DOMAIN calls = 1..n
  BY LenProperties DEF TypeOK
<1>2. ASSUME NEW k \in 1..n
      PROVE  calls[k].phase # "free"
  <2>1. calls # <<>>
    BY <1>1, <1>2
  <2>2. CASE k = n
    BY <1>1, <2>1, <2>2 DEF Top
  <2>3. CASE k # n
    BY <1>1, <1>2, <2>3 DEF StackInv
  <2> QED
    BY <2>2, <2>3
<1> QED
  BY <1>1, <1>2 DEF InFreePhase

(* A block that the deallocation loop comes to is still tracked, and its   *)
(* finalizer is not owed any more.                                         *)
LEMMA FreedIsFinalized ==
  ASSUME TypeOK, SweepInv, Freeing, Unfreed # {}
  PROVE  frees[First(Unfreed)] \in DOMAIN items /\ ~items[frees[First(Unfreed)]].fin
<1>0. StackInv /\ ListInv
  BY DEF SweepInv
<1>1. /\ calls # <<>> /\ Top.op \in SweepOps
      /\ (Top.phase = "free" \/ (Top.phase = "finalize" /\ Due = {}))
  BY DEF Freeing, Sweeping, SweepOps
<1>2. /\ Top.at \in Nat /\ Len(frees) \in Nat
      /\ \A i \in 1..Len(frees) : frees[i] # NIL /\ (Top.phase = "free" => i > Top.at) =>
            /\ frees[i] \in DOMAIN items
            /\ Top.phase = "free" \/ i <= Top.at => ~items[frees[i]].fin
  BY <1>0, <1>1, TopLists
<1> DEFINE m == First(Unfreed)
<1>3. m \in Unfreed
  <2>1. Unfreed \subseteq Nat
    BY <1>2 DEF Unfreed
  <2> QED
    BY <2>1, FirstIsFirst
<1> HIDE DEF m
<1>4. m \in 1..Len(frees) /\ frees[m] # NIL /\ (Top.phase = "free" => m > Top.at)
  BY <1>1, <1>2, <1>3 DEF Unfreed
<1>5. frees[m] \in DOMAIN items
  BY <1>2, <1>4
<1>6. ~items[frees[m]].fin
  <2>1. CASE Top.phase = "free" \/ m <= Top.at
    BY <1>2, <1>4, <2>1
  <2>2. CASE ~ (Top.phase = "free" \/ m <= Top.at)
    <3>1. Due = {} /\ m \in (Top.at + 1)..Len(frees)
      BY <1>1, <1>2, <1>4, <2>2
    <3> QED
      BY <1>4, <1>5, <3>1 DEF Due
  <2> QED
    BY <2>1, <2>2
<1> QED
  BY <1>5, <1>6 DEF m

FinalizedFirst ==
  \A p \in alloced \ alloced' : fate[p] = "owed" => \E q \in alloced' \ alloced : fate'[q] = "owed"

(* Every step finalizes what it frees, or passes the debt on with a move.  *)
LEMMA FinalizedFirstNext ==
  ASSUME TypeOK, OnceInv, SweepInv, [Next]_vars
  PROVE  FinalizedFirst
<1>0. LeavingInv /\ FinalizerOnce
  BY DEF OnceInv
<1>t. fate \in [Addr -> {"none", "owed", "done"}] /\ Heap \subseteq Addr /\ alloced \subseteq Heap
  BY DEF TypeOK, Addr
<1>kept. ASSUME alloced \subseteq alloced' PROVE FinalizedFirst
  BY <1>kept DEF FinalizedFirst
<1>1. ASSUME NEW p \in Heap, NEW n \in Sizes, NEW kind \in Kinds, Alloc(p, n, kind)
      PROVE  FinalizedFirst
  BY <1>1, <1>kept DEF Alloc, Panic
<1>2. ASSUME NEW p \in Heap, Dealloc(p)
      PROVE  FinalizedFirst
  <2>1. p \in DOMAIN items /\ (alloced' = alloced \/ (~items[p].fin /\ alloced' = alloced \ {p}))
    BY <1>2 DEF Dealloc
  <2> QED
    BY <1>0, <2>1 DEF FinalizerOnce, FinalizedFirst
<1>3. ASSUME NEW p \in Heap, NEW q \in Heap, NEW n \in Sizes, ReallocMoved(p, q, n)
      PROVE  FinalizedFirst
  <2>1. CASE q \in DOMAIN items
    BY <1>3, <1>kept, <2>1 DEF ReallocMoved, Panic
  <2>2. CASE q \notin DOMAIN items
    <3>1. /\ p \in DOMAIN items /\ q \notin alloced /\ alloced' = (alloced \ {p}) \cup {q}
          /\ fate' = [fate EXCEPT ![p] = "none", ![q] = fate[p]]
      BY <1>3, <2>2 DEF ReallocMoved
    <3>2. fate'[q] = fate[p]
      BY <1>t, <2>2, <3>1
    <3> QED
      BY <3>1, <3>2 DEF FinalizedFirst
  <2> QED
    BY <2>1, <2>2
<1>4. CASE FinalizerReturn
  <2>1. CASE Top.op = "dealloc"
    <3>1. calls # <<>> /\ alloced' = alloced \ {Top.ptr}
      BY <1>4, <2>1 DEF FinalizerReturn
    <3>2. Len(calls) \in Outgoing /\ calls[Len(calls)] = Top
      BY <2>1, <3>1, Popped DEF Outgoing, Top
    <3>3. fate[Top.ptr] = "done"
      BY <1>0, <3>2 DEF LeavingInv
    <3> QED
      BY <3>1, <3>3 DEF FinalizedFirst
  <2>2. CASE Top.op # "dealloc"
    BY <1>4, <1>kept, <2>2 DEF FinalizerReturn
  <2> QED
    BY <2>1, <2>2
<1>5. CASE FreeNext
  <2> DEFINE p == frees[First(Unfreed)]
  <2>1. p \in DOMAIN items /\ ~items[p].fin
    BY <1>5, FreedIsFinalized DEF FreeNext
  <2>2. alloced' = alloced \/ alloced' = alloced \ {p}
    BY <1>5, <2>1 DEF FreeNext
  <2> HIDE DEF p
  <2> QED
    BY <1>0, <2>1, <2>2 DEF FinalizerOnce, FinalizedFirst
<1>6. ASSUME \/ \E p \in External, kind \in Kinds : RegisterExtern(p, Word, kind)
             \/ \E p \in External : Unregister(p)
             \/ \E p \in Heap, n \in Sizes : ReallocInPlace(p, n)
             \/ Recheck \/ Collect
             \/ \E run \in Modes, pct \in Pauses : Configure(run, pct)
             \/ \E p \in Addr, a \in Addr : Load(p, a)
             \/ \E p \in Addr, W \in {{}} \cup {{a} : a \in stack} : Store(p, W)
             \/ \E a \in Addr : Drop(a)
             \/ EndCollect \/ Destroy \/ EndDestroy \/ Stopped \/ UNCHANGED vars
      PROVE  FinalizedFirst
  <2>1. alloced' = alloced
    BY <1>6 DEF RegisterExtern, Unregister, ReallocInPlace, Recheck, Collect, Configure, Load,
                Store, Drop, Program, EndCollect, Destroy, EndDestroy, Stopped, memory, vars
  <2> QED
    BY <1>kept, <2>1
<1>7. CASE CallFinalizer
  <2>1. alloced' = alloced
    BY <1>7 DEF CallFinalizer, Panic
  <2> QED
    BY <1>kept, <2>1
<1> QED
  BY <1>1, <1>2, <1>3, <1>4, <1>5, <1>6, <1>7 DEF Next

(* No block goes away while its finalizer is owed, except that realloc     *)
(* moves it to an address that owes it in turn: not in a sweep, nor when   *)
(* finalizers of that sweep deallocate and move the blocks on its list.    *)
THEOREM NoneFreedUnfinalized ==
  ASSUME QuietDestroy
  PROVE  Spec => FinalizedBeforeFree
<1>1. Init => TypeOK /\ OnceInv /\ SweepInv
  BY TypeInit, OnceInit, SweepInit
<1>2. TypeOK /\ OnceInv /\ SweepInv /\ [Next]_vars => (TypeOK /\ OnceInv /\ SweepInv)'
  BY TypeNext, OnceNext, SweepNext
<1>3. TypeOK /\ OnceInv /\ SweepInv /\ [Next]_vars => [FinalizedFirst]_vars
  BY FinalizedFirstNext
<1>4. Spec => [][FinalizedFirst]_vars
  BY <1>1, <1>2, <1>3, PTL DEF Spec
<1> QED
  BY <1>4 DEF FinalizedBeforeFree, FinalizedFirst
-------------------------------------------------------------------------------
(* A sweep frees what its cycle condemned.                                 *)

Entries(frs) == {frs[i] : i \in 1..Len(frs)} \ {NIL}
CondemnedInv == ~InFreePhase => Entries(frees) = condemned

(* What is condemned is what is listed: the property follows.              *)
LEMMA CondemnedSuffices ==
  TypeOK /\ OnceInv /\ SweepInv /\ CondemnedInv => FreesAreCondemned
<1> SUFFICES ASSUME TypeOK, OnceInv, SweepInv, CondemnedInv, ~InFreePhase
             PROVE  /\ {frees[i] : i \in DOMAIN frees} \ {NIL} = condemned
                    /\ \A i, j \in DOMAIN frees : i # j /\ frees[i] # NIL => frees[i] # frees[j]
                    /\ condemned \subseteq DOMAIN items /\ condemned \cap Heap \subseteq alloced
  BY DEF FreesAreCondemned
<1>0. StackInv /\ ListInv /\ DOMAIN items \cap Heap \subseteq alloced
  BY DEF SweepInv, OnceInv, LeavingInv
<1>1. DOMAIN frees = 1..Len(frees) /\ DOMAIN calls = 1..Len(calls) /\ NIL \notin DOMAIN items
  BY LenProperties, GCAddresses DEF TypeOK, NIL
<1>2. Entries(frees) = condemned
  BY DEF CondemnedInv
<1>3. Entries(frees) \subseteq DOMAIN items
  <2>1. CASE Sweeps = {}
    BY <1>0, <2>1 DEF StackInv, Entries
  <2>2. ASSUME NEW k \in Sweeps
        PROVE  Entries(frees) \subseteq DOMAIN items
    <3>1. calls[k].phase # "free"
      BY <1>1, <2>2 DEF InFreePhase, Sweeps
    <3> QED
      BY <1>0, <2>2, <3>1 DEF ListInv, Listing, Entries
  <2> QED
    BY <2>1, <2>2
<1> QED
  BY <1>0, <1>1, <1>2, <1>3 DEF Entries, ListInv, Distinct

(* The list of a new sweep                                                 *)
LEMMA OrderEntries ==
  ASSUME NEW S, S \subseteq Addr, NEW s \in Orders(S), NEW frs, frs = <<>> \o s
  PROVE  Entries(frs) = S
<1>1. IsFiniteSet(S)
  BY FS_Subset, GCAddresses
<1>2. s \in Seq(S) /\ S = {s[i] : i \in DOMAIN s}
  BY <1>1, OrdersAreSequences
<1>3. frs = s /\ DOMAIN s = 1..Len(s)
  BY <1>2, LenProperties
<1>4. NIL \notin S
  BY GCAddresses DEF NIL
<1> QED
  BY <1>2, <1>3, <1>4 DEF Entries

(* A cycle lists exactly what it condemns.                                 *)
LEMMA CycleCondemns ==
  ASSUME DOMAIN items' \subseteq Addr, MarkIsReachability', NEW stk, Cycle(<<>>, stk)
  PROVE  CondemnedInv'
<1>1. PICK s \in Orders(DOMAIN items' \ Marked') : frees' = <<>> \o s
  BY DEF Cycle, BeginSweep
<1>2. DOMAIN items' \ Marked' \subseteq Addr
  OBVIOUS
<1>3. Entries(frees') = DOMAIN items' \ Marked'
  BY <1>1, <1>2, OrderEntries
<1>4. condemned' = DOMAIN items' \ Live' /\ Marked' = Live'
  BY DEF Cycle, MarkIsReachability
<1> QED
  BY <1>3, <1>4 DEF CondemnedInv

(* A step of the program keeps that, with a collection or without.         *)
LEMMA MayCondemn ==
  ASSUME TypeOK, StackInv, CondemnedInv, UserTurn, ~InDestroy, DOMAIN items' \subseteq Addr,
         MarkIsReachability', NEW frs, frees = <<>> => frs = <<>>, NEW cnd,
         Entries(frees) = condemned => Entries(frs) = cnd,
         NEW below, MaybeCollect(frs, cnd, below)
  PROVE  CondemnedInv'
<1>1. ~InFreePhase
  BY NotFreeing DEF UserTurn
<1>2. CASE ~Triggers
  BY <1>1, <1>2 DEF MaybeCollect, CondemnedInv, InFreePhase
<1>3. CASE Triggers
  <2>1. ~collecting /\ Cycle(frs, calls \o below)
    BY <1>3 DEF MaybeCollect, Triggers
  <2>2. frs = <<>>
    BY <2>1, NoSweep
  <2> QED
    BY <2>1, <2>2, CycleCondemns
<1> QED
  BY <1>2, <1>3

(* Patching the free list follows the block in what was condemned.         *)
LEMMA PatchedCondemned ==
  ASSUME TypeOK, ListInv, NEW p \in Addr, NEW x \in Slots
  PROVE  /\ Entries(Patched(p, x)) = IF p \in Entries(frees) THEN (Entries(frees) \ {p}) \cup ({x} \ {NIL})
                                                             ELSE Entries(frees)
         /\ frees = <<>> => Patched(p, x) = <<>>
<1>0. p # NIL /\ Distinct(frees)
  BY GCAddresses DEF NIL, ListInv
<1> DEFINE frs == Patched(p, x)
<1>1. /\ Len(frs) = Len(frees) /\ (frees = <<>> => frs = <<>>)
      /\ \A i \in 1..Len(frees) : frs[i] = IF frees[i] = p THEN x ELSE frees[i]
  BY <1>0, PatchedEntries
<1> HIDE DEF frs
<1>2. Entries(frs) \subseteq (Entries(frees) \ {p}) \cup ({x} \ {NIL})
  BY <1>1 DEF Entries
<1>3. Entries(frees) \ {p} \subseteq Entries(frs)
  BY <1>1 DEF Entries
<1>4. CASE p \in Entries(frees)
  <2>1. PICK i \in 1..Len(frees) : frees[i] = p
    BY <1>4 DEF Entries
  <2>2. {x} \ {NIL} \subseteq Entries(frs)
    BY <1>1, <2>1 DEF Entries
  <2> QED
    BY <1>1, <1>2, <1>3, <1>4, <2>2 DEF frs
<1>5. CASE p \notin Entries(frees)
  <2>1. \A i \in 1..Len(frees) : frs[i] = frees[i]
    BY <1>0, <1>1, <1>5 DEF Entries
  <2>2. Entries(frs) = Entries(frees)
    BY <1>1, <2>1 DEF Entries
  <2> QED
    BY <1>1, <1>5, <2>2 DEF frs
<1> QED
  BY <1>4, <1>5

(* The invariant holds at first,                                           *)
LEMMA CondemnedInit == Init => CondemnedInv
BY DEF Init, CondemnedInv, Entries

(* and every step keeps it.                                                *)
LEMMA CondemnedNext ==
  ASSUME QuietDestroy, TypeOK, TypeOK', OnceInv, SweepInv, CondemnedInv, MarkIsReachability', [Next]_vars
  PROVE  CondemnedInv'
<1>0. StackInv /\ ListInv
  BY DEF SweepInv
<1>t. DOMAIN items \subseteq Addr /\ DOMAIN items' \subseteq Addr
  BY DEF TypeOK
<1>q. MayUseGC => ~InDestroy /\ UserTurn
  BY DEF MayUseGC
<1>u. UserTurn => ~InFreePhase
  BY <1>0, NotFreeing DEF UserTurn
<1>same. ASSUME UNCHANGED <<frees, condemned, calls>> PROVE CondemnedInv'
  BY <1>same DEF CondemnedInv, InFreePhase
<1>panic. CASE Panic
  BY <1>panic, <1>same DEF Panic
<1>1. ASSUME MayUseGC, MaybeCollect(frees, condemned, <<>>)
      PROVE  CondemnedInv'
  BY <1>0, <1>1, <1>q, <1>t, MayCondemn
<1>2. ASSUME NEW p \in Heap, NEW n \in Sizes, NEW kind \in Kinds, Alloc(p, n, kind)
      PROVE  CondemnedInv'
  <2>1. Panic \/ (MayUseGC /\ MaybeCollect(frees, condemned, <<>>))
    BY <1>2 DEF Alloc
  <2> QED
    BY <1>1, <1>panic, <2>1
<1>3. ASSUME NEW p \in External, NEW kind \in Kinds, RegisterExtern(p, Word, kind)
      PROVE  CondemnedInv'
  <2>1. MayUseGC /\ MaybeCollect(frees, condemned, <<>>)
    BY <1>3 DEF RegisterExtern
  <2> QED
    BY <1>1, <2>1
<1>4. ASSUME NEW p \in External \cup Heap, Unregister(p) \/ Dealloc(p)
      PROVE  CondemnedInv'
  <2>1. /\ UserTurn /\ p \in Addr /\ NIL \in Slots
        /\ frees' = Patched(p, NIL) /\ condemned' = condemned \ {p}
    BY <1>4 DEF Unregister, Dealloc, Addr, Slots
  <2>2. Entries(frees) = condemned
    BY <1>u, <2>1 DEF CondemnedInv
  <2>3. Entries(frees') = condemned'
    BY <1>0, <2>1, <2>2, PatchedCondemned
  <2> QED
    BY <2>3 DEF CondemnedInv
<1>5. ASSUME NEW p \in Heap, NEW n \in Sizes, ReallocInPlace(p, n)
      PROVE  CondemnedInv'
  <2>1. MayUseGC /\ (MaybeCollect(frees, condemned, <<>>) \/ UNCHANGED <<frees, condemned, calls>>)
    BY <1>5 DEF ReallocInPlace
  <2> QED
    BY <1>1, <1>same, <2>1
<1>6. ASSUME NEW p \in Heap, NEW q \in Heap, NEW n \in Sizes, ReallocMoved(p, q, n)
      PROVE  CondemnedInv'
  <2>1. CASE q \in DOMAIN items
    BY <1>6, <1>panic, <2>1 DEF ReallocMoved
  <2>2. CASE q \notin DOMAIN items
    <3> DEFINE cnd == IF p \in condemned THEN (condemned \ {p}) \cup {q} ELSE condemned
               below == IF n > items[p].size THEN <<ReregisterFrame>> ELSE <<>>
    <3>1. MayUseGC /\ p \in Addr /\ q \in Slots /\ q # NIL /\ MaybeCollect(Patched(p, q), cnd, below)
      BY <1>6, <2>2, GCAddresses DEF ReallocMoved, Addr, Slots, NIL
    <3>2. Entries(frees) = condemned => Entries(Patched(p, q)) = cnd
      BY <1>0, <3>1, PatchedCondemned
    <3>3. frees = <<>> => Patched(p, q) = <<>>
      BY <1>0, <3>1, PatchedCondemned
    <3> HIDE DEF cnd, below
    <3> QED
      BY <1>0, <1>q, <1>t, <3>1, <3>2, <3>3, MayCondemn
  <2> QED
    BY <2>1, <2>2
<1>7. CASE Recheck
  <2>1. /\ calls # <<>> /\ Top.phase = "recheck"
        /\ \/ Triggers /\ Cycle(frees, Pop)
           \/ calls' = Pop /\ UNCHANGED <<frees, condemned>>
    BY <1>7 DEF Recheck
  <2>2. ~InFreePhase
    BY <1>0, <2>1, NotFreeing
  <2>3. CASE Triggers /\ Cycle(frees, Pop)
    <3>1. FrameOK(Top) /\ Len(calls) \in 1..Len(calls) /\ Top = calls[Len(calls)]
      BY <1>0, <2>1, Popped DEF StackInv, Top
    <3>2. ~InDestroy
      BY <1>0, <2>1, <3>1 DEF StackInv, FrameOK
    <3>3. frees = <<>>
      BY <1>0, <2>3, <3>2, NoSweep DEF Triggers
    <3>4. Cycle(<<>>, Pop)
      BY <2>3, <3>3
    <3> QED
      BY <1>t, <3>4, CycleCondemns
  <2>4. CASE UNCHANGED <<frees, condemned>>
    BY <2>2, <2>4 DEF CondemnedInv
  <2> QED
    BY <2>1, <2>3, <2>4
<1>8. CASE Collect
  <2>1. MayUseGC /\ ~collecting /\ Cycle(frees, calls)
    BY <1>8 DEF Collect
  <2>2. frees = <<>>
    BY <1>0, <1>q, <2>1, NoSweep
  <2>3. Cycle(<<>>, calls)
    BY <2>1, <2>2
  <2> QED
    BY <1>t, <2>3, CycleCondemns
<1>9. CASE CallFinalizer
  <2>1. CASE Panic
    BY <1>panic, <2>1
  <2>2. CASE ~Panic
    <3>1. /\ calls # <<>> /\ Top.phase = "finalize" /\ UNCHANGED <<frees, condemned>>
      BY <1>9, <2>2 DEF CallFinalizer, Sweeping
    <3>2. ~InFreePhase
      BY <1>0, <3>1, NotFreeing
    <3> QED
      BY <3>1, <3>2 DEF CondemnedInv
  <2> QED
    BY <2>1, <2>2
<1>10. CASE FinalizerReturn
  <2>1. calls # <<>> /\ Top.phase = "call" /\ UNCHANGED <<frees, condemned>>
    BY <1>10 DEF FinalizerReturn
  <2>2. ~InFreePhase
    BY <1>0, <2>1, NotFreeing
  <2> QED
    BY <2>1, <2>2 DEF CondemnedInv
<1>11. CASE FreeNext
  <2>1. Freeing /\ Unfreed # {} /\ calls # <<>>
    BY <1>11 DEF FreeNext, Freeing, Sweeping
  <2>2. calls' = TopAt("free", First(Unfreed))
    BY <1>11, <2>1, FreedIsFinalized DEF FreeNext
  <2>3. First(Unfreed) \in Nat
    <3>1. Top.at \in Nat
      BY <2>1, CallsTyped DEF Frame
    <3>2. Unfreed \subseteq Nat
      BY <3>1 DEF Unfreed
    <3> QED
      BY <2>1, <3>2, FirstIsFirst
  <2>4. calls'[Len(calls)].phase = "free" /\ Len(calls') = Len(calls) /\ Len(calls) \in Nat /\ Len(calls) >= 1
    BY <2>1, <2>2, <2>3, Moved
  <2>5. Len(calls) \in DOMAIN calls'
    BY <2>4, LenProperties DEF TypeOK
  <2> QED
    BY <2>4, <2>5 DEF CondemnedInv, InFreePhase
<1>12. CASE EndCollect \/ EndDestroy
  <2>1. frees' = <<>> /\ condemned' = {}
    BY <1>12 DEF EndCollect, EndDestroy
  <2> QED
    BY <2>1 DEF CondemnedInv, Entries
<1>13. CASE Destroy
  <2>1. calls = <<>> /\ BeginSweep("destroy", DOMAIN items \ RootItems, frees, <<>>)
        /\ condemned' = DOMAIN items \ RootItems
    BY <1>13 DEF Destroy
  <2>2. Len(calls) = 0
    BY <2>1
  <2>3. frees = <<>>
    BY <1>0, <2>2 DEF StackInv, Sweeps
  <2>4. PICK s \in Orders(DOMAIN items \ RootItems) : frees' = <<>> \o s
    BY <2>1, <2>3 DEF BeginSweep
  <2>5. DOMAIN items \ RootItems \subseteq Addr
    BY <1>t
  <2>6. Entries(frees') = condemned'
    BY <2>1, <2>4, <2>5, OrderEntries
  <2> QED
    BY <2>6 DEF CondemnedInv
<1>14. ASSUME \/ \E run \in Modes, pct \in Pauses : Configure(run, pct)
              \/ \E p \in Addr, a \in Addr : Load(p, a)
              \/ \E p \in Addr, W \in {{}} \cup {{a} : a \in stack} : Store(p, W)
              \/ \E a \in Addr : Drop(a)
              \/ Stopped
              \/ UNCHANGED vars
       PROVE  CondemnedInv'
  <2>1. UNCHANGED <<frees, condemned, calls>>
    BY <1>14 DEF Configure, Load, Store, Drop, Program, Stopped, vars
  <2> QED
    BY <2>1, <1>same
<1>15. ASSUME NEW p \in External, Unregister(p) PROVE CondemnedInv'
  BY <1>4, <1>15
<1>16. ASSUME NEW p \in Heap, Dealloc(p) PROVE CondemnedInv'
  BY <1>4, <1>16
<1> QED
  BY <1>2, <1>3, <1>5, <1>6, <1>7, <1>8, <1>9, <1>10, <1>11, <1>12, <1>13, <1>14, <1>15, <1>16 DEF Next

(* Whatever finalizers do to the free list of a sweep, it holds the blocks *)
(* that were unreachable when its cycle began and that the program has not *)
(* released itself, each once and each still there.  The first premise is  *)
(* the promise of LEAF, which a block that outgrows a pointer breaks.      *)
THEOREM SweepFreesTheCondemned ==
  ASSUME ~GrowsLeaf, QuietDestroy
  PROVE  Spec => []FreesAreCondemned
<1> DEFINE Inv == TypeOK /\ MarkInv /\ OnceInv /\ SweepInv /\ CondemnedInv
<1>1. Init => Inv
  BY TypeInit, MarkInvInit, OnceInit, SweepInit, CondemnedInit
<1>2. TypeOK /\ MarkInv => MarkIsReachability
  BY MarkInvSuffices
<1>3. TypeOK' /\ MarkInv' => MarkIsReachability'
  BY <1>2, PTL
<1>4. Inv /\ [Next]_vars => Inv'
  <2> SUFFICES ASSUME Inv, [Next]_vars PROVE Inv'
    OBVIOUS
  <2>1. TypeOK' /\ MarkInv' /\ OnceInv' /\ SweepInv'
    BY TypeNext, MarkInvNext, OnceNext, SweepNext
  <2>2. MarkIsReachability'
    BY <1>3, <2>1
  <2>3. CondemnedInv'
    BY <2>1, <2>2, CondemnedNext
  <2> QED
    BY <2>1, <2>3
<1>5. Inv => FreesAreCondemned
  BY CondemnedSuffices
<1> QED
  BY <1>1, <1>4, <1>5, PTL DEF Spec

(* The violation that a grown leaf causes needs one: without it a sweep    *)
(* frees dead blocks only.                                                 *)
COROLLARY OnlyTheDeadAreFreed ==
  ASSUME ~GrowsLeaf, QuietDestroy
  PROVE  Spec => []OnlyDeadPointers
<1>1. FreesAreCondemned => OnlyDeadPointers
  BY DEF FreesAreCondemned, OnlyDeadPointers
<1> QED
  BY <1>1, SweepFreesTheCondemned, PTL
-------------------------------------------------------------------------------
(* destroy leaves nothing behind.                                          *)

(* The collector knows every block of the heap, until it is destroyed, and *)
(* destroy has on its list whatever it has not freed yet.                  *)
TracedInv ==
  status = "run" => /\ alloced \subseteq DOMAIN items \cup {calls[k].ptr : k \in Outgoing}
                    /\ \A p \in Addr : fate[p] = "owed" => p \in DOMAIN items
ClosingInv ==
  InDestroy => \A p \in DOMAIN items \ RootItems :
                 \E i \in 1..Len(frees) : frees[i] = p /\ Listing(calls[1], i)
(* The blocks of the heap are the collector's own to free.                 *)
OwnInv == \A p \in DOMAIN items \cap Heap : ~items[p].extern
CompleteInv == TracedInv /\ ClosingInv /\ OwnInv

(* A step that ends no deallocation                                        *)
KeepsOutgoing == \A k \in Outgoing : k \in 1..Len(calls') /\ calls'[k] = calls[k]

(* Neither a collection, nor a call, nor a step of the sweep changes the   *)
(* calls that wait for a finalizer; a return ends the last one only.       *)
LEMMA KeptByCollection ==
  ASSUME TypeOK, NEW frs, NEW cnd, NEW below \in Seq(Frame), MaybeCollect(frs, cnd, below)
  PROVE  KeepsOutgoing
<1>1. PICK n, m \in Nat : n = Len(calls) /\ m = Len(below)
  BY LenProperties DEF TypeOK
<1>2. CASE ~Triggers
  BY <1>2 DEF MaybeCollect, KeepsOutgoing, Outgoing
<1>3. CASE Triggers
  <2> DEFINE stk == calls \o below
  <2>1. calls' = Append(stk, SweepFrame("collect"))
    BY <1>3 DEF MaybeCollect, Cycle, BeginSweep
  <2>2. stk \in Seq(Frame) /\ Len(stk) = n + m /\ \A k \in 1..n + m : stk[k] = IF k <= n THEN calls[k] ELSE below[k - n]
    BY <1>1, ConcatProperties DEF TypeOK
  <2>3. SweepFrame("collect") \in Frame
    BY DEF SweepFrame, Frame
  <2> HIDE DEF stk
  <2>4. Len(calls') = n + m + 1 /\ \A k \in 1..n + m : calls'[k] = stk[k]
    BY <2>1, <2>2, <2>3, Pushed
  <2>5. \A k \in 1..n : k \in 1..n + m /\ k <= n /\ k \in 1..n + m + 1
    OBVIOUS
  <2> QED
    BY <1>1, <2>2, <2>4, <2>5 DEF KeepsOutgoing, Outgoing
<1> QED
  BY <1>2, <1>3

(* The same for a call,                                                    *)
LEMMA KeptByPush ==
  ASSUME TypeOK, NEW f \in Frame, calls' = Append(calls, f)
  PROVE  KeepsOutgoing /\ Len(calls) + 1 \in 1..Len(calls') /\ calls'[Len(calls) + 1] = f
<1>1. PICK n \in Nat : n = Len(calls)
  BY LenProperties DEF TypeOK
<1>2. /\ Len(calls') = n + 1 /\ calls'[n + 1] = f
      /\ \A k \in 1..n : calls'[k] = calls[k]
  BY <1>1, Pushed DEF TypeOK
<1>3. \A k \in 1..n : k \in 1..n + 1
  OBVIOUS
<1> QED
  BY <1>1, <1>2, <1>3 DEF KeepsOutgoing, Outgoing

(* for a step of the sweep on top of them,                                 *)
LEMMA KeptByMove ==
  ASSUME TypeOK, calls # <<>>, Top.op # "dealloc",
         NEW phase \in {"finalize", "call", "free", "recheck"}, NEW at \in Nat,
         calls' = TopAt(phase, at)
  PROVE  KeepsOutgoing
<1>1. Len(calls') = Len(calls) /\ \A k \in 1..Len(calls) : k # Len(calls) => calls'[k] = calls[k]
  BY Moved
<1>2. \A k \in Outgoing : k # Len(calls)
  BY DEF Outgoing, Top
<1> QED
  BY <1>1, <1>2 DEF KeepsOutgoing, Outgoing

(* and for a return, of all calls but the one that returns.                *)
LEMMA KeptByPop ==
  ASSUME TypeOK, calls # <<>>, calls' = Pop
  PROVE  \A k \in Outgoing : k # Len(calls) => k \in 1..Len(calls') /\ calls'[k] = calls[k]
<1>1. PICK n \in Nat : /\ n = Len(calls) /\ n >= 1 /\ Len(calls') = n - 1
                       /\ \A k \in 1..n - 1 : calls'[k] = calls[k]
  BY Popped
<1>2. \A k \in 1..n : k # n => k \in 1..n - 1
  OBVIOUS
<1> QED
  BY <1>1, <1>2 DEF Outgoing

(* A step that frees no block without forgetting it                        *)
LEMMA TracedKept ==
  ASSUME TypeOK, TracedInv, KeepsOutgoing, status = "run",
         alloced' \subseteq alloced \cup DOMAIN items',
         \A p \in DOMAIN items \ DOMAIN items' : p \notin alloced' /\ (p \in Addr => fate'[p] # "owed"),
         \A p \in Addr : fate'[p] = "owed" => fate[p] = "owed" \/ p \in DOMAIN items'
  PROVE  TracedInv'
<1>1. \A k \in Outgoing : k \in Outgoing' /\ calls'[k] = calls[k]
  BY DEF KeepsOutgoing, Outgoing
<1> QED
  BY <1>1 DEF TracedInv

(* The invariant holds at first,                                           *)
LEMMA CompleteInit == Init => CompleteInv
<1> SUFFICES ASSUME Init PROVE CompleteInv
  OBVIOUS
<1>1. alloced = {} /\ calls = <<>> /\ DOMAIN calls = {} /\ \A p \in Addr : fate[p] = "none"
  BY DEF Init
<1> QED
  BY <1>1, GCAddresses DEF CompleteInv, TracedInv, ClosingInv, InDestroy, OwnInv, Init

(* and every step keeps each of its parts: the blocks the program          *)
(* registered are not from the heap;                                       *)
LEMMA OwnNext ==
  ASSUME TypeOK, OwnInv, [Next]_vars
  PROVE  OwnInv'
<1>t. items \in [DOMAIN items -> Item]
  BY DEF TypeOK
<1>less. ASSUME \A p \in DOMAIN items' : p \in DOMAIN items /\ items'[p].extern = items[p].extern
         PROVE  OwnInv'
  BY <1>less DEF OwnInv
<1>track. ASSUME NEW its, NEW q, NEW item \in Item, Track(its, q, item), q \in Heap => ~item.extern,
                 \A p \in DOMAIN its : p \in DOMAIN items /\ its[p] = items[p]
          PROVE  OwnInv'
  <2>1. items' = With(its, q, [item EXCEPT !.leaf = @ \/ item.size < Word])
    BY <1>track DEF Track
  <2>2. [item EXCEPT !.leaf = @ \/ item.size < Word].extern = item.extern
    BY <1>track DEF Item
  <2> QED
    BY <1>track, <2>1, <2>2 DEF With, OwnInv
<1>panic. CASE Panic
  BY <1>panic, <1>less DEF Panic
<1>1. ASSUME NEW p \in Heap, NEW n \in Sizes, NEW kind \in Kinds, Alloc(p, n, kind)
      PROVE  OwnInv'
  <2>1. NewItem(n, kind, FALSE) \in Item /\ ~NewItem(n, kind, FALSE).extern
    BY NewItemTyped DEF NewItem
  <2>2. Panic \/ Track(items, p, NewItem(n, kind, FALSE))
    BY <1>1 DEF Alloc
  <2> QED
    BY <1>panic, <1>track, <2>1, <2>2
<1>2. ASSUME NEW p \in External, NEW kind \in Kinds, RegisterExtern(p, Word, kind)
      PROVE  OwnInv'
  <2>1. NewItem(Word, kind, TRUE) \in Item /\ p \notin Heap
    BY NewItemTyped, GCParameters, GCAddresses
  <2>2. Track(items, p, NewItem(Word, kind, TRUE))
    BY <1>2 DEF RegisterExtern
  <2> QED
    BY <1>track, <2>1, <2>2
<1>3. ASSUME NEW p, items' = Without(items, p)
      PROVE  OwnInv'
  BY <1>3, <1>less DEF Without
<1>4. ASSUME NEW p \in Heap, NEW n \in Sizes, ReallocInPlace(p, n)
      PROVE  OwnInv'
  <2>1. items' = [items EXCEPT ![p].size = n]
    BY <1>4 DEF ReallocInPlace
  <2>2. \A q \in DOMAIN items : items'[q].extern = items[q].extern
    BY <1>t, <2>1 DEF Item
  <2> QED
    BY <1>less, <2>1, <2>2
<1>5. ASSUME NEW p \in Heap, NEW q \in Heap, NEW n \in Sizes, ReallocMoved(p, q, n)
      PROVE  OwnInv'
  <2>1. p \in DOMAIN items /\ (Panic \/ Track(Without(items, p), q, [items[p] EXCEPT !.size = n]))
    BY <1>5 DEF ReallocMoved
  <2>2. [items[p] EXCEPT !.size = n] \in Item /\ [items[p] EXCEPT !.size = n].extern = items[p].extern
    BY <1>t, <2>1 DEF Item
  <2>3. ~items[p].extern
    BY <2>1 DEF OwnInv
  <2>4. \A r \in DOMAIN Without(items, p) : r \in DOMAIN items /\ Without(items, p)[r] = items[r]
    BY DEF Without
  <2> QED
    BY <1>panic, <1>track, <2>1, <2>2, <2>3, <2>4
<1>6. CASE CallFinalizer
  <2> DEFINE p == frees[First(Due)]
  <2>1. Panic \/ items' = [items EXCEPT ![p].fin = FALSE]
    BY <1>6 DEF CallFinalizer, Claimed
  <2> HIDE DEF p
  <2>2. ASSUME items' = [items EXCEPT ![p].fin = FALSE]
        PROVE  DOMAIN items' = DOMAIN items /\ \A q \in DOMAIN items : items'[q].extern = items[q].extern
    BY <1>t, <2>2 DEF Item
  <2> QED
    BY <1>less, <1>panic, <2>1, <2>2
<1>7. CASE FreeNext
  <2>1. Panic \/ items' = Without(items, frees[First(Unfreed)])
    BY <1>7 DEF FreeNext, Forget
  <2> QED
    BY <1>panic, <1>3, <2>1
<1>8. CASE EndDestroy
  BY <1>8, <1>less DEF EndDestroy
<1>9. ASSUME \/ Recheck \/ Collect \/ FinalizerReturn \/ EndCollect \/ Destroy \/ Stopped
             \/ \E run \in Modes, pct \in Pauses : Configure(run, pct)
             \/ \E p \in Addr, a \in Addr : Load(p, a)
             \/ \E p \in Addr, W \in {{}} \cup {{a} : a \in stack} : Store(p, W)
             \/ \E a \in Addr : Drop(a)
             \/ UNCHANGED vars
      PROVE  OwnInv'
  <2>1. items' = items
    BY <1>9 DEF Recheck, Collect, FinalizerReturn, EndCollect, Destroy, Stopped, Configure, Load,
                Store, Drop, Program, vars
  <2> QED
    BY <1>less, <2>1
<1>10. ASSUME NEW p \in External, Unregister(p) PROVE OwnInv'
  BY <1>3, <1>10 DEF Unregister, Forget
<1>11. ASSUME NEW p \in Heap, Dealloc(p) PROVE OwnInv'
  BY <1>3, <1>11 DEF Dealloc, Forget
<1> QED
  BY <1>1, <1>2, <1>4, <1>5, <1>6, <1>7, <1>8, <1>9, <1>10, <1>11 DEF Next

(* what the heap handed out is tracked or waits for its finalizer;         *)
LEMMA TracedNext ==
  ASSUME TypeOK, OnceInv, SweepInv, TracedInv, OwnInv, [Next]_vars
  PROVE  TracedInv'
<1>0. StackInv /\ LeavingInv /\ FinalizerOnce
  BY DEF SweepInv, OnceInv
<1>t. /\ DOMAIN items \subseteq Addr /\ fate \in [Addr -> {"none", "owed", "done"}] /\ Heap \subseteq Addr
      /\ alloced \subseteq Heap
  BY DEF TypeOK, Addr
<1>e. <<>> \in Seq(Frame)
  BY EmptySeq
<1>same. ASSUME UNCHANGED <<alloced, items, fate>>, KeepsOutgoing, status = "run"
         PROVE  TracedInv'
  BY <1>same, TracedKept
<1>still. ASSUME UNCHANGED <<alloced, items, fate, calls, status>>
          PROVE  TracedInv'
  BY <1>still DEF TracedInv, Outgoing
<1>over. ASSUME status' # "run" PROVE TracedInv'
  BY <1>over DEF TracedInv
<1>panic. CASE Panic
  BY <1>panic, <1>over DEF Panic
<1>1. ASSUME NEW p \in Heap, NEW n \in Sizes, NEW kind \in Kinds, Alloc(p, n, kind)
      PROVE  TracedInv'
  <2>1. CASE p \in DOMAIN items
    BY <1>1, <1>panic, <2>1 DEF Alloc
  <2>2. CASE p \notin DOMAIN items
    <3>1. /\ alloced' = alloced \cup {p} /\ fate' = [fate EXCEPT ![p] = Owed(kind[3])]
          /\ Track(items, p, NewItem(n, kind, FALSE)) /\ status = "run"
          /\ MaybeCollect(frees, condemned, <<>>)
      BY <1>1, <2>2 DEF Alloc, MayUseGC, UserTurn
    <3>2. DOMAIN items' = DOMAIN items \cup {p}
      BY <3>1 DEF Track, With
    <3>3. \A q \in Addr : q # p => fate'[q] = fate[q]
      BY <1>t, <3>1
    <3>4. KeepsOutgoing
      BY <1>e, <3>1, KeptByCollection
    <3> QED
      BY <3>1, <3>2, <3>3, <3>4, TracedKept
  <2> QED
    BY <2>1, <2>2
<1>2. ASSUME NEW p \in External, NEW kind \in Kinds, RegisterExtern(p, Word, kind)
      PROVE  TracedInv'
  <2>1. /\ alloced' = alloced /\ fate' = [fate EXCEPT ![p] = Owed(kind[3])]
        /\ Track(items, p, NewItem(Word, kind, TRUE)) /\ status = "run"
        /\ MaybeCollect(frees, condemned, <<>>) /\ p \in Addr
    BY <1>2 DEF RegisterExtern, MayUseGC, UserTurn, Addr
  <2>2. DOMAIN items' = DOMAIN items \cup {p}
    BY <2>1 DEF Track, With
  <2>3. \A q \in Addr : q # p => fate'[q] = fate[q]
    BY <1>t, <2>1
  <2>4. KeepsOutgoing
    BY <1>e, <2>1, KeptByCollection
  <2> QED
    BY <2>1, <2>2, <2>3, <2>4, TracedKept
<1>3. ASSUME NEW p \in External, Unregister(p)
      PROVE  TracedInv'
  <2>1. /\ alloced' = alloced /\ fate' = [fate EXCEPT ![p] = "none"] /\ items' = Without(items, p)
        /\ calls' = calls /\ status = "run" /\ p \notin Heap /\ p \in Addr
    BY <1>3, GCAddresses DEF Unregister, Forget, UserTurn, Addr
  <2>2. DOMAIN items' = DOMAIN items \ {p}
    BY <2>1 DEF Without
  <2>3. fate'[p] = "none" /\ \A q \in Addr : q # p => fate'[q] = fate[q]
    BY <1>t, <2>1
  <2>4. KeepsOutgoing
    BY <2>1 DEF KeepsOutgoing, Outgoing
  <2>5. p \notin alloced
    BY <1>t, <2>1
  <2> QED
    BY <2>1, <2>2, <2>3, <2>4, <2>5, TracedKept
<1>4. ASSUME NEW p \in Heap, Dealloc(p)
      PROVE  TracedInv'
  <2>1. /\ items' = Without(items, p) /\ status = "run" /\ p \in Addr
    BY <1>4 DEF Dealloc, Forget, UserTurn, Addr
  <2>2. DOMAIN items' = DOMAIN items \ {p}
    BY <2>1 DEF Without
  <2>3. CASE items[p].fin
    <3>1. /\ calls' = Append(calls, DeallocFrame(p)) /\ alloced' = alloced
          /\ fate' = [fate EXCEPT ![p] = "done"]
      BY <1>4, <2>3 DEF Dealloc
    <3>2. DeallocFrame(p) \in Frame /\ DeallocFrame(p).ptr = p /\ DeallocFrame(p).op = "dealloc"
      BY <2>1 DEF DeallocFrame, Frame
    <3>3. PICK m : KeepsOutgoing /\ m \in 1..Len(calls') /\ calls'[m] = DeallocFrame(p)
      BY <3>1, <3>2, KeptByPush
    <3>4. m \in Outgoing' /\ calls'[m].ptr = p
      BY <3>2, <3>3 DEF Outgoing
    <3>5. \A k \in Outgoing : k \in Outgoing' /\ calls'[k] = calls[k]
      BY <3>3 DEF KeepsOutgoing, Outgoing
    <3>6. fate'[p] = "done" /\ \A q \in Addr : q # p => fate'[q] = fate[q]
      BY <1>t, <2>1, <3>1
    <3>7. alloced' \subseteq DOMAIN items' \cup {calls'[k].ptr : k \in Outgoing'}
      BY <2>1, <2>2, <3>1, <3>4, <3>5 DEF TracedInv
    <3>8. \A q \in Addr : fate'[q] = "owed" => q \in DOMAIN items'
      BY <2>1, <2>2, <3>6 DEF TracedInv
    <3> QED
      BY <3>7, <3>8 DEF TracedInv
  <2>4. CASE ~items[p].fin
    <3>1. /\ calls' = calls /\ alloced' = alloced \ {p}
          /\ fate' = [fate EXCEPT ![p] = "none"]
      BY <1>4, <2>4 DEF Dealloc
    <3>2. fate'[p] = "none" /\ \A q \in Addr : q # p => fate'[q] = fate[q]
      BY <1>t, <2>1, <3>1
    <3>3. KeepsOutgoing
      BY <3>1 DEF KeepsOutgoing, Outgoing
    <3> QED
      BY <2>1, <2>2, <3>1, <3>2, <3>3, TracedKept
  <2> QED
    BY <2>3, <2>4
<1>5. ASSUME NEW p \in Heap, NEW n \in Sizes, ReallocInPlace(p, n)
      PROVE  TracedInv'
  <2>1. /\ items' = [items EXCEPT ![p].size = n] /\ UNCHANGED <<alloced, fate>> /\ status = "run"
        /\ calls' = calls \/ MaybeCollect(frees, condemned, <<>>)
    BY <1>5 DEF ReallocInPlace, MayUseGC, UserTurn
  <2>2. DOMAIN items' = DOMAIN items
    BY <2>1
  <2>3. KeepsOutgoing
    <3>1. calls' = calls => KeepsOutgoing
      BY DEF KeepsOutgoing, Outgoing
    <3> QED
      BY <1>e, <2>1, <3>1, KeptByCollection
  <2> QED
    BY <2>1, <2>2, <2>3, TracedKept
<1>6. ASSUME NEW p \in Heap, NEW q \in Heap, NEW n \in Sizes, ReallocMoved(p, q, n)
      PROVE  TracedInv'
  <2>1. CASE q \in DOMAIN items
    BY <1>6, <1>panic, <2>1 DEF ReallocMoved
  <2>2. CASE q \notin DOMAIN items
    <3> DEFINE item == [items[p] EXCEPT !.size = n]
               below == IF n > items[p].size THEN <<ReregisterFrame>> ELSE <<>>
               cnd == IF p \in condemned THEN (condemned \ {p}) \cup {q} ELSE condemned
    <3>1. /\ p \in DOMAIN items /\ p # q /\ status = "run" /\ p \in Addr /\ q \in Addr
          /\ alloced' = (alloced \ {p}) \cup {q}
          /\ fate' = [fate EXCEPT ![p] = "none", ![q] = fate[p]]
          /\ Track(Without(items, p), q, item)
          /\ MaybeCollect(Patched(p, q), cnd, below)
      BY <1>6, <2>2 DEF ReallocMoved, MayUseGC, UserTurn, Addr
    <3>2. below \in Seq(Frame)
      <4>1. ReregisterFrame \in Frame
        BY DEF ReregisterFrame, Frame
      <4>2. CASE n > items[p].size
        BY <4>1, <4>2
      <4>3. CASE ~ (n > items[p].size)
        BY <4>3
      <4> QED
        BY <4>2, <4>3
    <3> HIDE DEF item, below, cnd
    <3>3. DOMAIN items' = (DOMAIN items \ {p}) \cup {q}
      BY <3>1 DEF Track, With, Without
    <3>4. fate'[p] = "none" /\ \A r \in Addr : r # p /\ r # q => fate'[r] = fate[r]
      BY <1>t, <3>1
    <3>5. KeepsOutgoing
      BY <3>1, <3>2, KeptByCollection
    <3> QED
      BY <3>1, <3>3, <3>4, <3>5, TracedKept
  <2> QED
    BY <2>1, <2>2
<1>7. CASE Recheck
  <2>1. /\ calls # <<>> /\ UNCHANGED <<alloced, items, fate>> /\ status = "run" /\ Top.phase = "recheck"
        /\ Cycle(frees, Pop) \/ calls' = Pop
    BY <1>7 DEF Recheck, memory
  <2>2. PICK n \in Nat : /\ n >= 1 /\ n = Len(calls) /\ Len(Pop) = n - 1 /\ Pop \in Seq(Frame)
                         /\ \A k \in 1..n - 1 : Pop[k] = calls[k]
    BY <2>1, Popped
  <2>3. calls[n].op # "dealloc"
    BY <1>0, <2>1, <2>2 DEF StackInv, FrameOK, Top
  <2>4. /\ Len(calls') >= n - 1 /\ Len(calls') \in Nat
        /\ \A k \in 1..n - 1 : calls'[k] = Pop[k]
    <3>1. CASE calls' = Pop
      BY <2>2, <3>1
    <3>2. CASE Cycle(frees, Pop)
      <4>1. calls' = Append(Pop, SweepFrame("collect")) /\ SweepFrame("collect") \in Frame
        BY <3>2 DEF Cycle, BeginSweep, SweepFrame, Frame
      <4> QED
        BY <2>2, <4>1, Pushed
    <3> QED
      BY <2>1, <3>1, <3>2
  <2>5. \A k \in 1..n : k # n => k \in 1..n - 1 /\ k \in 1..Len(calls')
    BY <2>4
  <2>6. KeepsOutgoing
    BY <2>2, <2>3, <2>4, <2>5 DEF KeepsOutgoing, Outgoing
  <2> QED
    BY <1>same, <2>1, <2>6
<1>8. CASE Collect
  <2>1. /\ UNCHANGED <<alloced, items, fate>> /\ calls' = Append(calls, SweepFrame("collect"))
        /\ SweepFrame("collect") \in Frame /\ status = "run"
    BY <1>8 DEF Collect, memory, Cycle, BeginSweep, SweepFrame, Frame, MayUseGC, UserTurn
  <2> QED
    BY <1>same, <2>1, KeptByPush
<1>9. CASE CallFinalizer
  <2> DEFINE p == frees[First(Due)]
  <2>1. CASE p \notin DOMAIN items
    BY <1>9, <1>panic, <2>1 DEF CallFinalizer
  <2>2. CASE p \in DOMAIN items
    <3>1. /\ items' = [items EXCEPT ![p].fin = FALSE] /\ alloced' = alloced /\ status = "run"
          /\ fate' = [fate EXCEPT ![p] = "done"]
          /\ calls # <<>> /\ Top.op # "dealloc" /\ calls' = TopAt("call", First(Due))
      BY <1>9, <2>2 DEF CallFinalizer, Claimed, Sweeping
    <3>2. First(Due) \in Nat
      <4>1. Top.at \in Nat
        BY <3>1, CallsTyped DEF Frame
      <4>2. Due # {} /\ Due \subseteq Nat
        BY <1>9, <4>1 DEF CallFinalizer, Due
      <4> QED
        BY <4>2, FirstIsFirst
    <3> HIDE DEF p
    <3>3. KeepsOutgoing
      BY <3>1, <3>2, KeptByMove
    <3>4. DOMAIN items' = DOMAIN items
      BY <3>1
    <3>5. \A q \in Addr : fate'[q] = "owed" => fate[q] = "owed"
      BY <1>t, <2>2, <3>1
    <3> QED
      BY <3>1, <3>3, <3>4, <3>5, TracedKept
  <2> QED
    BY <2>1, <2>2
<1>10. CASE FinalizerReturn
  <2>1. CASE Top.op = "dealloc"
    <3>1. /\ calls # <<>> /\ calls' = Pop /\ items' = items /\ alloced' = alloced \ {Top.ptr}
          /\ fate' = [fate EXCEPT ![Top.ptr] = "none"] /\ status = "run"
      BY <1>10, <2>1 DEF FinalizerReturn
    <3>2. Len(calls) \in Outgoing /\ calls[Len(calls)] = Top
      BY <2>1, <3>1, Popped DEF Outgoing, Top
    <3>3. \A k \in Outgoing : k # Len(calls) => k \in Outgoing' /\ calls'[k] = calls[k]
      BY <3>1, KeptByPop DEF Outgoing
    <3>4. alloced' \subseteq DOMAIN items' \cup {calls'[k].ptr : k \in Outgoing'}
      BY <3>1, <3>2, <3>3 DEF TracedInv
    <3>5. \A q \in Addr : fate'[q] = "owed" => fate[q] = "owed"
      BY <1>t, <3>1
    <3> QED
      BY <3>1, <3>4, <3>5 DEF TracedInv
  <2>2. CASE Top.op # "dealloc"
    <3>1. /\ calls # <<>> /\ calls' = TopAt("finalize", Top.at) /\ UNCHANGED <<alloced, fate, items>>
          /\ status = "run"
      BY <1>10, <2>2 DEF FinalizerReturn
    <3>2. Top.at \in Nat
      BY <3>1, CallsTyped DEF Frame
    <3>3. KeepsOutgoing
      BY <2>2, <3>1, <3>2, KeptByMove
    <3> QED
      BY <1>same, <3>1, <3>3
  <2> QED
    BY <2>1, <2>2
<1>11. CASE FreeNext
  <2> DEFINE p == frees[First(Unfreed)]
  <2>1. p \in DOMAIN items
    BY <1>11, FreedIsFinalized DEF FreeNext
  <2>2. /\ items' = Without(items, p) /\ alloced' \subseteq alloced
        /\ items[p].extern \/ alloced' = alloced \ {p}
        /\ fate' = [fate EXCEPT ![p] = "none"] /\ status = "run"
        /\ calls # <<>> /\ Top.op # "dealloc" /\ calls' = TopAt("free", First(Unfreed))
    BY <1>11, <2>1 DEF FreeNext, Freeing, Sweeping, Forget
  <2>3. First(Unfreed) \in Nat
    <3>1. Top.at \in Nat
      BY <2>2, CallsTyped DEF Frame
    <3>2. Unfreed # {} /\ Unfreed \subseteq Nat
      BY <1>11, <3>1 DEF FreeNext, Unfreed
    <3> QED
      BY <3>2, FirstIsFirst
  <2> HIDE DEF p
  <2>4. KeepsOutgoing
    BY <2>2, <2>3, KeptByMove
  <2>5. DOMAIN items' = DOMAIN items \ {p} /\ p \notin alloced'
    BY <1>t, <2>1, <2>2 DEF Without, OwnInv
  <2>6. fate'[p] = "none" /\ \A q \in Addr : q # p => fate'[q] = fate[q]
    BY <1>t, <2>1, <2>2
  <2> QED
    BY <2>2, <2>4, <2>5, <2>6, TracedKept
<1>12. CASE EndCollect
  <2>1. /\ calls # <<>> /\ calls' = Pop /\ UNCHANGED <<alloced, items, fate>> /\ status = "run"
        /\ Top.op = "collect"
    BY <1>12 DEF EndCollect, Freeing, Sweeping, memory
  <2>2. \A k \in Outgoing : k # Len(calls)
    BY <2>1 DEF Outgoing, Top
  <2>3. KeepsOutgoing
    BY <2>1, <2>2, KeptByPop DEF KeepsOutgoing
  <2> QED
    BY <1>same, <2>1, <2>3
<1>13. CASE Destroy
  <2>1. Len(calls) = 0 /\ UNCHANGED <<alloced, items, fate>> /\ status = "run"
    BY <1>13 DEF Destroy, memory
  <2>2. KeepsOutgoing
    BY <2>1 DEF KeepsOutgoing, Outgoing
  <2> QED
    BY <1>same, <2>1, <2>2
<1>14. CASE EndDestroy
  BY <1>14, <1>over DEF EndDestroy
<1>15. ASSUME \/ \E run \in Modes, pct \in Pauses : Configure(run, pct)
              \/ \E p \in Addr, a \in Addr : Load(p, a)
              \/ \E p \in Addr, W \in {{}} \cup {{a} : a \in stack} : Store(p, W)
              \/ \E a \in Addr : Drop(a)
              \/ Stopped
              \/ UNCHANGED vars
       PROVE  TracedInv'
  <2>1. UNCHANGED <<alloced, items, fate, calls, status>>
    BY <1>15 DEF Configure, Load, Store, Drop, Program, Stopped, memory, vars
  <2> QED
    BY <2>1, <1>still
<1> QED
  BY <1>1, <1>2, <1>3, <1>4, <1>5, <1>6, <1>7, <1>8, <1>9, <1>10, <1>11, <1>12, <1>13, <1>14, <1>15 DEF Next

(* A collection is not a destruction.                                      *)
LEMMA CycleOpen ==
  ASSUME NEW stk \in Seq(Frame), \A k \in 1..Len(stk) : stk[k].op # "destroy", NEW frs, Cycle(frs, stk)
  PROVE  ~InDestroy'
<1>1. /\ calls' = Append(stk, SweepFrame("collect")) /\ SweepFrame("collect") \in Frame
      /\ SweepFrame("collect").op = "collect"
  BY DEF Cycle, BeginSweep, SweepFrame, Frame
<1>2. PICK n \in Nat : n = Len(stk)
  BY LenProperties
<1>3. /\ Len(calls') = n + 1 /\ calls'[n + 1] = SweepFrame("collect") /\ calls' \in Seq(Frame)
      /\ \A k \in 1..n : calls'[k] = stk[k]
  BY <1>1, <1>2, Pushed
<1>4. \A k \in 1..n + 1 : k = n + 1 \/ k \in 1..n
  OBVIOUS
<1>5. DOMAIN calls' = 1..n + 1
  BY <1>3, LenProperties
<1> QED
  BY <1>1, <1>2, <1>3, <1>4, <1>5 DEF InDestroy

(* A collection is not the exit.                                           *)
LEMMA CollectionOpen ==
  ASSUME TypeOK, ~InDestroy, NEW below \in Seq(Frame), \A k \in 1..Len(below) : below[k].op # "destroy",
         NEW frs, NEW cnd, MaybeCollect(frs, cnd, below)
  PROVE  ~InDestroy'
<1>1. PICK n, m \in Nat : n = Len(calls) /\ m = Len(below) /\ DOMAIN calls = 1..n
  BY LenProperties DEF TypeOK
<1>2. CASE ~Triggers
  BY <1>2 DEF MaybeCollect, InDestroy
<1>3. CASE Triggers
  <2> DEFINE stk == calls \o below
  <2>1. Cycle(frs, stk)
    BY <1>3 DEF MaybeCollect
  <2>2. stk \in Seq(Frame) /\ Len(stk) = n + m /\ \A k \in 1..n + m : stk[k] = IF k <= n THEN calls[k] ELSE below[k - n]
    BY <1>1, ConcatProperties DEF TypeOK
  <2> HIDE DEF stk
  <2>3. \A k \in 1..n + m : (k \in 1..n /\ k <= n) \/ (k - n \in 1..m /\ ~ (k <= n))
    OBVIOUS
  <2>4. \A k \in 1..Len(stk) : stk[k].op # "destroy"
    BY <1>1, <2>2, <2>3 DEF InDestroy
  <2> QED
    BY <2>1, <2>2, <2>4, CycleOpen
<1> QED
  BY <1>2, <1>3

(* what destroy has yet to free is on its list.                            *)
LEMMA ClosingNext ==
  ASSUME QuietDestroy, TypeOK, TypeOK', SweepInv, SweepInv', ClosingInv, [Next]_vars
  PROVE  ClosingInv'
<1>0. StackInv /\ ListInv /\ StackInv'
  BY DEF SweepInv
<1>t. DOMAIN items \subseteq Addr /\ NIL \notin Addr /\ NIL \in Slots
  BY GCAddresses DEF TypeOK, NIL, Slots
<1>d. DOMAIN calls = 1..Len(calls) /\ DOMAIN calls' = 1..Len(calls') /\ Len(calls) \in Nat /\ Len(calls') \in Nat
  BY LenProperties DEF TypeOK
<1>e. <<>> \in Seq(Frame) /\ \A k \in 1..Len(<<>>) : <<>>[k].op # "destroy"
  BY EmptySeq
<1>same. ASSUME UNCHANGED <<frees, calls>>,
                \A p \in DOMAIN items' : p \in DOMAIN items /\ items'[p].root = items[p].root
         PROVE  ClosingInv'
  BY <1>same DEF ClosingInv, InDestroy, RootItems, Listing
<1>panic. CASE Panic
  BY <1>panic, <1>same DEF Panic
<1>open. ASSUME ~InDestroy' PROVE ClosingInv'
  BY <1>open DEF ClosingInv
<1>q. MayUseGC => ~InDestroy
  BY DEF MayUseGC
<1>collect. ASSUME MayUseGC, MaybeCollect(frees, condemned, <<>>) PROVE ClosingInv'
  BY <1>collect, <1>e, <1>q, <1>open, CollectionOpen
<1>1. ASSUME NEW p \in Heap, NEW n \in Sizes, NEW kind \in Kinds, Alloc(p, n, kind)
      PROVE  ClosingInv'
  <2>1. Panic \/ (MayUseGC /\ MaybeCollect(frees, condemned, <<>>))
    BY <1>1 DEF Alloc
  <2> QED
    BY <1>collect, <1>panic, <2>1
<1>2. ASSUME NEW p \in External, NEW kind \in Kinds, RegisterExtern(p, Word, kind)
      PROVE  ClosingInv'
  <2>1. MayUseGC /\ MaybeCollect(frees, condemned, <<>>)
    BY <1>2 DEF RegisterExtern
  <2> QED
    BY <1>collect, <2>1
<1>3. ASSUME NEW p \in Addr, items' = Without(items, p), frees' = Patched(p, NIL),
             InDestroy' => InDestroy /\ calls'[1] = calls[1]
      PROVE  ClosingInv'
  <2> SUFFICES ASSUME InDestroy', NEW q \in DOMAIN items' \ RootItems'
               PROVE  \E i \in 1..Len(frees') : frees'[i] = q /\ Listing(calls'[1], i)
    BY DEF ClosingInv
  <2>1. q # p /\ q \in DOMAIN items \ RootItems
    BY <1>3 DEF Without, RootItems
  <2>2. PICK i \in 1..Len(frees) : frees[i] = q /\ Listing(calls[1], i)
    BY <1>3, <2>1 DEF ClosingInv
  <2>3. Len(frees') = Len(frees) /\ frees'[i] = q
    BY <1>0, <1>3, <1>t, <2>1, <2>2, PatchedEntries DEF ListInv
  <2> QED
    BY <1>3, <2>2, <2>3
<1>4. ASSUME NEW p \in External, Unregister(p)
      PROVE  ClosingInv'
  <2>1. p \in Addr /\ items' = Without(items, p) /\ frees' = Patched(p, NIL) /\ calls' = calls
    BY <1>4 DEF Unregister, Forget, Addr
  <2> QED
    BY <1>3, <2>1 DEF InDestroy
<1>5. ASSUME NEW p \in Heap, Dealloc(p)
      PROVE  ClosingInv'
  <2>1. /\ p \in Addr /\ items' = Without(items, p) /\ frees' = Patched(p, NIL)
        /\ calls' = calls \/ calls' = Append(calls, DeallocFrame(p))
    BY <1>5 DEF Dealloc, Forget, Addr
  <2>2. InDestroy' => InDestroy /\ calls'[1] = calls[1]
    <3>1. CASE calls' = calls
      BY <3>1 DEF InDestroy
    <3>2. CASE calls' = Append(calls, DeallocFrame(p))
      <4>1. DeallocFrame(p) \in Frame /\ DeallocFrame(p).op = "dealloc"
        BY DEF DeallocFrame, Frame, Addr
      <4>2. PICK n \in Nat : /\ n = Len(calls) /\ Len(calls') = n + 1 /\ calls'[n + 1] = DeallocFrame(p)
                             /\ \A k \in 1..n : calls'[k] = calls[k]
        BY <3>2, <4>1, Pushed DEF TypeOK
      <4>3. \A k \in 1..n + 1 : k = n + 1 \/ k \in 1..n
        OBVIOUS
      <4>4. InDestroy' => InDestroy
        BY <1>d, <4>1, <4>2, <4>3 DEF InDestroy
      <4>5. InDestroy => 1 \in 1..n
        BY <1>d, <4>2 DEF InDestroy
      <4> QED
        BY <4>2, <4>4, <4>5
    <3> QED
      BY <2>1, <3>1, <3>2
  <2> QED
    BY <1>3, <2>1, <2>2
<1>6. ASSUME NEW p \in Heap, NEW n \in Sizes, ReallocInPlace(p, n)
      PROVE  ClosingInv'
  <2>1. MayUseGC /\ (MaybeCollect(frees, condemned, <<>>) \/ calls' = calls)
    BY <1>6 DEF ReallocInPlace
  <2> QED
    BY <1>collect, <1>open, <1>q, <2>1 DEF InDestroy
<1>7. ASSUME NEW p \in Heap, NEW q \in Heap, NEW n \in Sizes, ReallocMoved(p, q, n)
      PROVE  ClosingInv'
  <2> DEFINE below == IF n > items[p].size THEN <<ReregisterFrame>> ELSE <<>>
             cnd == IF p \in condemned THEN (condemned \ {p}) \cup {q} ELSE condemned
  <2>1. Panic \/ (MayUseGC /\ MaybeCollect(Patched(p, q), cnd, below))
    BY <1>7 DEF ReallocMoved
  <2>2. below \in Seq(Frame) /\ \A k \in 1..Len(below) : below[k].op # "destroy"
    <3>1. ReregisterFrame \in Frame /\ ReregisterFrame.op # "destroy"
      BY DEF ReregisterFrame, Frame
    <3>2. CASE n > items[p].size
      BY <3>1, <3>2
    <3>3. CASE ~ (n > items[p].size)
      BY <3>3
    <3> QED
      BY <3>2, <3>3
  <2> HIDE DEF below, cnd
  <2> QED
    BY <1>open, <1>panic, <1>q, <2>1, <2>2, CollectionOpen
<1>8. CASE Recheck
  <2>1. calls # <<>> /\ Top.phase = "recheck" /\ (Cycle(frees, Pop) \/ calls' = Pop)
    BY <1>8 DEF Recheck
  <2>2. PICK n \in Nat : /\ n >= 1 /\ n = Len(calls) /\ Len(Pop) = n - 1 /\ Pop \in Seq(Frame)
                         /\ \A k \in 1..n - 1 : Pop[k] = calls[k]
    BY <2>1, Popped
  <2>3. ~InDestroy
    BY <1>0, <2>1, <2>2 DEF StackInv, FrameOK, Top
  <2>4. \A k \in 1..n - 1 : k \in 1..n
    OBVIOUS
  <2>5. \A k \in 1..Len(Pop) : Pop[k].op # "destroy"
    BY <1>d, <2>2, <2>3, <2>4 DEF InDestroy
  <2>6. CASE Cycle(frees, Pop)
    BY <1>open, <2>2, <2>5, <2>6, CycleOpen
  <2>7. CASE calls' = Pop
    BY <1>d, <1>open, <2>5, <2>7 DEF InDestroy
  <2> QED
    BY <2>1, <2>6, <2>7
<1>9. CASE Collect
  <2>1. MayUseGC /\ Cycle(frees, calls) /\ calls \in Seq(Frame)
    BY <1>9 DEF Collect, TypeOK
  <2>2. \A k \in 1..Len(calls) : calls[k].op # "destroy"
    BY <1>d, <1>q, <2>1 DEF InDestroy
  <2> QED
    BY <1>open, <2>1, <2>2, CycleOpen
(* The sweep of destroy is the only operation when it moves on.            *)
<1>10. ASSUME calls # <<>>, Top.op \in SweepOps, NEW phase \in {"finalize", "call", "free"}, NEW at \in Nat,
              calls' = TopAt(phase, at), UNCHANGED <<frees, collecting>>, InDestroy'
       PROVE  /\ InDestroy /\ calls[1] = Top /\ Len(calls) = 1
              /\ calls'[1].phase = phase /\ calls'[1].at = at
  <2>1. Sweeps' = {Len(calls)} /\ calls'[Len(calls)].phase = phase /\ calls'[Len(calls)].at = at
    BY <1>0, <1>10, MovedStack
  <2>2. Len(calls') = Len(calls) /\ calls'[Len(calls)].op = Top.op /\ Len(calls) >= 1
    BY <1>10, Moved
  <2>3. 1 \in 1..Len(calls')
    BY <1>d, <2>2
  <2>4. 1 \in Sweeps'
    BY <1>0, <1>10, <2>3 DEF StackInv, Sweeps, SweepOps
  <2>5. Len(calls) = 1
    BY <2>1, <2>4
  <2>6. calls[1] = Top /\ calls[1].op = "destroy"
    BY <1>0, <1>10, <2>2, <2>5 DEF StackInv, Top
  <2> QED
    BY <1>d, <2>1, <2>5, <2>6 DEF InDestroy
<1>11. CASE CallFinalizer
  <2> DEFINE p == frees[First(Due)]
  <2>1. CASE p \notin DOMAIN items
    BY <1>11, <1>panic, <2>1 DEF CallFinalizer
  <2>2. CASE p \in DOMAIN items
    <3>1. /\ items' = [items EXCEPT ![p].fin = FALSE] /\ UNCHANGED <<frees, collecting>>
          /\ calls # <<>> /\ Top.op \in SweepOps /\ Top.phase = "finalize" /\ calls' = TopAt("call", First(Due))
      BY <1>11, <2>2 DEF CallFinalizer, Claimed, Sweeping, SweepOps
    <3>2. First(Due) \in Nat
      <4>1. Top.at \in Nat
        BY <3>1, CallsTyped DEF Frame
      <4>2. Due # {} /\ Due \subseteq Nat
        BY <1>11, <4>1 DEF CallFinalizer, Due
      <4> QED
        BY <4>2, FirstIsFirst
    <3> HIDE DEF p
    <3>3. DOMAIN items' = DOMAIN items /\ \A q \in DOMAIN items : items'[q].root = items[q].root
      BY <3>1 DEF TypeOK, Item
    <3>4. InDestroy' => InDestroy /\ calls'[1].phase = "call"
      BY <3>1, <3>2, <1>10
    <3> QED
      BY <3>1, <3>3, <3>4 DEF ClosingInv, RootItems, Listing
  <2> QED
    BY <2>1, <2>2
<1>12. CASE FinalizerReturn
  <2>1. calls # <<>> /\ Top.phase = "call" /\ UNCHANGED <<items, frees, collecting>>
    BY <1>12 DEF FinalizerReturn
  <2>2. CASE Top.op = "dealloc"
    <3>1. calls' = Pop
      BY <1>12, <2>2 DEF FinalizerReturn
    <3>2. PICK n \in Nat : /\ n >= 1 /\ n = Len(calls) /\ Len(calls') = n - 1
                           /\ \A k \in 1..n - 1 : calls'[k] = calls[k]
      BY <2>1, <3>1, Popped
    <3>3. \A k \in 1..n - 1 : k \in 1..n /\ 1 \in 1..n - 1
      OBVIOUS
    <3>4. InDestroy' => InDestroy /\ calls'[1] = calls[1]
      BY <1>d, <3>2, <3>3 DEF InDestroy
    <3> QED
      BY <2>1, <3>4 DEF ClosingInv, RootItems
  <2>3. CASE Top.op # "dealloc"
    <3>1. calls' = TopAt("finalize", Top.at) /\ Top.at \in Nat
      BY <1>12, <2>1, <2>3, CallsTyped DEF FinalizerReturn, Frame
    <3>2. Top.op \in SweepOps
      BY <1>0, <2>1, <2>3, Popped DEF StackInv, FrameOK, Top
    <3>3. InDestroy' => InDestroy /\ calls'[1].phase = "finalize"
      BY <1>10, <2>1, <3>1, <3>2
    <3> QED
      BY <2>1, <3>3 DEF ClosingInv, RootItems, Listing
  <2> QED
    BY <2>2, <2>3
<1>13. CASE FreeNext
  <2> DEFINE m == First(Unfreed)
  <2>1. /\ calls # <<>> /\ Top.op \in SweepOps /\ Unfreed # {}
        /\ (Top.phase = "free" \/ Top.phase = "finalize")
    BY <1>13 DEF FreeNext, Freeing, Sweeping, SweepOps
  <2>2. frees[m] \in DOMAIN items
    BY <1>13, FreedIsFinalized DEF FreeNext
  <2>3. items' = Without(items, frees[m]) /\ calls' = TopAt("free", m) /\ UNCHANGED <<frees, collecting>>
    BY <1>13, <2>2 DEF FreeNext, Forget
  <2>4. Top.at \in Nat /\ Len(frees) \in Nat
    BY <1>0, <2>1, TopLists
  <2>5. m \in Unfreed /\ \A j \in Unfreed : m <= j
    <3>1. Unfreed \subseteq Nat
      BY <2>4 DEF Unfreed
    <3> QED
      BY <2>1, <3>1, FirstIsFirst
  <2> HIDE DEF m
  <2>6. m \in Nat
    BY <2>4, <2>5 DEF Unfreed
  <2> SUFFICES ASSUME InDestroy', NEW q \in DOMAIN items' \ RootItems'
               PROVE  \E i \in 1..Len(frees') : frees'[i] = q /\ Listing(calls'[1], i)
    BY DEF ClosingInv
  <2>7. InDestroy /\ calls[1] = Top /\ calls'[1].at = m
    BY <1>10, <2>1, <2>3, <2>6
  <2>8. q # frees[m] /\ q \in DOMAIN items \ RootItems
    BY <2>3 DEF Without, RootItems
  <2>9. PICK i \in 1..Len(frees) : frees[i] = q /\ Listing(Top, i)
    BY <2>7, <2>8 DEF ClosingInv
  <2>10. i \in Unfreed
    <3>1. Top.phase = "free" => i \in (Top.at + 1)..Len(frees)
      BY <2>4, <2>9 DEF Listing
    <3>2. q # NIL
      BY <1>t, <2>8
    <3> QED
      BY <2>9, <3>1, <3>2 DEF Unfreed
  <2>11. i > m
    BY <2>5, <2>6, <2>8, <2>9, <2>10
  <2> QED
    BY <2>3, <2>7, <2>9, <2>11 DEF Listing
<1>14. CASE EndCollect \/ EndDestroy
  <2>1. /\ calls # <<>> /\ Top.op \in SweepOps /\ calls' = Pop /\ frees' = <<>> /\ collecting' = FALSE
    BY <1>14 DEF EndCollect, EndDestroy, Freeing, Sweeping, SweepOps
  <2>2. Sweeps' = {}
    BY <1>0, <2>1, PoppedSweep
  <2>3. ~InDestroy'
    BY <1>d, <2>2 DEF InDestroy, Sweeps, SweepOps
  <2> QED
    BY <1>open, <2>3
<1>15. CASE Destroy
  <2> DEFINE garbage == DOMAIN items \ RootItems
  <2>1. /\ calls = <<>> /\ items' = items /\ BeginSweep("destroy", garbage, frees, <<>>)
    BY <1>15 DEF Destroy
  <2>2. Len(calls) = 0
    BY <2>1
  <2>3. frees = <<>>
    BY <1>0, <2>2 DEF StackInv, Sweeps
  <2>4. IsFiniteSet(garbage) /\ garbage \subseteq Addr
    BY <1>t, FS_Subset, GCAddresses
  <2>5. PICK s \in Orders(garbage) : frees' = <<>> \o s
    BY <2>1, <2>3 DEF BeginSweep
  <2>6. calls' = <<SweepFrame("destroy")>>
    BY <2>1 DEF BeginSweep
  <2>7. garbage' = garbage
    BY <2>1 DEF RootItems
  <2> HIDE DEF garbage
  <2>8. s \in Seq(garbage) /\ garbage = {s[i] : i \in DOMAIN s}
    BY <2>4, OrdersAreSequences
  <2>9. frees' = s /\ DOMAIN s = 1..Len(s)
    BY <2>5, <2>8, LenProperties
  <2>10. calls'[1].phase = "finalize"
    BY <2>6 DEF SweepFrame
  <2>11. \A q \in garbage : \E i \in 1..Len(frees') : frees'[i] = q /\ Listing(calls'[1], i)
    BY <2>8, <2>9, <2>10 DEF Listing
  <2>12. DOMAIN items' \ RootItems' = garbage
    BY <2>7 DEF garbage
  <2> QED
    BY <2>11, <2>12 DEF ClosingInv
<1>16. ASSUME \/ \E run \in Modes, pct \in Pauses : Configure(run, pct)
              \/ \E p \in Addr, a \in Addr : Load(p, a)
              \/ \E p \in Addr, W \in {{}} \cup {{a} : a \in stack} : Store(p, W)
              \/ \E a \in Addr : Drop(a)
              \/ Stopped
              \/ UNCHANGED vars
       PROVE  ClosingInv'
  <2>1. UNCHANGED <<items, frees, calls>>
    BY <1>16 DEF Configure, Load, Store, Drop, Program, Stopped, vars
  <2> QED
    BY <2>1, <1>same
<1> QED
  BY <1>1, <1>2, <1>4, <1>5, <1>6, <1>7, <1>8, <1>9, <1>11, <1>12, <1>13, <1>14, <1>15, <1>16 DEF Next

Complete ==
  status' = "exited" => /\ alloced \subseteq RootItems
                        /\ \A p \in Addr : fate[p] = "owed" => p \in RootItems

(* When destroy ends, nothing is left of any of them.                      *)
LEMMA CompleteStep ==
  ASSUME TypeOK, OnceInv, SweepInv, CompleteInv, [Next]_vars
  PROVE  [Complete]_vars
<1>1. ASSUME status' # "exited" PROVE [Complete]_vars
  BY <1>1 DEF Complete
<1>2. CASE EndDestroy
  <2>1. /\ status = "run" /\ calls # <<>> /\ Top.op = "destroy" /\ Unfreed = {}
        /\ (Top.phase = "free" \/ (Top.phase = "finalize" /\ Due = {}))
    BY <1>2 DEF EndDestroy, Freeing, Sweeping
  <2>2. StackInv /\ ClosingInv /\ TracedInv
    BY DEF SweepInv, CompleteInv
  <2>3. PICK n \in Nat : n >= 1 /\ n = Len(calls) /\ DOMAIN calls = 1..n /\ calls[n] = Top /\ Sweeps = {n}
    <3>1. Len(calls) \in Nat /\ Len(calls) >= 1 /\ calls[Len(calls)] = Top /\ Sweeps = {Len(calls)}
      BY <2>1, <2>2, TopSweeps DEF SweepOps
    <3> QED
      BY <3>1, LenProperties DEF TypeOK
  <2>4. InDestroy
    BY <2>1, <2>3 DEF InDestroy
  <2>5. 1 \in Sweeps
    BY <2>2, <2>3, <2>4 DEF StackInv, Sweeps, SweepOps
  <2>6. n = 1
    BY <2>3, <2>5
  <2>7. Outgoing = {}
    BY <2>1, <2>3, <2>6 DEF Outgoing
  <2>8. DOMAIN items \subseteq RootItems
    <3> SUFFICES ASSUME NEW p \in DOMAIN items \ RootItems PROVE FALSE
      OBVIOUS
    <3>1. PICK i \in 1..Len(frees) : frees[i] = p /\ Listing(Top, i)
      BY <2>2, <2>3, <2>4, <2>6 DEF ClosingInv
    <3>2. p # NIL
      BY GCAddresses DEF TypeOK, NIL
    <3>3. Top.at \in Nat /\ Len(frees) \in Nat
      BY <2>1, <2>2, TopLists DEF SweepOps, SweepInv
    <3>4. i \in (IF Top.phase = "free" THEN Top.at + 1 ELSE 1)..Len(frees)
      BY <3>1, <3>3 DEF Listing
    <3> QED
      BY <2>1, <3>1, <3>2, <3>4 DEF Unfreed
  <2> QED
    BY <2>1, <2>2, <2>7, <2>8 DEF TracedInv, Complete
<1>3. ASSUME ~EndDestroy, ~ (UNCHANGED vars)
      PROVE  status' # "exited"
  <2>1. Next /\ ~Stopped
    BY <1>3 DEF Stopped
  <2>2. CASE status' = status /\ status = "run"
    BY <2>2
  <2>3. CASE Panic
    BY <2>3 DEF Panic
  <2> QED
    BY <1>3, <2>1, <2>2, <2>3
       DEF Next, Alloc, RegisterExtern, Unregister, Dealloc, ReallocInPlace, ReallocMoved, Recheck, Collect,
           Configure, Load, Store, Drop, Program, CallFinalizer, FinalizerReturn, FreeNext, EndCollect,
           Destroy, MayUseGC, UserTurn, Freeing, Sweeping
<1> QED
  BY <1>1, <1>2, <1>3

(* When destroy is done every block but the roots is finalized and freed,  *)
(* whatever the finalizers unregister, deallocate, store or drop.          *)
THEOREM DestroyLeavesNothing ==
  ASSUME QuietDestroy
  PROVE  Spec => DestroyIsComplete
<1> DEFINE Inv == TypeOK /\ OnceInv /\ SweepInv /\ CompleteInv
<1>1. Init => Inv
  BY TypeInit, OnceInit, SweepInit, CompleteInit
<1>2. Inv /\ [Next]_vars => Inv'
  <2> SUFFICES ASSUME Inv, [Next]_vars PROVE Inv'
    OBVIOUS
  <2>1. TypeOK' /\ OnceInv' /\ SweepInv'
    BY TypeNext, OnceNext, SweepNext
  <2>2. TracedInv' /\ OwnInv'
    BY TracedNext, OwnNext DEF CompleteInv
  <2>3. ClosingInv'
    BY <2>1, ClosingNext DEF CompleteInv
  <2> QED
    BY <2>1, <2>2, <2>3 DEF CompleteInv
<1>3. Inv /\ [Next]_vars => [Complete]_vars
  BY CompleteStep
<1>4. Spec => [][Complete]_vars
  BY <1>1, <1>2, <1>3, PTL DEF Spec
<1> QED
  BY <1>4 DEF DestroyIsComplete, Complete
==============================================================================
