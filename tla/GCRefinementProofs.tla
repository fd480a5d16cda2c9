-------------------------- MODULE GCRefinementProofs --------------------------
(***************************************************************************)
(* The collector implements the abstract manager of memory: every step of  *)
(* GC is a step of ManagedMemory, or none that it can see.                 *)
(***************************************************************************)
EXTENDS GCFreeProofs

Where == [p \in Addr |-> Whereabouts(p)]
Closing == InDestroy \/ status = "exited"
(* The blocks whose dealloc waits for their finalizer                      *)
Waiting(stk) == {stk[k].ptr : k \in {m \in 1..Len(stk) : stk[m].op = "dealloc"}}
(* Where blocks are when those in `its' are tracked, those in `listed' are *)
(* on the free list and those in `waits' are waiting                       *)
Located(its, listed, waits) ==
  [p \in Addr |-> IF p \in its THEN IF p \in listed THEN "doomed" ELSE "live"
                               ELSE IF p \in waits THEN "leaving" ELSE "free"]

WhereOK == Where = Located(DOMAIN items, Entries(frees), Waiting(calls))

(* The refinement mapping in terms of three sets                           *)
LEMMA WhereLocated == TypeOK => WhereOK
<1> SUFFICES ASSUME TypeOK PROVE Where = Located(DOMAIN items, Entries(frees), Waiting(calls))
  BY DEF WhereOK
<1>1. DOMAIN frees = 1..Len(frees) /\ DOMAIN calls = 1..Len(calls) /\ NIL \notin Addr
  BY LenProperties, GCAddresses DEF TypeOK, NIL
<1>2. ASSUME NEW p \in Addr
      PROVE  /\ (\E i \in DOMAIN frees : frees[i] = p) <=> p \in Entries(frees)
             /\ (\E i \in DOMAIN calls : calls[i].op = "dealloc" /\ calls[i].ptr = p) <=> p \in Waiting(calls)
  BY <1>1, <1>2 DEF Entries, Waiting
<1>3. \A p \in Addr : Whereabouts(p) = Located(DOMAIN items, Entries(frees), Waiting(calls))[p]
  BY <1>2 DEF Whereabouts, Located
<1> QED
  BY <1>3 DEF Where, Located

(* The same after a step                                                   *)
LEMMA WhereLocatedNext ==
  TypeOK' => Where' = Located(DOMAIN items', Entries(frees'), Waiting(calls'))
<1>1. TypeOK' => WhereOK'
  BY WhereLocated, PTL
<1> QED
  BY <1>1 DEF WhereOK

-------------------------------------------------------------------------------
(* The steps of the abstract manager, in terms of Where and Closing        *)

(* No step the manager can see,                                            *)
LEMMA AbsStutter ==
  ASSUME Where' = Where, RootItems' = RootItems, fate' = fate, Closing' <=> Closing
  PROVE  UNCHANGED Abs!state
BY DEF Abs!state, Where, Closing

(* a cycle,                                                                *)
LEMMA AbsCondemn ==
  ASSUME Abs!Settle(Where), RootItems' = RootItems, fate' = fate, Closing' <=> Closing
  PROVE  Abs!Next
BY DEF Abs!Next, Abs!Manage, Abs!Condemn, Where, Closing

(* a block the program gets,                                               *)
LEMMA AbsAllocate ==
  ASSUME NEW p \in Addr, Where[p] = "free", RootItems' \in {RootItems, RootItems \cup {p}},
         NEW f \in {"none", "owed"}, fate' = [fate EXCEPT ![p] = f],
         Abs!Settle([Where EXCEPT ![p] = "live"]), Closing' <=> Closing
  PROVE  Abs!Next
<1>1. Abs!Allocate(p)
  BY DEF Abs!Allocate, Where
<1> QED
  BY <1>1 DEF Abs!Next, Abs!Manage, Closing

(* one of its own it takes back,                                           *)
LEMMA AbsTakeBack ==
  ASSUME NEW p \in Addr, Where[p] \in {"live", "doomed"}, RootItems' = RootItems \ {p},
         fate' = [fate EXCEPT ![p] = "none"], Where' = [Where EXCEPT ![p] = "free"], Closing' <=> Closing
  PROVE  Abs!Next
<1>1. Abs!TakeBack(p)
  BY DEF Abs!TakeBack, Where
<1> QED
  BY <1>1 DEF Abs!Next, Abs!Manage, Closing

(* one it releases,                                                        *)
LEMMA AbsRelease ==
  ASSUME NEW p \in Addr, Where[p] \in {"live", "doomed"}, RootItems' = RootItems \ {p},
         \/ /\ fate[p] = "owed" /\ fate' = [fate EXCEPT ![p] = "done"]
            /\ Where' = [Where EXCEPT ![p] = "leaving"]
         \/ /\ fate[p] # "owed" /\ fate' = [fate EXCEPT ![p] = "none"]
            /\ Where' = [Where EXCEPT ![p] = "free"],
         Closing' <=> Closing
  PROVE  Abs!Next
<1>1. Abs!Release(p)
  BY DEF Abs!Release, Where
<1> QED
  BY <1>1 DEF Abs!Next, Abs!Manage, Closing

(* one that moves,                                                         *)
LEMMA AbsMove ==
  ASSUME NEW p \in Addr, NEW q \in Addr, Where[p] \in {"live", "doomed"}, Where[q] = "free",
         RootItems' = IF p \in RootItems THEN (RootItems \ {p}) \cup {q} ELSE RootItems,
         fate' = [fate EXCEPT ![p] = "none", ![q] = fate[p]],
         Abs!Settle([Where EXCEPT ![p] = "free", ![q] = Where[p]]), Closing' <=> Closing
  PROVE  Abs!Next
<1>1. Abs!Move(p, q)
  BY DEF Abs!Move, Where
<1> QED
  BY <1>1 DEF Abs!Next, Abs!Manage, Closing

(* one released whose finalizer has returned,                              *)
LEMMA AbsLeave ==
  ASSUME NEW p \in Addr, Where[p] = "leaving", Where' = [Where EXCEPT ![p] = "free"],
         fate' = [fate EXCEPT ![p] = "none"], RootItems' = RootItems, Closing' <=> Closing
  PROVE  Abs!Next
<1>1. Abs!Leave(p)
  BY DEF Abs!Leave, Where
<1> QED
  BY <1>1 DEF Abs!Next, Abs!Manage, Closing

(* one that is finalized,                                                  *)
LEMMA AbsFinalize ==
  ASSUME NEW p \in Addr, Where[p] = "doomed", fate[p] = "owed", Where' = Where,
         fate' = [fate EXCEPT ![p] = "done"], RootItems' = RootItems, Closing' <=> Closing
  PROVE  Abs!Next
<1>1. Abs!Finalize(p)
  BY DEF Abs!Finalize, Where
<1> QED
  BY <1>1 DEF Abs!Next, Abs!Manage, Closing

(* one that is reclaimed,                                                  *)
LEMMA AbsReclaim ==
  ASSUME NEW p \in Addr, Where[p] = "doomed", \A q \in Addr : Where[q] = "doomed" => fate[q] # "owed",
         Where' = [Where EXCEPT ![p] = "free"], fate' = [fate EXCEPT ![p] = "none"],
         RootItems' = RootItems \ {p}, p \notin RootItems, Closing' <=> Closing
  PROVE  Abs!Next
<1>1. Abs!Reclaim(p)
  BY DEF Abs!Reclaim, Where
<1> QED
  BY <1>1 DEF Abs!Next, Abs!Manage, Closing

(* the beginning of the exit                                               *)
LEMMA AbsShutdown ==
  ASSUME ~Closing, Closing', RootItems' = RootItems, fate' = fate,
         Where' = [p \in Addr |-> IF Where[p] = "live" /\ p \notin RootItems THEN "doomed" ELSE Where[p]]
  PROVE  Abs!Next
BY DEF Abs!Next, Abs!Shutdown, Where, Closing

(* and its end.                                                            *)
LEMMA AbsLetGo ==
  ASSUME Closing, Closing', RootItems' = {}, fate' = fate, Where' = [p \in Addr |-> "free"]
  PROVE  Abs!Next
BY DEF Abs!Next, Abs!LetGo, Where, Closing
-------------------------------------------------------------------------------
(* Blocks that change place                                                *)
Agree(p, S, T) == \A q \in Addr : q # p => (q \in S <=> q \in T)

(* Entries of the free list that are not tracked do not matter.            *)
LEMMA LocatedSame ==
  ASSUME NEW its, NEW lst, NEW wts, NEW its1, NEW lst1, NEW wts1,
         \A q \in Addr : /\ q \in its <=> q \in its1
                         /\ q \in its => (q \in lst <=> q \in lst1)
                         /\ q \in wts <=> q \in wts1
  PROVE  Located(its1, lst1, wts1) = Located(its, lst, wts)
BY DEF Located

(* What the call stack says of the blocks that wait and of the exit        *)
Destroying(stk) == \E k \in 1..Len(stk) : stk[k].op = "destroy"

(* A call adds a block that waits, if it is a dealloc,                     *)
LEMMA StackPushed ==
  ASSUME NEW stk \in Seq(Frame), NEW f \in Frame
  PROVE  /\ f.op = "dealloc" => Waiting(Append(stk, f)) = Waiting(stk) \cup {f.ptr}
         /\ f.op # "dealloc" => Waiting(Append(stk, f)) = Waiting(stk)
         /\ f.op # "destroy" => (Destroying(Append(stk, f)) <=> Destroying(stk))
         /\ Append(stk, f)[Len(Append(stk, f))] = f
<1>1. PICK n \in Nat : n = Len(stk)
  BY LenProperties
<1> DEFINE s == Append(stk, f)
<1>2. Len(s) = n + 1 /\ s[n + 1] = f /\ \A k \in 1..n : s[k] = stk[k]
  BY <1>1, Pushed
<1> HIDE DEF s
<1>3. \A k \in 1..n + 1 : k = n + 1 \/ k \in 1..n
  OBVIOUS
<1>4. n + 1 \in 1..n + 1 /\ \A k \in 1..n : k \in 1..n + 1
  OBVIOUS
<1>5. f.op = "dealloc" => Waiting(s) = Waiting(stk) \cup {f.ptr}
  BY <1>1, <1>2, <1>3, <1>4 DEF Waiting
<1>6. f.op # "dealloc" => Waiting(s) = Waiting(stk)
  BY <1>1, <1>2, <1>3, <1>4 DEF Waiting
<1>7. f.op # "destroy" => (Destroying(s) <=> Destroying(stk))
  BY <1>1, <1>2, <1>3, <1>4 DEF Destroying
<1> QED
  BY <1>2, <1>5, <1>6, <1>7 DEF s

(* what reregister has still to do adds none,                              *)
LEMMA StackJoined ==
  ASSUME NEW stk \in Seq(Frame), NEW below \in Seq(Frame),
         \A k \in 1..Len(below) : below[k].op \notin {"dealloc", "destroy"}
  PROVE  /\ stk \o below \in Seq(Frame)
         /\ Waiting(stk \o below) = Waiting(stk)
         /\ Destroying(stk \o below) <=> Destroying(stk)
<1>1. PICK n, m \in Nat : n = Len(stk) /\ m = Len(below)
  BY LenProperties
<1> DEFINE s == stk \o below
<1>2. s \in Seq(Frame) /\ Len(s) = n + m /\ \A k \in 1..n + m : s[k] = IF k <= n THEN stk[k] ELSE below[k - n]
  BY <1>1, ConcatProperties
<1> HIDE DEF s
<1>3. \A k \in 1..n + m : (k \in 1..n /\ s[k] = stk[k]) \/ s[k].op \notin {"dealloc", "destroy"}
  <2>1. \A k \in 1..n + m : (k \in 1..n /\ k <= n) \/ (k - n \in 1..m /\ ~ (k <= n))
    OBVIOUS
  <2> QED
    BY <1>1, <1>2, <2>1
<1>4. \A k \in 1..n : k \in 1..n + m /\ k <= n
  OBVIOUS
<1>5. Waiting(s) = Waiting(stk)
  BY <1>1, <1>2, <1>3, <1>4 DEF Waiting
<1>6. Destroying(s) <=> Destroying(stk)
  BY <1>1, <1>2, <1>3, <1>4 DEF Destroying
<1> QED
  BY <1>2, <1>5, <1>6 DEF s

(* a return takes one away, if from a dealloc,                             *)
LEMMA StackPopped ==
  ASSUME TypeOK, calls # <<>>
  PROVE  /\ Top.op # "dealloc" => Waiting(Pop) = Waiting(calls)
         /\ Top.op # "destroy" => (Destroying(Pop) <=> Destroying(calls))
<1>1. PICK n \in Nat : /\ n >= 1 /\ n = Len(calls) /\ Len(Pop) = n - 1
                       /\ \A k \in 1..n - 1 : Pop[k] = calls[k]
  BY Popped
<1>2. Top = calls[n]
  BY <1>1 DEF Top
<1>3. \A k \in 1..n : k = n \/ k \in 1..n - 1
  OBVIOUS
<1>4. \A k \in 1..n - 1 : k \in 1..n
  OBVIOUS
<1>5. Top.op # "dealloc" => Waiting(Pop) = Waiting(calls)
  BY <1>1, <1>2, <1>3, <1>4 DEF Waiting
<1>6. Top.op # "destroy" => (Destroying(Pop) <=> Destroying(calls))
  BY <1>1, <1>2, <1>3, <1>4 DEF Destroying
<1> QED
  BY <1>5, <1>6

(* and the steps of a sweep leave them alone.                              *)
LEMMA StackMoved ==
  ASSUME TypeOK, calls # <<>>, NEW phase \in {"finalize", "call", "free", "recheck"}, NEW at \in Nat
  PROVE  /\ Waiting(TopAt(phase, at)) = Waiting(calls)
         /\ Destroying(TopAt(phase, at)) <=> Destroying(calls)
<1>1. PICK n \in Nat : n = Len(calls)
  BY Moved
<1> DEFINE s == TopAt(phase, at)
<1>2. Len(s) = n /\ \A k \in 1..n : s[k].op = calls[k].op /\ s[k].ptr = calls[k].ptr
  <2>1. /\ Len(s) = n /\ \A k \in 1..n : k # n => s[k] = calls[k]
        /\ s[n].op = Top.op /\ s[n].ptr = Top.ptr /\ Top = calls[n]
    <3>1. /\ Len(TopAt(phase, at)) = Len(calls)
          /\ \A k \in 1..Len(calls) : k # Len(calls) => TopAt(phase, at)[k] = calls[k]
          /\ TopAt(phase, at)[Len(calls)].op = Top.op
          /\ TopAt(phase, at)[Len(calls)].ptr = Top.ptr
      BY Moved
    <3> QED
      BY <1>1, <3>1 DEF Top
  <2> QED
    BY <2>1
<1> HIDE DEF s
<1>3. Waiting(s) = Waiting(calls)
  BY <1>1, <1>2 DEF Waiting
<1>4. Destroying(s) <=> Destroying(calls)
  BY <1>1, <1>2 DEF Destroying
<1> QED
  BY <1>3, <1>4 DEF s

(* The exit is on when destroy is in progress.                             *)
LEMMA DestroyingIsInDestroy == TypeOK => (InDestroy <=> Destroying(calls))
<1> SUFFICES ASSUME TypeOK PROVE InDestroy <=> Destroying(calls)
  OBVIOUS
<1>1. DOMAIN calls = 1..Len(calls)
  BY LenProperties DEF TypeOK
<1> QED
  BY <1>1 DEF InDestroy, Destroying

(* It stays on or off while destroy does not come or go.                   *)
LEMMA ClosingKept ==
  ASSUME TypeOK, TypeOK', Destroying(calls') <=> Destroying(calls), status' = status
  PROVE  Closing' <=> Closing
<1>1. DOMAIN calls = 1..Len(calls) /\ DOMAIN calls' = 1..Len(calls')
  BY LenProperties DEF TypeOK
<1>2. InDestroy <=> Destroying(calls)
  BY <1>1 DEF InDestroy, Destroying
<1>3. InDestroy' <=> Destroying(calls')
  BY <1>1 DEF InDestroy, Destroying
<1> QED
  BY <1>2, <1>3 DEF Closing
-------------------------------------------------------------------------------
(* A cycle condemns at once everything that cannot be reached.             *)
LEMMA CycleSettles ==
  ASSUME TypeOK', MarkIsReachability', NEW stk \in Seq(Frame), Cycle(<<>>, stk)
  PROVE  /\ Abs!Settle(Located(DOMAIN items', {}, Waiting(stk)))
         /\ Destroying(calls') <=> Destroying(stk)
         /\ Entries(frees') = DOMAIN items' \ Marked'
         /\ calls'[Len(calls')] = SweepFrame("collect")
<1>1. PICK s \in Orders(DOMAIN items' \ Marked') : frees' = <<>> \o s
  BY DEF Cycle, BeginSweep
<1>2. DOMAIN items' \subseteq Addr
  BY DEF TypeOK
<1>3. Entries(frees') = DOMAIN items' \ Marked'
  <2>1. DOMAIN items' \ Marked' \subseteq Addr
    BY <1>2
  <2> QED
    BY <1>1, <2>1, OrderEntries
<1>4. /\ Waiting(calls') = Waiting(stk) /\ (Destroying(calls') <=> Destroying(stk))
      /\ calls'[Len(calls')] = SweepFrame("collect")
  <2>1. /\ calls' = Append(stk, SweepFrame("collect")) /\ SweepFrame("collect") \in Frame
        /\ SweepFrame("collect").op = "collect"
    BY DEF Cycle, BeginSweep, SweepFrame, Frame
  <2> QED
    BY <2>1, StackPushed
<1>5. Where' = Located(DOMAIN items', DOMAIN items' \ Live', Waiting(stk))
  BY <1>3, <1>4, WhereLocatedNext DEF MarkIsReachability
<1> DEFINE w == Located(DOMAIN items', {}, Waiting(stk))
<1>6. \A p \in Addr : w[p] # "doomed" /\ (w[p] = "live" <=> p \in DOMAIN items')
  BY DEF Located
<1>7. Abs!Tracked(w) = DOMAIN items'
  BY <1>2, <1>6 DEF Abs!Tracked
<1> HIDE DEF w
<1>8. Abs!Reachable(w) = Live'
  BY <1>7 DEF Abs!Reachable, Live, Reaches
<1>9. Where' = [p \in Addr |-> IF p \in Abs!Tracked(w) \ Abs!Reachable(w) THEN "doomed" ELSE w[p]]
  BY <1>5, <1>7, <1>8 DEF Located, w
<1>10. Abs!Settle(w)
  BY <1>6, <1>9 DEF Abs!Settle, Where
<1> QED
  BY <1>3, <1>4, <1>10 DEF w

(* A step of the program settles the blocks, with a collection or without. *)
LEMMA CollectSettles ==
  ASSUME TypeOK, TypeOK', StackInv, ~InDestroy, MarkIsReachability',
         NEW below \in Seq(Frame), \A k \in 1..Len(below) : below[k].op \notin {"dealloc", "destroy"},
         NEW frs, frees = <<>> => frs = <<>>, NEW cnd, MaybeCollect(frs, cnd, below)
  PROVE  /\ Abs!Settle(Located(DOMAIN items', Entries(frs), Waiting(calls)))
         /\ Destroying(calls') <=> Destroying(calls)
         /\ Entries(frees') \subseteq Entries(frs) \cup (DOMAIN items' \ Marked')
         /\ calls' = calls \/ calls'[Len(calls')] = SweepFrame("collect")
<1>1. CASE ~Triggers
  <2>1. frees' = frs /\ calls' = calls
    BY <1>1 DEF MaybeCollect
  <2>2. Where' = Located(DOMAIN items', Entries(frs), Waiting(calls))
    BY <2>1, WhereLocatedNext
  <2>3. Abs!Settle(Located(DOMAIN items', Entries(frs), Waiting(calls)))
    BY <2>2 DEF Abs!Settle, Where
  <2> QED
    BY <2>1, <2>3
<1>2. CASE Triggers
  <2>1. ~collecting /\ Cycle(frs, calls \o below)
    BY <1>2 DEF MaybeCollect, Triggers
  <2>2. frs = <<>>
    BY <2>1, NoSweep
  <2>3. /\ calls \o below \in Seq(Frame) /\ Waiting(calls \o below) = Waiting(calls)
        /\ Destroying(calls \o below) <=> Destroying(calls)
    BY StackJoined DEF TypeOK
  <2>4. Entries(frs) = {}
    BY <2>2 DEF Entries
  <2>5. Cycle(<<>>, calls \o below)
    BY <2>1, <2>2
  <2>6. /\ Abs!Settle(Located(DOMAIN items', {}, Waiting(calls \o below)))
        /\ Destroying(calls') <=> Destroying(calls \o below)
        /\ Entries(frees') = DOMAIN items' \ Marked'
        /\ calls'[Len(calls')] = SweepFrame("collect")
    BY <2>3, <2>5, CycleSettles
  <2> QED
    BY <2>3, <2>4, <2>6
<1> QED
  BY <1>1, <1>2

(* What reregister has still to do is no dealloc and no destroy.           *)
LEMMA ReregisterBelow ==
  ASSUME NEW grows
  PROVE  LET below == IF grows THEN <<ReregisterFrame>> ELSE <<>>
         IN  below \in Seq(Frame) /\ \A k \in 1..Len(below) : below[k].op \notin {"dealloc", "destroy"}
<1>1. ReregisterFrame \in Frame /\ ReregisterFrame.op \notin {"dealloc", "destroy"}
  BY DEF ReregisterFrame, Frame
<1>2. CASE grows
  BY <1>1, <1>2
<1>3. CASE ~grows
  BY <1>3
<1> QED
  BY <1>2, <1>3
-------------------------------------------------------------------------------
(* What is left of a free list: an entry that the loop has freed is not    *)
(* tracked again while it goes on, and no root gets in the list.           *)
FreedInv ==
  calls # <<>> /\ Top.phase = "free" =>
    \A i \in 1..Len(frees) : i <= Top.at => frees[i] \notin DOMAIN items
RootlessInv == Entries(frees) \cap RootItems = {}
ReclaimInv == FreedInv /\ RootlessInv

(* The invariant holds at first,                                           *)
LEMMA ReclaimInit == Init => ReclaimInv
<1> SUFFICES ASSUME Init PROVE ReclaimInv
  OBVIOUS
<1>1. frees = <<>> /\ calls = <<>>
  BY DEF Init
<1>2. Entries(frees) = {}
  BY <1>1 DEF Entries
<1> QED
  BY <1>1, <1>2 DEF ReclaimInv, FreedInv, RootlessInv

(* What a cycle lists has no roots, nor has what it is added to.           *)
LEMMA MarkedRoots == RootItems' \subseteq Marked'
BY DEF Marked, RootItems

(* so a step that adds a cycle to the list, or nothing, adds no root,      *)
LEMMA RootlessKept ==
  ASSUME RootlessInv, Entries(frees') \subseteq Entries(frees) \cup (DOMAIN items' \ Marked'),
         RootItems' \cap Entries(frees) \subseteq RootItems
  PROVE  RootlessInv'
<1>1. RootItems' \subseteq Marked'
  BY MarkedRoots
<1> QED
  BY <1>1 DEF RootlessInv

(* and every step keeps the invariant.                                     *)
LEMMA ReclaimNext ==
  ASSUME QuietDestroy, TypeOK, TypeOK', OnceInv, SweepInv, SweepInv', MarkIsReachability', ReclaimInv, [Next]_vars
  PROVE  ReclaimInv'
<1>0. StackInv /\ ListInv /\ StackInv' /\ FreedInv /\ RootlessInv
  BY DEF SweepInv, ReclaimInv
<1>t. /\ DOMAIN items \subseteq Addr /\ DOMAIN items' \subseteq Addr /\ NIL \notin Addr /\ NIL \in Slots
      /\ items \in [DOMAIN items -> Item]
  BY GCAddresses DEF TypeOK, NIL, Slots
<1>e. <<>> \in Seq(Frame) /\ \A k \in 1..Len(<<>>) : <<>>[k].op \notin {"dealloc", "destroy"}
  BY EmptySeq
<1>q. MayUseGC => ~InDestroy /\ UserTurn
  BY DEF MayUseGC
<1>u. UserTurn => (calls # <<>> => Top.phase # "free") /\ Entries(frees) \subseteq DOMAIN items
  BY <1>0, UserLists DEF UserTurn, Entries
<1>s. SweepFrame("collect").phase # "free"
  BY DEF SweepFrame
(* The innermost operation is not freeing.                                 *)
<1>calls. ASSUME calls' = calls \/ calls'[Len(calls')].phase # "free", calls # <<>> => Top.phase # "free"
          PROVE  FreedInv'
  BY <1>calls DEF FreedInv, Top
<1>same. ASSUME UNCHANGED <<frees, calls, items>> PROVE ReclaimInv'
  BY <1>0, <1>same DEF ReclaimInv, FreedInv, RootlessInv, RootItems, Top
<1>panic. CASE Panic
  BY <1>panic, <1>same DEF Panic
<1>collect. ASSUME MayUseGC, MaybeCollect(frees, condemned, <<>>), RootItems' \cap DOMAIN items \subseteq RootItems
            PROVE  ReclaimInv'
  <2>1. /\ Entries(frees') \subseteq Entries(frees) \cup (DOMAIN items' \ Marked')
        /\ calls' = calls \/ calls'[Len(calls')] = SweepFrame("collect")
    BY <1>0, <1>collect, <1>e, <1>q, CollectSettles
  <2>2. RootlessInv'
    BY <1>0, <1>collect, <1>q, <1>u, <2>1, RootlessKept
  <2>3. FreedInv'
    BY <1>calls, <1>collect, <1>q, <1>s, <1>u, <2>1
  <2> QED
    BY <2>2, <2>3 DEF ReclaimInv
<1>1. ASSUME NEW p \in Heap, NEW n \in Sizes, NEW kind \in Kinds, Alloc(p, n, kind)
      PROVE  ReclaimInv'
  <2>1. CASE Panic
    BY <1>panic, <2>1
  <2>2. CASE ~Panic
    <3>1. /\ MayUseGC /\ MaybeCollect(frees, condemned, <<>>) /\ p \notin DOMAIN items
          /\ Track(items, p, NewItem(n, kind, FALSE))
      BY <1>1, <2>2 DEF Alloc
    <3>2. RootItems' \cap DOMAIN items \subseteq RootItems
      BY <3>1 DEF Track, With, RootItems
    <3> QED
      BY <1>collect, <3>1, <3>2
  <2> QED
    BY <2>1, <2>2
<1>2. ASSUME NEW p \in External, NEW kind \in Kinds, RegisterExtern(p, Word, kind)
      PROVE  ReclaimInv'
  <2>1. /\ MayUseGC /\ MaybeCollect(frees, condemned, <<>>) /\ p \notin DOMAIN items
        /\ Track(items, p, NewItem(Word, kind, TRUE))
    BY <1>2 DEF RegisterExtern
  <2>2. RootItems' \cap DOMAIN items \subseteq RootItems
    BY <2>1 DEF Track, With, RootItems
  <2> QED
    BY <1>collect, <2>1, <2>2
<1>3. ASSUME NEW p \in Addr, UserTurn, items' = Without(items, p), frees' = Patched(p, NIL),
             calls' = calls \/ calls'[Len(calls')].phase # "free"
      PROVE  ReclaimInv'
  <2>1. Entries(frees') \subseteq Entries(frees)
    BY <1>0, <1>3, <1>t, PatchedCondemned
  <2>2. RootItems' \subseteq RootItems
    BY <1>3 DEF Without, RootItems
  <2>3. RootlessInv'
    BY <1>0, <2>1, <2>2 DEF RootlessInv
  <2> QED
    BY <1>3, <1>calls, <1>u, <2>3 DEF ReclaimInv
<1>4. ASSUME NEW p \in External, Unregister(p)
      PROVE  ReclaimInv'
  <2>1. p \in Addr /\ UserTurn /\ items' = Without(items, p) /\ frees' = Patched(p, NIL) /\ calls' = calls
    BY <1>4 DEF Unregister, Forget, Addr
  <2> QED
    BY <1>3, <2>1
<1>5. ASSUME NEW p \in Heap, Dealloc(p)
      PROVE  ReclaimInv'
  <2>1. /\ p \in Addr /\ UserTurn /\ items' = Without(items, p) /\ frees' = Patched(p, NIL)
        /\ calls' = calls \/ calls' = Append(calls, DeallocFrame(p))
    BY <1>5 DEF Dealloc, Forget, Addr
  <2>2. DeallocFrame(p) \in Frame /\ DeallocFrame(p).phase # "free"
    BY DEF DeallocFrame, Frame, Addr
  <2>3. Append(calls, DeallocFrame(p))[Len(Append(calls, DeallocFrame(p)))] = DeallocFrame(p)
    BY <2>2, StackPushed DEF TypeOK
  <2> QED
    BY <1>3, <2>1, <2>2, <2>3
<1>6. ASSUME NEW p \in Heap, NEW n \in Sizes, ReallocInPlace(p, n)
      PROVE  ReclaimInv'
  <2>1. /\ MayUseGC /\ items' = [items EXCEPT ![p].size = n]
        /\ MaybeCollect(frees, condemned, <<>>) \/ UNCHANGED <<frees, calls>>
    BY <1>6 DEF ReallocInPlace
  <2>2. DOMAIN items' = DOMAIN items /\ \A q \in DOMAIN items : items'[q].root = items[q].root
    BY <1>t, <2>1 DEF Item
  <2>3. RootItems' = RootItems
    BY <2>2 DEF RootItems
  <2>4. CASE UNCHANGED <<frees, calls>>
    <3>1. RootlessInv'
      BY <1>0, <2>3, <2>4 DEF RootlessInv
    <3>2. FreedInv'
      BY <1>calls, <1>q, <1>u, <2>1, <2>4
    <3> QED
      BY <3>1, <3>2 DEF ReclaimInv
  <2> QED
    BY <1>collect, <2>1, <2>3, <2>4
<1>7. ASSUME NEW p \in Heap, NEW q \in Heap, NEW n \in Sizes, ReallocMoved(p, q, n)
      PROVE  ReclaimInv'
  <2> DEFINE item == [items[p] EXCEPT !.size = n]
             below == IF n > items[p].size THEN <<ReregisterFrame>> ELSE <<>>
             cnd == IF p \in condemned THEN (condemned \ {p}) \cup {q} ELSE condemned
  <2>1. CASE Panic
    BY <1>panic, <2>1
  <2>2. CASE ~Panic
    <3>1. /\ MayUseGC /\ p \in DOMAIN items /\ q \notin DOMAIN items /\ p \in Addr /\ q \in Addr
          /\ Track(Without(items, p), q, item) /\ MaybeCollect(Patched(p, q), cnd, below)
      BY <1>7, <2>2 DEF ReallocMoved, Addr
    <3>2. below \in Seq(Frame) /\ \A k \in 1..Len(below) : below[k].op \notin {"dealloc", "destroy"}
      BY ReregisterBelow
    <3>3. item.root = items[p].root /\ [item EXCEPT !.leaf = @ \/ item.size < Word].root = item.root
      BY <1>t, <3>1 DEF Item
    <3>4. items' = With(Without(items, p), q, [item EXCEPT !.leaf = @ \/ item.size < Word])
      BY <3>1 DEF Track
    <3> HIDE DEF item, below, cnd
    <3>5. frees = <<>> => Patched(p, q) = <<>>
      BY <1>0, <3>1, PatchedCondemned DEF Slots
    <3>6. /\ Entries(frees') \subseteq Entries(Patched(p, q)) \cup (DOMAIN items' \ Marked')
          /\ calls' = calls \/ calls'[Len(calls')] = SweepFrame("collect")
      BY <1>0, <1>q, <3>1, <3>2, <3>5, CollectSettles
    <3>7. Entries(Patched(p, q)) = IF p \in Entries(frees) THEN (Entries(frees) \ {p}) \cup {q} ELSE Entries(frees)
      BY <1>0, <1>t, <3>1, PatchedCondemned DEF Slots
    <3>8. RootItems' = IF p \in RootItems THEN (RootItems \ {p}) \cup {q} ELSE RootItems
      BY <3>1, <3>3, <3>4 DEF With, Without, RootItems
    <3>9. q \notin Entries(frees)
      BY <1>q, <1>u, <3>1
    <3>10. RootItems' \cap Entries(Patched(p, q)) = {}
      BY <1>0, <3>1, <3>7, <3>8, <3>9 DEF RootlessInv, RootItems
    <3>11. RootItems' \subseteq Marked'
      BY MarkedRoots
    <3>12. RootlessInv'
      BY <3>6, <3>10, <3>11 DEF RootlessInv
    <3> QED
      BY <1>calls, <1>q, <1>s, <1>u, <3>1, <3>6, <3>12 DEF ReclaimInv
  <2> QED
    BY <2>1, <2>2
(* An operation ends: what was below it is not freeing.                    *)
<1>pop. ASSUME calls # <<>>, calls' = Pop PROVE FreedInv'
  <2>1. PICK n \in Nat : /\ n >= 1 /\ n = Len(calls) /\ Len(calls') = n - 1
                         /\ \A k \in 1..n - 1 : calls'[k] = calls[k]
    BY <1>pop, Popped
  <2>2. CASE n = 1
    <3>1. calls' = <<>>
      BY <2>1, <2>2, EmptySeq DEF TypeOK
    <3> QED
      BY <3>1 DEF FreedInv
  <2>3. CASE n # 1
    <3>1. n - 1 \in 1..n - 1 /\ n - 1 \in 1..n /\ n - 1 # n
      BY <2>1, <2>3
    <3>2. calls'[Len(calls')].phase \in {"call", "recheck"}
      BY <1>0, <2>1, <3>1 DEF StackInv
    <3> QED
      BY <3>2 DEF FreedInv, Top
  <2> QED
    BY <2>2, <2>3
<1>8. CASE Recheck
  <2>1. /\ calls # <<>> /\ Top.phase = "recheck" /\ items' = items
        /\ \/ Triggers /\ Cycle(frees, Pop)
           \/ calls' = Pop /\ frees' = frees
    BY <1>8 DEF Recheck
  <2>2. RootItems' = RootItems
    BY <2>1 DEF RootItems
  <2>3. CASE calls' = Pop /\ frees' = frees
    <3>1. RootlessInv'
      BY <1>0, <2>2, <2>3 DEF RootlessInv
    <3> QED
      BY <1>pop, <2>1, <2>3, <3>1 DEF ReclaimInv
  <2>4. CASE Triggers /\ Cycle(frees, Pop)
    <3>1. FrameOK(Top) /\ Len(calls) \in 1..Len(calls) /\ Top = calls[Len(calls)] /\ Pop \in Seq(Frame)
      BY <1>0, <2>1, Popped DEF StackInv, Top
    <3>2. ~InDestroy
      BY <1>0, <2>1, <3>1 DEF StackInv, FrameOK
    <3>3. frees = <<>>
      BY <1>0, <2>4, <3>2, NoSweep DEF Triggers
    <3>4. Cycle(<<>>, Pop)
      BY <2>4, <3>3
    <3>5. Entries(frees') = DOMAIN items' \ Marked' /\ calls'[Len(calls')] = SweepFrame("collect")
      BY <3>1, <3>4, CycleSettles
    <3>6. RootlessInv'
      BY <1>0, <2>2, <3>5, RootlessKept
    <3> QED
      BY <1>calls, <1>s, <2>1, <3>5, <3>6 DEF ReclaimInv
  <2> QED
    BY <2>1, <2>3, <2>4
<1>9. CASE Collect
  <2>1. MayUseGC /\ ~collecting /\ Cycle(frees, calls) /\ items' = items
    BY <1>9 DEF Collect
  <2>2. frees = <<>>
    BY <1>0, <1>q, <2>1, NoSweep
  <2>3. Cycle(<<>>, calls) /\ calls \in Seq(Frame)
    BY <2>1, <2>2 DEF TypeOK
  <2>4. Entries(frees') = DOMAIN items' \ Marked' /\ calls'[Len(calls')] = SweepFrame("collect")
    BY <2>3, CycleSettles
  <2>5. RootlessInv'
    BY <1>0, <2>1, <2>4, RootlessKept DEF RootItems
  <2> QED
    BY <1>calls, <1>q, <1>s, <1>u, <2>1, <2>4, <2>5 DEF ReclaimInv
<1>10. CASE CallFinalizer
  <2> DEFINE p == frees[First(Due)]
  <2>1. CASE p \notin DOMAIN items
    BY <1>10, <1>panic, <2>1 DEF CallFinalizer
  <2>2. CASE p \in DOMAIN items
    <3>1. /\ items' = [items EXCEPT ![p].fin = FALSE] /\ frees' = frees
          /\ calls # <<>> /\ Top.phase = "finalize" /\ calls' = TopAt("call", First(Due))
      BY <1>10, <2>2 DEF CallFinalizer, Claimed, Sweeping
    <3>2. First(Due) \in Nat
      <4>1. Top.at \in Nat
        BY <3>1, CallsTyped DEF Frame
      <4>2. Due # {} /\ Due \subseteq Nat
        BY <1>10, <4>1 DEF CallFinalizer, Due
      <4> QED
        BY <4>2, FirstIsFirst
    <3> HIDE DEF p
    <3>3. DOMAIN items' = DOMAIN items /\ \A q \in DOMAIN items : items'[q].root = items[q].root
      BY <1>t, <3>1 DEF Item
    <3>4. RootlessInv'
      BY <1>0, <3>1, <3>3 DEF RootlessInv, RootItems
    <3>5. calls'[Len(calls')].phase = "call"
      BY <3>1, <3>2, Moved
    <3> QED
      BY <1>calls, <3>1, <3>4, <3>5 DEF ReclaimInv
  <2> QED
    BY <2>1, <2>2
<1>11. CASE FinalizerReturn
  <2>1. calls # <<>> /\ Top.phase = "call" /\ UNCHANGED <<items, frees>>
    BY <1>11 DEF FinalizerReturn
  <2>2. RootlessInv'
    BY <1>0, <2>1 DEF RootlessInv, RootItems
  <2>3. FreedInv'
    <3>1. CASE Top.op = "dealloc"
      BY <1>11, <1>pop, <2>1, <3>1 DEF FinalizerReturn
    <3>2. CASE Top.op # "dealloc"
      <4>1. calls' = TopAt("finalize", Top.at) /\ Top.at \in Nat
        BY <1>11, <2>1, <3>2, CallsTyped DEF FinalizerReturn, Frame
      <4>2. calls'[Len(calls')].phase = "finalize"
        BY <2>1, <4>1, Moved
      <4> QED
        BY <1>calls, <2>1, <4>2
    <3> QED
      BY <3>1, <3>2
  <2> QED
    BY <2>2, <2>3 DEF ReclaimInv
<1>12. CASE FreeNext
  <2> DEFINE m == First(Unfreed)
  <2>1. /\ calls # <<>> /\ Top.op \in SweepOps /\ Unfreed # {}
        /\ (Top.phase = "free" \/ Top.phase = "finalize")
    BY <1>12 DEF FreeNext, Freeing, Sweeping, SweepOps
  <2>2. frees[m] \in DOMAIN items
    BY <1>12, FreedIsFinalized DEF FreeNext
  <2>3. items' = Without(items, frees[m]) /\ calls' = TopAt("free", m) /\ frees' = frees
    BY <1>12, <2>2 DEF FreeNext, Forget
  <2>4. Top.at \in Nat /\ Len(frees) \in Nat
    BY <1>0, <2>1, TopLists
  <2>5. m \in Unfreed /\ \A j \in Unfreed : m <= j
    <3>1. Unfreed \subseteq Nat
      BY <2>4 DEF Unfreed
    <3> QED
      BY <2>1, <3>1, FirstIsFirst
  <2> HIDE DEF m
  <2>6. m \in Nat
    BY <2>4, <2>5 DEF Unfreed
  <2>7. DOMAIN items' = DOMAIN items \ {frees[m]}
    BY <2>3 DEF Without
  <2>8. ASSUME NEW i \in 1..Len(frees), i <= m
        PROVE  frees[i] \notin DOMAIN items'
    <3>1. CASE i = m
      BY <2>7, <3>1
    <3>2. CASE i # m
      <4>1. i \notin Unfreed
        BY <2>5, <2>6, <2>8, <3>2
      <4>2. frees[i] = NIL \/ (Top.phase = "free" /\ i <= Top.at)
        BY <2>4, <4>1 DEF Unfreed
      <4> QED
        BY <1>0, <1>t, <2>1, <2>7, <4>2 DEF FreedInv
    <3> QED
      BY <3>1, <3>2
  <2>9. calls'[Len(calls')].at = m
    BY <2>1, <2>3, <2>6, Moved
  <2>10. FreedInv'
    BY <2>3, <2>8, <2>9 DEF FreedInv, Top
  <2>11. RootlessInv'
    BY <1>0, <2>3 DEF RootlessInv, RootItems, Without
  <2> QED
    BY <2>10, <2>11 DEF ReclaimInv
<1>13. CASE EndCollect \/ EndDestroy
  <2>1. calls # <<>> /\ calls' = Pop /\ frees' = <<>>
    BY <1>13 DEF EndCollect, EndDestroy, Freeing, Sweeping
  <2>2. RootlessInv'
    BY <2>1 DEF RootlessInv, Entries
  <2> QED
    BY <1>pop, <2>1, <2>2 DEF ReclaimInv
<1>14. CASE Destroy
  <2>1. /\ calls = <<>> /\ items' = items /\ BeginSweep("destroy", DOMAIN items \ RootItems, frees, <<>>)
    BY <1>14 DEF Destroy
  <2>2. Len(calls) = 0
    BY <2>1
  <2>3. frees = <<>>
    BY <1>0, <2>2 DEF StackInv, Sweeps
  <2>4. PICK s \in Orders(DOMAIN items \ RootItems) : frees' = <<>> \o s
    BY <2>1, <2>3 DEF BeginSweep
  <2>5. DOMAIN items \ RootItems \subseteq Addr
    BY <1>t
  <2>6. Entries(frees') = DOMAIN items \ RootItems
    BY <2>4, <2>5, OrderEntries
  <2>7. RootlessInv'
    BY <2>1, <2>6 DEF RootlessInv, RootItems
  <2>8. calls' = <<SweepFrame("destroy")>> /\ SweepFrame("destroy").phase = "finalize"
    BY <2>1 DEF BeginSweep, SweepFrame
  <2>9. calls'[Len(calls')].phase # "free"
    BY <2>8
  <2> QED
    BY <1>calls, <2>1, <2>7, <2>9 DEF ReclaimInv
<1>15. ASSUME \/ \E run \in Modes, pct \in Pauses : Configure(run, pct)
              \/ \E p \in Addr, a \in Addr : Load(p, a)
              \/ \E p \in Addr, W \in {{}} \cup {{a} : a \in stack} : Store(p, W)
              \/ \E a \in Addr : Drop(a)
              \/ Stopped
              \/ UNCHANGED vars
       PROVE  ReclaimInv'
  <2>1. UNCHANGED <<items, frees, calls>>
    BY <1>15 DEF Configure, Load, Store, Drop, Program, Stopped, vars
  <2> QED
    BY <2>1, <1>same
<1> QED
  BY <1>1, <1>2, <1>4, <1>5, <1>6, <1>7, <1>8, <1>9, <1>10, <1>11, <1>12, <1>13, <1>14, <1>15 DEF Next
-------------------------------------------------------------------------------
(* Each step of the collector is a step of the abstract manager.           *)

(* Tracking a block makes a root of it, or not.                            *)
LEMMA TrackedRoots ==
  ASSUME NEW its, its = items, NEW p, p \notin DOMAIN items, NEW item, Track(its, p, item)
  PROVE  DOMAIN items' = DOMAIN items \cup {p} /\ RootItems' \in {RootItems, RootItems \cup {p}}
<1>1. DOMAIN items' = DOMAIN items \cup {p} /\ \A q \in DOMAIN items : items'[q] = items[q]
  BY DEF Track, With
<1>2. RootItems' = RootItems \/ RootItems' = RootItems \cup {p}
  BY <1>1 DEF RootItems
<1> QED
  BY <1>1, <1>2

(* The collector begins as a manager does,                                 *)
LEMMA AbsInit == Init => Abs!Init
<1> SUFFICES ASSUME Init PROVE Abs!Init
  OBVIOUS
<1>1. /\ items = [p \in Static |-> RootItem] /\ RootItem.root /\ fate = [p \in Addr |-> "none"]
      /\ DOMAIN calls = {} /\ DOMAIN frees = {} /\ status = "run" /\ Static \subseteq Addr
  BY DEF Init, RootItem, Addr
<1>2. RootItems = Static /\ DOMAIN items = Static
  BY <1>1 DEF RootItems
<1>3. \A p \in Addr : Whereabouts(p) = IF p \in Static THEN "live" ELSE "free"
  BY <1>1, <1>2 DEF Whereabouts
<1>4. Where \in [Addr -> {"free", "live"}] /\ RootItems = {p \in Addr : Where[p] = "live"}
  BY <1>1, <1>2, <1>3 DEF Where
<1>5. ~Closing
  BY <1>1 DEF Closing, InDestroy
<1> QED
  BY <1>1, <1>4, <1>5 DEF Abs!Init, Where, Closing

(* and each of its steps is a step of the manager, or one it cannot see:   *)
(* by cases on the step.                                                   *)
LEMMA AbsNext ==
  ASSUME QuietDestroy, TypeOK, TypeOK', OnceInv, SweepInv, SweepInv', MarkIsReachability', ReclaimInv,
         [Next]_vars
  PROVE  [Abs!Next]_(Abs!state)
<1>0. StackInv /\ ListInv /\ FreedInv /\ RootlessInv /\ LeavingInv /\ FinalizerOnce
  BY DEF SweepInv, ReclaimInv, OnceInv
<1>t. /\ DOMAIN items \subseteq Addr /\ DOMAIN items' \subseteq Addr /\ NIL \notin Addr /\ NIL \in Slots
      /\ items \in [DOMAIN items -> Item] /\ fate \in [Addr -> {"none", "owed", "done"}] /\ Heap \subseteq Addr
  BY GCAddresses DEF TypeOK, NIL, Slots, Addr
<1>e. <<>> \in Seq(Frame) /\ \A k \in 1..Len(<<>>) : <<>>[k].op \notin {"dealloc", "destroy"}
  BY EmptySeq
<1>q. MayUseGC => ~InDestroy /\ UserTurn
  BY DEF MayUseGC
<1>u. UserTurn => Entries(frees) \subseteq DOMAIN items
  BY <1>0, UserLists DEF Entries
<1>w. Where = Located(DOMAIN items, Entries(frees), Waiting(calls))
  BY WhereLocated DEF WhereOK
<1>x. Where' = Located(DOMAIN items', Entries(frees'), Waiting(calls'))
  BY WhereLocatedNext
<1>y. Waiting(calls) \subseteq (Heap \cap alloced) \ DOMAIN items
  BY <1>0 DEF LeavingInv, Outgoing, Waiting
<1>tracked. \A p \in DOMAIN items : Where[p] \in {"live", "doomed"} /\ (Where[p] = "doomed" <=> p \in Entries(frees))
  BY <1>t, <1>w DEF Located
<1>same. ASSUME DOMAIN items' = DOMAIN items, RootItems' = RootItems, fate' = fate, status' = status,
                Entries(frees') = Entries(frees), Waiting(calls') = Waiting(calls),
                Destroying(calls') <=> Destroying(calls)
         PROVE  UNCHANGED Abs!state
  <2>1. Where' = Where
    BY <1>same, <1>w, <1>x
  <2>2. Closing' <=> Closing
    BY <1>same, ClosingKept
  <2> QED
    BY <1>same, <2>1, <2>2, AbsStutter
<1>panic. ~Panic
  BY DEF Panic, SweepInv, ChecksHold
<1>1. ASSUME NEW p \in Heap, NEW n \in Sizes, NEW kind \in Kinds, Alloc(p, n, kind)
      PROVE  Abs!Next
  <2> DEFINE new == NewItem(n, kind, FALSE)
  <2>1. /\ p \notin DOMAIN items /\ p \notin alloced /\ p \in Addr /\ MayUseGC
        /\ fate' = [fate EXCEPT ![p] = Owed(kind[3])] /\ status' = status
        /\ Track(items, p, new) /\ MaybeCollect(frees, condemned, <<>>)
    BY <1>1, <1>panic, <1>t DEF Alloc
  <2>2. DOMAIN items' = DOMAIN items \cup {p} /\ RootItems' \in {RootItems, RootItems \cup {p}}
    BY <2>1, TrackedRoots
  <2>3. Owed(kind[3]) \in {"none", "owed"}
    BY DEF Owed
  <2>4. p \notin Entries(frees) /\ p \notin Waiting(calls)
    BY <1>q, <1>u, <1>y, <2>1
  <2>5. Where[p] = "free"
    BY <1>w, <2>1, <2>4 DEF Located
  <2>6. /\ Abs!Settle(Located(DOMAIN items', Entries(frees), Waiting(calls)))
        /\ Destroying(calls') <=> Destroying(calls)
    BY <1>0, <1>e, <1>q, <2>1, CollectSettles
  <2>7. Located(DOMAIN items', Entries(frees), Waiting(calls)) = [Where EXCEPT ![p] = "live"]
    <3>1. Agree(p, DOMAIN items, DOMAIN items') /\ p \in DOMAIN items'
      BY <2>2 DEF Agree
    <3> QED
      BY <1>w, <2>1, <2>4, <3>1 DEF Located, Agree
  <2>8. Closing' <=> Closing
    BY <2>1, <2>6, ClosingKept
  <2> HIDE DEF new
  <2> QED
    BY <2>1, <2>2, <2>3, <2>5, <2>6, <2>7, <2>8, AbsAllocate
<1>2. ASSUME NEW p \in External, NEW kind \in Kinds, RegisterExtern(p, Word, kind)
      PROVE  Abs!Next
  <2> DEFINE new == NewItem(Word, kind, TRUE)
  <2>1. /\ p \notin DOMAIN items /\ p \notin Heap /\ p \in Addr /\ MayUseGC
        /\ fate' = [fate EXCEPT ![p] = Owed(kind[3])] /\ status' = status
        /\ Track(items, p, new) /\ MaybeCollect(frees, condemned, <<>>)
    BY <1>2, GCAddresses DEF RegisterExtern, Addr
  <2>2. DOMAIN items' = DOMAIN items \cup {p} /\ RootItems' \in {RootItems, RootItems \cup {p}}
    BY <2>1, TrackedRoots
  <2>3. Owed(kind[3]) \in {"none", "owed"}
    BY DEF Owed
  <2>4. p \notin Entries(frees) /\ p \notin Waiting(calls)
    BY <1>q, <1>u, <1>y, <2>1
  <2>5. Where[p] = "free"
    BY <1>w, <2>1, <2>4 DEF Located
  <2>6. /\ Abs!Settle(Located(DOMAIN items', Entries(frees), Waiting(calls)))
        /\ Destroying(calls') <=> Destroying(calls)
    BY <1>0, <1>e, <1>q, <2>1, CollectSettles
  <2>7. Located(DOMAIN items', Entries(frees), Waiting(calls)) = [Where EXCEPT ![p] = "live"]
    <3>1. Agree(p, DOMAIN items, DOMAIN items') /\ p \in DOMAIN items'
      BY <2>2 DEF Agree
    <3> QED
      BY <1>w, <2>1, <2>4, <3>1 DEF Located, Agree
  <2>8. Closing' <=> Closing
    BY <2>1, <2>6, ClosingKept
  <2> HIDE DEF new
  <2> QED
    BY <2>1, <2>2, <2>3, <2>5, <2>6, <2>7, <2>8, AbsAllocate
(* The program takes a block out of the collector.                         *)
<1>gone. ASSUME NEW p \in Addr, p \in DOMAIN items, items' = Without(items, p),
                Agree(p, Entries(frees), Entries(frees')), Agree(p, Waiting(calls), Waiting(calls')),
                Destroying(calls') <=> Destroying(calls), status' = status
         PROVE  /\ Where[p] \in {"live", "doomed"} /\ RootItems' = RootItems \ {p} /\ (Closing' <=> Closing)
                /\ p \notin Waiting(calls') => Where' = [Where EXCEPT ![p] = "free"]
                /\ p \in Waiting(calls') => Where' = [Where EXCEPT ![p] = "leaving"]
  <2>1. RootItems' = RootItems \ {p} /\ DOMAIN items' = DOMAIN items \ {p}
    BY <1>gone DEF RootItems, Without
  <2>2. /\ p \notin Waiting(calls') => Where' = [Where EXCEPT ![p] = "free"]
        /\ p \in Waiting(calls') => Where' = [Where EXCEPT ![p] = "leaving"]
    <3>1. Agree(p, DOMAIN items, DOMAIN items') /\ p \notin DOMAIN items'
      BY <2>1 DEF Agree
    <3> QED
      BY <1>gone, <1>w, <1>x, <3>1 DEF Located, Agree
  <2>3. Closing' <=> Closing
    BY <1>gone, ClosingKept
  <2> QED
    BY <1>gone, <1>tracked, <2>1, <2>2, <2>3
<1>patched. ASSUME NEW p \in Addr, frees' = Patched(p, NIL)
            PROVE  Agree(p, Entries(frees), Entries(frees'))
  BY <1>0, <1>patched, <1>t, PatchedCondemned DEF Agree
<1>3. ASSUME NEW p \in External, Unregister(p)
      PROVE  Abs!Next
  <2>1. /\ p \in Addr /\ p \in DOMAIN items /\ items' = Without(items, p) /\ frees' = Patched(p, NIL)
        /\ UNCHANGED <<calls, status>> /\ fate' = [fate EXCEPT ![p] = "none"] /\ p \notin Heap
    BY <1>3, GCAddresses DEF Unregister, Forget, Addr
  <2>2. p \notin Waiting(calls')
    BY <1>y, <2>1
  <2>3. /\ Where[p] \in {"live", "doomed"} /\ RootItems' = RootItems \ {p} /\ (Closing' <=> Closing)
        /\ Where' = [Where EXCEPT ![p] = "free"]
    <3>1. Agree(p, Waiting(calls), Waiting(calls')) /\ Agree(p, Entries(frees), Entries(frees'))
      BY <1>patched, <2>1 DEF Agree
    <3> QED
      BY <1>gone, <2>1, <2>2, <3>1
  <2> QED
    BY <2>1, <2>3, AbsTakeBack
<1>4. ASSUME NEW p \in Heap, Dealloc(p)
      PROVE  Abs!Next
  <2>1. /\ p \in Addr /\ p \in DOMAIN items /\ items' = Without(items, p) /\ frees' = Patched(p, NIL)
        /\ status' = status
    BY <1>4, <1>t DEF Dealloc, Forget
  <2>2. CASE items[p].fin
    <3>1. calls' = Append(calls, DeallocFrame(p)) /\ fate' = [fate EXCEPT ![p] = "done"]
      BY <1>4, <2>2 DEF Dealloc
    <3>2. /\ DeallocFrame(p) \in Frame /\ DeallocFrame(p).op = "dealloc" /\ DeallocFrame(p).ptr = p
      BY <2>1 DEF DeallocFrame, Frame
    <3>3. Waiting(calls') = Waiting(calls) \cup {p} /\ (Destroying(calls') <=> Destroying(calls))
      BY <3>1, <3>2, StackPushed DEF TypeOK
    <3>4. /\ Where[p] \in {"live", "doomed"} /\ RootItems' = RootItems \ {p} /\ (Closing' <=> Closing)
          /\ Where' = [Where EXCEPT ![p] = "leaving"]
      <4>1. Agree(p, Waiting(calls), Waiting(calls')) /\ Agree(p, Entries(frees), Entries(frees'))
        BY <1>patched, <2>1, <3>3 DEF Agree
      <4> QED
        BY <1>gone, <2>1, <3>3, <4>1
    <3>5. fate[p] = "owed"
      BY <1>0, <2>1, <2>2 DEF FinalizerOnce
    <3> QED
      BY <2>1, <3>1, <3>4, <3>5, AbsRelease
  <2>3. CASE ~items[p].fin
    <3>1. calls' = calls /\ fate' = [fate EXCEPT ![p] = "none"]
      BY <1>4, <2>3 DEF Dealloc
    <3>2. p \notin Waiting(calls')
      BY <1>y, <2>1, <3>1
    <3>3. /\ Where[p] \in {"live", "doomed"} /\ RootItems' = RootItems \ {p} /\ (Closing' <=> Closing)
          /\ Where' = [Where EXCEPT ![p] = "free"]
      <4>1. Agree(p, Waiting(calls), Waiting(calls')) /\ Agree(p, Entries(frees), Entries(frees'))
        BY <1>patched, <2>1, <3>1 DEF Agree
      <4> QED
        BY <1>gone, <2>1, <3>1, <3>2, <4>1
    <3>4. fate[p] # "owed"
      BY <1>0, <2>1, <2>3 DEF FinalizerOnce
    <3> QED
      BY <2>1, <3>1, <3>3, <3>4, AbsRelease
  <2> QED
    BY <2>2, <2>3
<1>5. ASSUME NEW p \in Heap, NEW n \in Sizes, ReallocInPlace(p, n)
      PROVE  [Abs!Next]_(Abs!state)
  <2>1. /\ MayUseGC /\ items' = [items EXCEPT ![p].size = n] /\ fate' = fate /\ status' = status
        /\ MaybeCollect(frees, condemned, <<>>) \/ UNCHANGED <<frees, calls>>
    BY <1>5 DEF ReallocInPlace
  <2>2. DOMAIN items' = DOMAIN items /\ \A q \in DOMAIN items : items'[q].root = items[q].root
    BY <1>t, <2>1 DEF Item
  <2>3. RootItems' = RootItems
    BY <2>2 DEF RootItems
  <2>4. CASE UNCHANGED <<frees, calls>>
    BY <1>same, <2>1, <2>2, <2>3, <2>4
  <2>5. CASE MaybeCollect(frees, condemned, <<>>)
    <3>1. /\ Abs!Settle(Located(DOMAIN items', Entries(frees), Waiting(calls)))
          /\ Destroying(calls') <=> Destroying(calls)
      BY <1>0, <1>e, <1>q, <2>1, <2>5, CollectSettles
    <3>2. Abs!Settle(Where)
      BY <1>w, <2>2, <3>1
    <3>3. Closing' <=> Closing
      BY <2>1, <3>1, ClosingKept
    <3> QED
      BY <2>1, <2>3, <3>2, <3>3, AbsCondemn
  <2> QED
    BY <2>1, <2>4, <2>5
<1>6. ASSUME NEW p \in Heap, NEW q \in Heap, NEW n \in Sizes, ReallocMoved(p, q, n)
      PROVE  Abs!Next
  <2> DEFINE item == [items[p] EXCEPT !.size = n]
             below == IF n > items[p].size THEN <<ReregisterFrame>> ELSE <<>>
             cnd == IF p \in condemned THEN (condemned \ {p}) \cup {q} ELSE condemned
  <2>1. /\ MayUseGC /\ p \in DOMAIN items /\ q \notin DOMAIN items /\ p \in Addr /\ q \in Addr
        /\ q \notin alloced /\ status' = status /\ fate' = [fate EXCEPT ![p] = "none", ![q] = fate[p]]
        /\ Track(Without(items, p), q, item) /\ MaybeCollect(Patched(p, q), cnd, below)
    BY <1>6, <1>panic, <1>t DEF ReallocMoved
  <2>2. below \in Seq(Frame) /\ \A k \in 1..Len(below) : below[k].op \notin {"dealloc", "destroy"}
    BY ReregisterBelow
  <2>3. item.root = items[p].root /\ [item EXCEPT !.leaf = @ \/ item.size < Word].root = item.root
    BY <1>t, <2>1 DEF Item
  <2>4. items' = With(Without(items, p), q, [item EXCEPT !.leaf = @ \/ item.size < Word])
    BY <2>1 DEF Track
  <2> HIDE DEF item, below, cnd
  <2>5. RootItems' = IF p \in RootItems THEN (RootItems \ {p}) \cup {q} ELSE RootItems
    BY <2>1, <2>3, <2>4 DEF With, Without, RootItems
  <2>6. DOMAIN items' = (DOMAIN items \ {p}) \cup {q}
    BY <2>4 DEF With, Without
  <2>7. /\ Entries(Patched(p, q)) = IF p \in Entries(frees) THEN (Entries(frees) \ {p}) \cup {q} ELSE Entries(frees)
        /\ frees = <<>> => Patched(p, q) = <<>>
    BY <1>0, <1>t, <2>1, PatchedCondemned DEF Slots
  <2>8. /\ Abs!Settle(Located(DOMAIN items', Entries(Patched(p, q)), Waiting(calls)))
        /\ Destroying(calls') <=> Destroying(calls)
    BY <1>0, <1>q, <2>1, <2>2, <2>7, CollectSettles
  <2>9. q \notin Entries(frees) /\ q \notin Waiting(calls) /\ p \notin Waiting(calls)
    BY <1>q, <1>u, <1>y, <2>1
  <2>10. Where[q] = "free" /\ Where[p] \in {"live", "doomed"} /\ (Where[p] = "doomed" <=> p \in Entries(frees))
    BY <1>tracked, <1>w, <2>1, <2>9 DEF Located
  <2>11. Located(DOMAIN items', Entries(Patched(p, q)), Waiting(calls)) = [Where EXCEPT ![p] = "free", ![q] = Where[p]]
    <3>1. \A r \in Addr : Located(DOMAIN items', Entries(Patched(p, q)), Waiting(calls))[r] =
                            IF r = q THEN Where[p] ELSE IF r = p THEN "free" ELSE Where[r]
      BY <1>w, <2>1, <2>6, <2>7, <2>9, <2>10 DEF Located
    <3>2. Located(DOMAIN items', Entries(Patched(p, q)), Waiting(calls)) =
            [r \in Addr |-> IF r = q THEN Where[p] ELSE IF r = p THEN "free" ELSE Where[r]]
      BY <3>1 DEF Located
    <3>3. [Where EXCEPT ![p] = "free", ![q] = Where[p]] =
            [r \in Addr |-> IF r = q THEN Where[p] ELSE IF r = p THEN "free" ELSE Where[r]]
      BY <2>1 DEF Where
    <3> QED
      BY <3>2, <3>3
  <2>12. Closing' <=> Closing
    BY <2>1, <2>8, ClosingKept
  <2> QED
    BY <2>1, <2>5, <2>8, <2>10, <2>11, <2>12, AbsMove
<1>7. CASE Recheck
  <2>1. /\ calls # <<>> /\ Top.phase = "recheck" /\ UNCHANGED <<items, fate, status>>
        /\ \/ Triggers /\ Cycle(frees, Pop)
           \/ calls' = Pop /\ frees' = frees
    BY <1>7 DEF Recheck
  <2>2. RootItems' = RootItems
    BY <2>1 DEF RootItems
  <2>3. FrameOK(Top) /\ Len(calls) \in 1..Len(calls) /\ Top = calls[Len(calls)] /\ Pop \in Seq(Frame)
    BY <1>0, <2>1, Popped DEF StackInv, Top
  <2>4. Top.op = "reregister" /\ ~InDestroy
    BY <1>0, <2>1, <2>3 DEF StackInv, FrameOK
  <2>5. Waiting(Pop) = Waiting(calls) /\ (Destroying(Pop) <=> Destroying(calls))
    BY <2>1, <2>4, StackPopped
  <2>6. CASE calls' = Pop /\ frees' = frees
    BY <1>same, <2>1, <2>2, <2>5, <2>6
  <2>7. CASE Triggers /\ Cycle(frees, Pop)
    <3>1. frees = <<>>
      BY <1>0, <2>4, <2>7, NoSweep DEF Triggers
    <3>2. Cycle(<<>>, Pop) /\ Entries(frees) = {}
      BY <2>7, <3>1 DEF Entries
    <3>3. Abs!Settle(Located(DOMAIN items', {}, Waiting(Pop))) /\ (Destroying(calls') <=> Destroying(Pop))
      BY <2>3, <3>2, CycleSettles
    <3>4. Abs!Settle(Where)
      BY <1>w, <2>1, <2>5, <3>2, <3>3
    <3>5. Closing' <=> Closing
      BY <2>1, <2>5, <3>3, ClosingKept
    <3> QED
      BY <2>1, <2>2, <3>4, <3>5, AbsCondemn
  <2> QED
    BY <2>1, <2>6, <2>7
<1>8. CASE Collect
  <2>1. MayUseGC /\ ~collecting /\ Cycle(frees, calls) /\ UNCHANGED <<items, fate, status>>
    BY <1>8 DEF Collect
  <2>2. frees = <<>>
    BY <1>0, <1>q, <2>1, NoSweep
  <2>3. Cycle(<<>>, calls) /\ calls \in Seq(Frame) /\ Entries(frees) = {} /\ RootItems' = RootItems
    BY <2>1, <2>2 DEF TypeOK, Entries, RootItems
  <2>4. Abs!Settle(Located(DOMAIN items', {}, Waiting(calls))) /\ (Destroying(calls') <=> Destroying(calls))
    BY <2>3, CycleSettles
  <2>5. Abs!Settle(Where)
    BY <1>w, <2>1, <2>3, <2>4
  <2>6. Closing' <=> Closing
    BY <2>1, <2>4, ClosingKept
  <2> QED
    BY <2>1, <2>3, <2>5, <2>6, AbsCondemn
<1>9. CASE CallFinalizer
  <2> DEFINE i == First(Due)
             p == frees[i]
  <2>1. /\ calls # <<>> /\ Top.phase = "finalize" /\ Due # {} /\ p \in DOMAIN items
        /\ items' = [items EXCEPT ![p].fin = FALSE] /\ frees' = frees /\ status' = status
        /\ calls' = TopAt("call", i) /\ fate' = [fate EXCEPT ![p] = "done"]
    BY <1>9, <1>panic DEF CallFinalizer, Claimed, Sweeping
  <2>2. i \in Due /\ i \in Nat /\ Top.at \in Nat
    <3>1. Top.at \in Nat
      BY <2>1, CallsTyped DEF Frame
    <3>2. Due \subseteq Nat
      BY <3>1 DEF Due
    <3> QED
      BY <2>1, <3>1, <3>2, FirstIsFirst
  <2>3. i \in 1..Len(frees) /\ p # NIL /\ items[p].fin
    <3>1. Len(frees) \in Nat
      BY LenProperties DEF TypeOK
    <3> QED
      BY <2>1, <2>2, <3>1 DEF Due
  <2>4. p \in Entries(frees)
    BY <2>3 DEF Entries
  <2> HIDE DEF i, p
  <2>5. p \in Addr /\ Where[p] = "doomed" /\ fate[p] = "owed"
    BY <1>0, <1>t, <1>tracked, <2>1, <2>3, <2>4 DEF FinalizerOnce
  <2>6. DOMAIN items' = DOMAIN items /\ \A q \in DOMAIN items : items'[q].root = items[q].root
    BY <1>t, <2>1 DEF Item
  <2>7. RootItems' = RootItems
    BY <2>6 DEF RootItems
  <2>8. Waiting(calls') = Waiting(calls) /\ (Destroying(calls') <=> Destroying(calls))
    BY <2>1, <2>2, StackMoved
  <2>9. Where' = Where
    BY <1>w, <1>x, <2>1, <2>6, <2>8
  <2>10. Closing' <=> Closing
    BY <2>1, <2>8, ClosingKept
  <2> QED
    BY <2>1, <2>5, <2>7, <2>9, <2>10, AbsFinalize
<1>10. CASE FinalizerReturn
  <2>1. calls # <<>> /\ Top.phase = "call" /\ UNCHANGED <<items, frees, status>> /\ RootItems' = RootItems
    BY <1>10 DEF FinalizerReturn, RootItems
  <2>2. CASE Top.op # "dealloc"
    <3>1. calls' = TopAt("finalize", Top.at) /\ Top.at \in Nat /\ fate' = fate
      BY <1>10, <2>1, <2>2, CallsTyped DEF FinalizerReturn, Frame
    <3>2. Waiting(calls') = Waiting(calls) /\ (Destroying(calls') <=> Destroying(calls))
      BY <2>1, <3>1, StackMoved
    <3> QED
      BY <1>same, <2>1, <3>1, <3>2
  <2>3. CASE Top.op = "dealloc"
    <3> DEFINE p == Top.ptr
    <3>1. calls' = Pop /\ fate' = [fate EXCEPT ![p] = "none"]
      BY <1>10, <2>3 DEF FinalizerReturn
    <3>2. PICK n \in Nat : /\ n >= 1 /\ n = Len(calls) /\ Len(calls') = n - 1 /\ Top = calls[n]
                           /\ \A k \in 1..n - 1 : calls'[k] = calls[k]
      BY <2>1, <3>1, Popped DEF Top
    <3>3. \A k \in 1..n : k = n \/ (k \in 1..n - 1 /\ k # n)
      OBVIOUS
    <3>4. \A k \in 1..n - 1 : k \in 1..n /\ k # n
      OBVIOUS
    <3>5. n \in Outgoing /\ n \in 1..n
      BY <2>3, <3>2 DEF Outgoing
    <3>6. p \in Waiting(calls) /\ p \in Addr /\ p \notin DOMAIN items
      BY <1>0, <1>t, <3>2, <3>5 DEF LeavingInv, Outgoing, Waiting
    <3>7. \A k \in 1..n - 1 : calls[k].op = "dealloc" => calls[k].ptr # p
      BY <1>0, <3>2, <3>4, <3>5 DEF LeavingInv, Outgoing
    <3> HIDE DEF p
    <3>8. Waiting(calls') = Waiting(calls) \ {p}
      <4>1. Waiting(calls') \subseteq Waiting(calls) \ {p}
        BY <3>2, <3>4, <3>7 DEF Waiting
      <4>2. Waiting(calls) \ {p} \subseteq Waiting(calls')
        BY <3>2, <3>3 DEF Waiting, p
      <4> QED
        BY <4>1, <4>2
    <3>9. Destroying(calls') <=> Destroying(calls)
      BY <2>1, <2>3, <3>1, StackPopped
    <3>10. Where[p] = "leaving"
      BY <1>w, <3>6 DEF Located
    <3>11. Where' = [Where EXCEPT ![p] = "free"]
      BY <1>w, <1>x, <2>1, <3>6, <3>8 DEF Located
    <3>12. Closing' <=> Closing
      BY <2>1, <3>9, ClosingKept
    <3> QED
      BY <2>1, <3>1, <3>6, <3>10, <3>11, <3>12, AbsLeave
  <2> QED
    BY <2>2, <2>3
<1>11. CASE FreeNext
  <2> DEFINE m == First(Unfreed)
             p == frees[m]
  <2>1. /\ calls # <<>> /\ Top.op \in SweepOps /\ Unfreed # {}
        /\ (Top.phase = "free" \/ (Top.phase = "finalize" /\ Due = {}))
    BY <1>11 DEF FreeNext, Freeing, Sweeping, SweepOps
  <2>2. p \in DOMAIN items /\ ~items[p].fin
    BY <1>11, FreedIsFinalized DEF FreeNext
  <2>3. /\ items' = Without(items, p) /\ calls' = TopAt("free", m) /\ frees' = frees /\ status' = status
        /\ fate' = [fate EXCEPT ![p] = "none"]
    BY <1>11, <2>2 DEF FreeNext, Forget
  <2>4. /\ Top.at \in Nat /\ Len(frees) \in Nat
        /\ \A i \in 1..Len(frees) : frees[i] # NIL /\ (Top.phase = "free" => i > Top.at) =>
              /\ frees[i] \in DOMAIN items
              /\ Top.phase = "free" \/ i <= Top.at => ~items[frees[i]].fin
    BY <1>0, <2>1, TopLists
  <2>5. m \in Unfreed
    <3>1. Unfreed \subseteq Nat
      BY <2>4 DEF Unfreed
    <3> QED
      BY <2>1, <3>1, FirstIsFirst
  <2>6. m \in Nat /\ m \in 1..Len(frees) /\ p # NIL
    BY <2>4, <2>5 DEF Unfreed
  <2>7. p \in Entries(frees)
    BY <2>6 DEF Entries
  <2> HIDE DEF m, p
  <2>8. p \in Addr /\ Where[p] = "doomed" /\ p \notin RootItems
    BY <1>0, <1>t, <1>tracked, <2>2, <2>7 DEF RootlessInv
(* The finalizers were called before the first deallocation.               *)
  <2>9. ASSUME NEW q \in Addr, Where[q] = "doomed" PROVE fate[q] # "owed"
    <3>1. q \in DOMAIN items /\ q \in Entries(frees)
      BY <1>t, <1>w, <2>9 DEF Located
    <3>2. PICK i \in 1..Len(frees) : frees[i] = q /\ q # NIL
      BY <3>1 DEF Entries
    <3>3. CASE Top.phase = "free"
      <4>1. ~(i <= Top.at)
        BY <1>0, <2>1, <3>1, <3>2, <3>3 DEF FreedInv
      <4>2. i > Top.at
        BY <2>4, <4>1
      <4>3. ~items[q].fin
        BY <2>4, <3>2, <3>3, <4>2
      <4> QED
        BY <1>0, <3>1, <4>3 DEF FinalizerOnce
    <3>4. CASE Top.phase = "finalize" /\ Due = {}
      <4>1. i \notin Due
        BY <3>4
      <4>2. i <= Top.at \/ ~items[q].fin
        BY <2>4, <3>1, <3>2, <4>1 DEF Due
      <4>3. ~items[q].fin
        BY <2>4, <3>2, <3>4, <4>2
      <4> QED
        BY <1>0, <3>1, <4>3 DEF FinalizerOnce
    <3> QED
      BY <2>1, <3>3, <3>4
  <2>10. Waiting(calls') = Waiting(calls) /\ (Destroying(calls') <=> Destroying(calls))
    BY <2>1, <2>3, <2>6, StackMoved
  <2>11. Agree(p, Entries(frees), Entries(frees')) /\ Agree(p, Waiting(calls), Waiting(calls'))
    BY <2>3, <2>10 DEF Agree
  <2>12. p \notin Waiting(calls')
    BY <1>y, <2>2, <2>10
  <2>13. RootItems' = RootItems \ {p} /\ (Closing' <=> Closing) /\ Where' = [Where EXCEPT ![p] = "free"]
    BY <1>gone, <2>2, <2>3, <2>8, <2>10, <2>11, <2>12
  <2> QED
    BY <2>3, <2>8, <2>9, <2>13, AbsReclaim
(* The list of a sweep that ends holds nothing that is tracked.            *)
<1>spent. ASSUME Freeing, Unfreed = {}
          PROVE  Entries(frees) \cap DOMAIN items = {}
  <2>1. /\ calls # <<>> /\ Top.op \in SweepOps
        /\ (Top.phase = "free" \/ Top.phase = "finalize")
    BY <1>spent DEF Freeing, Sweeping, SweepOps
  <2>2. Top.at \in Nat /\ Len(frees) \in Nat
    BY <1>0, <2>1, TopLists
  <2>3. ASSUME NEW i \in 1..Len(frees), frees[i] # NIL
        PROVE  frees[i] \notin DOMAIN items
    <3>1. i \notin Unfreed
      BY <1>spent
    <3>2. Top.phase = "free" /\ i <= Top.at
      BY <2>2, <2>3, <3>1 DEF Unfreed
    <3> QED
      BY <1>0, <2>1, <3>2 DEF FreedInv
  <2> QED
    BY <2>3 DEF Entries
<1>12. CASE EndCollect
  <2>1. /\ calls # <<>> /\ Top.op = "collect" /\ Freeing /\ Unfreed = {} /\ frees' = <<>> /\ calls' = Pop
        /\ UNCHANGED <<items, status, fate>> /\ RootItems' = RootItems
    BY <1>12 DEF EndCollect, Freeing, Sweeping, RootItems
  <2>2. Waiting(calls') = Waiting(calls) /\ (Destroying(calls') <=> Destroying(calls))
    BY <2>1, StackPopped
  <2>3. Entries(frees') = {} /\ Entries(frees) \cap DOMAIN items = {}
    BY <1>spent, <2>1 DEF Entries
  <2>4. Where' = Where
    BY <1>w, <1>x, <2>1, <2>2, <2>3 DEF Located
  <2>5. Closing' <=> Closing
    BY <2>1, <2>2, ClosingKept
  <2> QED
    BY <2>1, <2>4, <2>5, AbsStutter
<1>13. CASE Destroy
  <2>1. /\ status = "run" /\ calls = <<>> /\ UNCHANGED <<items, fate, status>> /\ RootItems' = RootItems
        /\ BeginSweep("destroy", DOMAIN items \ RootItems, frees, <<>>)
    BY <1>13 DEF Destroy, RootItems
  <2>2. Len(calls) = 0 /\ DOMAIN calls = {}
    BY <2>1
  <2>3. frees = <<>>
    BY <1>0, <2>2 DEF StackInv, Sweeps
  <2>4. PICK s \in Orders(DOMAIN items \ RootItems) : frees' = <<>> \o s
    BY <2>1, <2>3 DEF BeginSweep
  <2>5. DOMAIN items \ RootItems \subseteq Addr
    BY <1>t
  <2>6. Entries(frees') = DOMAIN items \ RootItems /\ Entries(frees) = {}
    BY <2>3, <2>4, <2>5, OrderEntries DEF Entries
  <2>7. /\ calls' = Append(<<>>, SweepFrame("destroy")) /\ SweepFrame("destroy") \in Frame
        /\ SweepFrame("destroy").op = "destroy"
    BY <2>1 DEF BeginSweep, SweepFrame, Frame
  <2>8. Waiting(calls) = {} /\ Waiting(calls') = {}
    <3>1. Waiting(calls) = {}
      BY <2>2 DEF Waiting
    <3> QED
      BY <1>e, <2>1, <2>7, <3>1, StackPushed
  <2>9. ~Closing
    BY <2>1, <2>2 DEF Closing, InDestroy
  <2>10. Closing'
    <3>1. calls' = <<SweepFrame("destroy")>>
      BY <2>7
    <3>2. 1 \in DOMAIN calls' /\ calls'[1].op = "destroy"
      BY <2>7, <3>1
    <3> QED
      BY <3>2 DEF Closing, InDestroy
  <2>11. Where' = [p \in Addr |-> IF Where[p] = "live" /\ p \notin RootItems THEN "doomed" ELSE Where[p]]
    BY <1>w, <1>x, <2>1, <2>6, <2>8 DEF Located
  <2> QED
    BY <2>1, <2>9, <2>10, <2>11, AbsShutdown
<1>14. CASE EndDestroy
  <2>1. /\ calls # <<>> /\ Top.op = "destroy" /\ frees' = <<>> /\ calls' = Pop
        /\ DOMAIN items' = {} /\ fate' = fate /\ status' = "exited"
    BY <1>14 DEF EndDestroy, Freeing, Sweeping
  <2>2. PICK n \in Nat : /\ n >= 1 /\ n = Len(calls) /\ Len(calls') = n - 1 /\ Top = calls[n]
    BY <2>1, Popped DEF Top
  <2>3. Destroying(calls) /\ n \in Sweeps
    BY <2>1, <2>2 DEF Destroying, Sweeps, SweepOps
  <2>4. InDestroy
    BY <2>3, DestroyingIsInDestroy
  <2>5. 1 \in Sweeps
    BY <1>0, <2>2, <2>4 DEF StackInv, Sweeps, SweepOps
  <2>6. n = 1
    BY <1>0, <2>3, <2>5 DEF StackInv
  <2>7. Waiting(calls') = {} /\ RootItems' = {}
    BY <2>1, <2>2, <2>6 DEF Waiting, RootItems
  <2>8. Where' = [p \in Addr |-> "free"]
    BY <1>x, <2>1, <2>7 DEF Located
  <2>9. Closing /\ Closing'
    BY <2>1, <2>4 DEF Closing
  <2> QED
    BY <2>1, <2>7, <2>8, <2>9, AbsLetGo
<1>15. ASSUME \/ \E run \in Modes, pct \in Pauses : Configure(run, pct)
              \/ \E p \in Addr, a \in Addr : Load(p, a)
              \/ \E p \in Addr, W \in {{}} \cup {{a} : a \in stack} : Store(p, W)
              \/ \E a \in Addr : Drop(a)
              \/ Stopped
              \/ UNCHANGED vars
       PROVE  UNCHANGED Abs!state
  <2>1. UNCHANGED <<items, frees, calls, fate, status>>
    BY <1>15 DEF Configure, Load, Store, Drop, Program, Stopped, vars
  <2>2. RootItems' = RootItems
    BY <2>1 DEF RootItems
  <2> QED
    BY <1>same, <2>1, <2>2
<1> QED
  BY <1>1, <1>2, <1>3, <1>4, <1>5, <1>6, <1>7, <1>8, <1>9, <1>10, <1>11, <1>12, <1>13, <1>14, <1>15 DEF Next

(* The collector is a manager of memory: everything a cycle condemns was   *)
(* unreachable, blocks are finalized before any is reclaimed and once for  *)
(* each registration, a block that moves keeps its debts, and the exit     *)
(* takes everything.  Finalizers that destroy calls must leave the         *)
(* collector alone, and no leaf may outgrow a pointer.                     *)
THEOREM CollectorImplementsManager ==
  ASSUME ~GrowsLeaf, QuietDestroy
  PROVE  Spec => Implements
<1> DEFINE Inv == TypeOK /\ MarkInv /\ OnceInv /\ SweepInv /\ ReclaimInv
<1>1. Init => Inv
  BY TypeInit, MarkInvInit, OnceInit, SweepInit, ReclaimInit
<1>2. TypeOK /\ MarkInv => MarkIsReachability
  BY MarkInvSuffices
<1>3. TypeOK' /\ MarkInv' => MarkIsReachability'
  BY <1>2, PTL
<1>4. Inv /\ [Next]_vars => Inv' /\ [Abs!Next]_(Abs!state)
  <2> SUFFICES ASSUME Inv, [Next]_vars PROVE Inv' /\ [Abs!Next]_(Abs!state)
    OBVIOUS
  <2>1. TypeOK' /\ MarkInv' /\ OnceInv' /\ SweepInv'
    BY TypeNext, MarkInvNext, OnceNext, SweepNext
  <2>2. MarkIsReachability'
    BY <1>3, <2>1
  <2>3. ReclaimInv'
    BY <2>1, <2>2, ReclaimNext
  <2>4. [Abs!Next]_(Abs!state)
    BY <2>1, <2>2, AbsNext
  <2> QED
    BY <2>1, <2>3, <2>4
<1>5. Init => Abs!Init
  BY AbsInit
<1> QED
  BY <1>1, <1>4, <1>5, PTL DEF Spec, Implements, Abs!Spec
===============================================================================
