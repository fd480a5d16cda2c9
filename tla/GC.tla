---------------------------------- MODULE GC ----------------------------------
(***************************************************************************)
(* The conservative mark-and-sweep collector of lib/allocators/gc.nelua    *)
(* and the GC allocator on top of it.                                      *)
(*                                                                         *)
(* The program is single threaded; what makes the collector hard is that   *)
(* it calls back into the program: a finalizer runs in the middle of a     *)
(* sweep, or in the middle of a dealloc, and may allocate, reallocate,     *)
(* deallocate, store pointers, stop the collector or ask for a collection. *)
(* `calls' is the C call stack of the collector operations that are still  *)
(* in progress; program actions are enabled exactly when the program has   *)
(* control, which is the case when no operation is in progress or when the *)
(* innermost one is calling a finalizer.                                   *)
(*                                                                         *)
(* A block is named by its address.  The words of a block and of the C     *)
(* stack are abstracted to the set of addresses they hold.                 *)
(***************************************************************************)
EXTENDS Integers, Sequences, FiniteSets

CONSTANTS
  Heap,         (* Addresses malloc may return.                            *)
  HeapLimit,    (* Blocks malloc can serve; it fails beyond that.          *)
  External,     (* Blocks the program registers itself, e.g. coroutines.   *)
  Static,       (* Variables on static storage that contain pointers.      *)
  Sizes,        (* Sizes the program asks for.                             *)
  Word,         (* Size of a pointer.                                      *)
  MaxAddr,      (* UINTPTR_MAX.                                            *)
  Modes,        (* Values `running' takes by stop (FALSE), restart (TRUE). *)
  Pauses,       (* Values given to setpause.                               *)
  Kinds,        (* <<flags & LEAF, flags & ROOT, has a finalizer>>         *)
  MaxDepth,     (* Bound on nested collector operations.                   *)
  QuietDestroy, (* Finalizers called by destroy do not use the collector.  *)
  GrowsLeaf     (* The program stores pointers in a block that was         *)
                (* smaller than a pointer when it was allocated.           *)

NIL == 0
Addr == Heap \cup External \cup Static

ASSUME GCAddresses ==
  /\ Addr \subseteq 1..MaxAddr
  /\ MaxAddr \in Nat
  /\ Heap \cap External = {} /\ Heap \cap Static = {} /\ External \cap Static = {}
  /\ IsFiniteSet(Addr)

ASSUME GCParameters ==
  /\ Sizes \subseteq Nat \ {0} /\ Word \in Sizes
  /\ Pauses \subseteq Nat /\ Modes \subseteq BOOLEAN
  /\ Kinds \subseteq BOOLEAN \X BOOLEAN \X BOOLEAN
  /\ MaxDepth \in Nat /\ HeapLimit \in Nat
  /\ QuietDestroy \in BOOLEAN /\ GrowsLeaf \in BOOLEAN

VARIABLES
  alloced,      (* Heap blocks malloc handed out and nobody freed.         *)
  content,      (* Addresses stored in the words of each block.            *)
  stack,        (* Addresses stored in the C stack and in registers.       *)
  items,        (* GC.items: the tracked blocks.                           *)
  membytes,     (* GC.membytes                                             *)
  lastmembytes, (* GC.lastmembytes                                         *)
  minaddr,      (* GC.minaddr                                              *)
  maxaddr,      (* GC.maxaddr                                              *)
  running,      (* GC.running                                              *)
  collecting,   (* GC.collecting                                           *)
  pause,        (* GC.pause                                                *)
  frees,        (* GC.frees: what the sweep in progress will deallocate.   *)
  calls,        (* Collector operations in progress, the innermost last.   *)
  status,       (* "run", "exited" or "panic" (a check failed).            *)
  condemned,    (* History: what the sweep in progress may deallocate.     *)
  fate          (* History: is a finalizer owed to a block, or done?       *)

memory == <<alloced, content, stack>>
settings == <<running, pause>>
vars == <<alloced, content, stack, items, membytes, lastmembytes, minaddr, maxaddr,
          running, collecting, pause, frees, calls, status, condemned, fate>>

(* GCItem.  `plain' is not in the code: the program's own promise, made by *)
(* passing LEAF, that it will never store a pointer in the block.          *)
Item == [size : Sizes, leaf : BOOLEAN, root : BOOLEAN, extern : BOOLEAN,
         fin : BOOLEAN, plain : BOOLEAN]

Frame == [op : {"collect", "destroy", "dealloc", "reregister"},
          phase : {"finalize", "call", "free", "recheck"},
          at : Nat, ptr : Addr \cup {NIL}]

SweepFrame(op) == [op |-> op, phase |-> "finalize", at |-> 0, ptr |-> NIL]
DeallocFrame(p) == [op |-> "dealloc", phase |-> "call", at |-> 0, ptr |-> p]
ReregisterFrame == [op |-> "reregister", phase |-> "recheck", at |-> 0, ptr |-> NIL]

Top == calls[Len(calls)]
Pop == SubSeq(calls, 1, Len(calls) - 1)
TopAt(phase, at) == [calls EXCEPT ![Len(calls)] = [@ EXCEPT !.phase = phase, !.at = at]]

(* The program has control.                                                *)
UserTurn == status = "run" /\ (calls # <<>> => Top.phase = "call")
InDestroy == \E i \in DOMAIN calls : calls[i].op = "destroy"
(* The program may use the collector here.                                 *)
MayUseGC == UserTurn /\ Len(calls) < MaxDepth /\ (QuietDestroy => ~InDestroy)
-------------------------------------------------------------------------------
(* Mark phase.  A word is a reference when it is in the address bounds and *)
(* is exactly the address of a tracked block; leafs are not scanned; roots *)
(* are scanned whatever refers to them.  The recursion of GC_markptrs      *)
(* computes the least set that contains the references of the roots and of *)
(* the stack and is closed under scanning.                                 *)
HitsAboveMin(words) == {a \in words \cap DOMAIN items : minaddr < a /\ a <= maxaddr}
Hits(words) == {a \in words \cap DOMAIN items : minaddr <= a /\ a <= maxaddr}
RootItems == {r \in DOMAIN items : items[r].root}
ScannedStack(S) ==
  /\ Hits(stack) \subseteq S
  /\ \A p \in S : ~items[p].leaf => Hits(content[p]) \subseteq S
Scanned(S) ==
  /\ Hits(stack) \subseteq S
  /\ \A r \in RootItems : Hits(content[r]) \subseteq S
  /\ \A p \in S : ~items[p].leaf => Hits(content[p]) \subseteq S
Marked == {p \in DOMAIN items :
             items[p].root \/ \A S \in SUBSET DOMAIN items : Scanned(S) => p \in S}

(* What marking is for: the tracked blocks the program can still get at,   *)
(* from a root or from the stack, whatever their flags and address.        *)
Reaches(S) ==
  /\ RootItems \subseteq S
  /\ stack \cap DOMAIN items \subseteq S
  /\ \A p \in S : content[p] \cap DOMAIN items \subseteq S
Live == {p \in DOMAIN items : \A S \in SUBSET DOMAIN items : Reaches(S) => p \in S}

(* The hash map is traversed in an order the program cannot predict.       *)
Orders(S) == {s \in [1..Cardinality(S) -> S] :
                /\ \A a \in S : \E i \in DOMAIN s : s[i] = a
                /\ \A i, j \in DOMAIN s : i # j => s[i] # s[j]}
-------------------------------------------------------------------------------
With(its, p, item) == [q \in DOMAIN its \cup {p} |-> IF q = p THEN item ELSE its[q]]
Without(its, p) == [q \in DOMAIN its \ {p} |-> its[q]]

Listed(p) == {i \in DOMAIN frees : frees[i] = p}
First(S) == CHOOSE i \in S : \A j \in S : i <= j
(* Replace the first entry p of the free list by x.                        *)
Unpatched(p, x) == frees
Patched(p, x) == IF Listed(p) = {} THEN frees ELSE [frees EXCEPT ![First(Listed(p))] = x]

(* The block is tracked no more.                                           *)
ForgetUncounted(p) == items' = Without(items, p) /\ membytes' = membytes
Forget(p) == items' = Without(items, p) /\ membytes' = membytes - items[p].size

(* GC_sweep begins: list the blocks in `garbage'.                          *)
BeginSweep(op, garbage, frs, below) ==
  /\ \E s \in Orders(garbage) : frees' = frs \o s
  /\ calls' = Append(below, SweepFrame(op))

(* GC:collect, past its early returns: mark, then begin the sweep.         *)
Cycle(frs, below) ==
  /\ collecting' = TRUE
  /\ BeginSweep("collect", DOMAIN items' \ Marked', frs, below)
  /\ condemned' = DOMAIN items' \ Live'

(* GC_maybecollect, after a step that leaves the free list `frs'; `below'  *)
(* is what its caller still has to do after the collection.                *)
TriggersNested == running /\ membytes' # 0
Triggers == /\ running /\ ~collecting
            /\ membytes' >= (lastmembytes * pause) \div 100
            /\ membytes' # 0
MaybeCollect(frs, cnd, below) ==
  IF Triggers
  THEN Cycle(frs, calls \o below)
  ELSE frees' = frs /\ condemned' = cnd /\ UNCHANGED <<calls, collecting>>

(* GC:register, up to its GC_maybecollect.                                 *)
Track(its, p, item) ==
  /\ items' = With(its, p, [item EXCEPT !.leaf = @ \/ item.size < Word])
  /\ maxaddr' = IF ~item.root /\ p + item.size > maxaddr THEN p + item.size ELSE maxaddr
  /\ minaddr' = IF ~item.root /\ p < minaddr THEN p ELSE minaddr
  /\ stack' = stack \cup {p}

NewItemOffByOne(n, kind, extern) ==
  [size |-> n - 1, leaf |-> kind[1], root |-> kind[2], extern |-> extern,
   fin |-> kind[3], plain |-> kind[1]]
NewItem(n, kind, extern) ==
  [size |-> n, leaf |-> kind[1], root |-> kind[2], extern |-> extern,
   fin |-> kind[3], plain |-> kind[1]]

Owed(fin) == IF fin THEN "owed" ELSE "none"

(* A check of the code fails: the program aborts.                          *)
Panic == status' = "panic"
         /\ UNCHANGED <<alloced, content, stack, items, membytes, lastmembytes, minaddr, maxaddr,
                        running, collecting, pause, frees, calls, condemned, fate>>
-------------------------------------------------------------------------------
(* GCAllocator:alloc and alloc0: malloc, then GC:register.                 *)
Alloc(p, n, kind) ==
  /\ MayUseGC
  /\ p \in Heap \ alloced /\ Cardinality(alloced) < HeapLimit
  /\ IF p \in DOMAIN items THEN Panic  (* cannot register pointer twice *)
     ELSE /\ alloced' = alloced \cup {p}
          /\ content' = [content EXCEPT ![p] = {}]
          /\ fate' = [fate EXCEPT ![p] = Owed(kind[3])]
          /\ Track(items, p, NewItem(n, kind, FALSE))
          /\ membytes' = membytes + n
          /\ MaybeCollect(frees, condemned, <<>>)
          /\ UNCHANGED <<lastmembytes, settings, status>>

(* The program registers a block of its own (as coroutine.create does).    *)
RegisterExtern(p, n, kind) ==
  /\ MayUseGC
  /\ p \in External \ DOMAIN items
  /\ content' = [content EXCEPT ![p] = {}]
  /\ fate' = [fate EXCEPT ![p] = Owed(kind[3])]
  /\ Track(items, p, NewItem(n, kind, TRUE))
  /\ membytes' = membytes + n
  /\ MaybeCollect(frees, condemned, <<>>)
  /\ UNCHANGED <<alloced, lastmembytes, settings, status>>

(* GC:unregister without finalizing (as coroutine.destroy does).           *)
Unregister(p) ==
  /\ UserTurn
  /\ p \in External \cap DOMAIN items
  /\ Forget(p)
  /\ frees' = Patched(p, NIL)
  /\ condemned' = condemned \ {p}
  /\ fate' = [fate EXCEPT ![p] = "none"]
  /\ content' = [content EXCEPT ![p] = {}]
  /\ UNCHANGED <<alloced, stack, lastmembytes, minaddr, maxaddr, settings, collecting, calls, status>>

(* GCAllocator:dealloc: unregister, which calls the finalizer when there   *)
(* is one, and free, at once or when the finalizer has returned.           *)
Dealloc(p) ==
  /\ UserTurn
  /\ p \in stack \cap Heap \cap DOMAIN items
  /\ Forget(p)
  /\ frees' = Patched(p, NIL)
  /\ condemned' = condemned \ {p}
  /\ IF items[p].fin
     THEN /\ Len(calls) < MaxDepth
          /\ calls' = Append(calls, DeallocFrame(p))
          /\ fate' = [fate EXCEPT ![p] = "done"]
          /\ UNCHANGED <<alloced, content>>
     ELSE /\ alloced' = alloced \ {p}
          /\ content' = [content EXCEPT ![p] = {}]
          /\ fate' = [fate EXCEPT ![p] = "none"]
          /\ UNCHANGED calls
  /\ UNCHANGED <<stack, lastmembytes, minaddr, maxaddr, settings, collecting, status>>

(* GCAllocator:realloc when realloc(3) resizes the block in place.         *)
ReallocInPlace(p, n) ==
  /\ MayUseGC
  /\ p \in stack \cap Heap \cap DOMAIN items
  /\ n # items[p].size
  /\ items' = [items EXCEPT ![p].size = n]
  /\ membytes' = membytes + n - items[p].size
  /\ content' = [content EXCEPT ![p] = IF n < Word THEN {} ELSE @]
  /\ UNCHANGED <<alloced, stack, minaddr, maxaddr, fate>>
  /\ IF n > items[p].size THEN MaybeCollect(frees, condemned, <<>>)
                          ELSE UNCHANGED <<frees, condemned, calls, collecting>>
  /\ UNCHANGED <<lastmembytes, settings, status>>

(* GCAllocator:realloc when realloc(3) moves the block to q: GC:reregister *)
(* removes the item, patches the free list and registers q with the item's *)
(* flags; when the block grew it asks for a collection a second time.      *)
ReallocMoved(p, q, n) ==
  /\ MayUseGC
  /\ p \in stack \cap Heap \cap DOMAIN items
  /\ n # items[p].size
  /\ q \in Heap \ alloced
  /\ IF q \in DOMAIN items THEN Panic
     ELSE /\ alloced' = (alloced \ {p}) \cup {q}
          /\ content' = [content EXCEPT ![p] = {}, ![q] = IF n < Word THEN {} ELSE content[p]]
          /\ fate' = [fate EXCEPT ![p] = "none", ![q] = fate[p]]
          /\ Track(Without(items, p), q, [items[p] EXCEPT !.size = n])
          /\ membytes' = membytes - items[p].size + n
          /\ MaybeCollect(Patched(p, q),
                          IF p \in condemned THEN (condemned \ {p}) \cup {q} ELSE condemned,
                          IF n > items[p].size THEN <<ReregisterFrame>> ELSE <<>>)
          /\ UNCHANGED <<lastmembytes, settings, status>>

(* The second GC_maybecollect of GC:reregister.                            *)
Recheck ==
  /\ status = "run" /\ calls # <<>> /\ Top.phase = "recheck"
  /\ UNCHANGED <<memory, items, membytes, minaddr, maxaddr, lastmembytes, settings, status, fate>>
  /\ IF Triggers THEN Cycle(frees, Pop)
                 ELSE calls' = Pop /\ UNCHANGED <<frees, condemned, collecting>>

(* The program calls GC:collect.                                           *)
Collect ==
  /\ MayUseGC
  /\ ~collecting /\ membytes # 0
  /\ UNCHANGED <<memory, items, membytes, minaddr, maxaddr, lastmembytes, settings, status, fate>>
  /\ Cycle(frees, calls)

(* GC:stop, GC:restart and GC:setpause.                                    *)
Configure(run, pct) ==
  /\ UserTurn
  /\ running' = run /\ pause' = pct
  /\ UNCHANGED <<memory, items, membytes, lastmembytes, minaddr, maxaddr, collecting, frees,
                 calls, status, condemned, fate>>
-------------------------------------------------------------------------------
(* The rest of the program: load a pointer out of a block, overwrite the   *)
(* words of a block, forget a pointer.  It follows only pointers it holds. *)
Usable == (stack \cap (alloced \cup (External \cap DOMAIN items))) \cup Static

Program(content1, stack1) ==
  /\ content' = content1 /\ stack' = stack1
  /\ UNCHANGED <<alloced, items, membytes, lastmembytes, minaddr, maxaddr, settings, collecting,
                 frees, calls, status, condemned, fate>>

Load(p, a) == UserTurn /\ p \in Usable /\ a \in content[p] \ stack
              /\ Program(content, stack \cup {a})

HoldsPointers(p) == /\ items[p].size >= Word
                    /\ IF GrowsLeaf THEN ~items[p].plain ELSE ~items[p].leaf
Store(p, W) == /\ UserTurn /\ p \in Usable \cap DOMAIN items
               /\ W # {} => HoldsPointers(p)
               /\ Program([content EXCEPT ![p] = W], stack)

Drop(a) == UserTurn /\ a \in stack /\ Program(content, stack \ {a})
-------------------------------------------------------------------------------
(* GC_sweep: first every finalizer that is due, then the deallocations.    *)
Sweeping == status = "run" /\ calls # <<>> /\ Top.op \in {"collect", "destroy"}

DueNever == {}
DueAgain == {i \in 1..Len(frees) : frees[i] # NIL}
Due == {i \in (Top.at + 1)..Len(frees) :
          frees[i] # NIL /\ (frees[i] \in DOMAIN items => items[frees[i]].fin)}

(* "Avoid finalizing again".                                               *)
ClaimedNot(p) == items
Claimed(p) == [items EXCEPT ![p].fin = FALSE]

(* One turn of the finalizer loop that calls a finalizer.                  *)
CallFinalizer ==
  /\ Sweeping /\ Top.phase = "finalize" /\ Due # {}
  /\ LET i == First(Due)
         p == frees[i]
     IN  IF p \notin DOMAIN items THEN Panic  (* gc item not found to finalize *)
         ELSE /\ items' = Claimed(p)
              /\ calls' = TopAt("call", i)
              /\ stack' = stack \cup {p}
              /\ fate' = [fate EXCEPT ![p] = "done"]
              /\ UNCHANGED <<alloced, content, membytes, lastmembytes, minaddr, maxaddr, settings,
                             collecting, frees, status, condemned>>

(* A finalizer returns to the sweep or to the dealloc that called it.      *)
FinalizerReturn ==
  /\ status = "run" /\ calls # <<>> /\ Top.phase = "call"
  /\ IF Top.op = "dealloc"
     THEN /\ alloced' = alloced \ {Top.ptr}
          /\ content' = [content EXCEPT ![Top.ptr] = {}]
          /\ fate' = [fate EXCEPT ![Top.ptr] = "none"]
          /\ calls' = Pop
     ELSE calls' = TopAt("finalize", Top.at) /\ UNCHANGED <<alloced, content, fate>>
  /\ UNCHANGED <<stack, items, membytes, lastmembytes, minaddr, maxaddr, settings,
                 collecting, frees, status, condemned>>

Freeing == Sweeping /\ (Top.phase = "free" \/ (Top.phase = "finalize" /\ Due = {}))
UnfreedButLast == {i \in (IF Top.phase = "free" THEN Top.at + 1 ELSE 1)..(Len(frees) - 1) :
                     frees[i] # NIL}
Unfreed == {i \in (IF Top.phase = "free" THEN Top.at + 1 ELSE 1)..Len(frees) : frees[i] # NIL}

(* One turn of the deallocation loop.                                      *)
FreeNext ==
  /\ Freeing /\ Unfreed # {}
  /\ LET i == First(Unfreed)
         p == frees[i]
     IN  IF p \notin DOMAIN items THEN Panic  (* gc item not found to deallocate *)
         ELSE /\ Forget(p)
              /\ alloced' = IF items[p].extern THEN alloced ELSE alloced \ {p}
              /\ content' = [content EXCEPT ![p] = {}]
              /\ fate' = [fate EXCEPT ![p] = "none"]
              /\ calls' = TopAt("free", i)
              /\ UNCHANGED <<stack, lastmembytes, minaddr, maxaddr, settings, collecting,
                             frees, status, condemned>>

(* GC:collect ends.                                                        *)
EndCollect ==
  /\ Freeing /\ Unfreed = {} /\ Top.op = "collect"
  /\ frees' = <<>> /\ condemned' = {}
  /\ lastmembytes' = membytes
  /\ collecting' = FALSE
  /\ calls' = Pop
  /\ UNCHANGED <<memory, items, membytes, minaddr, maxaddr, settings, status, fate>>

(* GC:destroy, called when main returns: everything but the roots is       *)
(* finalized and deallocated, then the collector itself is reset.          *)
Destroy ==
  /\ status = "run" /\ calls = <<>>
  /\ BeginSweep("destroy", DOMAIN items \ RootItems, frees, <<>>)
  /\ condemned' = DOMAIN items \ RootItems
  /\ UNCHANGED <<memory, items, membytes, minaddr, maxaddr, lastmembytes, settings, collecting,
                 status, fate>>
EndDestroy ==
  /\ Freeing /\ Unfreed = {} /\ Top.op = "destroy"
  /\ frees' = <<>> /\ condemned' = {}
  /\ items' = [p \in {} |-> 0]
  /\ membytes' = 0 /\ lastmembytes' = 0 /\ minaddr' = 0 /\ maxaddr' = 0 /\ pause' = 0
  /\ running' = FALSE /\ collecting' = FALSE
  /\ calls' = Pop
  /\ status' = "exited"
  /\ UNCHANGED <<memory, fate>>

Stopped == status # "run" /\ UNCHANGED vars
-------------------------------------------------------------------------------
(* GC:init: the static variables are registered as roots.                  *)
RootItem == [size |-> Word, leaf |-> FALSE, root |-> TRUE, extern |-> FALSE,
             fin |-> FALSE, plain |-> FALSE]
Init ==
  /\ alloced = {} /\ stack = {}
  /\ content = [p \in Addr |-> {}]
  /\ items = [p \in Static |-> RootItem]
  /\ membytes = Word * Cardinality(Static)
  /\ lastmembytes = 0
  /\ minaddr = MaxAddr /\ maxaddr = 0
  /\ running = TRUE /\ collecting = FALSE /\ pause = 200
  /\ frees = <<>> /\ calls = <<>> /\ status = "run"
  /\ condemned = {}
  /\ fate = [p \in Addr |-> "none"]

Next ==
  \/ \E p \in Heap, n \in Sizes, kind \in Kinds : Alloc(p, n, kind)
  \/ \E p \in External, kind \in Kinds : RegisterExtern(p, Word, kind)
  \/ \E p \in External : Unregister(p)
  \/ \E p \in Heap : Dealloc(p)
  \/ \E p \in Heap, n \in Sizes : ReallocInPlace(p, n)
  \/ \E p, q \in Heap, n \in Sizes : ReallocMoved(p, q, n)
  \/ Recheck
  \/ Collect
  \/ \E run \in Modes, pct \in Pauses : Configure(run, pct)
  \/ \E p \in Addr, a \in Addr : Load(p, a)
  \/ \E p \in Addr, W \in {{}} \cup {{a} : a \in stack} : Store(p, W)
  \/ \E a \in Addr : Drop(a)
  \/ CallFinalizer
  \/ FinalizerReturn
  \/ FreeNext
  \/ EndCollect
  \/ Destroy
  \/ EndDestroy
  \/ Stopped

Spec == Init /\ [][Next]_vars

(* The collector itself always makes progress, and every finalizer the     *)
(* program supplies returns (each depth of the call stack on its own).     *)
Progress ==
  /\ WF_vars(CallFinalizer \/ FreeNext \/ EndCollect \/ EndDestroy \/ Recheck)
  /\ \A d \in 1..(MaxDepth + 1) : SF_vars(FinalizerReturn /\ Len(calls) = d)
FairSpec == Spec /\ Progress
-------------------------------------------------------------------------------
TypeOK ==
  /\ alloced \subseteq Heap
  /\ content \in [Addr -> SUBSET Addr]
  /\ stack \subseteq Addr
  /\ DOMAIN items \subseteq Addr /\ items \in [DOMAIN items -> Item]
  /\ membytes \in Int /\ lastmembytes \in Int
  /\ minaddr \in Nat /\ maxaddr \in Nat
  /\ running \in BOOLEAN /\ collecting \in BOOLEAN /\ pause \in Nat
  /\ frees \in Seq(Addr \cup {NIL})
  /\ calls \in Seq(Frame)
  /\ status \in {"run", "exited", "panic"}
  /\ condemned \subseteq Addr
  /\ fate \in [Addr -> {"none", "owed", "done"}]

(* Marking finds exactly what the program can still reach: the shortcuts   *)
(* of GC_markptrs (address bounds, exact addresses only, leafs skipped,    *)
(* roots not descended into twice) never lose a block and never keep one.  *)
MarkIsReachability == Marked = Live

(* Why it holds: what the shortcuts rely on.                               *)
BoundsCover == \A p \in DOMAIN items : ~items[p].root => minaddr <= p /\ p <= maxaddr
LeafsAreEmpty == \A p \in DOMAIN items : items[p].leaf => content[p] = {}
MarkInv == BoundsCover /\ LeafsAreEmpty

(* GC.membytes is the total size of the tracked blocks, however the cycle, *)
(* the finalizers and reregister interleave: it decides when to collect,   *)
(* and a byte that is not given back would be subtracted below zero later. *)
Bytes(its) == UNION {{p} \X (1..its[p].size) : p \in DOMAIN its}
Accounting == membytes = Cardinality(Bytes(items))

InFreePhase == \E i \in DOMAIN calls : calls[i].phase = "free"

(* Until the first deallocation of a sweep, whatever the finalizers have   *)
(* allocated, moved, deallocated or stored: the free list holds exactly    *)
(* the blocks that were unreachable when the cycle began and that the      *)
(* program has not deallocated itself, each once and each still there.     *)
FreesAreCondemned ==
  ~InFreePhase =>
    /\ {frees[i] : i \in DOMAIN frees} \ {NIL} = condemned
    /\ \A i, j \in DOMAIN frees : i # j /\ frees[i] # NIL => frees[i] # frees[j]
    /\ condemned \subseteq DOMAIN items /\ condemned \cap Heap \subseteq alloced

(* Only dead pointers are collected: "pointers that are no longer          *)
(* accessible in the heap or stack".                                       *)
OnlyDeadPointers ==
  ~InFreePhase => {frees[i] : i \in DOMAIN frees} \ {NIL} \subseteq condemned

(* The checks of GC:register and GC_sweep never fail.                      *)
ChecksHold == status # "panic"

(* A finalizer is called at most once for each registration: the callback  *)
(* is recorded exactly while the call is still owed, even when the block   *)
(* is deallocated or moved by a finalizer, its own included.               *)
FinalizerOnce == \A p \in DOMAIN items : items[p].fin <=> fate[p] = "owed"

(* And at least once: no block is freed while its finalizer is owed, only  *)
(* moved, and the move carries the debt along.                             *)
FinalizedBeforeFree ==
  [][\A p \in alloced \ alloced' :
       fate[p] = "owed" => \E q \in alloced' \ alloced : fate'[q] = "owed"]_vars

(* When destroy is done, every block but the roots is finalized and freed  *)
(* ("All allocations are finalized and deallocated").                      *)
DestroyIsComplete ==
  [][status' = "exited" => /\ alloced \subseteq RootItems
                           /\ \A p \in Addr : fate[p] = "owed" => p \in RootItems]_vars

(* The collector implements the abstract manager of memory.                *)
Whereabouts(p) ==
  IF p \in DOMAIN items
  THEN IF \E i \in DOMAIN frees : frees[i] = p THEN "doomed" ELSE "live"
  ELSE IF \E i \in DOMAIN calls : calls[i].op = "dealloc" /\ calls[i].ptr = p THEN "leaving"
                                                                         ELSE "free"
Abs == INSTANCE ManagedMemory WITH
         where <- [p \in Addr |-> Whereabouts(p)],
         pinned <- RootItems,
         refs <- content,
         closing <- InDestroy \/ status = "exited"
Implements == Abs!Spec

(* A collection that begins always ends, whatever its finalizers do.       *)
CollectionEnds == collecting ~> ~collecting
===============================================================================
