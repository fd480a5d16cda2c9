---------------------------- MODULE LuaCollect ----------------------------
(***************************************************************************)
(* The steps of the interpreter's collector (lua/lgc.c): the atomic phase, *)
(* the incremental and the generational sweeps, finalizers, and the        *)
(* control that runs them.  Memory amounts are left out: whatever the code *)
(* decides by comparing byte counts is a parameter of the operator.        *)
(*                                                                         *)
(* `keep' tells whether a finalizer stores its object: it then lands in    *)
(* the main thread's stack slot, if that is free.                          *)
(***************************************************************************)
EXTENDS LuaHeap

CONSTANT SweepMax                  \* GCSWEEPMAX: objects swept by one step
ASSUME SweepMaxAssumption == SweepMax \in Nat \ {0}

Without(seq, o) == SelectSeq(seq, LAMBDA x : x # o)
IndexIn(seq, o) == CHOOSE i \in 1 .. Len(seq) : seq[i] = o

\* The elements of 'seq' before 'limit' (all of them if it is not there), and
\* the elements from 'from' on (none if it is not there).
UpTo(seq, limit) ==
  IF Contains(seq, limit) THEN SubSeq(seq, 1, IndexIn(seq, limit) - 1) ELSE seq
From(seq, from) ==
  IF Contains(seq, from) THEN SubSeq(seq, IndexIn(seq, from), Len(seq)) ELSE <<>>
First(seq) == IF seq = <<>> THEN NIL ELSE Head(seq)

----------------------------------------------------------------------------
\* Clearing weak tables.

EraseEntry(S, h) == [S EXCEPT !.obj[h].key = NIL, !.obj[h].val = NIL]

ClearByKeys(S, l) ==
  LET Erase(T, h) == IF IsCleared(T, T.obj[h].key) THEN EraseEntry(T, h) ELSE T
      Clear(T, h) == Erase(MarkIfString(T, T.obj[h].key), h)
  IN FoldLeft(Clear, S, l)

ClearByValues(S, l) ==
  LET Erase(T, h) == IF IsCleared(T, T.obj[h].val) THEN EraseEntry(T, h) ELSE T
      Clear(T, h) == Erase(MarkIfString(T, T.obj[h].val), h)
  IN FoldLeft(Clear, S, l)

\* luaS_clearcache: a cached string about to be collected leaves the cache.
ClearCache(S) == IF S.cache # NIL /\ IsWhite(S, S.cache) THEN [S EXCEPT !.cache = NIL] ELSE S

----------------------------------------------------------------------------
\* Finalizers.

\* (mutant) the FINALIZED bit stays
Udata2FinalizeMarked(S) ==
  LET o == Head(S.tobefnz) IN [S EXCEPT !.tobefnz = Tail(@), !.allgc = <<o>> \o @]

\* udata2finalize: the first object of 'tobefnz' is normal again.
Udata2Finalize(S) ==
  LET o == Head(S.tobefnz)
      T == [S EXCEPT !.tobefnz = Tail(@), !.allgc = <<o>> \o @, !.obj[o].fin = FALSE]
  IN CASE IsSweepPhase(S) -> Paint(T, o, T.white)
       [] ~IsSweepPhase(S) /\ T.obj[o].age = "old1" -> [T EXCEPT !.firstold1 = o]
       [] OTHER -> T

\* GCTM: call the finalizer of one object (a thread's slot has no barrier).
GCTM(S, keep) ==
  LET T == Udata2Finalize(S)
  IN [T EXCEPT !.obj[Main].val = IF keep /\ @ = NIL THEN Head(S.tobefnz) ELSE @]

RECURSIVE CallAllPendingFinalizers(_, _)
CallAllPendingFinalizers(S, keep) ==
  IF S.tobefnz = <<>> THEN S ELSE CallAllPendingFinalizers(GCTM(S, keep), keep)

\* (mutant) every object with a finalizer is queued
SeparateToBeFnzAll(S, all) ==
  [S EXCEPT !.finobj = <<>>, !.tobefnz = @ \o S.finobj,
            !.finobjsur = NIL, !.finobjold1 = NIL, !.finobjrold = NIL]

\* separatetobefnz: the unmarked objects of 'finobj' before 'finobjold1' (every
\* one if 'all') go to the end of 'tobefnz'.
SeparateToBeFnz(S, all) ==
  LET moved == SelectSeq(UpTo(S.finobj, S.finobjold1), LAMBDA o : all \/ IsWhite(S, o))
      rest  == SelectSeq(S.finobj, LAMBDA o : ~Contains(moved, o))
      \* 'finobjsur' moves on past the objects that are removed
      sur   == SelectSeq(From(S.finobj, S.finobjsur), LAMBDA o : Contains(rest, o))
  IN [S EXCEPT !.finobj = rest, !.tobefnz = @ \o moved,
               !.finobjsur = IF Contains(moved, @) THEN First(sur) ELSE @]

----------------------------------------------------------------------------
\* Freeing and the incremental sweep.

\* freeobj: a thread closes its upvalue, an open upvalue leaves its thread.
FreeObj(S, o) ==
  LET T == CASE S.obj[o].kind = "thread" -> CloseUpval(S, o)
             [] S.obj[o].kind = "upval" /\ S.obj[o].own # NIL ->
                  [S EXCEPT !.obj[S.obj[o].own].uv = NIL]
             [] OTHER -> S
  IN [T EXCEPT !.obj[o] = Free]

\* The object after position 'p' = [list, pred] (pred NIL: the list's head).
At(S, p) ==
  LET l == S[p.list]
      i == IF p.pred = NIL THEN 1 ELSE IndexIn(l, p.pred) + 1
  IN IF i <= Len(l) THEN l[i] ELSE NIL

None == [list |-> "none", pred |-> NIL]        \* sweepgc = NULL

\* One object of sweeplist: a dead one is freed, a live one turns white and new.
SweepOne(S) ==
  LET p    == S.sweepgc
      curr == At(S, p)
  IN IF IsDead(S, curr)
     THEN FreeObj([S EXCEPT ![p.list] = Without(@, curr)], curr)
     ELSE SetAge(Paint([S EXCEPT !.sweepgc.pred = curr], curr, S.white), curr, "new")

\* sweeplist; sweepgc is NULL when the list ends there.
RECURSIVE SweepList(_, _)
SweepList(S, n) ==
  IF At(S, S.sweepgc) = NIL THEN [S EXCEPT !.sweepgc = None]
  ELSE IF n = 0 THEN S ELSE SweepList(SweepOne(S), n - 1)

\* sweeptolive: sweep until the position moves past a live object.
RECURSIVE SweepToLive(_)
SweepToLive(S) ==
  LET Moved(T) == IF T.sweepgc = S.sweepgc THEN SweepToLive(T) ELSE T
  IN Moved(SweepList(S, 1))

EnterSweep(S) ==
  SweepToLive([S EXCEPT !.gcstate = "swpallgc",
                        !.sweepgc = [list |-> "allgc", pred |-> NIL]])

\* sweepstep
SweepStep(S, next, list) ==
  IF S.sweepgc # None THEN SweepList(S, SweepMax)
  ELSE [S EXCEPT !.gcstate = next,
                 !.sweepgc = IF list = "none" THEN None ELSE [list |-> list, pred |-> NIL]]

----------------------------------------------------------------------------
\* The atomic phase ('run' is the running thread).

\* Mark what is reachable and converge the ephemeron tables.
MarkReachable(S, run) ==
  LET Roots == Mark(Mark([S EXCEPT !.grayagain = <<>>, !.gcstate = "atomic"], run), Reg)
      Upvals(T) == PropagateAll(RemarkUpvals(T))
      Again(T)  == PropagateAll([T EXCEPT !.gray = S.grayagain])
  IN ConvergeEphemerons(Again(Upvals(PropagateAll(Roots))))

\* Resurrect what has a finalizer to run, then clear the tables whose keys died.
\* Lists grow at their head: the tables that turned weak meanwhile stand before
\* the old list, and their values are cleared too.
Resurrect(S) == ConvergeEphemerons(PropagateAll(MarkBeingFnz(SeparateToBeFnz(S, FALSE))))
ClearKeys(S) == ClearByKeys(ClearByKeys(S, S.ephemeron), S.allweak)
ClearNewValues(S, old) ==
  LET NewIn(l) == SubSeq(S[l], 1, Len(S[l]) - Len(old[l]))
  IN ClearByValues(ClearByValues(S, NewIn("weak")), NewIn("allweak"))

Atomic(S, run) ==
  LET Cleared(T)  == ClearByValues(ClearByValues(T, T.weak), T.allweak)
      Finished(T) == ClearCache(ClearNewValues(ClearKeys(Resurrect(T)), T))
      Flipped(T)  == [T EXCEPT !.white = OtherWhite(T)]
  IN Flipped(Finished(Cleared(MarkReachable(S, run))))

----------------------------------------------------------------------------
\* The generational collector.

NextAge(a) ==
  CASE a = "new" -> "survival" [] a = "survival" -> "old1" [] a = "old0" -> "old1"
    [] a = "old1" -> "old" [] OTHER -> a

\* sweepgen over the elements 'part' of 'list': white ones die, new ones stay
\* white, the others age and keep their colour.  'first1' is *pfirstold1.
SweepGen(S, list, part) ==
  LET Visit(T, o) ==
        IF IsWhite(T, o) THEN FreeObj([T EXCEPT ![list] = Without(@, o)], o)
        ELSE LET U == SetAge(T, o, NextAge(T.obj[o].age))
             IN IF U.obj[o].age = "survival" THEN Paint(U, o, U.white)
                ELSE IF U.obj[o].age = "old1" /\ list = "allgc" /\ U.firstold1 = NIL
                     THEN [U EXCEPT !.firstold1 = o] ELSE U
  IN FoldLeft(Visit, S, part)

\* sweep2old: the dead are freed, the others are old; threads stay gray in
\* 'grayagain', open upvalues gray, everything else black.
Sweep2Old(S, list) ==
  LET Visit(T, o) ==
        IF IsWhite(T, o) THEN FreeObj([T EXCEPT ![list] = Without(@, o)], o)
        ELSE LET U == SetAge(T, o, "old") IN
             CASE U.obj[o].kind = "thread" -> Link(U, o, "grayagain")
               [] U.obj[o].kind = "upval" /\ U.obj[o].own # NIL -> Paint(U, o, "gray")
               [] OTHER -> Paint(U, o, "black")
  IN FoldLeft(Visit, S, S[list])

\* correctgraylists: the lists are joined in 'grayagain' and corrected.
CorrectGrayLists(S) ==
  LET all == S.grayagain \o S.weak \o S.allweak \o S.ephemeron
      Remains(o) == ~IsWhite(S, o) /\ (S.obj[o].age = "touched1" \/ S.obj[o].kind = "thread")
      Visit(T, o) ==
        CASE IsWhite(T, o) -> T
          [] ~IsWhite(T, o) /\ T.obj[o].age = "touched1" ->
               SetAge(Paint(T, o, "black"), o, "touched2")
          [] ~IsWhite(T, o) /\ T.obj[o].age # "touched1" /\ T.obj[o].kind # "thread" ->
               LET U == Paint(T, o, "black")
               IN IF U.obj[o].age = "touched2" THEN SetAge(U, o, "old") ELSE U
          [] OTHER -> T
      C == FoldLeft(Visit, S, all)
  IN [C EXCEPT !.grayagain = SelectSeq(all, Remains),
               !.weak = <<>>, !.allweak = <<>>, !.ephemeron = <<>>]

\* markold: OLD1 objects are old now; the black ones are traversed again.
MarkOld(S, part) ==
  LET Visit(T, o) ==
        IF T.obj[o].age # "old1" THEN T
        ELSE LET U == SetAge(T, o, "old")
             IN IF U.obj[o].color = "black" THEN ReallyMark(U, o) ELSE U
  IN FoldLeft(Visit, S, part)

\* finishgencycle
FinishGenCycle(S, keep) ==
  LET Finalized(T) == IF T.emergency THEN T ELSE CallAllPendingFinalizers(T, keep)
  IN Finalized([CorrectGrayLists(S) EXCEPT !.gcstate = "propagate"])

\* One list of a young collection: the nursery, then what survived once.  The
\* generation marks move: [new, survival, old1] become [survival, old1, really old].
SweepYoung(S, list, sur, old1) ==
  LET Older(T) == << SweepGen(T, list, UpTo(From(T[list], sur), old1)),
                     Len(T[list]) - Len(From(S[list], sur)) >>
  IN Older(SweepGen(S, list, UpTo(S[list], sur)))

YoungCollection(S, run, keep) ==
  LET Touched ==
        IF S.firstold1 = NIL THEN S
        ELSE [MarkOld(S, UpTo(From(S.allgc, S.firstold1), S.reallyold)) EXCEPT !.firstold1 = NIL]
      Marked(T) == MarkOld(MarkOld(T, UpTo(T.finobj, T.finobjrold)), T.tobefnz)
      MoveAllgc(p) ==
        LET T == p[1] IN
        [T EXCEPT !.reallyold = T.old1, !.survival = First(T.allgc),
                  !.old1 = First(SubSeq(T.allgc, p[2] + 1, Len(T.allgc)))]
      MoveFinobj(p) ==
        LET T == p[1] IN
        [T EXCEPT !.finobjrold = T.finobjold1, !.finobjsur = First(T.finobj),
                  !.finobjold1 = First(SubSeq(T.finobj, p[2] + 1, Len(T.finobj)))]
      Allgc(T)   == MoveAllgc(SweepYoung(T, "allgc", T.survival, T.old1))
      Finobj(T)  == MoveFinobj(SweepYoung(T, "finobj", T.finobjsur, T.finobjold1))
      Tobefnz(T) == SweepGen(T, "tobefnz", T.tobefnz)
  IN FinishGenCycle(
       Tobefnz(Finobj(Allgc([Atomic(Marked(Touched), run) EXCEPT !.gcstate = "swpallgc"]))), keep)

\* atomic2gen: everything alive is old.
Atomic2Gen(S, keep) ==
  LET Swept(T) == Sweep2Old(Sweep2Old(Sweep2Old(T, "allgc"), "finobj"), "tobefnz")
      Moved(T) ==
        [T EXCEPT !.reallyold = First(T.allgc), !.old1 = First(T.allgc),
                  !.survival = First(T.allgc), !.firstold1 = NIL,
                  !.finobjrold = First(T.finobj), !.finobjold1 = First(T.finobj),
                  !.finobjsur = First(T.finobj), !.gen = TRUE, !.lastatomic = FALSE]
  IN FinishGenCycle(Moved(Swept([ClearGrayLists(S) EXCEPT !.gcstate = "swpallgc"])), keep)

\* enterinc: everything is white and new, and the collector pauses.
EnterInc(S) ==
  [S EXCEPT !.obj = [o \in Obj |-> IF S.obj[o].kind = "free" THEN Free
                                   ELSE [S.obj[o] EXCEPT !.color = S.white, !.age = "new"]],
            !.reallyold = NIL, !.old1 = NIL, !.survival = NIL,
            !.finobjrold = NIL, !.finobjold1 = NIL, !.finobjsur = NIL,
            !.gcstate = "pause", !.gen = FALSE, !.lastatomic = FALSE]

----------------------------------------------------------------------------
\* Control.

SingleStep(S, run, keep) ==
  CASE S.gcstate = "pause" -> [RestartCollection(S) EXCEPT !.gcstate = "propagate"]
    [] S.gcstate = "propagate" ->
         IF S.gray = <<>> THEN [S EXCEPT !.gcstate = "enteratomic"] ELSE PropagateMark(S)
    [] S.gcstate = "enteratomic" -> EnterSweep(Atomic(S, run))
    [] S.gcstate = "swpallgc"    -> SweepStep(S, "swpfinobj", "finobj")
    [] S.gcstate = "swpfinobj"   -> SweepStep(S, "swptobefnz", "tobefnz")
    [] S.gcstate = "swptobefnz"  -> SweepStep(S, "swpend", "none")
    [] S.gcstate = "swpend"      -> [S EXCEPT !.gcstate = "callfin"]
    [] S.gcstate = "callfin"     ->
         IF S.tobefnz # <<>> /\ ~S.emergency THEN GCTM(S, keep)
         ELSE [S EXCEPT !.gcstate = "pause"]

\* Calls of luaC_runtilstate, one for each state of 'states'.
RECURSIVE RunUntil(_, _, _, _)
RunUntil(S, states, run, keep) ==
  IF states = <<>> THEN S
  ELSE IF S.gcstate = Head(states) THEN RunUntil(S, Tail(states), run, keep)
       ELSE RunUntil(SingleStep(S, run, keep), states, run, keep)

EnterGen(S, run, keep) ==
  Atomic2Gen(Atomic(RunUntil(S, <<"pause", "propagate">>, run, keep), run), keep)

FullGen(S, run, keep) == EnterGen(EnterInc(S), run, keep)

FullInc(S, run, keep) ==
  RunUntil(IF KeepInvariant(S) THEN EnterSweep(S) ELSE S,
           <<"pause", "callfin", "pause">>, run, keep)

\* luaC_fullgc
FullGC(S, emergency, run, keep) ==
  LET T == [S EXCEPT !.emergency = emergency]
  IN [(IF S.gen THEN FullGen(T, run, keep) ELSE FullInc(T, run, keep))
        EXCEPT !.emergency = FALSE]

\* luaC_changemode
ChangeMode(S, gen, run, keep) ==
  [(IF gen = S.gen THEN S ELSE IF gen THEN EnterGen(S, run, keep) ELSE EnterInc(S))
     EXCEPT !.lastatomic = FALSE]

\* stepgenfull after a bad collection; 'good' tells whether this one was.
StepGenFull(S, good, run, keep) ==
  LET Settled(T) == IF good THEN Atomic2Gen(T, keep)
                    ELSE [RunUntil(EnterSweep(T), <<"pause">>, run, keep) EXCEPT !.lastatomic = TRUE]
  IN Settled(Atomic(RunUntil(IF S.gen THEN EnterInc(S) ELSE S, <<"propagate">>, run, keep), run))

\* genstep: 'major' when memory grew past the base, 'good' when the collection
\* freed enough of it.
GenStep(S, major, good, run, keep) ==
  CASE S.lastatomic -> StepGenFull(S, good, run, keep)
    [] ~S.lastatomic /\ major -> [FullGen(S, run, keep) EXCEPT !.lastatomic = ~good]
    [] OTHER -> YoungCollection(S, run, keep)
=============================================================================
