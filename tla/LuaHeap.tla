------------------------------ MODULE LuaHeap ------------------------------
(***************************************************************************)
(* The heap of the interpreter that runs the compiler (lua/lgc.c,          *)
(* lua/lfunc.c, lua/lstate.h): objects with a colour and an age, the lists *)
(* they are on, and the functions that mark them.  Each operator is a      *)
(* function of the global state `S' (global_State plus the heap) that      *)
(* returns the new one, so that the collector's long steps compose.        *)
(*                                                                         *)
(* Data abstraction: a table has one hash entry (key -> val) and a mode    *)
(* (its __mode metafield; metatables themselves live outside the heap); a  *)
(* thread has one stack slot (val) and at most one open upvalue (uv); a    *)
(* closure has one upvalue (uv); an upvalue is open over the slot of its   *)
(* thread (own) or closed over val; a string has no reference.             *)
(***************************************************************************)
EXTENDS Integers, Sequences, SequencesExt

CONSTANT NObj                      \* objects the heap can hold at once
ASSUME NObjAssumption == NObj \in Nat /\ NObj >= 3

NIL  == 0                          \* a null pointer, or a non-collectable value
Main == 1                          \* mainthread
Reg  == 2                          \* the registry table
Dyn  == 3 .. NObj
Obj  == 1 .. NObj
ObjN == Obj \cup {NIL}

Ages      == {"new", "survival", "old0", "old1", "old", "touched1", "touched2"}
Colors    == {"white0", "white1", "gray", "black"}
GrayLists == {"gray", "grayagain", "weak", "allweak", "ephemeron"}
Lists     == {"allgc", "finobj", "tobefnz"}
Sweeps    == {"swpallgc", "swpfinobj", "swptobefnz", "swpend"}

\* A free cell of the heap.
Free == [kind |-> "free", color |-> "gray", age |-> "new", fin |-> FALSE,
         mode |-> "strong", key |-> NIL, val |-> NIL, uv |-> NIL, own |-> NIL]

----------------------------------------------------------------------------
\* Colours and ages (lgc.h).

OtherWhite(S)  == IF S.white = "white0" THEN "white1" ELSE "white0"
IsWhite(S, o)  == S.obj[o].color \in {"white0", "white1"}
IsDead(S, o)   == S.obj[o].color = OtherWhite(S)
IsOld(S, o)    == S.obj[o].age \notin {"new", "survival"}
KeepInvariant(S) == S.gcstate \in {"propagate", "enteratomic", "atomic"}
IsSweepPhase(S)  == S.gcstate \in Sweeps

Paint(S, o, c)  == [S EXCEPT !.obj[o].color = c]
SetAge(S, o, a) == [S EXCEPT !.obj[o].age = a]

\* linkgclist: 'o' becomes gray at the head of 'list'.
Link(S, o, list) == Paint([S EXCEPT ![list] = <<o>> \o @], o, "gray")

\* luaC_newobj
NewObj(S, o, r) ==
  [S EXCEPT !.obj[o] = [r EXCEPT !.color = S.white], !.allgc = <<o>> \o @]

\* The value an upvalue stands for: its thread's slot while it is open.
Content(S, u) == LET r == S.obj[u] IN
  IF r.own = NIL THEN r.val ELSE S.obj[r.own].val

----------------------------------------------------------------------------
\* Marking.

\* reallymarkobject of anything but an upvalue: a string has nothing to
\* visit, everything else waits in the gray list.
PaintOrLink(S, o) ==
  IF S.obj[o].kind = "string" THEN Paint(S, o, "black") ELSE Link(S, o, "gray")

\* reallymarkobject: an upvalue is visited at once, and stays gray while open.
ReallyMark(S, o) ==
  LET Visited   == Paint(S, o, IF S.obj[o].own # NIL THEN "gray" ELSE "black")
      Spread(v) == IF v # NIL /\ IsWhite(S, v) THEN PaintOrLink(Visited, v) ELSE Visited
  IN IF S.obj[o].kind # "upval" THEN PaintOrLink(S, o) ELSE Spread(Content(S, o))

\* markobject, markvalue, markkey, markobjectN
Mark(S, o) == IF o # NIL /\ IsWhite(S, o) THEN ReallyMark(S, o) ELSE S

\* markbeingfnz
MarkBeingFnz(S) == FoldLeft(Mark, S, S.tobefnz)

ClearGrayLists(S) ==
  [S EXCEPT !.gray = <<>>, !.grayagain = <<>>, !.weak = <<>>, !.allweak = <<>>,
            !.ephemeron = <<>>]

\* restartcollection (global metatables are outside the heap)
RestartCollection(S) == MarkBeingFnz(Mark(Mark(ClearGrayLists(S), Main), Reg))

\* remarkupvals: a thread that is not marked, or has no open upvalue, leaves
\* 'twups', and the values of its visited upvalues are marked for it.
RemarkUpvals(S) ==
  LET Visit(T, th) ==
        LET u == T.obj[th].uv IN
        IF ~IsWhite(T, th) /\ u # NIL THEN T
        ELSE LET R == [T EXCEPT !.twups = SelectSeq(@, LAMBDA x : x # th)]
             IN IF u # NIL /\ ~IsWhite(R, u) THEN Mark(R, Content(R, u)) ELSE R
  IN FoldLeft(Visit, S, S.twups)

----------------------------------------------------------------------------
\* Traversing.

\* genlink: only TOUCHED1 objects go back to a gray list; TOUCHED2 become old.
GenLink(S, o) ==
  CASE S.obj[o].age = "touched1" -> Link(S, o, "grayagain")
    [] S.obj[o].age = "touched2" -> SetAge(S, o, "old")
    [] OTHER -> S

\* iscleared marks a string (strings are values, never weak) and tells whether
\* any other object is still white.
MarkIfString(S, o) ==
  IF o # NIL /\ S.obj[o].kind = "string" /\ IsWhite(S, o) THEN Paint(S, o, "black") ELSE S
IsCleared(S, o)    == o # NIL /\ S.obj[o].kind # "string" /\ IsWhite(S, o)

TraverseWeakValue(S, h) ==
  LET e == S.obj[h]
      Requeued(T) ==
        Link(T, h, IF T.gcstate = "atomic" /\ IsCleared(T, e.val) THEN "weak" ELSE "grayagain")
  IN Requeued(IF e.val = NIL THEN S ELSE MarkIfString(Mark(S, e.key), e.val))

\* traverseephemeron: the new state, and whether an object was marked.
TraverseEphemeron(S, h) ==
  LET e == S.obj[h]
      Requeued(U, clears, white) ==
        CASE U.gcstate = "propagate" -> Link(U, h, "grayagain")
          [] U.gcstate # "propagate" /\ clears /\ white -> Link(U, h, "ephemeron")
          [] U.gcstate # "propagate" /\ clears /\ ~white -> Link(U, h, "allweak")
          [] OTHER -> GenLink(U, h)
      Settled(T, clears, white) ==
        << Requeued(IF ~clears /\ white THEN Mark(T, e.val) ELSE T, clears, white),
           ~clears /\ white >>
      Judged(T) == Settled(T, e.val # NIL /\ IsCleared(T, e.key), e.val # NIL /\ IsWhite(T, e.val))
  IN Judged(IF e.val = NIL THEN S ELSE MarkIfString(S, e.key))

TraverseStrong(S, h) ==
  LET e == S.obj[h] IN
  GenLink(IF e.val = NIL THEN S ELSE Mark(Mark(S, e.key), e.val), h)

\* (mutant) weak keys held strongly
TraverseTableHolds(S, h) ==
  CASE S.obj[h].mode = "weakv" -> TraverseWeakValue(S, h)
    [] S.obj[h].mode = "all"   -> Link(S, h, "allweak")
    [] OTHER -> TraverseStrong(S, h)

TraverseTable(S, h) ==
  CASE S.obj[h].mode = "strong" -> TraverseStrong(S, h)
    [] S.obj[h].mode = "weakv"  -> TraverseWeakValue(S, h)
    [] S.obj[h].mode = "weakk"  -> TraverseEphemeron(S, h)[1]
    [] S.obj[h].mode = "all"    -> Link(S, h, "allweak")

\* traversethread: old threads, and every thread during propagation, are
\* visited again in the atomic phase; that visit puts a thread with an open
\* upvalue back into 'twups'.
TraverseThread(S, th) ==
  LET Marked(T) == Mark(Mark(T, T.obj[th].val), T.obj[th].uv)
      Kept(T) == IF T.gcstate = "atomic" /\ T.obj[th].uv # NIL /\ ~Contains(T.twups, th)
                 THEN [T EXCEPT !.twups = <<th>> \o @] ELSE T
  IN Kept(Marked(IF IsOld(S, th) \/ S.gcstate = "propagate" THEN Link(S, th, "grayagain") ELSE S))

\* propagatemark: one gray object turns black and is traversed.
PropagateMark(S) ==
  LET o == Head(S.gray)
      T == Paint([S EXCEPT !.gray = Tail(@)], o, "black")
  IN CASE S.obj[o].kind = "table"  -> TraverseTable(T, o)
       [] S.obj[o].kind = "lcl"    -> Mark(T, T.obj[o].uv)
       [] S.obj[o].kind = "thread" -> TraverseThread(T, o)

RECURSIVE PropagateAll(_)
PropagateAll(S) == IF S.gray = <<>> THEN S ELSE PropagateAll(PropagateMark(S))

\* convergeephemerons: traverse the ephemeron tables until nothing is marked.
RECURSIVE ConvergeEphemerons(_)
ConvergeEphemerons(S) ==
  LET Spread(t, before) == IF t[2] THEN <<PropagateAll(t[1]), TRUE>> ELSE <<t[1], before>>
      Visit(p, h) == Spread(TraverseEphemeron(Paint(p[1], h, "black"), h), p[2])
      Again(r) == IF r[2] THEN ConvergeEphemerons(r[1]) ELSE r[1]
  IN Again(FoldLeft(Visit, <<[S EXCEPT !.ephemeron = <<>>], FALSE>>, S.ephemeron))

----------------------------------------------------------------------------
\* Barriers: what a program's write owes the collector.

\* (mutants) a forward barrier that forgets the age; a back barrier that is
\* missing, or links a TOUCHED2 object a second time
BarrierAgeless(S, o, v) ==
  IF v = NIL \/ S.obj[o].color # "black" \/ ~IsWhite(S, v) THEN S
  ELSE IF KeepInvariant(S) THEN ReallyMark(S, v)
       ELSE IF ~S.gen THEN Paint(S, o, S.white) ELSE S
BarrierBackNever(S, o, v) == S
BarrierBackRelinks(S, o, v) ==
  IF v = NIL \/ S.obj[o].color # "black" \/ ~IsWhite(S, v) THEN S
  ELSE LET T == Link(S, o, "grayagain")
       IN IF IsOld(T, o) THEN SetAge(T, o, "touched1") ELSE T

\* luaC_barrier: the collector moves forward and marks 'v'; in a sweep of the
\* incremental mode 'o' is swept instead.
Barrier(S, o, v) ==
  IF v = NIL \/ S.obj[o].color # "black" \/ ~IsWhite(S, v) THEN S
  ELSE IF KeepInvariant(S)
       THEN LET T == ReallyMark(S, v) IN IF IsOld(T, o) THEN SetAge(T, v, "old0") ELSE T
       ELSE IF ~S.gen THEN Paint(S, o, S.white) ELSE S

\* luaC_barrierback: 'o' goes back to gray; an old object becomes TOUCHED1.
BarrierBack(S, o, v) ==
  IF v = NIL \/ S.obj[o].color # "black" \/ ~IsWhite(S, v) THEN S
  ELSE LET T == IF S.obj[o].age = "touched2" THEN Paint(S, o, "gray")
                ELSE Link(S, o, "grayagain")
       IN IF IsOld(T, o) THEN SetAge(T, o, "touched1") ELSE T

\* luaF_closeupval: the slot's value moves into the open upvalue of 'th'.
CloseUpval(S, th) ==
  LET u == S.obj[th].uv
      v == S.obj[th].val
      T == [S EXCEPT !.obj[th].uv = NIL, !.obj[u].own = NIL, !.obj[u].val = v]
  IN IF u = NIL THEN S
     ELSE IF IsWhite(T, u) THEN T ELSE Barrier(Paint(T, u, "black"), u, v)
=============================================================================
