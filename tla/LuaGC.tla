------------------------------- MODULE LuaGC -------------------------------
(***************************************************************************)
(* A program of the interpreter and its collector side by side (lua/lgc.c  *)
(* with the writes of lua/lvm.c, lua/lapi.c, lua/lfunc.c, lua/lstring.c).  *)
(* The program allocates and writes with the barriers of the source; the   *)
(* collector runs in incremental or generational mode, between any two of  *)
(* those writes.  A behaviour starts with a menu: what its program may     *)
(* allocate and how its collector is driven.                               *)
(***************************************************************************)
EXTENDS LuaCollect, FiniteSets

CONSTANT Menus          \* [kinds, modes, drives, start, gen, ops]; 'ops' bounds the program's steps

VARIABLES g,                       \* global_State with the heap
          menu,
          ops                      \* steps the program has taken
vars == <<g, menu, ops>>

Drives == {"inc", "gen", "full", "emergency", "mode"}
Modes  == {"strong", "weakv", "weakk", "all"}

----------------------------------------------------------------------------
\* lua_newstate: the main thread and the registry, white, the collector paused.
NewState ==
         [obj |-> [o \in Obj |->
             CASE o = Main -> [Free EXCEPT !.kind = "thread", !.color = "white0"]
               [] o = Reg  -> [Free EXCEPT !.kind = "table", !.color = "white0"]
               [] OTHER    -> Free],
          allgc |-> <<Reg, Main>>, finobj |-> <<>>, tobefnz |-> <<>>,
          gray |-> <<>>, grayagain |-> <<>>, weak |-> <<>>, allweak |-> <<>>,
          ephemeron |-> <<>>, twups |-> <<>>,
          survival |-> NIL, old1 |-> NIL, reallyold |-> NIL, firstold1 |-> NIL,
          finobjsur |-> NIL, finobjold1 |-> NIL, finobjrold |-> NIL,
          sweepgc |-> None, gcstate |-> "pause", white |-> "white0",
          gen |-> FALSE, lastatomic |-> FALSE, emergency |-> FALSE, cache |-> NIL]

\* A behaviour starts from the heap of its menu, built before the collector ran
\* (gcrunning is 0 meanwhile); lua.c:619 then enters the generational mode.
Init ==
  /\ menu \in Menus
  /\ g = ChangeMode(menu.start, menu.gen, Main, FALSE)
  /\ ops = 0

----------------------------------------------------------------------------
\* What the objects refer to.

\* The references a program can follow from 'o', those of weak tables included.
Refs(S, o) ==
  LET r == S.obj[o] IN
  (IF r.kind = "upval" THEN {Content(S, o)} ELSE {r.key, r.val, r.uv}) \ {NIL}

\* The references that keep their target alive, given what is known alive: an
\* ephemeron's value counts when its key does, strings are never weak.
StrongRefs(S, o, alive) ==
  LET r == S.obj[o]
      Str(x) == IF x # NIL /\ S.obj[x].kind = "string" THEN {x} ELSE {}
  IN CASE r.kind = "table" /\ r.mode = "weakv" -> ({r.key} \ {NIL}) \cup Str(r.val)
       [] r.kind = "table" /\ r.mode = "weakk" ->
            Str(r.key) \cup (IF r.key \in alive \cup {NIL} \cup Str(r.key)
                             THEN {r.val} \ {NIL} ELSE {})
       [] r.kind = "table" /\ r.mode = "all" -> Str(r.key) \cup Str(r.val)
       [] OTHER -> Refs(S, o)

\* What is reached from a set by strong references, and by any reference.
RECURSIVE StrongFrom(_, _)
StrongFrom(S, alive) ==
  LET more == alive \cup UNION {StrongRefs(S, o, alive) : o \in alive}
  IN IF more = alive THEN alive ELSE StrongFrom(S, more)
Strong(S) == StrongFrom(S, {Main, Reg})

RECURSIVE ReachFrom(_, _, _)
ReachFrom(S, done, todo) ==
  IF todo = {} THEN done
  ELSE LET d == done \cup todo
       IN ReachFrom(S, d, (UNION {Refs(S, o) : o \in todo}) \ d)
Accessible(S) == ReachFrom(S, {}, {Main, Reg})

Allocated(S) == {o \in Obj : S.obj[o].kind # "free"}
OfKind(S, set, k) == {o \in set : S.obj[o].kind = k}
Fresh(S)     == CHOOSE o \in Dyn : S.obj[o].kind = "free" /\ \A p \in 3 .. o - 1 : S.obj[p].kind # "free"

----------------------------------------------------------------------------
\* The program.

Program(S) == ops < menu.ops /\ g' = S /\ ops' = ops + 1 /\ UNCHANGED menu

HasRoom(n) == Cardinality(Obj \ Allocated(g)) >= n
Stack(S, th, v) == [S EXCEPT !.obj[th].val = v]        \* no barrier on a stack

\* lua_createtable, OP_NEWTABLE (its weak mode is set at once), lua_newthread:
\* the new object is anchored in the stack of 'th'.
Create(S, th, kind, mode) ==
  LET o == Fresh(S) IN
  Stack(NewObj(S, o, [Free EXCEPT !.kind = kind, !.mode = mode]), th, o)

NewTable(th, mode) ==
  "table" \in menu.kinds /\ mode \in menu.modes /\ HasRoom(1) /\ Program(Create(g, th, "table", mode))
NewThread(th) ==
  "thread" \in menu.kinds /\ HasRoom(1) /\ Program(Create(g, th, "thread", "strong"))

\* luaF_findupval: the open upvalue over the slot of 'th', made when missing.
FindUpval(S, th) ==
  IF S.obj[th].uv # NIL THEN S
  ELSE LET u == Fresh(S)
           T == NewObj(S, u, [Free EXCEPT !.kind = "upval", !.own = th])
       IN [T EXCEPT !.obj[th].uv = u,
                    !.twups = IF Contains(@, th) THEN @ ELSE <<th>> \o @]

\* OP_CLOSURE (pushclosure): a closure over the slot it is stored in.
PushClosure(S, th) ==
  LET c == Fresh(S)
      T == FindUpval(Create(S, th, "lcl", "strong"), th)
      u == T.obj[th].uv
  IN Barrier([T EXCEPT !.obj[c].uv = u], c, u)
NewClosure(th) ==
  "lcl" \in menu.kinds /\ HasRoom(IF g.obj[th].uv = NIL THEN 2 ELSE 1) /\ Program(PushClosure(g, th))

\* luaS_new, internshrstr: the cached string, or the one in the string table
\* (brought back if it is dead and not yet swept), or a new one.
NewString(th) ==
  /\ "string" \in menu.kinds
  /\ LET found == {o \in Obj : g.obj[o].kind = "string"} IN
     IF g.cache # NIL THEN Program(Stack(g, th, g.cache))
     ELSE \/ \E s \in found :
               LET S == IF IsDead(g, s) THEN Paint(g, s, g.white) ELSE g
               IN Program([Stack(S, th, s) EXCEPT !.cache = s])
          \/ /\ found = {} /\ HasRoom(1)
             /\ LET s == Fresh(g)
                    S == NewObj(g, s, [Free EXCEPT !.kind = "string"])
                IN Program([Stack(S, th, s) EXCEPT !.cache = s])

\* An assignment to a local variable, or a pop.
SetLocal(th, v) == v # g.obj[th].val /\ Program(Stack(g, th, v))

\* luaH_newkey with luaV_finishset: the entry of 't' becomes k -> v.
PutEntry(S, t, k, v) ==
  [BarrierBack(BarrierBack(S, t, k), t, v) EXCEPT !.obj[t].key = k, !.obj[t].val = v]
SetEntry(t, k, v) ==
  /\ v = NIL => k = NIL
  /\ <<k, v>> # <<g.obj[t].key, g.obj[t].val>>
  /\ Program(PutEntry(g, t, k, v))

\* OP_SETUPVAL
SetUpval(c, v) ==
  /\ LET u == g.obj[c].uv
         S == IF g.obj[u].own # NIL THEN [g EXCEPT !.obj[g.obj[u].own].val = v]
              ELSE [g EXCEPT !.obj[u].val = v]
     IN v # Content(g, u) /\ Program(Barrier(S, u, v))

\* luaF_close at the end of a block
LeaveBlock(th) == g.obj[th].uv # NIL /\ Program(CloseUpval(g, th))

\* luaC_checkfinalizer: 'o' moves from 'allgc' to 'finobj'; a sweep that stands
\* at it moves on first, and so do the marks of the generations.
CheckFinalizer(S, o) ==
  LET next  == At(S, [list |-> "allgc", pred |-> o])
      Skip(p) == IF p = o THEN next ELSE p
      T == IF IsSweepPhase(S)
           THEN LET W == Paint(S, o, S.white)
                IN IF S.sweepgc = [list |-> "allgc", pred |-> o] THEN SweepToLive(W) ELSE W
           ELSE [S EXCEPT !.survival = Skip(@), !.old1 = Skip(@),
                          !.reallyold = Skip(@), !.firstold1 = Skip(@)]
  IN [T EXCEPT !.allgc = Without(@, o), !.finobj = <<o>> \o @, !.obj[o].fin = TRUE]

\* lua_setmetatable with a __gc metamethod
SetFinalizer(o) == "gc" \in menu.kinds /\ ~g.obj[o].fin /\ Program(CheckFinalizer(g, o))

ProgramStep ==
  LET acc  == Accessible(g)
      vals == {o \in acc : g.obj[o].kind # "upval"} \cup {NIL}
  IN \/ \E th \in OfKind(g, acc, "thread") :
          \/ \E mode \in Modes : NewTable(th, mode)
          \/ NewThread(th)
          \/ NewClosure(th)
          \/ NewString(th)
          \/ LeaveBlock(th)
          \/ \E v \in vals : SetLocal(th, v)
     \/ \E t \in OfKind(g, acc, "table"), k, v \in vals : SetEntry(t, k, v)
     \/ \E c \in OfKind(g, acc, "lcl"), v \in vals : SetUpval(c, v)
     \/ \E o \in OfKind(g, acc, "table") \ {Reg} : SetFinalizer(o)

----------------------------------------------------------------------------
\* The collector, driven from the running thread.

Collector(drive, S) == drive \in menu.drives /\ g' = S /\ UNCHANGED <<menu, ops>>

\* luaC_step in incremental mode: one single step of incstep.
IncStep(run, keep) ==
  ~g.gen /\ ~g.lastatomic /\ Collector("inc", SingleStep(g, run, keep))

\* luaC_step in generational mode
GenStepping(major, good, run, keep) ==
  (g.gen \/ g.lastatomic) /\ (major \/ good) /\ Collector("gen", GenStep(g, major, good, run, keep))

\* collectgarbage() and the emergency collection of a failed allocation
FullCollect(emergency, run, keep) ==
  Collector(IF emergency THEN "emergency" ELSE "full", FullGC(g, emergency, run, keep))

\* collectgarbage("generational"), collectgarbage("incremental")
SetMode(gen, run, keep) ==
  (gen # g.gen \/ g.lastatomic) /\ Collector("mode", ChangeMode(g, gen, run, keep))

CollectorStep ==
  \E run \in OfKind(g, Accessible(g), "thread"), keep \in (IF "gc" \in menu.kinds THEN BOOLEAN ELSE {FALSE}) :
     \/ IncStep(run, keep)
     \/ \E major, good \in BOOLEAN : GenStepping(major, good, run, keep)
     \/ \E emergency \in BOOLEAN : ~(emergency /\ keep) /\ FullCollect(emergency, run, keep)
     \/ \E gen \in BOOLEAN : SetMode(gen, run, keep)

Next == ProgramStep \/ CollectorStep
Spec == Init /\ [][Next]_vars

----------------------------------------------------------------------------
\* Properties.

InSeq(seq) == {seq[i] : i \in 1 .. Len(seq)}
Distinct(seq) == Cardinality(InSeq(seq)) = Len(seq)

\* The types of the state, and lstate.h:20: every object is on exactly one of
\* the lists allgc, finobj, tobefnz, once, and its FINALIZED bit says which.
TypeOK ==
  /\ g.obj \in [Obj -> [kind : {"free", "table", "thread", "upval", "lcl", "string"},
                        color : Colors, age : Ages, fin : BOOLEAN, mode : Modes,
                        key : ObjN, val : ObjN, uv : ObjN, own : ObjN]]
  /\ LET l == g.allgc \o g.finobj \o g.tobefnz IN Distinct(l) /\ InSeq(l) = Allocated(g)
  /\ {o \in Allocated(g) : g.obj[o].fin} = InSeq(g.finobj \o g.tobefnz)
  /\ ops \in 0 .. menu.ops

\* No dangling reference: whatever a program can reach, through weak tables
\* and open upvalues too, is allocated and not about to be swept (the code's
\* checkliveness), at every point of a collection in either mode.
NoDangling == \A o \in Accessible(g) : g.obj[o].kind # "free" /\ ~IsDead(g, o)

\* lgc.h: while the invariant is kept no black object points to a white one,
\* but for those that the next young collection visits anyway: an object that
\* just became old (markold) and one touched in the previous cycle.  Threads
\* have no barriers.  lstate.h:60: the gray objects, open upvalues aside, are
\* those on the gray lists, each once; a TOUCHED2 object stays on a list though
\* it is black.
MarkInvariant ==
  KeepInvariant(g) =>
    LET white(o) == \E p \in Refs(g, o) : IsWhite(g, p)
        revisited(o) == g.obj[o].kind = "thread" \/ g.obj[o].age \in {"old1", "touched2"}
        l == g.gray \o g.grayagain \o g.weak \o g.allweak \o g.ephemeron
        gray == {o \in Allocated(g) : g.obj[o].color = "gray" /\ g.obj[o].own = NIL}
        touched == {o \in Allocated(g) : g.obj[o].age = "touched2"}
    IN /\ \A o \in Allocated(g) : g.obj[o].color = "black" /\ ~revisited(o) => ~white(o)
       /\ Distinct(l) /\ InSeq(l) = gray \cup touched

\* lstate.h:29: in generational mode no object after a generation's mark is
\* younger than the generation, and no OLD1 object stands before 'firstold1';
\* an OLD object that is not to be visited again refers to old objects only, so
\* that a young collection may ignore it.
GenerationsSound ==
  LET Age(o) == g.obj[o].age
      OldFrom(seq, mark) == \A o \in InSeq(From(seq, mark)) : IsOld(g, o)
  IN g.gen =>
       /\ \A o \in InSeq(From(g.allgc, g.survival) \o From(g.finobj, g.finobjsur)) : Age(o) # "new"
       /\ OldFrom(g.allgc, g.old1) /\ OldFrom(g.finobj, g.finobjold1)
       /\ \A o \in InSeq(g.allgc) : Age(o) = "old1" =>
            o \in InSeq(From(UpTo(g.allgc, g.reallyold), g.firstold1))
       /\ \A p \in {g.survival, g.old1, g.reallyold, g.firstold1} \ {NIL} : Contains(g.allgc, p)
       /\ \A p \in {g.finobjsur, g.finobjold1, g.finobjrold} \ {NIL} : Contains(g.finobj, p)
       /\ \A o \in Allocated(g) :
            Age(o) = "old" /\ g.obj[o].color = "black" => \A p \in Refs(g, o) : IsOld(g, p)

\* An object is queued for its finalizer only when no strong path led to it.
FinalizedWhenUnreachable ==
  [][\A o \in InSeq(g'.tobefnz) \ InSeq(g.tobefnz) : o \notin Strong(g)]_vars

\* A full collection leaves no garbage: what remains is reachable, or is kept
\* by an object that had a finalizer when it began (weak keys cut cycles).
FullCollectsAll ==
  [][ops' = ops /\ "full" \in menu.drives =>
       \A run \in OfKind(g, Accessible(g), "thread"), keep \in BOOLEAN : FullCollect(FALSE, run, keep) =>
         Allocated(g') \subseteq
           StrongFrom(g', {Main, Reg} \cup {o \in Allocated(g') : g.obj[o].fin})]_vars
=============================================================================
