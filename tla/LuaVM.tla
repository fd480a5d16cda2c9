------------------------------- MODULE LuaVM -------------------------------
(***************************************************************************)
(* The machine that runs what LuaParser makes: luaV_execute (lvm.c) with   *)
(* calls (ldo.c), upvalues and closing (lfunc.c), metamethods and variable *)
(* arguments (ltm.c).  Exec is one instruction on the machine's state, a   *)
(* record.  The stack is one array for all frames, and a register nobody   *)
(* has written holds Junk.  ok turns FALSE when a register outside of its  *)
(* frame is written or an assertion of the source fails.                   *)
(*                                                                         *)
(* The program's surroundings are C functions: f gives back its arguments, *)
(* it counts up to its first argument, pcall; and objects of which every   *)
(* metamethod is a C function.  All of them are written in a log.  In a    *)
(* machine that yields they all yield, and are resumed with what they      *)
(* would return: then the instruction they interrupted is finished by      *)
(* luaV_finishOp instead of luaV_execute.                                  *)
(***************************************************************************)
EXTENDS LuaK

Texts == INSTANCE TLC    \* for ToString

CONSTANTS StackMax,     \* bound: size of the stack
          MaxSteps      \* bound: instructions of one run

Junk == <<"junk", 0>>
ErrorMsg == StrV(<<"error">>)
HasMeta(v) == v[1] = "obj"
IsFunction(v) == v[1] \in {"clo", "cfn"}
CFn(name) == <<"cfn", name>>

FrameOf(kind, func, nres, top) ==
  [kind |-> kind, func |-> func, pc |-> 0, nres |-> nres, nextra |-> 0, top |-> top, err |-> FALSE]

Frame(m) == m.fr[Len(m.fr)]
Base(m) == Frame(m).func + 1
Clo(m) == m.clos[m.stk[Frame(m).func][2]]
Reg(m, r) == m.stk[Base(m) + r]
SetReg(m, r, v) == [m EXCEPT !.stk[Base(m) + r] = v, !.ok = @ /\ Base(m) + r < Frame(m).top]
KOf(m, n) == Clo(m).p.k[n + 1]
RKC(m, i) == IF i.k THEN KOf(m, i.c) ELSE Reg(m, i.c)
Here(m, back) == At(Clo(m).p, Frame(m).pc - back)
SkipBy(m, n) == [m EXCEPT !.fr[Len(m.fr)].pc = @ + n]
Protected(m) == [m EXCEPT !.top = Frame(m).top]
Log(m, event, args) == [m EXCEPT !.log = Append(@, <<event, args>>)]
Pushed(m, v) == [m EXCEPT !.stk[m.top] = v, !.top = @ + 1]
Require(m, p) == [m EXCEPT !.ok = @ /\ p]

----------------------------------------------------------------------------
\* Upvalues and variables to be closed.

Cell(m, n) == m.cells[Clo(m).ups[n + 1]]
CellValue(m, c) == IF c.open THEN m.stk[c.at] ELSE c.v
SetUp(m, n, v) ==
  IF Cell(m, n).open THEN [m EXCEPT !.stk[Cell(m, n).at] = v]
  ELSE [m EXCEPT !.cells[Clo(m).ups[n + 1]].v = v]

OpenAt(m, s) == {c \in DOMAIN m.cells : m.cells[c].open /\ m.cells[c].at = s}
\* luaF_findupval
FindUpval(m, s) ==
  IF OpenAt(m, s) # {} THEN m
  ELSE [m EXCEPT !.cells = Append(@, [open |-> TRUE, at |-> s, v |-> Nil])]

\* pushclosure: descs are the upvalues still to be found, ups those found.
RECURSIVE Captured(_, _, _, _, _)
Captured(m, p, descs, ups, r) ==
  IF descs = <<>>
  THEN SetReg([m EXCEPT !.clos = Append(@, [p |-> p, ups |-> ups])], r, <<"clo", Len(m.clos) + 1>>)
  ELSE IF ~Head(descs).instack
  THEN Captured(m, p, Tail(descs), Append(ups, Clo(m).ups[Head(descs).idx + 1]), r)
  ELSE LET n == FindUpval(m, Base(m) + Head(descs).idx)
       IN Captured(n, p, Tail(descs),
                   Append(ups, CHOOSE c \in OpenAt(n, Base(m) + Head(descs).idx) : TRUE), r)
PushClosure(m, p, r) == Captured(m, p, p.ups, <<>>, r)

CloseUpvals(m, level) ==
  [m EXCEPT !.cells = [c \in DOMAIN @ |-> IF @[c].open /\ @[c].at >= level
                                          THEN [open |-> FALSE, at |-> 0, v |-> m.stk[@[c].at]] ELSE @[c]]]

\* luaD_seterrorobj for an error
SetErrorObj(m, s) == [m EXCEPT !.stk[s] = m.stk[m.top - 1], !.top = s + 1]

\* prepcallclosemth, callclosemethod
Closing(m, s, err) ==
  IF err THEN LET n == SetErrorObj(m, s + 1) IN Log(n, "CLOSE", <<n.stk[s], n.stk[s + 1]>>)
  ELSE Log(m, "CLOSE", <<m.stk[s], Nil>>)
HasTbc(m, level) == m.tbc # <<>> /\ LastOf(m.tbc) >= level
CloseOne(m, err) == Closing([m EXCEPT !.tbc = SubSeq(@, 1, Len(@) - 1)], LastOf(m.tbc), err)

\* luaF_close, when no method yields
RECURSIVE CloseTbcs(_, _, _)
CloseTbcs(m, level, err) == IF HasTbc(m, level) THEN CloseTbcs(CloseOne(m, err), level, err) ELSE m
Close(m, level, err) == CloseTbcs(CloseUpvals(m, level), level, err)

----------------------------------------------------------------------------
\* Errors: to the last pcall, or out of the program, which closes everything.

Pcalls(m) == {n \in DOMAIN m.fr : m.fr[n].kind = "pcall"}
Uncaught(m) == [Close(m, 0, TRUE) EXCEPT !.status = "error"]
Recover(m, n) == [m EXCEPT !.fr = [SubSeq(@, 1, n) EXCEPT ![n].err = TRUE]]
Raise(m) ==
  IF Pcalls(m) = {} THEN Uncaught(m)
  ELSE Recover(m, CHOOSE n \in Pcalls(m) : \A o \in Pcalls(m) : o <= n)
Throw(m) == Raise(Pushed(m, ErrorMsg))

\* luaF_newtbcupval
NewTbc(m, s) ==
  IF Falsy(m.stk[s]) THEN m
  ELSE IF ~HasMeta(m.stk[s]) THEN Throw(m)
  ELSE Require([m EXCEPT !.tbc = Append(@, s)], m.tbc # <<>> => LastOf(m.tbc) < s)

----------------------------------------------------------------------------
\* Calls.

\* moveresults
MoveResults(m, res, nres, wanted) ==
  LET n == IF wanted = MULTRET THEN nres ELSE wanted
  IN [m EXCEPT !.stk = [s \in DOMAIN @ |-> IF s < res \/ s >= res + n THEN @[s]
                                           ELSE IF s - res < nres THEN @[m.top - nres + s - res] ELSE Nil],
               !.top = res + n]

\* luaD_poscall: the frame ends, its results go to the caller.
WithResult(m, res) ==
  IF m.fr = <<>> THEN [m EXCEPT !.status = "done", !.result = [n \in 1 .. m.top - res |-> m.stk[res + n - 1]]]
  ELSE m
Poscall(m, res, nres) ==
  WithResult([MoveResults(m, res, nres, Frame(m).nres) EXCEPT !.fr = SubSeq(@, 1, Len(@) - 1)], res)

\* luaD_tryfuncTM: the metamethod goes below the object.
TryFuncTM(m, func) ==
  [m EXCEPT !.stk = [s \in DOMAIN @ |-> IF s = func THEN CFn("call")
                                        ELSE IF s > func /\ s <= m.top THEN @[s - 1] ELSE @[s]],
            !.top = @ + 1]

LuaFrame(m, func, nres, p) ==
  [m EXCEPT !.fr = Append(@, FrameOf("lua", func, nres, func + 1 + p.maxstack)),
            !.stk = [s \in DOMAIN @ |-> IF s >= m.top /\ s <= func + p.numparams THEN Nil ELSE @[s]],
            !.top = Larger(@, func + 1 + p.numparams)]

Args(m, func) == [n \in 1 .. m.top - func - 1 |-> m.stk[func + n]]
Counted(limit, n) == IF n < limit THEN IntV(n + 1) ELSE Nil
CallC(m, func, nres, name) ==
  CASE name = "f" -> MoveResults(Log(m, "f", Args(m, func)), func, m.top - func - 1, nres)
    [] name = "call" -> MoveResults(Log(m, "CALL", Args(m, func)), func, m.top - func - 2, nres)
    [] name = "it" -> MoveResults(Pushed(m, Counted(m.stk[func + 1][2], m.stk[func + 2][2])), func, 1, nres)

\* luaB_pcall: true goes below the function, which is called at func + 2.
PcallFrame(m, func, nres) ==
  [m EXCEPT !.fr = Append(@, FrameOf("pcall", func, nres, m.top + 1)),
            !.stk = [s \in DOMAIN @ |-> IF s = func + 1 THEN BoolV(TRUE)
                                        ELSE IF s > func + 1 /\ s <= m.top THEN @[s - 1] ELSE @[s]],
            !.top = @ + 1]

\* luaD_precall
RECURSIVE Precall(_, _, _)
Precall(m, func, nres) ==
  LET v == m.stk[func]
  IN CASE v[1] = "clo" -> LuaFrame(m, func, nres, m.clos[v[2]].p)
       [] v = CFn("pcall") ->
            IF m.top = func + 1 THEN Throw(m) ELSE Precall(PcallFrame(m, func, nres), func + 2, MULTRET)
       [] v[1] = "cfn" /\ v[2] # "pcall" -> CallC(m, func, nres, v[2])
       [] HasMeta(v) -> CallC(TryFuncTM(m, func), func, nres, "call")
       [] ~IsFunction(v) /\ ~HasMeta(v) -> Throw(m)

\* What comes after a call by pcall: finishpcallk and finishpcall in a machine
\* that yields, luaD_pcall and finishpcall in one that does not.
CaughtError(m, level) ==
  LET n == SetErrorObj(m, level)
  IN Poscall(Pushed(Pushed(n, BoolV(FALSE)), n.stk[level]), level - 2, 2)
FinishPcall(m) ==
  IF ~Frame(m).err THEN Poscall(m, Frame(m).func, m.top - Base(m))
  ELSE IF m.yields /\ HasTbc(m, Base(m) + 1) THEN CloseOne(CloseUpvals(m, Base(m) + 1), TRUE)
  ELSE CaughtError(Close(m, Base(m) + 1, TRUE), Base(m) + 1)

----------------------------------------------------------------------------
\* Metamethods.

MetaResult(event, p1, p2) ==
  CASE event \in {"LT", "LE", "EQ"} -> BoolV(p1 = <<"obj", 1>>)
    [] event = "LEN" -> IntV(2)
    [] event = "INDEX" -> p2
    [] OTHER -> StrV(<<event>>)

\* The call in luaT_callTMres, its result on the top.
MetaCall(m, event, p1, p2) == Pushed(Log(m, event, <<p1, p2>>), MetaResult(event, p1, p2))
PlaceTop(m, res) == [m EXCEPT !.stk[res] = m.stk[m.top - 1], !.top = @ - 1]

\* docondjump: the jump that follows is taken, or skipped.
DoCondJump(m, cond, k) == IF cond # k THEN SkipBy(m, 1) ELSE SkipBy(m, Here(m, 0).b + 1)
Judged(m, k) == DoCondJump(m, ~Falsy(m.stk[m.top]), k)

CanStr(v) == v[1] \in {"str", "int", "flt"}
Letters(v) ==
  CASE v[1] = "str" -> v[2]
    [] v[1] = "int" -> <<Texts!ToString(v[2])>>
    [] v[1] = "flt" -> <<Texts!ToString(v[2]) \o ".0">>
RECURSIVE Copied(_, _)
Copied(m, n) == IF n = 0 THEN <<>> ELSE Letters(m.stk[m.top - n]) \o Copied(m, n - 1)
AllStr(m, n) == \A j \in 1 .. n : CanStr(m.stk[m.top - j])
Strings(m, total) == CHOOSE n \in 2 .. total : AllStr(m, n) /\ (n < total => ~AllStr(m, n + 1))
JoinedStr(m, n) == [m EXCEPT !.stk[m.top - n] = StrV(Copied(m, n)), !.top = @ - (n - 1)]

\* luaV_concat, and luaV_finishOp where it goes on with the concatenation
RECURSIVE ConcatAll(_, _), FinishOp(_)
ConcatTM(m, total, p1, p2) ==
  IF ~(HasMeta(p1) \/ HasMeta(p2)) THEN Throw(m)
  ELSE IF m.yields THEN FinishOp(MetaCall(m, "CONCAT", p1, p2))
  ELSE ConcatAll([PlaceTop(MetaCall(m, "CONCAT", p1, p2), m.top - 2) EXCEPT !.top = @ - 1], total - 1)
EmptyLast(m) == StrV(<<>>) = m.stk[m.top - 1]
ConcatAll(m, total) ==
  IF total = 1 THEN m
  ELSE IF ~AllStr(m, 2) THEN ConcatTM(m, total, m.stk[m.top - 2], m.stk[m.top - 1])
  ELSE IF EmptyLast(m) \/ m.stk[m.top - 2] = StrV(<<>>) THEN ConcatAll(JoinedStr(m, 2), total - 1)
  ELSE ConcatAll(JoinedStr(m, Strings(m, total)), total - (Strings(m, total) - 1))

\* luaV_finishOp after a yield: the result of the call is on the top.
MetaOps == {"MMBIN", "MMBINI", "MMBINK"}
Gets == {"GETTABUP", "GETTABLE", "GETI", "GETFIELD", "SELF"}
Orders == {"LT", "LE", "LTI", "LEI", "GTI", "GEI"}
\* A wrong FinishTest: forgets that the condition was negated.
FinishTestPlain(m, k) == IF Falsy(m.stk[m.top]) THEN SkipBy(m, 1) ELSE m
FinishTest(m, k) == IF ~Falsy(m.stk[m.top]) # k THEN SkipBy(m, 1) ELSE m
FinishConcat(m, top, first) ==
  ConcatAll([m EXCEPT !.stk[top - 2] = m.stk[top], !.top = top - 1], top - 1 - first)
FinishOp(m) ==
  LET i == Here(m, 1)
  IN CASE i.op \in MetaOps -> PlaceTop(m, Base(m) + Here(m, 2).a)
       [] i.op \in {"UNM", "BNOT", "LEN"} \cup Gets -> PlaceTop(m, Base(m) + i.a)
       [] i.op \in Orders \cup {"EQ"} -> FinishTest(PlaceTop(m, m.top - 1), i.k)
       [] i.op = "CONCAT" -> FinishConcat(m, m.top - 1, Base(m) + i.a)
       [] i.op \in {"CLOSE", "RETURN"} -> SkipBy(m, -1)
       [] OTHER -> m

CallTMres(m, event, p1, p2, res) ==
  IF m.yields THEN FinishOp(MetaCall(m, event, p1, p2)) ELSE PlaceTop(MetaCall(m, event, p1, p2), res)
\* luaT_trybinTM, luaT_trybinassocTM
TryBinTM(m, p1, p2, event, res) ==
  IF HasMeta(p1) \/ HasMeta(p2) THEN CallTMres(m, event, p1, p2, res) ELSE Throw(m)
TryFlipped(m, p1, p2, flip, event, res) ==
  IF flip THEN TryBinTM(m, p2, p1, event, res) ELSE TryBinTM(m, p1, p2, event, res)
\* luaT_callorderTM, and the end of luaV_equalobj
TestTM(m, event, p1, p2, k) ==
  IF m.yields THEN FinishOp(MetaCall(m, event, p1, p2))
  ELSE Judged(PlaceTop(MetaCall(m, event, p1, p2), m.top), k)
OrderTM(m, event, p1, p2, k) ==
  IF HasMeta(p1) \/ HasMeta(p2) THEN TestTM(m, event, p1, p2, k) ELSE Throw(m)

----------------------------------------------------------------------------
\* Tables: luaH_get and luaH_set know them as functions of their keys.

Key(v) == IF v[1] = "flt" /\ FitsInt(v) THEN IntV(v[2]) ELSE v
RawGet(t, key) == IF Key(key) \in DOMAIN t THEN t[Key(key)] ELSE Nil
RawSet(t, key, v) ==
  IF v = Nil THEN [k \in DOMAIN t \ {Key(key)} |-> t[k]]
  ELSE [k \in DOMAIN t \cup {Key(key)} |-> IF k = Key(key) THEN v ELSE t[k]]
\* luaH_getn: the border of a table without holes
Length(t) == CHOOSE n \in 0 .. Cardinality(DOMAIN t) :
               IntV(n + 1) \notin DOMAIN t /\ \A k \in 1 .. n : IntV(k) \in DOMAIN t

\* luaV_finishget, luaV_finishset
Get(m, t, key, r) ==
  IF t[1] = "tab" THEN SetReg(m, r, RawGet(m.heap[t[2]], key))
  ELSE IF HasMeta(t) THEN CallTMres(m, "INDEX", t, key, Base(m) + r)
  ELSE Throw(m)
Set(m, t, key, v) ==
  IF t[1] = "tab" /\ key # Nil THEN [m EXCEPT !.heap[t[2]] = RawSet(@, key, v)]
  ELSE IF HasMeta(t) THEN Log(m, "NEWINDEX", <<t, key, v>>)
  ELSE Throw(m)

\* luaV_objlen
ObjLen(m, r, v) ==
  CASE v[1] = "tab" -> SetReg(m, r, IntV(Length(m.heap[v[2]])))
    [] v[1] = "str" -> SetReg(m, r, IntV(Len(v[2])))
    [] OTHER -> TryBinTM(m, v, v, "LEN", Base(m) + r)

RawEqual(v, w) == IF IsNumber(v) /\ IsNumber(w) THEN v[2] = w[2] ELSE v = w

----------------------------------------------------------------------------
\* luaV_execute, some instructions at a time.

RECURSIVE SetNils(_, _, _)
SetNils(m, r, n) == IF n = 0 THEN m ELSE SetNils(SetReg(m, r, Nil), r + 1, n - 1)
ExecLoad(m, i) ==
  CASE i.op = "MOVE" -> SetReg(m, i.a, Reg(m, i.b))
    [] i.op = "LOADI" -> SetReg(m, i.a, IntV(i.b))
    [] i.op = "LOADF" -> SetReg(m, i.a, FltV(i.b))
    [] i.op = "LOADK" -> SetReg(m, i.a, KOf(m, i.b))
    [] i.op = "LOADKX" -> SkipBy(SetReg(m, i.a, KOf(m, Here(m, 0).a)), 1)
    [] i.op = "LOADFALSE" -> SetReg(m, i.a, BoolV(FALSE))
    [] i.op = "LFALSESKIP" -> SkipBy(SetReg(m, i.a, BoolV(FALSE)), 1)
    [] i.op = "LOADTRUE" -> SetReg(m, i.a, BoolV(TRUE))
    [] i.op = "LOADNIL" -> SetNils(m, i.a, i.b + 1)

ExecGet(m, i) ==
  CASE i.op = "GETUPVAL" -> SetReg(m, i.a, CellValue(m, Cell(m, i.b)))
    [] i.op = "GETTABUP" -> Get(Protected(m), CellValue(m, Cell(m, i.b)), KOf(m, i.c), i.a)
    [] i.op = "GETTABLE" -> Get(Protected(m), Reg(m, i.b), Reg(m, i.c), i.a)
    [] i.op = "GETI" -> Get(Protected(m), Reg(m, i.b), IntV(i.c), i.a)
    [] i.op = "GETFIELD" -> Get(Protected(m), Reg(m, i.b), KOf(m, i.c), i.a)
    [] i.op = "SELF" -> Get(Protected(SetReg(m, i.a + 1, Reg(m, i.b))), Reg(m, i.b), RKC(m, i), i.a)

ExecSet(m, i) ==
  CASE i.op = "SETUPVAL" -> SetUp(m, i.b, Reg(m, i.a))
    [] i.op = "SETTABUP" -> Set(Protected(m), CellValue(m, Cell(m, i.a)), KOf(m, i.b), RKC(m, i))
    [] i.op = "SETTABLE" -> Set(Protected(m), Reg(m, i.a), Reg(m, i.b), RKC(m, i))
    [] i.op = "SETI" -> Set(Protected(m), Reg(m, i.a), IntV(i.b), RKC(m, i))
    [] i.op = "SETFIELD" -> Set(Protected(m), Reg(m, i.a), KOf(m, i.b), RKC(m, i))

\* The macros op_arith, op_arithf and op_bitwise: a result skips the MMBIN that
\* follows.
Computed(m, r, op, v, w) ==
  IF op \in Bitwise_
  THEN IF FitsInt(v) /\ FitsInt(w) THEN SkipBy(SetReg(m, r, RawArith(op, v, w)), 1) ELSE m
  ELSE IF ~(IsNumber(v) /\ IsNumber(w)) THEN m
  ELSE IF op \in Division /\ w = IntV(0) /\ v[1] = "int" THEN Throw(Protected(m))
  ELSE SkipBy(SetReg(m, r, RawArith(op, v, w)), 1)

ArithRegs == {"ADD", "SUB", "MUL", "MOD", "IDIV", "BAND", "SHL", "SHR"}
PlainOp == [i \in {"ADDK", "SUBK", "MULK", "MODK", "IDIVK", "BANDK"} |->
              CASE i = "ADDK" -> "ADD" [] i = "SUBK" -> "SUB" [] i = "MULK" -> "MUL"
                [] i = "MODK" -> "MOD" [] i = "IDIVK" -> "IDIV" [] i = "BANDK" -> "BAND"]
Immediates == {"ADDI", "SHRI", "SHLI"}
Imm(c) == IntV(c - OFFSET_sC)
ExecArith(m, i) ==
  CASE i.op \in ArithRegs -> Computed(m, i.a, i.op, Reg(m, i.b), Reg(m, i.c))
    [] i.op \in DOMAIN PlainOp ->
         Require(Computed(m, i.a, PlainOp[i.op], Reg(m, i.b), KOf(m, i.c)), IsNumber(KOf(m, i.c)))
    [] i.op = "ADDI" -> Computed(m, i.a, "ADD", Reg(m, i.b), Imm(i.c))
    [] i.op = "SHRI" -> Computed(m, i.a, "SHR", Reg(m, i.b), Imm(i.c))
    [] i.op = "SHLI" -> Computed(m, i.a, "SHL", Imm(i.c), Reg(m, i.b))

ExecMeta(m, i) ==    \* the result goes where the instruction before had it
  CASE i.op = "MMBIN" -> TryBinTM(Protected(m), Reg(m, i.a), Reg(m, i.b), i.c, Base(m) + Here(m, 2).a)
    [] i.op = "MMBINI" ->
         TryFlipped(Protected(m), Reg(m, i.a), Imm(i.b), i.k, i.c, Base(m) + Here(m, 2).a)
    [] i.op = "MMBINK" ->
         TryFlipped(Protected(m), Reg(m, i.a), KOf(m, i.b), i.k, i.c, Base(m) + Here(m, 2).a)

Unary(m, r, op, v) ==
  IF (IF op = "BNOT" THEN FitsInt(v) ELSE IsNumber(v)) THEN SetReg(m, r, RawArith(op, v, v))
  ELSE TryBinTM(Protected(m), v, v, op, Base(m) + r)
ExecUnary(m, i) ==
  CASE i.op \in {"UNM", "BNOT"} -> Unary(m, i.a, i.op, Reg(m, i.b))
    [] i.op = "NOT" -> SetReg(m, i.a, BoolV(Falsy(Reg(m, i.b))))
    [] i.op = "LEN" -> ObjLen(Protected(m), i.a, Reg(m, i.b))
    [] i.op = "CONCAT" -> ConcatAll([m EXCEPT !.top = Base(m) + i.a + i.b], i.b)

Compares(op, a, b) == CASE op = "LT" -> a < b [] op = "LE" -> a <= b
OrderRegs(m, op, v, w, k) ==
  IF IsNumber(v) /\ IsNumber(w) THEN DoCondJump(m, Compares(op, v[2], w[2]), k)
  ELSE OrderTM(Protected(m), op, v, w, k)
\* op_orderI and luaT_callorderiTM: c tells that the constant was a float.
ImmOf(i) == IF i.c = 1 THEN FltV(i.b - OFFSET_sC) ELSE Imm(i.b)
EqualObj(m, v, w, k) ==
  IF v # w /\ HasMeta(v) /\ HasMeta(w) THEN TestTM(Protected(m), "EQ", v, w, k)
  ELSE DoCondJump(m, RawEqual(v, w), k)
ExecTest(m, i) ==
  CASE i.op \in {"LT", "LE"} -> OrderRegs(m, i.op, Reg(m, i.a), Reg(m, i.b), i.k)
    [] i.op = "LTI" -> OrderRegs(m, "LT", Reg(m, i.a), ImmOf(i), i.k)
    [] i.op = "LEI" -> OrderRegs(m, "LE", Reg(m, i.a), ImmOf(i), i.k)
    [] i.op = "GTI" -> OrderRegs(m, "LT", ImmOf(i), Reg(m, i.a), i.k)
    [] i.op = "GEI" -> OrderRegs(m, "LE", ImmOf(i), Reg(m, i.a), i.k)
    [] i.op = "EQ" -> EqualObj(m, Reg(m, i.a), Reg(m, i.b), i.k)
    [] i.op = "EQK" -> DoCondJump(m, RawEqual(Reg(m, i.a), KOf(m, i.b)), i.k)
    [] i.op = "EQI" -> DoCondJump(m, RawEqual(Reg(m, i.a), Imm(i.b)), i.k)
    [] i.op = "TEST" -> DoCondJump(m, ~Falsy(Reg(m, i.a)), i.k)
    [] i.op = "TESTSET" ->
         IF Falsy(Reg(m, i.b)) = i.k THEN SkipBy(m, 1)
         ELSE SkipBy(SetReg(m, i.a, Reg(m, i.b)), Here(m, 0).b + 1)

WithArgs(m, i) == IF i.b # 0 THEN [m EXCEPT !.top = Base(m) + i.a + i.b] ELSE m
ExecCall(m, i) == Precall(WithArgs(m, i), Base(m) + i.a, i.c - 1)

\* luaD_pretailcall: function and arguments move down to 'to'.
PreTailCall(m, ra, to, p) ==
  LET n == m.top - ra
  IN [m EXCEPT !.stk = [s \in DOMAIN @ |->
                          IF s >= to /\ s < to + n THEN @[ra + s - to]
                          ELSE IF s >= to + n /\ s <= to + p.numparams THEN Nil ELSE @[s]],
               !.top = to + Larger(n, p.numparams + 1),
               !.fr[Len(m.fr)] = [@ EXCEPT !.func = to, !.pc = 0, !.top = to + 1 + p.maxstack]]
\* The real function of a frame, below its variable arguments
RealFunc(m, i) == Frame(m).func - (IF i.c # 0 THEN Frame(m).nextra + i.c ELSE 0)
\* A C function that yields, or is pcall, leaves its results for the RETURN
\* that follows.
TailC(m, ra, real) ==
  LET n == Precall(m, ra, MULTRET)
  IN IF m.yields \/ n.status # "run" \/ Len(n.fr) # Len(m.fr) THEN n ELSE Poscall(n, real, n.top - ra)
TailTo(m, ra, real) ==
  IF m.stk[ra][1] = "clo" THEN PreTailCall(m, ra, real, m.clos[m.stk[ra][2]].p) ELSE TailC(m, ra, real)
ClosedForTail(m, i) ==
  IF i.k THEN Require(CloseUpvals(m, Base(m)), ~HasTbc(m, Base(m))) ELSE m
ExecTailCall(m, i) == TailTo(ClosedForTail(WithArgs(m, i), i), Base(m) + i.a, RealFunc(m, i))

ReturnFrom(m, first, n, real) == Poscall([m EXCEPT !.top = first + n], real, n)
\* A yield in a method starts the instruction again, which counts an open
\* number of results from a top that has moved: recounted tells so.
ReturnClosing(m, first, n, real) ==
  IF m.yields /\ HasTbc(m, Base(m))
  THEN FinishOp([CloseOne(CloseUpvals(m, Base(m)), FALSE) EXCEPT !.recounted = @ \/ Here(m, 1).b = 0])
  ELSE ReturnFrom(Close(m, Base(m), FALSE), first, n, real)
NumResults(m, i) == IF i.b = 0 THEN m.top - (Base(m) + i.a) ELSE i.b - 1
ExecReturn(m, i) ==
  CASE i.op = "RETURN" /\ i.k ->
         ReturnClosing([m EXCEPT !.top = Larger(@, Frame(m).top)], Base(m) + i.a, NumResults(m, i), RealFunc(m, i))
    [] i.op = "RETURN" /\ ~i.k -> ReturnFrom(m, Base(m) + i.a, NumResults(m, i), RealFunc(m, i))
    [] i.op = "RETURN0" -> ReturnFrom(m, Base(m) + i.a, 0, Frame(m).func)
    [] i.op = "RETURN1" -> ReturnFrom(m, Base(m) + i.a, 1, Frame(m).func)

\* forlimit: a float limit is clipped to the integers, or the loop does not run.
MaxInt == Pow2 \div 2 - 1
MinInt == -(Pow2 \div 2)
ClippedOut(lim, step) == ~FitsInt(lim) /\ (IF 0 < lim[2] THEN step < 0 ELSE step > 0)
ForLimit(lim) == IF FitsInt(lim) THEN lim[2] ELSE IF 0 < lim[2] THEN MaxInt ELSE MinInt
NotToRun(init, lim, step) ==
  ClippedOut(lim, step) \/ (IF step > 0 THEN init > ForLimit(lim) ELSE init < ForLimit(lim))
\* The number of iterations is counted with unsigned integers.
ForCount(init, limit, step) ==
  IF step > 0 THEN Unsigned(limit - init) \div step
  ELSE Unsigned(init - limit) \div (Unsigned(-(step + 1)) + 1)
ForPrepInt(m, a, init, lim, step) ==
  IF NotToRun(init, lim, step) THEN SkipBy(SetReg(m, a + 3, IntV(init)), Here(m, 1).b + 1)
  ELSE SetReg(SetReg(m, a + 3, IntV(init)), a + 1, IntV(Wrap(ForCount(init, ForLimit(lim), step))))
ForPrepFlt(m, a, init, limit, step) ==
  IF (IF 0 < step THEN limit < init ELSE init < limit) THEN SkipBy(m, Here(m, 1).b + 1)
  ELSE SetReg(SetReg(SetReg(SetReg(m, a + 1, FltV(limit)), a + 2, FltV(step)), a, FltV(init)), a + 3, FltV(init))
\* forprep
ForPrepare(m, a, init, lim, step) ==
  IF init[1] = "int" /\ step[1] = "int"
  THEN IF step[2] = 0 \/ ~IsNumber(lim) THEN Throw(m) ELSE ForPrepInt(m, a, init[2], lim, step[2])
  ELSE IF ~(IsNumber(lim) /\ IsNumber(step) /\ IsNumber(init)) \/ step[2] = 0 THEN Throw(m)
  ELSE ForPrepFlt(m, a, init[2], lim[2], step[2])

Count(m, a) == Unsigned(Reg(m, a + 1)[2])
LoopInt(m, a, idx) ==
  SkipBy(SetReg(SetReg(SetReg(m, a + 1, IntV(Wrap(Count(m, a) - 1))), a, idx), a + 3, idx), -Here(m, 1).b)
\* floatforloop
LoopFlt(m, a, idx, limit, step) ==
  IF (IF 0 < step THEN idx <= limit ELSE limit <= idx)
  THEN SkipBy(SetReg(SetReg(m, a, FltV(idx)), a + 3, FltV(idx)), -Here(m, 1).b) ELSE m
ForAgain(m, a, step) ==
  IF step[1] = "flt" THEN LoopFlt(m, a, Reg(m, a)[2] + step[2], Reg(m, a + 1)[2], step[2])
  ELSE IF Count(m, a) > 0 THEN LoopInt(m, a, IntV(Wrap(Reg(m, a)[2] + step[2]))) ELSE m

TForTest(m, a) ==
  IF Reg(m, a + 4) = Nil THEN m ELSE SkipBy(SetReg(m, a + 2, Reg(m, a + 4)), -Here(m, 1).b)
Copied3(m, a) == SetReg(SetReg(SetReg(m, a + 4, Reg(m, a)), a + 5, Reg(m, a + 1)), a + 6, Reg(m, a + 2))
TForCall(m, a, c) == Precall([Copied3(m, a) EXCEPT !.top = Base(m) + a + 7], Base(m) + a + 4, c)
ExecFor(m, i) ==
  CASE i.op = "FORPREP" -> ForPrepare(Protected(m), i.a, Reg(m, i.a), Reg(m, i.a + 1), Reg(m, i.a + 2))
    [] i.op = "FORLOOP" -> ForAgain(m, i.a, Reg(m, i.a + 2))
    [] i.op = "TFORPREP" -> NewTbc(SkipBy(Protected(m), i.b), Base(m) + i.a + 3)
    [] i.op = "TFORCALL" -> TForCall(m, i.a, i.c)
    [] i.op = "TFORLOOP" -> TForTest(m, i.a)

\* SETLIST: the last items first; an extra argument makes c longer.
StoreItems(m, r, n, last) ==
  [m EXCEPT !.heap[Reg(m, r)[2]] =
     [k \in {x \in DOMAIN @ \cup {IntV(last - j) : j \in 0 .. n - 1} :
               \A j \in 0 .. n - 1 : x = IntV(last - j) => Reg(m, r + n - j) # Nil} |->
        IF \E j \in 0 .. n - 1 : k = IntV(last - j)
        THEN Reg(m, r + n - (last - k[2])) ELSE @[k]]]
SetListN(m, i, n) ==
  IF i.k THEN SkipBy(StoreItems(m, i.a, n, i.c + n + Here(m, 0).a * (MAXARG_C + 1)), 1)
  ELSE StoreItems(m, i.a, n, i.c + n)
ExecTable(m, i) ==
  CASE i.op = "NEWTABLE" ->
         SkipBy(SetReg([m EXCEPT !.heap = Append(@, <<>>)], i.a, <<"tab", Len(m.heap) + 1>>), 1)
    [] i.op = "SETLIST" -> SetListN(m, i, IF i.b = 0 THEN m.top - (Base(m) + i.a) - 1 ELSE i.b)

\* luaT_getvarargs
VarArg(m, n) == IF n < Frame(m).nextra THEN m.stk[Frame(m).func - Frame(m).nextra + n] ELSE Nil
RECURSIVE GetVarargs(_, _, _, _)
GetVarargs(m, s, n, wanted) ==
  IF n = wanted THEN m ELSE GetVarargs([m EXCEPT !.stk[s + n] = VarArg(m, n)], s, n + 1, wanted)
ExecVararg(m, i) ==
  IF i.c = 0
  THEN GetVarargs([m EXCEPT !.top = Base(m) + i.a + Frame(m).nextra], Base(m) + i.a, 0, Frame(m).nextra)
  ELSE GetVarargs(m, Base(m) + i.a, 0, i.c - 1)

\* luaT_adjustvarargs: the function and its parameters move above the arguments.
AdjustVarargs(m, func, actual, nfix) ==
  [m EXCEPT !.stk = [s \in DOMAIN @ |-> IF s >= m.top /\ s <= m.top + nfix THEN @[func + s - m.top]
                                        ELSE IF s > func /\ s <= func + nfix THEN Nil ELSE @[s]],
            !.top = @ + 1 + nfix,
            !.fr[Len(m.fr)] = [@ EXCEPT !.func = func + actual + 1, !.top = @ + actual + 1,
                                        !.nextra = actual - nfix]]

ExecClose(m, s) ==
  IF m.yields /\ HasTbc(m, s) THEN FinishOp(CloseOne(CloseUpvals(m, s), FALSE)) ELSE Close(m, s, FALSE)
ExecOther(m, i) ==
  CASE i.op = "CLOSURE" -> PushClosure(m, Clo(m).p.protos[i.b + 1], i.a)
    [] i.op = "VARARG" -> ExecVararg(m, i)
    [] i.op = "VARARGPREP" -> AdjustVarargs(m, Frame(m).func, m.top - Frame(m).func - 1, i.a)
    [] i.op = "CLOSE" -> ExecClose(Protected(m), Base(m) + i.a)
    [] i.op = "TBC" -> NewTbc(Protected(m), Base(m) + i.a)
    [] i.op = "JMP" -> SkipBy(m, i.b)

----------------------------------------------------------------------------
\* The main loop.

Loads_ == {"MOVE", "LOADI", "LOADF", "LOADK", "LOADKX", "LOADFALSE", "LFALSESKIP", "LOADTRUE", "LOADNIL"}
Sets == {"SETUPVAL", "SETTABUP", "SETTABLE", "SETI", "SETFIELD"}
Exec(m, i) ==
  CASE i.op \in Loads_ -> ExecLoad(m, i)
    [] i.op \in {"GETUPVAL"} \cup Gets -> ExecGet(m, i)
    [] i.op \in Sets -> ExecSet(m, i)
    [] i.op \in ArithRegs \cup DOMAIN PlainOp \cup Immediates -> ExecArith(m, i)
    [] i.op \in MetaOps -> ExecMeta(m, i)
    [] i.op \in {"UNM", "BNOT", "NOT", "LEN", "CONCAT"} -> ExecUnary(m, i)
    [] i.op \in Tests -> ExecTest(m, i)
    [] i.op = "CALL" -> ExecCall(m, i)
    [] i.op = "TAILCALL" -> ExecTailCall(m, i)
    [] i.op \in {"RETURN", "RETURN0", "RETURN1"} -> ExecReturn(m, i)
    [] i.op \in {"FORPREP", "FORLOOP", "TFORPREP", "TFORCALL", "TFORLOOP"} -> ExecFor(m, i)
    [] i.op \in {"NEWTABLE", "SETLIST"} -> ExecTable(m, i)
    [] i.op \in {"CLOSURE", "VARARG", "VARARGPREP", "CLOSE", "TBC", "JMP"} -> ExecOther(m, i)
    [] OTHER -> Require(m, FALSE)

Fetched(m) == Exec(SkipBy(m, 1), Here(m, 0))
\* Room for the next frame, a call's arguments and what a metamethod needs
Room(m) == Frame(m).top + 12 <= StackMax
RECURSIVE Run(_, _)
Run(m, steps) ==
  IF m.status # "run" THEN m
  ELSE IF steps = 0 \/ ~Room(m) THEN [m EXCEPT !.status = "loops"]
  ELSE Run(IF Frame(m).kind = "pcall" THEN FinishPcall(m) ELSE Fetched(m), steps - 1)

\* lua_load and lua_pcall of the main function; globals is the first table.
MainArgs == <<IntV(1), StrV(<<"a">>)>>
Start(p, globals, yields) ==
  [stk |-> [s \in 0 .. StackMax |-> IF s = 0 THEN <<"clo", 1>>
                                    ELSE IF s <= Len(MainArgs) THEN MainArgs[s] ELSE Junk],
   top |-> 1 + Len(MainArgs),
   fr |-> <<FrameOf("lua", 0, MULTRET, 1 + p.maxstack)>>,
   cells |-> <<[open |-> FALSE, at |-> 0, v |-> <<"tab", 1>>]>>,
   clos |-> <<[p |-> p, ups |-> <<1>>]>>, heap |-> <<globals>>, tbc |-> <<>>, log |-> <<>>,
   result |-> <<>>, status |-> "run", yields |-> yields, recounted |-> FALSE, ok |-> TRUE]
RunMain(p, globals, yields) == Run(Start(p, globals, yields), MaxSteps)
RunOutcome(m) == [status |-> m.status, log |-> m.log, heap |-> m.heap, result |-> m.result]
=============================================================================
