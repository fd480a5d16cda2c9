-------------------------------- MODULE LuaK --------------------------------
(***************************************************************************)
(* lcode.c, the code generator of the Lua interpreter.  A function being   *)
(* compiled is a record (FuncState); expressions are described by where    *)
(* their value is (expdesc) and by the lists of jumps that leave them when *)
(* they are true (t) or false (f).  Every operator below takes and returns *)
(* an expression in its function, x = [f, e, o], where o is the expression *)
(* on the other side of a binary operator.                                 *)
(*                                                                         *)
(* An instruction's b holds Bx, sBx and sJ too.  Positions in the code     *)
(* start at 0, as in the source.  Line information is left out.  ok turns  *)
(* FALSE when an assertion of the source would fail.                       *)
(***************************************************************************)
EXTENDS Integers, Sequences, FiniteSets, Bitwise

CONSTANTS
  MAXARG_C,           \* the largest immediate operand
  MAXINDEXRK,         \* the last constant an operand can name
  MAXARG_Bx,          \* the largest long operand
  LFIELDS_PER_FLUSH,  \* list items stored by one instruction
  Width               \* bits of an integer

ASSUME OperandAssumption ==
  {MAXARG_C, MAXINDEXRK, MAXARG_Bx, LFIELDS_PER_FLUSH, Width} \subseteq Nat \ {0}

NO_JUMP == -1
NO_REG == -2
MULTRET == -1
OFFSET_sC == MAXARG_C \div 2
OFFSET_sBx == MAXARG_Bx \div 2

----------------------------------------------------------------------------
\* Values are pairs of a type and what it holds: an integer of Width bits, a
\* float with an integral value, a string of letters, an object's number.

Nil == <<"nil", 0>>
BoolV(b) == IF b THEN <<"true", 0>> ELSE <<"false", 0>>
IntV(i) == <<"int", i>>
FltV(i) == <<"flt", i>>
StrV(s) == <<"str", s>>
IsNumber(v) == v[1] \in {"int", "flt"}
Falsy(v) == v[1] \in {"nil", "false"}

Pow2 == 2 ^ Width
Wrap(i) == LET u == i % Pow2 IN IF u >= Pow2 \div 2 THEN u - Pow2 ELSE u
Unsigned(i) == i % Pow2

\* luaV_idiv and luaV_mod round towards minus infinity.
FloorDiv(a, b) == IF b > 0 THEN a \div b ELSE (-a) \div (-b)
FloorMod(a, b) == a - b * FloorDiv(a, b)

\* luaV_shiftl: a shift by Width or more gives 0, a negative one goes right.
ShiftLeft(a, n) ==
  IF n <= -Width \/ n >= Width THEN 0
  ELSE IF n < 0 THEN Wrap(Unsigned(a) \div 2 ^ (-n)) ELSE Wrap(a * 2 ^ n)

IntArith(op, a, b) ==
  CASE op = "ADD"  -> Wrap(a + b)
    [] op = "SUB"  -> Wrap(a - b)
    [] op = "MUL"  -> Wrap(a * b)
    [] op = "MOD"  -> FloorMod(a, b)
    [] op = "IDIV" -> Wrap(FloorDiv(a, b))
    [] op = "BAND" -> Wrap(Unsigned(a) & Unsigned(b))
    [] op = "SHL"  -> ShiftLeft(a, b)
    [] op = "SHR"  -> ShiftLeft(a, Wrap(-b))
    [] op = "UNM"  -> Wrap(-a)
    [] op = "BNOT" -> Wrap(-1 - a)

FltArith(op, a, b) ==
  CASE op = "ADD" -> a + b [] op = "SUB" -> a - b [] op = "MUL" -> a * b
    [] op = "MOD" -> FloorMod(a, b) [] op = "IDIV" -> FloorDiv(a, b) [] op = "UNM" -> -a

Bitwise_ == {"BAND", "SHL", "SHR", "BNOT"}
Division == {"MOD", "IDIV"}

\* luaO_rawarith for numbers
RawArith(op, v, w) ==
  IF op \in Bitwise_ \/ (v[1] = "int" /\ w[1] = "int") THEN IntV(IntArith(op, v[2], w[2]))
  ELSE FltV(FltArith(op, v[2], w[2]))

FitsInt(v) == v[1] = "int" \/ (v[1] = "flt" /\ Wrap(v[2]) = v[2])    \* luaV_tointegerns
\* validop: folding must not raise an error.
ValidOp(op, v, w) ==
  CASE op \in Bitwise_ -> FitsInt(v) /\ FitsInt(w)
    [] op \in Division -> w[2] # 0
    [] OTHER -> TRUE

----------------------------------------------------------------------------
\* Instructions and jumps.

Ins(op, a, b, c, k) == [op |-> op, a |-> a, b |-> b, c |-> c, k |-> k]
NoIns == Ins("NONE", 0, 0, 0, FALSE)

Pc(f) == Len(f.code)
At(f, pc) == f.code[pc + 1]
Code(f, i) == [f EXCEPT !.code = Append(@, i)]
Assert(f, p) == [f EXCEPT !.ok = @ /\ p]

\* previousinstruction
Previous(f) == IF Pc(f) > f.lasttarget THEN f.code[Pc(f)] ELSE NoIns

Lesser(a, b) == IF a < b THEN a ELSE b
Larger(a, b) == IF a > b THEN a ELSE b

\* luaK_nil: joins with a LOADNIL that comes before.
CodeNil(f, from, n) ==
  LET p == Previous(f)
      first == Lesser(from, p.a)
      last == Larger(from + n - 1, p.a + p.b)
  IN IF p.op = "LOADNIL" /\ ((p.a <= from /\ from <= p.a + p.b + 1)
                              \/ (from <= p.a /\ p.a <= from + n))
     THEN [f EXCEPT !.code[Pc(f)] = Ins("LOADNIL", first, last - first, 0, FALSE)]
     ELSE Code(f, Ins("LOADNIL", from, n - 1, 0, FALSE))

GetJump(f, pc) == IF At(f, pc).b = NO_JUMP THEN NO_JUMP ELSE pc + 1 + At(f, pc).b
FixJump(f, pc, dest) == [f EXCEPT !.code[pc + 1].b = dest - (pc + 1)]

RECURSIVE JumpList(_, _)
JumpList(f, pc) == IF pc = NO_JUMP THEN <<>> ELSE <<pc>> \o JumpList(f, GetJump(f, pc))

Jump(f) == Code(f, Ins("JMP", 0, NO_JUMP, 0, FALSE))
CondJump(f, op, a, b, c, k) == Jump(Code(f, Ins(op, a, b, c, k)))

\* luaK_concat: the joined list and the function in which it is joined
Joined(l1, l2) == IF l1 = NO_JUMP THEN l2 ELSE l1
LastOf(l) == l[Len(l)]
Concat(f, l1, l2) ==
  IF l1 = NO_JUMP \/ l2 = NO_JUMP THEN f ELSE FixJump(f, LastOf(JumpList(f, l1)), l2)

GetLabel(f) == [f EXCEPT !.lasttarget = Pc(f)]

Tests == {"EQ", "LT", "LE", "EQK", "EQI", "LTI", "LEI", "GTI", "GEI", "TEST", "TESTSET"}
\* getjumpcontrol: the position of the instruction that decides the jump
Control(f, pc) == IF pc >= 1 /\ At(f, pc - 1).op \in Tests THEN pc - 1 ELSE pc

\* patchtestreg
IsTestSet(f, pc) == At(f, Control(f, pc)).op = "TESTSET"
PatchTestReg(f, pc, reg) ==
  LET c == Control(f, pc)
      i == At(f, c)
  IN IF i.op # "TESTSET" THEN f
     ELSE IF reg # NO_REG /\ reg # i.b THEN [f EXCEPT !.code[c + 1].a = reg]
     ELSE [f EXCEPT !.code[c + 1] = Ins("TEST", i.b, 0, 0, i.k)]

RECURSIVE RemoveValues(_, _)
RemoveValues(f, list) ==
  IF list = NO_JUMP THEN f ELSE RemoveValues(PatchTestReg(f, list, NO_REG), GetJump(f, list))

RECURSIVE PatchListAux(_, _, _, _, _)
PatchListAux(f, list, vtarget, reg, dtarget) ==
  IF list = NO_JUMP THEN f
  ELSE PatchListAux(FixJump(PatchTestReg(f, list, reg), list,
                            IF IsTestSet(f, list) THEN vtarget ELSE dtarget),
                    GetJump(f, list), vtarget, reg, dtarget)

PatchList(f, list, target) == PatchListAux(Assert(f, target <= Pc(f)), list, target, NO_REG, target)
PatchToHere(f, list) == PatchList(GetLabel(f), list, Pc(f))

----------------------------------------------------------------------------
\* Registers and constants.

\* reglevel: one past the highest register of the first n variables
RegLevel(f, n) ==
  LET inReg == {i \in 1 .. n : f.actvar[i].kind # "CTC"}
  IN IF inReg = {} THEN 0 ELSE f.actvar[CHOOSE i \in inReg : \A j \in inReg : j <= i].ridx + 1
NVarStack(f) == RegLevel(f, f.nactvar)

CheckStack(f, n) == [f EXCEPT !.maxstack = Larger(@, f.freereg + n)]
Reserve(f, n) == [CheckStack(f, n) EXCEPT !.freereg = @ + n]

FreeReg(f, r) ==
  IF r >= NVarStack(f) THEN Assert([f EXCEPT !.freereg = @ - 1], r = f.freereg - 1) ELSE f
\* A wrong FreeRegs: in the order of the operands, not of the registers.
FreeRegsUnordered(f, r, s) == FreeReg(FreeReg(f, r), s)
FreeRegs(f, r, s) == FreeReg(FreeReg(f, Larger(r, s)), Lesser(r, s))
RegOf(e) == IF e.k = "VNONRELOC" THEN e.info ELSE -1
FreeExp(x) == IF x.e.k = "VNONRELOC" THEN [x EXCEPT !.f = FreeReg(@, x.e.info)] ELSE x
FreeExps(x) == [x EXCEPT !.f = FreeRegs(@, RegOf(x.e), RegOf(x.o))]

\* addk: one cache of constants serves all functions, so what it says is checked.
KIndex(f, v) ==
  IF v \in DOMAIN f.cache /\ f.cache[v] < Len(f.k) /\ f.k[f.cache[v] + 1] = v
  THEN f.cache[v] ELSE Len(f.k)
AddK(f, v) ==
  IF KIndex(f, v) < Len(f.k) THEN f
  ELSE [f EXCEPT !.k = Append(@, v),
                 !.cache = [w \in DOMAIN @ \cup {v} |-> IF w = v THEN Len(f.k) ELSE @[w]]]

FitsC(i) == -OFFSET_sC <= i /\ i <= MAXARG_C - OFFSET_sC
FitsBx(i) == -OFFSET_sBx <= i /\ i <= MAXARG_Bx - OFFSET_sBx
int2sC(i) == i + OFFSET_sC

\* luaK_codek
CodeK(f, reg, k) ==
  IF k <= MAXARG_Bx THEN Code(f, Ins("LOADK", reg, k, 0, FALSE))
  ELSE Code(Code(f, Ins("LOADKX", reg, 0, 0, FALSE)), Ins("EXTRAARG", k, 0, 0, FALSE))

\* luaK_int, luaK_float
CodeNumber(f, reg, v) ==
  IF FitsBx(v[2]) THEN Code(f, Ins(IF v[1] = "int" THEN "LOADI" ELSE "LOADF", reg, v[2], 0, FALSE))
  ELSE CodeK(AddK(f, v), reg, KIndex(f, v))

----------------------------------------------------------------------------
\* Expressions.

Exp(k, info) == [k |-> k, info |-> info, v |-> Nil, tab |-> 0, idx |-> 0, t |-> NO_JUMP, f |-> NO_JUMP]
Void == Exp("VVOID", 0)
Konst(v) ==
  [Exp(CASE v[1] = "nil" -> "VNIL" [] v[1] = "true" -> "VTRUE" [] v[1] = "false" -> "VFALSE"
         [] v[1] = "int" -> "VKINT" [] v[1] = "flt" -> "VKFLT" [] v[1] = "str" -> "VKSTR", 0)
   EXCEPT !.v = v]
InFunc(f, e) == [f |-> f, e |-> e, o |-> Void]
Swap(x) == [x EXCEPT !.e = x.o, !.o = x.e]

HasJumps(e) == e.t # e.f
HasMultRet(e) == e.k \in {"VCALL", "VVARARG"}
Numeral(e) == ~HasJumps(e) /\ e.k \in {"VKINT", "VKFLT"}
IsKInt(e) == ~HasJumps(e) /\ e.k = "VKINT"
IsCInt(e) == IsKInt(e) /\ 0 <= e.v[2] /\ e.v[2] <= MAXARG_C
IsSCInt(e) == IsKInt(e) /\ FitsC(e.v[2])
IsSCNumber(e) == Numeral(e) /\ FitsC(e.v[2])
IsKStr(f, e) == e.k = "VK" /\ ~HasJumps(e) /\ e.info <= MAXINDEXRK /\ f.k[e.info + 1][1] = "str"

\* luaK_exp2const
Exp2Const(e) == ~HasJumps(e) /\ e.k \in {"VNIL", "VTRUE", "VFALSE", "VKINT", "VKFLT", "VKSTR", "VCONST"}

\* An expression whose value an instruction will give, in a register to choose.
Reloc(x, i) == [x EXCEPT !.f = Code(@, i), !.e.k = "VRELOC", !.e.info = Pc(x.f)]
Str2K(x) == [x EXCEPT !.f = AddK(@, x.e.v), !.e.k = "VK", !.e.info = KIndex(x.f, x.e.v)]

\* luaK_setreturns
SetReturns(x, n) ==
  IF x.e.k = "VCALL" THEN [x EXCEPT !.f.code[x.e.info + 1].c = n + 1]
  ELSE [x EXCEPT !.f = Reserve([@ EXCEPT !.code[x.e.info + 1].c = n + 1,
                                         !.code[x.e.info + 1].a = x.f.freereg], 1)]
SetOneRet(x) ==
  CASE x.e.k = "VCALL"   -> [x EXCEPT !.e.k = "VNONRELOC", !.e.info = At(x.f, x.e.info).a]
    [] x.e.k = "VVARARG" -> [x EXCEPT !.f.code[x.e.info + 1].c = 2, !.e.k = "VRELOC"]
    [] OTHER -> x

Freed(x, f) == [x EXCEPT !.f = f]
DischargeVars(x) ==
  LET e == x.e IN
  CASE e.k = "VCONST" -> [x EXCEPT !.e = [Konst(e.v) EXCEPT !.t = e.t, !.f = e.f]]
    [] e.k = "VLOCAL" -> [x EXCEPT !.e.k = "VNONRELOC"]
    [] e.k = "VUPVAL" -> Reloc(x, Ins("GETUPVAL", 0, e.info, 0, FALSE))
    [] e.k = "VINDEXUP" -> Reloc(x, Ins("GETTABUP", 0, e.tab, e.idx, FALSE))
    [] e.k = "VINDEXI" -> Reloc(Freed(x, FreeReg(x.f, e.tab)), Ins("GETI", 0, e.tab, e.idx, FALSE))
    [] e.k = "VINDEXSTR" -> Reloc(Freed(x, FreeReg(x.f, e.tab)), Ins("GETFIELD", 0, e.tab, e.idx, FALSE))
    [] e.k = "VINDEXED" -> Reloc(Freed(x, FreeRegs(x.f, e.tab, e.idx)), Ins("GETTABLE", 0, e.tab, e.idx, FALSE))
    [] OTHER -> SetOneRet(x)

InReg(x, reg) == [x EXCEPT !.e.k = "VNONRELOC", !.e.info = reg]
Put(x, f, reg) == InReg([x EXCEPT !.f = f], reg)

\* discharge2reg, after luaK_dischargevars
Placed(x, reg) ==
  LET e == x.e IN
  CASE e.k = "VNIL"   -> Put(x, CodeNil(x.f, reg, 1), reg)
    [] e.k = "VFALSE" -> Put(x, Code(x.f, Ins("LOADFALSE", reg, 0, 0, FALSE)), reg)
    [] e.k = "VTRUE"  -> Put(x, Code(x.f, Ins("LOADTRUE", reg, 0, 0, FALSE)), reg)
    [] e.k = "VKSTR"  -> Put(x, CodeK(AddK(x.f, e.v), reg, KIndex(x.f, e.v)), reg)
    [] e.k = "VK"     -> Put(x, CodeK(x.f, reg, e.info), reg)
    [] e.k \in {"VKINT", "VKFLT"} -> Put(x, CodeNumber(x.f, reg, e.v), reg)
    [] e.k = "VRELOC" -> Put(x, [x.f EXCEPT !.code[e.info + 1].a = reg], reg)
    [] e.k = "VNONRELOC" ->
         Put(x, IF reg = e.info THEN x.f ELSE Code(x.f, Ins("MOVE", reg, e.info, 0, FALSE)), reg)
    [] e.k = "VJMP"   -> x
Discharge2Reg(x, reg) == Placed(DischargeVars(x), reg)

Reserved(x, n) == [x EXCEPT !.f = Reserve(@, n)]
Discharge2AnyReg(x) ==
  IF x.e.k = "VNONRELOC" THEN x ELSE Discharge2Reg(Reserved(x, 1), x.f.freereg)

NeedValue(f, list) ==
  LET l == JumpList(f, list) IN \E i \in DOMAIN l : ~IsTestSet(f, l[i])

\* code_loadbool
LoadBool(f, a, op) == Code(GetLabel(f), Ins(op, a, 0, 0, FALSE))

\* The last part of exp2reg: the jumps of both lists with a value go to the
\* end, the others to the two loads before it.
EndOfExp(x, reg) ==
  [x EXCEPT !.f = PatchListAux(PatchListAux(GetLabel(@), x.e.f, Pc(x.f), reg, Pc(x.f) - 2),
                               x.e.t, Pc(x.f), reg, Pc(x.f) - 1)]
\* A value must jump around the loads; fj is where its jump stands.
Around(f, isjmp) == IF isjmp THEN f ELSE Jump(f)
Loads(x, reg, fj) ==
  [x EXCEPT !.f = PatchToHere(LoadBool(LoadBool(Around(x.f, x.e.k = "VJMP"), reg, "LFALSESKIP"),
                                       reg, "LOADTRUE"), fj)]
\* An expression that is itself a test goes to its true list.
JmpListed(x) ==
  IF x.e.k = "VJMP"
  THEN [x EXCEPT !.f = Concat(@, x.e.t, x.e.info), !.e.t = Joined(@, x.e.info)] ELSE x
NeedLoads(x) == \E list \in {x.e.t, x.e.f} : NeedValue(x.f, list)
Completed(x, reg) ==
  IF ~HasJumps(x.e) THEN x
  ELSE EndOfExp(IF NeedLoads(x) THEN Loads(x, reg, IF x.e.k = "VJMP" THEN NO_JUMP ELSE Pc(x.f)) ELSE x, reg)
NoLists(x) == [x EXCEPT !.e.t = NO_JUMP, !.e.f = NO_JUMP]

Exp2Reg(x, reg) == InReg(NoLists(Completed(JmpListed(Discharge2Reg(x, reg)), reg)), reg)

NextReg(x) == Exp2Reg(Reserved(x, 1), x.f.freereg)
Exp2NextReg(x) == NextReg(FreeExp(DischargeVars(x)))

IntoReg(x) == Exp2Reg(x, x.e.idx)
\* A value with jumps goes to its register again, unless that is a variable's.
OwnReg(x) == x.e.k = "VNONRELOC" /\ x.e.info >= NVarStack(x.f)
NewReg(x) == [x EXCEPT !.f = Reserve(@, 1), !.e.idx = x.f.freereg]
AnyReg(x) ==
  IF x.e.k = "VNONRELOC" /\ ~HasJumps(x.e) THEN x
  ELSE IntoReg(IF OwnReg(x) THEN [x EXCEPT !.e.idx = x.e.info] ELSE NewReg(FreeExp(x)))
Exp2AnyReg(x) == AnyReg(DischargeVars(x))
Exp2AnyRegUp(x) == IF x.e.k = "VUPVAL" /\ ~HasJumps(x.e) THEN x ELSE Exp2AnyReg(x)
Exp2Val(x) == IF HasJumps(x.e) THEN Exp2AnyReg(x) ELSE DischargeVars(x)

\* luaK_exp2K: a constant that an operand can name
AsK(x, f, info) ==
  IF info <= MAXINDEXRK THEN [x EXCEPT !.f = f, !.e.k = "VK", !.e.info = info] ELSE [x EXCEPT !.f = f]
Exp2K(x) ==
  IF HasJumps(x.e) THEN x
  ELSE IF x.e.k = "VK" THEN AsK(x, x.f, x.e.info)
  ELSE IF x.e.k \in {"VNIL", "VTRUE", "VFALSE", "VKINT", "VKFLT", "VKSTR"}
  THEN AsK(x, AddK(x.f, x.e.v), KIndex(x.f, x.e.v))
  ELSE x
IsK(e) == e.k = "VK" /\ e.info <= MAXINDEXRK /\ ~HasJumps(e)
KOrReg(x) == IF IsK(x.e) THEN x ELSE Exp2AnyReg(x)
Exp2RK(x) == KOrReg(Exp2K(x))

\* codeABRK on an operand already in its place
CodeABRK(x, op, a, b) == [x EXCEPT !.f = Code(@, Ins(op, a, b, x.e.info, x.e.k = "VK"))]

StoreUp(x, var) == FreeExp([x EXCEPT !.f = Code(@, Ins("SETUPVAL", x.e.info, var.info, 0, FALSE))])

\* luaK_storevar: x is the value, var the variable.
StoreVar(x, var) ==
  CASE var.k = "VLOCAL" -> Exp2Reg(FreeExp(x), var.info)
    [] var.k = "VUPVAL" -> StoreUp(Exp2AnyReg(x), var)
    [] OTHER -> FreeExp(CodeABRK(Exp2RK(x),
         CASE var.k = "VINDEXUP" -> "SETTABUP" [] var.k = "VINDEXI" -> "SETI"
           [] var.k = "VINDEXSTR" -> "SETFIELD" [] var.k = "VINDEXED" -> "SETTABLE",
         var.tab, var.idx))

\* luaK_self: base and base + 1 take the function and the object.
SelfRegs(x) == Reserved(InReg(x, x.f.freereg), 2)
SelfCode(x, ereg) ==    \* x.o is the method's name
  Swap(FreeExp(CodeABRK(Exp2RK(Swap(x)), "SELF", x.e.info, ereg)))
SelfOf(x) == SelfCode(SelfRegs(FreeExp(x)), x.e.info)
Self(x) == SelfOf(Exp2AnyReg(x))

----------------------------------------------------------------------------
\* Conditions.

NegateCondition(f, pc) == [f EXCEPT !.code[Control(f, pc) + 1].k = ~@]

\* jumponcond: the jump is the last instruction of the result.
TestReg(x, cond) == [x EXCEPT !.f = CondJump(@, "TESTSET", NO_REG, x.e.info, 0, cond)]
JumpOnCond(x, cond) ==
  IF x.e.k = "VRELOC" /\ At(x.f, x.e.info).op = "NOT"
  THEN [x EXCEPT !.f = CondJump([@ EXCEPT !.code = SubSeq(@, 1, Len(@) - 1)],
                                "TEST", At(x.f, x.e.info).b, 0, 0, ~cond)]
  ELSE TestReg(FreeExp(Discharge2AnyReg(x)), cond)

\* The rest of luaK_goiftrue and luaK_goiffalse, once the jump stands at pc.
GoTrue(x, pc) ==
  [x EXCEPT !.f = PatchToHere(Concat(@, x.e.f, pc), x.e.t), !.e.f = Joined(@, pc), !.e.t = NO_JUMP]
GoFalse(x, pc) ==
  [x EXCEPT !.f = PatchToHere(Concat(@, x.e.t, pc), x.e.f), !.e.t = Joined(@, pc), !.e.f = NO_JUMP]
TrueAfter(x) == GoTrue(x, Pc(x.f) - 1)
FalseAfter(x) == GoFalse(x, Pc(x.f) - 1)
GoneIfTrue(x) ==
  CASE x.e.k = "VJMP" -> GoTrue([x EXCEPT !.f = NegateCondition(@, x.e.info)], x.e.info)
    [] x.e.k \in {"VK", "VKFLT", "VKINT", "VKSTR", "VTRUE"} -> GoTrue(x, NO_JUMP)
    [] OTHER -> TrueAfter(JumpOnCond(x, FALSE))
GoneIfFalse(x) ==
  CASE x.e.k = "VJMP" -> GoFalse(x, x.e.info)
    [] x.e.k \in {"VNIL", "VFALSE"} -> GoFalse(x, NO_JUMP)
    [] OTHER -> FalseAfter(JumpOnCond(x, TRUE))
GoIfTrue(x) == GoneIfTrue(DischargeVars(x))
GoIfFalse(x) == GoneIfFalse(DischargeVars(x))

RelocOf(x, op) == Reloc(x, Ins(op, 0, x.e.info, 0, FALSE))

\* codenot: then the lists change places and lose their values.
NotValue(x) ==
  CASE x.e.k \in {"VNIL", "VFALSE"} -> [x EXCEPT !.e.k = "VTRUE", !.e.v = BoolV(TRUE)]
    [] x.e.k \in {"VK", "VKFLT", "VKINT", "VKSTR", "VTRUE"} -> [x EXCEPT !.e.k = "VFALSE", !.e.v = BoolV(FALSE)]
    [] x.e.k = "VJMP" -> [x EXCEPT !.f = NegateCondition(@, x.e.info)]
    [] OTHER -> RelocOf(FreeExp(Discharge2AnyReg(x)), "NOT")
SwapLists(x) == [x EXCEPT !.f = RemoveValues(RemoveValues(@, x.e.t), x.e.f),
                          !.e.t = x.e.f, !.e.f = x.e.t]
CodeNot(x) == SwapLists(NotValue(x))

KeyInReg(x) == [x EXCEPT !.e.k = "VINDEXED", !.e.tab = x.e.info, !.e.idx = x.o.info]

\* luaK_indexed: x.e is the table, x.o the key.
IndexedBy(x) ==
  IF IsKStr(x.f, x.o) THEN [x EXCEPT !.e.k = "VINDEXSTR", !.e.tab = x.e.info, !.e.idx = x.o.info]
  ELSE IF IsCInt(x.o) THEN [x EXCEPT !.e.k = "VINDEXI", !.e.tab = x.e.info, !.e.idx = x.o.v[2]]
  ELSE KeyInReg(Swap(Exp2AnyReg(Swap(x))))
IndexedUp(x) ==
  IF x.e.k # "VUPVAL" THEN IndexedBy(x)
  ELSE IF IsKStr(x.f, x.o) THEN [x EXCEPT !.e.k = "VINDEXUP", !.e.tab = x.e.info, !.e.idx = x.o.info]
  ELSE IndexedBy(Exp2AnyReg(x))
Indexed(x) == IndexedUp(IF x.o.k = "VKSTR" THEN Swap(Str2K(Swap(x))) ELSE x)

----------------------------------------------------------------------------
\* Operators.

\* constfolding: a float 0 is not folded (it may be -0.0).
Folds(op, x) ==
  /\ Numeral(x.e) /\ Numeral(x.o) /\ ValidOp(op, x.e.v, x.o.v)
  /\ LET r == RawArith(op, x.e.v, x.o.v) IN r[1] = "flt" => r[2] # 0
Folded(op, x) ==
  LET r == RawArith(op, x.e.v, x.o.v)
  IN [x EXCEPT !.e.k = IF r[1] = "int" THEN "VKINT" ELSE "VKFLT", !.e.v = r]

\* codeunexpval
CodeUnary(x, op) == RelocOf(FreeExp(Exp2AnyReg(x)), op)

\* A binary operation that gives a value: its operands, the instruction, the
\* instruction for the metamethod, their second operands (c and mc) and
\* whether the operands changed places.
Form(x, op, c, mm, mc, flip) == [x |-> x, op |-> op, c |-> c, mm |-> mm, mc |-> mc, flip |-> flip]
TwoRegs(x, op) == Form(x, op, 0, "MMBIN", 0, FALSE)
KOp == [op \in {"ADD", "SUB", "MUL", "MOD", "IDIV", "BAND"} |->
          CASE op = "ADD" -> "ADDK" [] op = "SUB" -> "SUBK" [] op = "MUL" -> "MULK"
            [] op = "MOD" -> "MODK" [] op = "IDIV" -> "IDIVK" [] op = "BAND" -> "BANDK"]
WithK(x, op, flip) == Form(x, KOp[op], x.o.info, "MMBINK", x.o.info, flip)
\* codebini
BinI(x, op, flip) == Form(x, op, int2sC(x.o.v[2]), "MMBINI", int2sC(x.o.v[2]), flip)
\* finishbinexpneg: x - i as x + -i; the metamethod still sees i.
Negatable(e) == IsKInt(e) /\ FitsC(e.v[2]) /\ FitsC(-e.v[2])
Negated(x, op) == Form(x, op, int2sC(-x.o.v[2]), "MMBINI", int2sC(x.o.v[2]), FALSE)

\* codearith, after its second operand was tried as a constant
ArithK(x, op, flip) ==
  IF IsK(x.o) THEN WithK(x, op, flip) ELSE TwoRegs(IF flip THEN Swap(x) ELSE x, op)
CodeArith(x, op, flip) == ArithK(IF Numeral(x.o) THEN Swap(Exp2K(Swap(x))) ELSE x, op, flip)

Commuted(x, op, flip) ==
  IF op = "ADD" /\ IsSCInt(x.o) THEN BinI(x, "ADDI", flip) ELSE CodeArith(x, op, flip)
CodeCommutative(x, op) == Commuted(IF Numeral(x.e) THEN Swap(x) ELSE x, op, Numeral(x.e))

\* codebitwise
BitwiseRight(x, op) == IF x.o.k = "VK" THEN WithK(x, op, FALSE) ELSE TwoRegs(x, op)
BitwiseLeft(x, op) ==
  IF x.e.k = "VK" THEN WithK(Swap(x), op, TRUE)
  ELSE BitwiseRight(IF x.o.k = "VKINT" THEN Swap(Exp2RK(Swap(x))) ELSE x, op)
CodeBitwise(x, op) == BitwiseLeft(IF x.e.k = "VKINT" THEN Exp2RK(x) ELSE x, op)

\* codebinexpval, and finishbinexpval: the instruction for the metamethod
\* follows the operation.
SecondInReg(p) ==
  IF p.mm # "MMBIN" THEN p ELSE [p EXCEPT !.x = Swap(Exp2AnyReg(Swap(@)))]
WithMeta(x, i) == [x EXCEPT !.f = Code(@, i), !.e.k = "VRELOC", !.e.info = Pc(x.f) - 1]
Binary(x, p, event, c, mc) ==
  WithMeta(FreeExps([x EXCEPT !.f = Code(@, Ins(p.op, 0, x.e.info, c, FALSE))]),
           Ins(p.mm, x.e.info, mc, event, p.flip))
FinishBin(p, event) ==
  IF p.mm = "MMBIN" THEN Binary(p.x, p, event, p.x.o.info, p.x.o.info) ELSE Binary(p.x, p, event, p.c, p.mc)
FirstInReg(p) == [p EXCEPT !.x = Exp2AnyReg(@)]
CodeBinary(p, event) == FinishBin(FirstInReg(SecondInReg(p)), event)

\* The part of luaK_posfix for these operations
FormOf(x, op) ==
  CASE op \in {"ADD", "MUL"} -> CodeCommutative(x, op)
    [] op = "SUB" /\ Negatable(x.o) -> Negated(x, "ADDI")
    [] op \in Division \/ (op = "SUB" /\ ~Negatable(x.o)) -> CodeArith(x, op, FALSE)
    [] op = "BAND" -> CodeBitwise(x, op)
    [] op = "SHL" /\ IsSCInt(x.e) -> BinI(Swap(x), "SHLI", TRUE)
    [] op = "SHL" /\ ~IsSCInt(x.e) /\ Negatable(x.o) -> Negated(x, "SHRI")
    [] op = "SHL" /\ ~IsSCInt(x.e) /\ ~Negatable(x.o) -> TwoRegs(x, op)
    [] op = "SHR" /\ IsSCInt(x.o) -> BinI(x, "SHRI", FALSE)
    [] op = "SHR" /\ ~IsSCInt(x.o) -> TwoRegs(x, op)

Compared(x, op, a, b, c, k) ==
  [x EXCEPT !.f = CondJump(@, op, a, b, c, k), !.e.k = "VJMP", !.e.info = Pc(x.f) + 1]
CompareFreed(x, op, b, c, k) == Compared(FreeExps(x), op, x.e.info, b, c, k)
FloatBit(e) == IF e.k = "VKFLT" THEN 1 ELSE 0
CompareImm(x, op, k) == CompareFreed(x, op, int2sC(x.o.v[2]), FloatBit(x.o), k)
CompareRegs(x, op, k) == CompareFreed(x, op, x.o.info, 0, k)

\* codeorder for "LT" and "LE": a small number goes to the other side.
FlippedOp == [LT |-> "GTI", LE |-> "GEI"]
ImmediateOp == [LT |-> "LTI", LE |-> "LEI"]
Flips(x) == IsSCNumber(x.e) /\ ~IsSCNumber(x.o)
OrderedBy(x, op, immop) ==
  IF IsSCNumber(x.o) THEN CompareImm(x, immop, TRUE) ELSE CompareRegs(Swap(Exp2AnyReg(Swap(x))), op, TRUE)
CodeOrder(x, op) ==
  OrderedBy(Exp2AnyReg(IF Flips(x) THEN Swap(x) ELSE x), op, IF Flips(x) THEN FlippedOp[op] ELSE ImmediateOp[op])

\* codeeq
EqRK(x, k) ==
  IF x.o.k = "VK" THEN CompareFreed(x, "EQK", x.o.info, 0, k) ELSE CompareRegs(x, "EQ", k)
EqOther(x, k) ==
  IF IsSCNumber(x.o) THEN CompareImm(x, "EQI", k) ELSE EqRK(Swap(Exp2RK(Swap(x))), k)
CodeEq(x, k) == EqOther(Exp2AnyReg(IF x.e.k # "VNONRELOC" THEN Swap(x) ELSE x), k)

\* luaK_prefix
Prefixed(x, op) ==
  IF op = "NOT" THEN CodeNot(x)
  ELSE IF op # "LEN" /\ Folds(op, x) THEN Folded(op, x) ELSE CodeUnary(x, op)
Prefix(x, op) == Prefixed([DischargeVars(x) EXCEPT !.o = Konst(IntV(0))], op)

Arith == {"ADD", "SUB", "MUL", "MOD", "IDIV", "BAND", "SHL", "SHR"}
\* luaK_infix
Infixed(x, op) ==
  CASE op = "AND" -> GoIfTrue(x)
    [] op = "OR" -> GoIfFalse(x)
    [] op = "CONCAT" -> Exp2NextReg(x)
    [] op \in {"EQ", "NE"} -> IF Numeral(x.e) THEN x ELSE Exp2RK(x)
    [] OTHER -> IF (IF op \in Arith THEN Numeral(x.e) ELSE IsSCNumber(x.e)) THEN x ELSE Exp2AnyReg(x)
Infix(x, op) == Infixed(DischargeVars(x), op)

\* codeconcat: a CONCAT of what follows takes one operand more.
FreeOther(x) == Swap(FreeExp(Swap(x)))
CodeConcat(x) ==
  IF Previous(x.f).op = "CONCAT"
  THEN FreeOther([x EXCEPT !.f = Assert([@ EXCEPT !.code[Pc(x.f)].a = x.e.info,
                                                  !.code[Pc(x.f)].b = @ + 1],
                                        Previous(x.f).a = x.e.info + 1)])
  ELSE FreeOther([x EXCEPT !.f = Code(@, Ins("CONCAT", x.e.info, 2, 0, FALSE))])

Mirror == [LT |-> "LT", LE |-> "LE", GT |-> "LT", GE |-> "LE"]
\* luaK_posfix, with x.o discharged
Postfixed(x, op) ==
  CASE op = "AND" -> [x EXCEPT !.f = Concat(@, x.o.f, x.e.f), !.e = [x.o EXCEPT !.f = Joined(@, x.e.f)]]
    [] op = "OR"  -> [x EXCEPT !.f = Concat(@, x.o.t, x.e.t), !.e = [x.o EXCEPT !.t = Joined(@, x.e.t)]]
    [] op = "CONCAT" -> CodeConcat(Swap(Exp2NextReg(Swap(x))))
    [] op \in Arith -> IF Folds(op, x) THEN Folded(op, x) ELSE CodeBinary(FormOf(x, op), op)
    [] op \in {"EQ", "NE"} -> CodeEq(x, op = "EQ")
    [] op \in DOMAIN Mirror -> CodeOrder(IF op \in {"GT", "GE"} THEN Swap(x) ELSE x, Mirror[op])
Posfix(x, op) == Postfixed(Swap(DischargeVars(Swap(x))), op)

----------------------------------------------------------------------------
\* Returns, tables and the last pass.

CodeRet(f, first, nret) ==
  Code(f, Ins(CASE nret = 0 -> "RETURN0" [] nret = 1 -> "RETURN1" [] OTHER -> "RETURN",
              first, nret + 1, 0, FALSE))

\* luaK_settablesize: the sizes are only hints and are left out.

\* luaK_setlist: nelems is what the table has after the store, or before
\* it when the number of values is open.
SetList(f, base, nelems, tostore) ==
  LET n == IF tostore = MULTRET THEN 0 ELSE tostore
      big == nelems > MAXARG_C
      g == Code(f, Ins("SETLIST", base, n, nelems % (IF big THEN MAXARG_C + 1 ELSE nelems + 1), big))
  IN [(IF big THEN Code(g, Ins("EXTRAARG", nelems \div (MAXARG_C + 1), 0, 0, FALSE)) ELSE g)
      EXCEPT !.freereg = base + 1]

RECURSIVE FinalTarget(_, _, _)
FinalTarget(code, i, count) ==
  IF count = 0 \/ code[i + 1].op # "JMP" THEN i ELSE FinalTarget(code, i + code[i + 1].b + 1, count - 1)

\* The last pass of luaK_finish, one instruction
Finished(f, pc) ==
  LET i == At(f, pc)
      op == IF i.op \in {"RETURN0", "RETURN1"} /\ (f.needclose \/ f.vararg) THEN "RETURN" ELSE i.op
  IN CASE op \in {"RETURN", "TAILCALL"} ->
            [i EXCEPT !.op = op, !.k = @ \/ f.needclose, !.c = IF f.vararg THEN f.numparams + 1 ELSE @]
       [] op = "JMP" -> [i EXCEPT !.b = FinalTarget(f.code, pc, 100) - (pc + 1)]
       [] OTHER -> i
RECURSIVE FinishFrom(_, _)
FinishFrom(f, pc) ==
  IF pc = Pc(f) THEN f ELSE FinishFrom([f EXCEPT !.code[pc + 1] = Finished(f, pc)], pc + 1)

\* The assertion there: an instruction that leaves the top open is followed
\* by one that uses it, and only such a one.
IsOT(i) == i.op = "TAILCALL" \/ (i.op \in {"CALL", "VARARG"} /\ i.c = 0)
IsIT(i) == (i.op \in {"CALL", "TAILCALL", "RETURN", "SETLIST"} /\ i.b = 0) \/ i.op = "VARARGPREP"
TopsMatch(f) == \A pc \in 1 .. Pc(f) - 1 : IsOT(At(f, pc - 1)) = IsIT(At(f, pc))
Finish(f) == FinishFrom(Assert(f, TopsMatch(f)), 0)
=============================================================================
