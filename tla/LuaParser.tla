----------------------------- MODULE LuaParser -----------------------------
(***************************************************************************)
(* lparser.c: scopes, variables and upvalues, expressions, and the pieces  *)
(* of statements.  The enclosing functions hang on the field prev, so a    *)
(* lookup that adds upvalues on its way changes them too.  err turns TRUE  *)
(* when the source would raise a semantic error.                           *)
(*                                                                         *)
(* Expressions are trees: <<"nil">>, <<"true">>, <<"false">>, <<"num", v>>,*)
(* <<"str", v>>, <<"var", n>>, <<"dots">>, <<"paren", e>>, <<"un", op, e>>,*)
(* <<"bin", op, e, e>>, <<"dot", e, n>>, <<"index", e, e>>,                *)
(* <<"call", e, args>>, <<"method", e, n, args>> and <<"table", fields>>   *)
(* with fields <<"item", e>>, <<"name", n, e>> and <<"key", e, e>>.        *)
(***************************************************************************)
EXTENDS LuaK

NewVar(n, kind) == [name |-> n, kind |-> kind, ridx |-> 0, v |-> Nil]

NewFunc(prev) ==
  [code |-> <<>>, k |-> <<>>, cache |-> IF prev = <<>> THEN <<>> ELSE prev[1].cache,
   lasttarget |-> 0, freereg |-> 0, maxstack |-> 2, nactvar |-> 0, actvar |-> <<>>,
   ups |-> <<>>, protos |-> <<>>, bl |-> <<>>, labels |-> <<>>, gotos |-> <<>>,
   needclose |-> FALSE, vararg |-> FALSE, numparams |-> 0, ok |-> TRUE, err |-> FALSE, prev |-> prev]

Block(f) == LastOf(f.bl)
Error(f, p) == [f EXCEPT !.err = @ \/ p]

----------------------------------------------------------------------------
\* Local variables.

NewLocals(f, names, kind) == [f EXCEPT !.actvar = @ \o [i \in DOMAIN names |-> NewVar(names[i], kind)]]

\* adjustlocalvars: the next n variables get the registers after the active ones.
AdjustLocalVars(f, n) ==
  [f EXCEPT !.nactvar = @ + n,
            !.actvar = [i \in DOMAIN @ |->
                          IF i > f.nactvar /\ i <= f.nactvar + n
                          THEN [@[i] EXCEPT !.ridx = NVarStack(f) + (i - f.nactvar) - 1] ELSE @[i]]]

RemoveVars(f, level) ==
  [f EXCEPT !.actvar = SubSeq(@, 1, Len(@) - (f.nactvar - level)), !.nactvar = level]

----------------------------------------------------------------------------
\* Blocks, labels and gotos.  A function's labels and gotos are the last ones
\* of the source's lists.

EnterBlock(f, isloop) ==
  Assert([f EXCEPT !.bl = Append(@,
            [isloop |-> isloop, nactvar |-> f.nactvar, firstlabel |-> Len(f.labels),
             firstgoto |-> Len(f.gotos), upval |-> FALSE,
             insidetbc |-> f.bl # <<>> /\ Block(f).insidetbc])],
         f.freereg = NVarStack(f))

\* markupval: level counts from 0.
MarkUpval(f, level) ==
  LET in == {i \in DOMAIN f.bl : f.bl[i].nactvar <= level}
  IN [f EXCEPT !.bl[CHOOSE i \in in : \A j \in in : j <= i].upval = TRUE, !.needclose = TRUE]

NewGoto(f, name, pc) ==
  [f EXCEPT !.gotos = Append(@, [name |-> name, nactvar |-> f.nactvar, close |-> FALSE, pc |-> pc])]

FindLabel(f, name) == {i \in DOMAIN f.labels : f.labels[i].name = name}

\* solvegotos: the gotos of the block to a label; each jumps there.
Pending(f, name) ==
  {i \in Block(f).firstgoto + 1 .. Len(f.gotos) : f.gotos[i].name = name}
NeedsClose(f, name) == \E i \in Pending(f, name) : f.gotos[i].close
Least(S) == CHOOSE i \in S : \A j \in S : i <= j
Without(s, i) == SubSeq(s, 1, i - 1) \o SubSeq(s, i + 1, Len(s))
SolveGoto(f, i, l) ==
  Error([PatchList(f, f.gotos[i].pc, l.pc) EXCEPT !.gotos = Without(@, i)], f.gotos[i].nactvar < l.nactvar)
RECURSIVE SolveGotos(_, _)
SolveGotos(f, l) ==
  IF Pending(f, l.name) = {} THEN f ELSE SolveGotos(SolveGoto(f, Least(Pending(f, l.name)), l), l)

CloseAfter(f, needed) == IF needed THEN Code(f, Ins("CLOSE", NVarStack(f), 0, 0, FALSE)) ELSE f
NewLabel(f, l) == SolveGotos([GetLabel(f) EXCEPT !.labels = Append(@, l)], l)
CreateLabel(f, name, last) ==
  CloseAfter(NewLabel(f, [name |-> name, pc |-> Pc(f),
                          nactvar |-> IF last THEN Block(f).nactvar ELSE f.nactvar]),
             NeedsClose(f, name))

MoveGotosOut(f, b, g) ==    \* g is the function before its variables went
  [f EXCEPT !.gotos = [i \in DOMAIN @ |->
     IF i <= b.firstgoto THEN @[i]
     ELSE [@[i] EXCEPT !.close = @ \/ (b.upval /\ RegLevel(g, g.gotos[i].nactvar) > RegLevel(g, b.nactvar)),
                       !.nactvar = b.nactvar]]]

\* leaveblock, after the label of a loop
OutOf(f, b) ==
  [RemoveVars(f, b.nactvar) EXCEPT !.bl = SubSeq(@, 1, Len(@) - 1),
                                   !.freereg = RegLevel(f, b.nactvar),
                                   !.labels = SubSeq(@, 1, b.firstlabel)]
LeftBlock(f, b) ==
  IF Len(f.bl) > 1 THEN MoveGotosOut(OutOf(f, b), b, f)
  ELSE Error(OutOf(f, b), b.firstgoto < Len(f.gotos))
ClosesBlock(f, b, hasclose) ==
  LeftBlock(IF ~hasclose /\ Len(f.bl) > 1 /\ b.upval
            THEN Code(f, Ins("CLOSE", RegLevel(f, b.nactvar), 0, 0, FALSE)) ELSE f, b)
LeaveBlock(f) ==
  IF Block(f).isloop
  THEN ClosesBlock(CreateLabel(f, "break", FALSE), Block(f), NeedsClose(f, "break"))
  ELSE ClosesBlock(f, Block(f), FALSE)

----------------------------------------------------------------------------
\* Variables of any kind.

SearchVar(f, n) == {i \in 1 .. f.nactvar : f.actvar[i].name = n}
SearchUpvalue(f, n) == {i \in DOMAIN f.ups : f.ups[i].name = n}
Latest(S) == CHOOSE i \in S : \A j \in S : j <= i

\* newupvalue: from a register or an upvalue of the enclosing function
UpvalueDesc(g, e, n) ==
  IF e.k = "VLOCAL" THEN [name |-> n, instack |-> TRUE, idx |-> e.info, kind |-> g.actvar[e.idx].kind]
  ELSE [name |-> n, instack |-> FALSE, idx |-> e.info, kind |-> g.ups[e.info + 1].kind]
FromOuter(f, x, n) ==
  IF x.e.k \in {"VLOCAL", "VUPVAL"}
  THEN InFunc([f EXCEPT !.prev = <<x.f>>, !.ups = Append(@, UpvalueDesc(x.f, x.e, n))],
              Exp("VUPVAL", Len(f.ups)))
  ELSE InFunc([f EXCEPT !.prev = <<x.f>>], x.e)
LocalExp(f, i) ==
  IF f.actvar[i].kind = "CTC" THEN [Exp("VCONST", i) EXCEPT !.v = f.actvar[i].v]
  ELSE [Exp("VLOCAL", f.actvar[i].ridx) EXCEPT !.idx = i]
LocalVar(f, e, base) ==
  InFunc(IF e.k = "VLOCAL" /\ ~base THEN MarkUpval(f, e.idx - 1) ELSE f, e)
RECURSIVE SingleVarAux(_, _, _)
SingleVarAux(f, n, base) ==
  IF SearchVar(f, n) # {} THEN LocalVar(f, LocalExp(f, Latest(SearchVar(f, n))), base)
  ELSE IF SearchUpvalue(f, n) # {} THEN InFunc(f, Exp("VUPVAL", Least(SearchUpvalue(f, n)) - 1))
  ELSE IF f.prev = <<>> THEN InFunc(f, Void)
  ELSE FromOuter(f, SingleVarAux(f.prev[1], n, FALSE), n)

Beside(x, key) == [x EXCEPT !.o = key]
GlobalVar(x, n) ==
  IF x.e.k = "VVOID" THEN Indexed(Beside(SingleVarAux(x.f, "_ENV", TRUE), Konst(StrV(<<n>>)))) ELSE x
SingleVar(f, n) == GlobalVar(SingleVarAux(f, n, TRUE), n)

\* check_readonly
ReadOnly(f, e) ==
  CASE e.k = "VCONST" -> TRUE
    [] e.k = "VLOCAL" -> f.actvar[e.idx].kind # "REG"
    [] e.k = "VUPVAL" -> f.ups[e.info + 1].kind # "REG"
    [] OTHER -> FALSE

\* adjust_assign
Needed(x, needed) ==
  IF needed > 0 THEN Reserved(x, needed) ELSE [x EXCEPT !.f.freereg = @ + needed]
Closed(x) == IF x.e.k = "VVOID" THEN x ELSE Exp2NextReg(x)
Filled(x, needed) == IF needed > 0 THEN [x EXCEPT !.f = CodeNil(@, @.freereg, needed)] ELSE x
AdjustAssign(x, nvars, nexps) ==
  Needed(IF HasMultRet(x.e) THEN SetReturns(x, Larger(nvars - nexps + 1, 0))
         ELSE Filled(Closed(x), nvars - nexps),
         nvars - nexps)

----------------------------------------------------------------------------
\* Expressions.

\* Compiles y.e beside the first operand of x.
Second(x, y) == [f |-> y.f, e |-> x.e, o |-> y.e]

\* constructor: cc counts the items to store and those stored, t is the
\* table's register.  lastlistfield comes before luaK_settablesize.
FlushItems(x, cc, t) ==
  IF cc.tostore = LFIELDS_PER_FLUSH
  THEN [f |-> SetList(x.f, t, cc.na, cc.tostore), cc |-> [na |-> cc.na + cc.tostore, tostore |-> 0]]
  ELSE [f |-> x.f, cc |-> cc]
CloseListField(x, cc, t) ==
  IF x.e.k = "VVOID" THEN [f |-> x.f, cc |-> cc] ELSE FlushItems(Exp2NextReg(x), cc, t)
LastListField(x, cc, t) ==
  IF cc.tostore = 0 THEN x.f
  ELSE IF HasMultRet(x.e) THEN SetList(SetReturns(x, MULTRET).f, t, cc.na, MULTRET)
  ELSE SetList(Closed(x).f, t, cc.na, cc.tostore)

\* funcargs: base is the function's register, x the last argument.
CallCode(f, base, nparams) ==
  InFunc([Code(f, Ins("CALL", base, nparams + 1, 2, FALSE)) EXCEPT !.freereg = base + 1],
         Exp("VCALL", Pc(f)))
ArgsClosed(f, base) == CallCode(f, base, f.freereg - (base + 1))
FuncArgs(x, base) ==
  IF HasMultRet(x.e) THEN CallCode(SetReturns(x, MULTRET).f, base, MULTRET) ELSE ArgsClosed(Closed(x).f, base)

RECURSIVE Parse(_, _), Items(_, _, _), Fields(_, _, _, _), Field(_, _, _, _)

\* explist, the items after the first n
Items(x, es, n) ==
  IF n = Len(es) THEN x ELSE Items(Parse(IF n = 0 THEN x.f ELSE Exp2NextReg(x).f, es[n + 1]), es, n + 1)
ExpList(f, es) == Items(InFunc(f, Void), es, 0)

\* recfield: x is the key beside the table.
RecField(x, value, cc, reg) ==
  [f |-> [StoreVar(Parse(x.f, value), x.e).f EXCEPT !.freereg = reg], cc |-> cc]
KeyField(f, key, t) == Indexed(Beside(InFunc(f, Exp("VNONRELOC", t)), key))
KeyedBy(x, t) == KeyField(x.f, x.e, t)
NoItem(r, rest, t) == Fields(InFunc(r.f, Void), rest, r.cc, t)
Field(r, fl, rest, t) ==
  CASE fl[1] = "item" -> Fields(Parse(r.f, fl[2]), rest, [r.cc EXCEPT !.tostore = @ + 1], t)
    [] fl[1] = "name" -> NoItem(RecField(KeyField(r.f, Konst(StrV(<<fl[2]>>)), t), fl[3], r.cc, r.f.freereg), rest, t)
    [] fl[1] = "key"  -> NoItem(RecField(KeyedBy(Exp2Val(Parse(r.f, fl[2])), t), fl[3], r.cc, r.f.freereg), rest, t)
Fields(x, fls, cc, t) ==
  IF fls = <<>> THEN LastListField(x, cc, t)
  ELSE Field(CloseListField(x, cc, t), Head(fls), Tail(fls), t)
Constructor(f, fls) ==
  InFunc(Fields(InFunc(Reserve(Code(Code(f, Ins("NEWTABLE", f.freereg, 0, 0, FALSE)),
                                    Ins("EXTRAARG", 0, 0, 0, FALSE)), 1), Void),
                fls, [na |-> 0, tostore |-> 0], f.freereg),
         Exp("VNONRELOC", f.freereg))

CallOn(x, args) == FuncArgs(ExpList(x.f, args), x.e.info)
UnaryOn(x, op) == Prefix(x, op)
BinaryOn(x, op, r) == Posfix(Second(x, Parse(x.f, r)), op)
KeyOn(x, key) == Indexed(Second(x, Exp2Val(Parse(x.f, key))))

\* subexpr, simpleexp, primaryexp and suffixedexp
Expr(f, a) ==
  CASE a[1] = "nil" -> InFunc(f, Konst(Nil))
    [] a[1] \in {"true", "false"} -> InFunc(f, Konst(BoolV(a[1] = "true")))
    [] a[1] \in {"num", "str"} -> InFunc(f, Konst(a[2]))
    [] a[1] = "var" -> SingleVar(f, a[2])
    [] a[1] = "dots" -> InFunc(Code(Error(f, ~f.vararg), Ins("VARARG", 0, 0, 1, FALSE)), Exp("VVARARG", Pc(f)))
    [] a[1] = "paren" -> DischargeVars(Parse(f, a[2]))
    [] a[1] = "un" -> UnaryOn(Parse(f, a[3]), a[2])
    [] a[1] = "bin" -> BinaryOn(Infix(Parse(f, a[3]), a[2]), a[2], a[4])
    [] a[1] = "dot" -> Indexed(Beside(Exp2AnyRegUp(Parse(f, a[2])), Konst(StrV(<<a[3]>>))))
    [] a[1] = "index" -> KeyOn(Exp2AnyRegUp(Parse(f, a[2])), a[3])
    [] a[1] = "call" -> CallOn(Exp2NextReg(Parse(f, a[2])), a[3])
    [] a[1] = "method" -> CallOn(Self(Beside(Parse(f, a[2]), Konst(StrV(<<a[3]>>)))), a[4])
    [] a[1] = "table" -> Constructor(f, a[2])

----------------------------------------------------------------------------
\* Statements without blocks.

\* statement: what every statement ends with
EndStat(f) ==
  [Assert(f, f.maxstack >= f.freereg /\ f.freereg >= NVarStack(f)) EXCEPT !.freereg = NVarStack(f)]

\* localstat
CompileTimeConst(x, kind, nvars, nexps) == nvars = nexps /\ kind = "CONST" /\ Exp2Const(x.e)
ConstLocal(x, nvars) ==
  LET n == Len(x.f.actvar)
  IN [AdjustLocalVars(x.f, nvars - 1)
      EXCEPT !.nactvar = @ + 1, !.actvar[n].kind = "CTC", !.actvar[n].v = x.e.v]
\* checktoclose
CheckToClose(f, kind) ==
  IF kind # "CLOSE" THEN f
  ELSE Code([MarkUpval(f, f.nactvar) EXCEPT !.bl[Len(f.bl)].insidetbc = TRUE],
            Ins("TBC", RegLevel(f, f.nactvar - 1), 0, 0, FALSE))
LocalAfter(x, kind, nvars, nexps) ==
  IF CompileTimeConst(x, kind, nvars, nexps) THEN ConstLocal(x, nvars)
  ELSE CheckToClose(AdjustLocalVars(AdjustAssign(x, nvars, nexps).f, nvars), kind)
\* The last name has the attribute.
LocalStat(f, names, kind, es) ==
  LocalAfter(ExpList(NewLocals(NewLocals(f, SubSeq(names, 1, Len(names) - 1), "REG"), <<LastOf(names)>>, kind), es),
             kind, Len(names), Len(es))

\* check_conflict: an earlier target uses the variable as table or as index.
IsIndexed(e) == e.k \in {"VINDEXED", "VINDEXUP", "VINDEXI", "VINDEXSTR"}
TableIs(l, v) ==
  IsIndexed(l) /\ IF l.k = "VINDEXUP" THEN v.k = "VUPVAL" /\ l.tab = v.info
                  ELSE v.k = "VLOCAL" /\ l.tab = v.info
IndexIs(l, v) == l.k = "VINDEXED" /\ v.k = "VLOCAL" /\ l.idx = v.info
Saved(l, v, extra) ==
  [l EXCEPT !.k = IF TableIs(l, v) /\ @ = "VINDEXUP" THEN "VINDEXSTR" ELSE @,
            !.tab = IF TableIs(l, v) THEN extra ELSE @,
            !.idx = IF IndexIs(l, v) THEN extra ELSE @]
Conflicts(lhs, v) == \E i \in DOMAIN lhs : TableIs(lhs[i], v) \/ IndexIs(lhs[i], v)
\* A wrong CheckConflict: the earlier targets keep their registers.
CheckConflictMissed(x, lhs) == [f |-> x.f, lhs |-> Append(lhs, x.e)]
CheckConflict(x, lhs) ==
  IF IsIndexed(x.e) \/ ~Conflicts(lhs, x.e) THEN [f |-> x.f, lhs |-> Append(lhs, x.e)]
  ELSE [f |-> Reserve(Code(x.f, Ins(IF x.e.k = "VLOCAL" THEN "MOVE" ELSE "GETUPVAL",
                                    x.f.freereg, x.e.info, 0, FALSE)), 1),
        lhs |-> Append([i \in DOMAIN lhs |-> Saved(lhs[i], x.e, x.f.freereg)], x.e)]
AddTarget(x, lhs) == CheckConflict([x EXCEPT !.f = Error(@, ReadOnly(x.f, x.e))], lhs)

RECURSIVE Targets(_, _, _)
Targets(r, vars, n) ==
  IF n > Len(vars) THEN r ELSE Targets(AddTarget(Parse(r.f, vars[n]), r.lhs), vars, n + 1)
\* restassign: the values go to the targets from the last to the first.
RECURSIVE StoreAll(_, _)
StoreAll(f, lhs) ==
  IF lhs = <<>> THEN f
  ELSE StoreAll(StoreVar(InFunc(f, Exp("VNONRELOC", f.freereg - 1)), LastOf(lhs)).f, SubSeq(lhs, 1, Len(lhs) - 1))
Assigned(x, lhs, nexps) ==
  IF nexps = Len(lhs) THEN StoreAll(StoreVar(SetOneRet(x), LastOf(lhs)).f, SubSeq(lhs, 1, Len(lhs) - 1))
  ELSE StoreAll(AdjustAssign(x, Len(lhs), nexps).f, lhs)
AssignTo(r, es) == IF r.f.err THEN r.f ELSE Assigned(ExpList(r.f, es), r.lhs, Len(es))
Assign(f, vars, es) == AssignTo(Targets([f |-> f, lhs |-> <<>>], vars, 1), es)

\* exprstat: a call
CallStat(x) == [x.f EXCEPT !.code[x.e.info + 1].c = 1]

\* retstat
TailCall(x, nret) ==
  IF x.e.k = "VCALL" /\ nret = 1 /\ ~Block(x.f).insidetbc
  THEN Assert([x.f EXCEPT !.code[x.e.info + 1].op = "TAILCALL"], At(x.f, x.e.info).a = NVarStack(x.f))
  ELSE x.f
ReturnOne(x) == CodeRet(x.f, x.e.info, 1)
ReturnSome(f, first, n) == CodeRet(Assert(f, n = f.freereg - first), first, n)
Returned(x, first, n) ==
  IF HasMultRet(x.e) THEN CodeRet(TailCall(SetReturns(x, MULTRET), n), first, MULTRET)
  ELSE IF n = 1 THEN ReturnOne(Exp2AnyReg(x)) ELSE ReturnSome(Exp2NextReg(x).f, first, n)
RetStat(f, es) ==
  IF es = <<>> THEN CodeRet(f, NVarStack(f), 0) ELSE Returned(ExpList(f, es), NVarStack(f), Len(es))

BreakStat(f) == NewGoto(Jump(f), "break", Pc(f))
\* gotostat
BackTo(f, l) ==
  PatchList(Jump(f), Pc(f), l.pc)
LeavingTo(f, l) ==
  BackTo(IF NVarStack(f) > RegLevel(f, l.nactvar) THEN Code(f, Ins("CLOSE", RegLevel(f, l.nactvar), 0, 0, FALSE)) ELSE f, l)
GotoStat(f, name) ==
  IF FindLabel(f, name) = {} THEN NewGoto(Jump(f), name, Pc(f))
  ELSE LeavingTo(f, f.labels[Least(FindLabel(f, name))])
LabelStat(f, name, last) == CreateLabel(Error(f, FindLabel(f, name) # {}), name, last)

----------------------------------------------------------------------------
\* Conditions and loops.

FalseFirst(x) == IF x.e.k = "VNIL" THEN [x EXCEPT !.e.k = "VFALSE", !.e.v = BoolV(FALSE)] ELSE x
Cond(f, a) == GoIfTrue(FalseFirst(Parse(f, a)))

Exp1(f, a) == Exp2NextReg(Parse(f, a)).f

\* fixforjump
FixForJump(f, pc, dest, back) ==
  [f EXCEPT !.code[pc + 1].b = IF back THEN (pc + 1) - dest ELSE dest - (pc + 1)]

ForPrep(f, base, isgen, nvars) ==    \* forbody up to its block
  EnterBlock(Reserve(AdjustLocalVars(EnterBlock(Code(f, Ins(IF isgen THEN "TFORPREP" ELSE "FORPREP",
                                                            base, 0, 0, FALSE)), FALSE), nvars), nvars), FALSE)
ForCall(f, base, isgen, nvars) ==
  IF isgen THEN Code(f, Ins("TFORCALL", base, 0, nvars, FALSE)) ELSE f
ForLoop(f, base, prep, isgen) ==
  FixForJump(Code(f, Ins(IF isgen THEN "TFORLOOP" ELSE "FORLOOP", base, 0, 0, FALSE)), Pc(f), prep + 1, TRUE)
ForEnd(f, base, prep, isgen, nvars) ==    \* forbody after its block
  ForLoop(ForCall(FixForJump(GetLabel(f), prep, Pc(f), FALSE), base, isgen, nvars), base, prep, isgen)

States(n) == [i \in 1 .. n |-> "(for state)"]
DefaultStep(f) == Reserve(CodeNumber(f, f.freereg, IntV(1)), 1)
RECURSIVE Exps1(_, _)
Exps1(f, es) == IF es = <<>> THEN f ELSE Exps1(Exp1(f, Head(es)), Tail(es))
ForNum(f, name, es) ==
  AdjustLocalVars(IF Len(es) = 2 THEN DefaultStep(Exps1(NewLocals(f, States(3) \o <<name>>, "REG"), es))
                  ELSE Exps1(NewLocals(f, States(3) \o <<name>>, "REG"), es), 3)
MarkedForList(f) == CheckStack(MarkUpval(f, f.nactvar), 3)
ForList(f, names, es) ==
  MarkedForList(AdjustLocalVars(AdjustAssign(ExpList(NewLocals(f, States(4) \o names, "REG"), es), 4, Len(es)).f, 4))

----------------------------------------------------------------------------
\* Functions.

SetVararg(f, nparams) == Code([f EXCEPT !.vararg = TRUE], Ins("VARARGPREP", nparams, 0, 0, FALSE))
\* parlist, with "self" already active in a method
Parameters(f, names) == AdjustLocalVars(NewLocals(f, names, "REG"), Len(names))
WithParams(f, vararg) ==
  Reserve([(IF vararg THEN SetVararg(f, f.nactvar) ELSE f) EXCEPT !.numparams = f.nactvar], f.nactvar)
OpenFunc(f, names, vararg) == WithParams(Parameters(EnterBlock(NewFunc(<<f>>), FALSE), names), vararg)

\* close_func: the prototype is what the machine needs of the function.
Proto(f) ==
  [code |-> f.code, k |-> f.k, ups |-> f.ups, protos |-> f.protos, maxstack |-> f.maxstack,
   vararg |-> f.vararg, numparams |-> f.numparams]
Ended(f) == Finish(LeaveBlock(CodeRet(f, NVarStack(f), 0)))

\* addprototype and codeclosure in the enclosing function
CodeClosure(f) ==
  Exp2NextReg(InFunc(Code(f, Ins("CLOSURE", 0, Len(f.protos) - 1, 0, FALSE)), Exp("VRELOC", Pc(f))))
InOuter(g) ==
  CodeClosure([g.prev[1] EXCEPT !.protos = Append(@, Proto(g)), !.cache = g.cache,
                                !.ok = @ /\ g.ok, !.err = @ \/ g.err])

\* mainfunc: a vararg function whose upvalue is the environment
MainFunc ==
  [SetVararg(EnterBlock(NewFunc(<<>>), FALSE), 0)
   EXCEPT !.ups = <<[name |-> "_ENV", instack |-> TRUE, idx |-> 0, kind |-> "REG"]>>]

----------------------------------------------------------------------------
\* Statements.  What a block's statement needs at its end is in the x it
\* gives: the list of jumps that leave it, or a loop's base and position.

\* test_then_block: 'if x then break' jumps out at once.
ThenBlock(x) == [x EXCEPT !.f = EnterBlock(@, FALSE)]
BreakIf(x) == [x EXCEPT !.f = NewGoto(EnterBlock(@, FALSE), "break", x.e.t)]
ThenMore(x) == InFunc(Jump(x.f), [Void EXCEPT !.f = Pc(x.f)])
OnlyBreak(x) == InFunc(LeaveBlock(x.f), Void)
\* whilestat and repeatstat up to their blocks
LoopBlock(x) == [x EXCEPT !.f = EnterBlock(EnterBlock(@, TRUE), FALSE)]
\* forstat up to its block
ForHead(f, base, isgen, nvars) ==
  InFunc(ForPrep(f, base, isgen, nvars), [Exp("VVOID", Pc(f)) EXCEPT !.tab = base, !.idx = nvars])
\* body up to its statements; x.e is the variable that gets the function.
FuncHead(x, names, vararg) == [x EXCEPT !.f = OpenFunc(@, names, vararg)]
LocalFunc(f, n) == AdjustLocalVars(NewLocals(f, <<n>>, "REG"), 1)

\* statement, with the condition of a repeat and those of an if
StatementOf(f, a) ==
  CASE a[1] = "local" -> InFunc(LocalStat(f, a[2], a[3], a[4]), Void)
    [] a[1] = "assign" -> InFunc(Assign(f, a[2], a[3]), Void)
    [] a[1] = "exprstat" -> InFunc(CallStat(Parse(f, a[2])), Void)
    [] a[1] = "return" -> InFunc(RetStat(f, a[2]), Void)
    [] a[1] = "break" -> InFunc(BreakStat(f), Void)
    [] a[1] = "goto" -> InFunc(GotoStat(f, a[2]), Void)
    [] a[1] = "label" -> InFunc(LabelStat(f, a[2], a[3]), Void)
    [] a[1] = "do" -> InFunc(EnterBlock(f, FALSE), Void)
    [] a[1] = "while" -> LoopBlock(Cond(GetLabel(f), a[2]))
    [] a[1] = "repeat" -> LoopBlock(InFunc(GetLabel(f), Void))
    [] a[1] = "if" -> ThenBlock(GoIfTrue(Parse(f, a[2])))
    [] a[1] = "ifbreak" -> OnlyBreak(BreakIf(GoIfFalse(Parse(f, a[2]))))
    [] a[1] = "ifbreakmore" -> ThenMore(BreakIf(GoIfFalse(Parse(f, a[2]))))
    [] a[1] = "fornum" -> ForHead(ForNum(EnterBlock(f, TRUE), a[2], a[3]), f.freereg, FALSE, 1)
    [] a[1] = "forin" -> ForHead(ForList(EnterBlock(f, TRUE), a[2], a[3]), f.freereg, TRUE, Len(a[2]))
    [] a[1] = "localfunction" -> FuncHead(InFunc(LocalFunc(f, a[2]), Void), a[3], a[4])
    [] a[1] = "function" -> FuncHead(Parse(f, a[2]), a[3], a[4])
    [] a[1] = "until" -> Cond(f, a[2])

Statements == {"local", "assign", "exprstat", "return", "break", "goto", "label", "do", "while", "repeat", "if",
               "ifbreak", "ifbreakmore", "fornum", "forin", "localfunction", "function", "until"}
Parse(f, a) == IF a[1] \in Statements THEN StatementOf(f, a) ELSE Expr(f, a)

\* How the blocks of statements end, with what their beginning gave.
JumpTo(f, target) == PatchList(Jump(f), Pc(f), target)
WhileEnd(f, start, exit) == PatchToHere(LeaveBlock(JumpTo(LeaveBlock(f), start)), exit)
\* repeatstat after its condition
Repeated(f, start, exit) == LeaveBlock(PatchList(f, exit, start))
FixedRepeat(f, b, start, exit, jmp) ==    \* jmp leaves the loop
  Repeated(PatchToHere(Jump(Code(PatchToHere(f, exit), Ins("CLOSE", RegLevel(f, b.nactvar), 0, 0, FALSE))), jmp),
           start, Pc(f) + 1)
RepeatEnd(x, start) ==
  IF Block(x.f).upval THEN FixedRepeat(Jump(LeaveBlock(x.f)), Block(x.f), start, x.e.f, Pc(LeaveBlock(x.f)))
  ELSE Repeated(LeaveBlock(x.f), start, x.e.f)
\* test_then_block before another part, and ifstat's end
AfterThen(f, exit, escape) == PatchToHere(Concat(f, escape, Pc(f) - 1), exit)
IfEnd(f, exit, escape) == PatchToHere(PatchToHere(f, exit), escape)
ForEnd_(f, e, isgen) == LeaveBlock(ForEnd(LeaveBlock(LeaveBlock(f)), e.tab, e.info, isgen, e.idx))
FunctionEnd(x, stored) == IF stored.k = "VVOID" THEN x.f ELSE StoreVar(x, stored).f
=============================================================================
