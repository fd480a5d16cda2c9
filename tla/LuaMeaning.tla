---------------------------- MODULE LuaMeaning ----------------------------
(***************************************************************************)
(* What a Lua program means, said on its statements and not on any code: a *)
(* variable is a cell of its own, each time its declaration is executed,   *)
(* and a scope is a list of names with their cells.  s holds the cells,    *)
(* the tables, the functions made so far, the log, the variables still to  *)
(* be closed and the error on its way, if any.                             *)
(*                                                                         *)
(* Statements are <<"local", names, kind, es>>, <<"assign", vars, es>>,    *)
(* <<"exprstat", e>>, <<"return", es>>, <<"break">>, <<"goto", n>>,            *)
(* <<"label", n>>, <<"do", body>>, <<"while", e, body>>,                   *)
(* <<"repeat", body, e>>, <<"if", e, body, body>>,                         *)
(* <<"fornum", n, es, body>>, <<"forin", names, es, body>>,                *)
(* <<"localfunction", n, params, vararg, body>> and                        *)
(* <<"function", var, params, vararg, body>>.                              *)
(***************************************************************************)
EXTENDS LuaVM

CONSTANT MaxCalls    \* bound: calls and rounds of loops of a run

Failed(s) == s.err # <<>>
Fails(s, v) == [s EXCEPT !.err = <<v>>]
OutOfFuel == <<"fuel", 0>>
Burnt(s) == IF s.fuel = 0 THEN Fails(s, OutOfFuel) ELSE [s EXCEPT !.fuel = @ - 1]
Logged(s, event, args) == [s EXCEPT !.log = Append(@, <<event, args>>)]

\* Results: a state and values.
Res(s, vs) == [s |-> s, vs |-> vs]
OneOf(r) == Res(r.s, IF Failed(r.s) THEN <<>> ELSE <<IF r.vs = <<>> THEN Nil ELSE r.vs[1]>>)
Adjusted(vs, n) == [j \in 1 .. n |-> IF j <= Len(vs) THEN vs[j] ELSE Nil]

\* A scope: the names, their cells, and the values of '...'.
Scope(names, cells, dots) == [names |-> names, cells |-> cells, dots |-> dots]
CellOf(env, n) ==
  LET at == {j \in DOMAIN env.names : env.names[j] = n}
  IN IF at = {} THEN 0 ELSE env.cells[CHOOSE j \in at : \A k \in at : k <= j]
Declared(s, env, names, vs) ==    \* with n more names
  [s |-> [s EXCEPT !.cells = @ \o Adjusted(vs, Len(names))],
   env |-> [env EXCEPT !.names = @ \o names,
                       !.cells = @ \o [j \in DOMAIN names |-> Len(s.cells) + j]]]

----------------------------------------------------------------------------
\* Operations on values.

Meta(s, event, p1, p2) == Res(Logged(s, event, <<p1, p2>>), <<MetaResult(event, p1, p2)>>)
MetaOr(s, event, p1, p2) ==
  IF HasMeta(p1) \/ HasMeta(p2) THEN Meta(s, event, p1, p2) ELSE Res(Fails(s, ErrorMsg), <<>>)
CanCompute(op, v, w) ==
  IF op \in Bitwise_ THEN FitsInt(v) /\ FitsInt(w) ELSE IsNumber(v) /\ IsNumber(w)
DividesByZero(op, v, w) == op \in Division /\ v[1] = "int" /\ w = IntV(0)
Truth(r) == Res(r.s, IF Failed(r.s) THEN <<>> ELSE <<BoolV(~Falsy(r.vs[1]))>>)
Inverse_(r) == Res(r.s, IF Failed(r.s) THEN <<>> ELSE <<BoolV(Falsy(r.vs[1]))>>)
Ordered(s, op, v, w) ==
  IF IsNumber(v) /\ IsNumber(w) THEN Res(s, <<BoolV(Compares(op, v[2], w[2]))>>)
  ELSE Truth(MetaOr(s, op, v, w))
Equal(s, v, w) ==
  IF v # w /\ HasMeta(v) /\ HasMeta(w) THEN Truth(Meta(s, "EQ", v, w)) ELSE Res(s, <<BoolV(RawEqual(v, w))>>)

Operate(s, op, v, w) ==
  CASE op = "EQ" -> Equal(s, v, w)
    [] op = "NE" -> Inverse_(Equal(s, v, w))
    [] op \in {"LT", "LE"} -> Ordered(s, op, v, w)
    [] op = "GT" -> Ordered(s, "LT", w, v)
    [] op = "GE" -> Ordered(s, "LE", w, v)
    [] op = "CONCAT" -> IF CanStr(v) /\ CanStr(w) THEN Res(s, <<StrV(Letters(v) \o Letters(w))>>)
                        ELSE MetaOr(s, op, v, w)
    [] op = "NOT" -> Res(s, <<BoolV(Falsy(v))>>)
    [] op = "LEN" -> IF v[1] = "tab" THEN Res(s, <<IntV(Length(s.heap[v[2]]))>>)
                     ELSE IF v[1] = "str" THEN Res(s, <<IntV(Len(v[2]))>>) ELSE MetaOr(s, op, v, v)
    [] op \in Arith \cup {"UNM", "BNOT"} ->
         IF ~CanCompute(op, v, w) THEN MetaOr(s, op, v, w)
         ELSE IF DividesByZero(op, v, w) THEN Res(Fails(s, ErrorMsg), <<>>)
         ELSE Res(s, <<RawArith(op, v, w)>>)

Index(s, t, key) ==
  IF t[1] = "tab" THEN Res(s, <<RawGet(s.heap[t[2]], key)>>) ELSE MetaOr(s, "INDEX", t, IF HasMeta(t) THEN key ELSE Nil)
SetIndex(s, t, key, v) ==
  IF t[1] = "tab" /\ key # Nil THEN [s EXCEPT !.heap[t[2]] = RawSet(@, key, v)]
  ELSE IF HasMeta(t) THEN Logged(s, "NEWINDEX", <<t, key, v>>)
  ELSE Fails(s, ErrorMsg)

----------------------------------------------------------------------------
\* Expressions and calls.

RECURSIVE Value(_, _, _), Values(_, _, _, _), Call(_, _, _), Does(_, _, _), FieldsOf(_, _, _, _, _)

One(s, env, e) == OneOf(Value(s, env, e))
IsMulti(e) == e[1] \in {"call", "method", "dots"}
\* The values of a list: the last expression gives all it has.
AddValues(s, env, es, vs, r) == IF Failed(r.s) THEN r ELSE Values(r.s, env, Tail(es), vs \o r.vs)
Values(s, env, es, vs) ==
  IF es = <<>> THEN Res(s, vs)
  ELSE AddValues(s, env, es, vs,
                 IF Len(es) = 1 /\ IsMulti(es[1]) THEN Value(s, env, es[1]) ELSE One(s, env, es[1]))

VarValue(s, env, n) ==
  IF CellOf(env, n) # 0 THEN Res(s, <<s.cells[CellOf(env, n)]>>) ELSE Index(s, <<"tab", 1>>, StrV(<<n>>))
\* Operands go on when they have not failed.
With2(r1, env, op, e2) ==
  IF Failed(r1.s) THEN r1
  ELSE IF op \in {"AND", "OR"}
  THEN IF Falsy(r1.vs[1]) = (op = "AND") THEN r1 ELSE One(r1.s, env, e2)
  ELSE LET r2 == One(r1.s, env, e2)
       IN IF Failed(r2.s) THEN r2 ELSE Operate(r2.s, op, r1.vs[1], r2.vs[1])
Indexed2(r1, env, e2) ==
  IF Failed(r1.s) THEN r1
  ELSE LET r2 == One(r1.s, env, e2)
       IN IF Failed(r2.s) THEN r2 ELSE Index(r2.s, r1.vs[1], r2.vs[1])
CallWith(r1, env, args) ==    \* r1: the function, and the object of a method
  IF Failed(r1.s) THEN r1
  ELSE LET r2 == Values(r1.s, env, args, Tail(r1.vs))
       IN IF Failed(r2.s) THEN r2 ELSE Call(r2.s, r1.vs[1], r2.vs)
MethodOf(r1, n) ==
  IF Failed(r1.s) THEN r1
  ELSE LET r2 == Index(r1.s, r1.vs[1], StrV(<<n>>))
       IN IF Failed(r2.s) THEN r2 ELSE Res(r2.s, <<r2.vs[1], r1.vs[1]>>)

\* The fields of a constructor in order; n items so far.
SetItems(s, t, n, vs) ==
  [s EXCEPT !.heap[t] = [k \in {x \in DOMAIN @ \cup {IntV(n + j) : j \in DOMAIN vs} :
                                  \A j \in DOMAIN vs : x = IntV(n + j) => vs[j] # Nil} |->
                           IF \E j \in DOMAIN vs : k = IntV(n + j) THEN vs[k[2] - n] ELSE @[k]]]
Item(r, env, t, fls, n) ==
  IF Failed(r.s) THEN r ELSE FieldsOf(SetItems(r.s, t, n, r.vs), env, t, Tail(fls), n + Len(r.vs))
Keyed(rk, env, t, fls, n) ==
  IF Failed(rk.s) THEN rk
  ELSE LET r == One(rk.s, env, fls[1][3])
       IN IF Failed(r.s) THEN r
          ELSE LET s2 == SetIndex(r.s, <<"tab", t>>, rk.vs[1], r.vs[1])
               IN IF Failed(s2) THEN Res(s2, <<>>) ELSE FieldsOf(s2, env, t, Tail(fls), n)
FieldsOf(s, env, t, fls, n) ==
  IF fls = <<>> THEN Res(s, <<<<"tab", t>>>>)
  ELSE CASE fls[1][1] = "item" ->
              Item(IF Len(fls) = 1 /\ IsMulti(fls[1][2]) THEN Value(s, env, fls[1][2]) ELSE One(s, env, fls[1][2]),
                   env, t, fls, n)
         [] fls[1][1] = "name" -> Keyed(Res(s, <<StrV(<<fls[1][2]>>)>>), env, t, fls, n)
         [] fls[1][1] = "key"  -> Keyed(One(s, env, fls[1][2]), env, t, fls, n)

MakeFunction(s, env, params, vararg, body) ==
  [s EXCEPT !.clos = Append(@, [env |-> env, params |-> params, vararg |-> vararg, body |-> body])]
NewClosure(s) == <<"clo", Len(s.clos) + 1>>
UnaryValue(r, op) == IF Failed(r.s) THEN r ELSE Operate(r.s, op, r.vs[1], r.vs[1])
Value(s, env, e) ==
  CASE e[1] = "nil" -> Res(s, <<Nil>>)
    [] e[1] \in {"true", "false"} -> Res(s, <<BoolV(e[1] = "true")>>)
    [] e[1] \in {"num", "str"} -> Res(s, <<e[2]>>)
    [] e[1] = "var" -> VarValue(s, env, e[2])
    [] e[1] = "dots" -> Res(s, env.dots)
    [] e[1] = "paren" -> One(s, env, e[2])
    [] e[1] = "un" -> UnaryValue(One(s, env, e[3]), e[2])
    [] e[1] = "bin" -> With2(One(s, env, e[3]), env, e[2], e[4])
    [] e[1] = "dot" -> Indexed2(One(s, env, e[2]), env, <<"str", StrV(<<e[3]>>)>>)
    [] e[1] = "index" -> Indexed2(One(s, env, e[2]), env, e[3])
    [] e[1] = "call" -> CallWith(One(s, env, e[2]), env, e[3])
    [] e[1] = "method" -> CallWith(MethodOf(One(s, env, e[2]), e[3]), env, e[4])
    [] e[1] = "closure" -> Res(MakeFunction(s, env, e[2], e[3], e[4]), <<NewClosure(s)>>)
    [] e[1] = "table" ->
         FieldsOf([s EXCEPT !.heap = Append(@, <<>>)], env, Len(s.heap) + 1, e[2], 0)

\* A function's variables are its parameters, with what was passed.
Extra(args, n) == IF Len(args) > n THEN SubSeq(args, n + 1, Len(args)) ELSE <<>>
Body(d, fn) == Does(d.s, d.env, fn.body)
ResultOf(x) == Res(x.s, IF x.out[1] = "return" THEN x.out[2] ELSE <<>>)
CallLua(s, fn, args) ==
  IF Failed(s) THEN Res(s, <<>>)
  ELSE ResultOf(Body(Declared(s, [fn.env EXCEPT !.dots = Extra(args, Len(fn.params))], fn.params, args), fn))
Protect(r) ==
  IF ~Failed(r.s) THEN Res(r.s, <<BoolV(TRUE)>> \o r.vs)
  ELSE IF r.s.err = <<OutOfFuel>> THEN r
  ELSE Res([r.s EXCEPT !.err = <<>>], <<BoolV(FALSE), r.s.err[1]>>)
Call(s, fv, args) ==
  CASE fv = CFn("f") -> Res(Logged(s, "f", args), args)
    [] fv = CFn("it") -> Res(s, <<Counted(args[1][2], args[2][2])>>)
    [] fv = CFn("pcall") ->
         IF args = <<>> THEN Res(Fails(s, ErrorMsg), <<>>) ELSE Protect(Call(s, args[1], Tail(args)))
    [] HasMeta(fv) -> Res(Logged(s, "CALL", <<fv>> \o args), args)
    [] fv[1] = "clo" -> CallLua(Burnt(s), s.clos[fv[2]], args)
    [] OTHER -> Res(Fails(s, ErrorMsg), <<>>)

----------------------------------------------------------------------------
\* Statements.  A block's outcome is <<"end">>, <<"break">>, <<"goto", n>> or
\* <<"return", vs>>; after an error it does not matter.

Out(s, env, out) == [s |-> s, env |-> env, out |-> out]

\* Leaving a scope closes what was declared in it, the last first.
RECURSIVE CloseTo(_, _)
CloseLast(s) ==
  LET v == LastOf(s.tbc)
      t == [s EXCEPT !.tbc = SubSeq(@, 1, Len(@) - 1)]
  IN IF Falsy(v) THEN t ELSE Logged(t, "CLOSE", <<v, IF Failed(s) THEN s.err[1] ELSE Nil>>)
CloseTo(s, n) == IF Len(s.tbc) <= n THEN s ELSE CloseTo(CloseLast(s), n)

RECURSIVE From(_, _, _, _, _, _), Stat(_, _, _), Loop(_, _, _), Counting(_, _, _, _, _, _), Iterate(_, _, _, _, _)

Names(stmt) ==
  CASE stmt[1] = "local" -> stmt[2] [] stmt[1] = "localfunction" -> <<stmt[2]>> [] OTHER -> <<>>
RECURSIVE NamesIn(_)
NamesIn(stmts) == IF stmts = <<>> THEN 0 ELSE Len(Names(Head(stmts))) + NamesIn(Tail(stmts))
ToClose(stmts) == Cardinality({j \in DOMAIN stmts : stmts[j][1] = "local" /\ stmts[j][3] = "CLOSE"})
LabelsAt(stmts, n) == {j \in DOMAIN stmts : stmts[j][1] = "label" /\ stmts[j][2] = n}

\* A jump to a label of this block leaves the variables declared after it.
Cut(env, n) == [env EXCEPT !.names = SubSeq(@, 1, n), !.cells = SubSeq(@, 1, n)]
JumpedTo(x, env0, stmts, j, nclose) ==
  LET before == SubSeq(stmts, 1, j)
      n == Len(env0.names) + NamesIn(before)
  IN From(CloseTo(Burnt(x.s), nclose + ToClose(before)),
          IF Len(x.env.names) > n THEN Cut(x.env, n) ELSE x.env, env0, stmts, j + 1, nclose)
AfterStat(x, env0, stmts, j, nclose) ==
  IF Failed(x.s) THEN x
  ELSE IF x.out[1] = "end" THEN From(x.s, x.env, env0, stmts, j + 1, nclose)
  ELSE IF x.out[1] = "goto" /\ LabelsAt(stmts, x.out[2]) # {}
  THEN JumpedTo(x, env0, stmts, CHOOSE k \in LabelsAt(stmts, x.out[2]) : TRUE, nclose)
  ELSE x
From(s, env, env0, stmts, j, nclose) ==
  IF Failed(s) \/ j > Len(stmts) THEN Out(s, env, <<"end">>)
  ELSE AfterStat(Stat(s, env, stmts[j]), env0, stmts, j, nclose)
Does(s, env, stmts) ==
  LET x == From(s, env, env, stmts, 1, Len(s.tbc)) IN [x EXCEPT !.s = CloseTo(@, Len(s.tbc))]
\* A block as a statement
Inner(x, env) == [x EXCEPT !.env = env]

AfterLocal(r, env, names, kind) ==
  IF Failed(r.s) THEN Out(r.s, env, <<"end">>)
  ELSE LET d == Declared(r.s, env, names, r.vs)
           v == Adjusted(r.vs, Len(names))[Len(names)]
       IN IF kind # "CLOSE" THEN Out(d.s, d.env, <<"end">>)
          ELSE IF ~Falsy(v) /\ ~HasMeta(v) THEN Out(Fails(d.s, ErrorMsg), d.env, <<"end">>)
          ELSE Out([d.s EXCEPT !.tbc = Append(@, v)], d.env, <<"end">>)

\* The tables and keys of the targets, then the values; stored from the last.
PlaceOf(r, n) == IF Failed(r.s) THEN r ELSE Res(r.s, <<r.vs[1], StrV(<<n>>)>>)
KeyAfter(r, env, e) ==
  IF Failed(r.s) THEN r
  ELSE LET q == One(r.s, env, e) IN IF Failed(q.s) THEN q ELSE Res(q.s, <<r.vs[1], q.vs[1]>>)
Place(s, env, var) ==
  CASE var[1] = "var" -> Res(s, IF CellOf(env, var[2]) # 0 THEN <<<<"cell", CellOf(env, var[2])>>, Nil>>
                                ELSE <<<<"tab", 1>>, StrV(<<var[2]>>)>>)
    [] var[1] = "dot" -> PlaceOf(One(s, env, var[2]), var[3])
    [] var[1] = "index" -> KeyAfter(One(s, env, var[2]), env, var[3])
RECURSIVE Places(_, _, _, _), Stored(_, _, _)
AddPlace(r, env, vars, ps) == IF Failed(r.s) THEN [s |-> r.s, ps |-> ps] ELSE Places(r.s, env, vars, Append(ps, r.vs))
Places(s, env, vars, ps) ==
  IF vars = <<>> THEN [s |-> s, ps |-> ps] ELSE AddPlace(Place(s, env, Head(vars)), env, Tail(vars), ps)
StoreIn(s, p, v) == IF p[1][1] = "cell" THEN [s EXCEPT !.cells[p[1][2]] = v] ELSE SetIndex(s, p[1], p[2], v)
Stored(s, ps, vs) ==
  IF ps = <<>> \/ Failed(s) THEN s
  ELSE Stored(StoreIn(s, LastOf(ps), vs[Len(ps)]), SubSeq(ps, 1, Len(ps) - 1), vs)
AssignAll(q, env, es) ==
  IF Failed(q.s) THEN q.s
  ELSE LET r == Values(q.s, env, es, <<>>)
       IN IF Failed(r.s) THEN r.s ELSE Stored(r.s, q.ps, Adjusted(r.vs, Len(q.ps)))

\* A local function sees itself.
LocalFunction(d, stmt) == Out(MakeFunction(d.s, d.env, stmt[3], stmt[4], stmt[5]), d.env, <<"end">>)

Branch(r, env, stmt) ==
  IF Failed(r.s) THEN Out(r.s, env, <<"end">>)
  ELSE Inner(Does(r.s, env, IF Falsy(r.vs[1]) THEN stmt[4] ELSE stmt[3]), env)

\* One round of a loop: goes on, or how the loop ends.
Again(x, env, stmt) ==
  IF Failed(x.s) THEN x
  ELSE IF x.out[1] = "end" THEN Loop(x.s, env, stmt)
  ELSE IF x.out[1] = "break" THEN Out(x.s, env, <<"end">>) ELSE Inner(x, env)
WhileRound(r, env, stmt) ==
  IF Failed(r.s) \/ Falsy(r.vs[1]) THEN Out(r.s, env, <<"end">>) ELSE Again(Does(r.s, env, stmt[3]), env, stmt)
\* The condition of a repeat sees the variables of the body, which are closed
\* after it.
UntilOf(x, stmt, n) ==
  IF Failed(x.s) \/ x.out[1] # "end" THEN [x EXCEPT !.s = CloseTo(@, n)]
  ELSE LET r == One(x.s, x.env, stmt[3])
       IN Out(CloseTo(r.s, n), x.env, IF Failed(r.s) \/ Falsy(r.vs[1]) THEN <<"end">> ELSE <<"break">>)
RepeatRound(s, env, stmt) == Again(UntilOf(From(s, env, env, stmt[2], 1, Len(s.tbc)), stmt, Len(s.tbc)), env, stmt)
Loop(s, env, stmt) ==
  IF s.fuel = 0 THEN Out(Fails(s, OutOfFuel), env, <<"end">>)
  ELSE IF stmt[1] = "while" THEN WhileRound(One(Burnt(s), env, stmt[2]), env, stmt)
  ELSE RepeatRound(Burnt(s), env, stmt)

\* A numerical loop counts without overflow: v goes from the first value while
\* it does not pass the limit and, for integers, stays an integer.
InLoop(v, limit, step) ==
  /\ IF step[2] > 0 THEN v[2] <= limit ELSE v[2] >= limit
  /\ v[1] = "int" => v[2] \in MinInt .. MaxInt
NextCount(v, step) == <<v[1], v[2] + step[2]>>
CountedOn(x, env, stmt, v, limit, step) ==
  IF Failed(x.s) THEN x
  ELSE IF x.out[1] = "end" THEN Counting(x.s, env, stmt, NextCount(v, step), limit, step)
  ELSE IF x.out[1] = "break" THEN Out(x.s, env, <<"end">>) ELSE Inner(x, env)
BodyIn(d, body) == Does(d.s, d.env, body)
Counting(s, env, stmt, v, limit, step) ==
  IF ~InLoop(v, limit, step) THEN Out(s, env, <<"end">>)
  ELSE IF s.fuel = 0 THEN Out(Fails(s, OutOfFuel), env, <<"end">>)
  ELSE CountedOn(BodyIn(Declared(Burnt(s), env, <<stmt[2]>>, <<v>>), stmt[4]), env, stmt, v, limit, step)
StartCount(r, env, stmt) ==
  IF Failed(r.s) THEN Out(r.s, env, <<"end">>)
  ELSE LET step == IF Len(r.vs) = 3 THEN r.vs[3] ELSE IntV(1)
           type == IF r.vs[1][1] = "int" /\ step[1] = "int" THEN "int" ELSE "flt"
       IN IF (\E j \in DOMAIN r.vs : ~IsNumber(r.vs[j])) \/ step[2] = 0
          THEN Out(Fails(r.s, ErrorMsg), env, <<"end">>)
          ELSE Counting(r.s, env, stmt, <<type, r.vs[1][2]>>, r.vs[2][2], step)

\* A generic loop: its fourth value is closed at the end.
Iterated(x, env, stmt, vs, n) ==
  IF Failed(x.s) \/ x.out[1] \notin {"end", "break"} THEN Out(CloseTo(x.s, n), env, x.out)
  ELSE IF x.out[1] = "break" THEN Out(CloseTo(x.s, n), env, <<"end">>)
  ELSE Iterate(x.s, env, stmt, vs, n)
IterateWith(r, env, stmt, vs, n) ==
  IF Failed(r.s) \/ Adjusted(r.vs, 1)[1] = Nil THEN Out(CloseTo(r.s, n), env, <<"end">>)
  ELSE Iterated(BodyIn(Declared(r.s, env, stmt[2], r.vs), stmt[4]), env, stmt,
                [vs EXCEPT ![3] = r.vs[1]], n)
Iterate(s, env, stmt, vs, n) ==
  IF s.fuel = 0 THEN Out(CloseTo(Fails(s, OutOfFuel), n), env, <<"end">>)
  ELSE IterateWith(Call(Burnt(s), vs[1], <<vs[2], vs[3]>>), env, stmt, vs, n)
StartIterate(r, env, stmt) ==
  IF Failed(r.s) THEN Out(r.s, env, <<"end">>)
  ELSE LET vs == Adjusted(r.vs, 4)
       IN IF ~Falsy(vs[4]) /\ ~HasMeta(vs[4]) THEN Out(Fails(r.s, ErrorMsg), env, <<"end">>)
          ELSE Iterate([r.s EXCEPT !.tbc = Append(@, vs[4])], env, stmt, vs, Len(r.s.tbc))

ReturnValues(r, env) == Out(r.s, env, <<"return", r.vs>>)
Stat(s, env, stmt) ==
  CASE stmt[1] = "local" -> AfterLocal(Values(s, env, stmt[4], <<>>), env, stmt[2], stmt[3])
    [] stmt[1] = "assign" -> Out(AssignAll(Places(s, env, stmt[2], <<>>), env, stmt[3]), env, <<"end">>)
    [] stmt[1] = "exprstat" -> Out(Value(s, env, stmt[2]).s, env, <<"end">>)
    [] stmt[1] = "return" -> ReturnValues(Values(s, env, stmt[2], <<>>), env)
    [] stmt[1] \in {"break", "goto"} -> Out(s, env, stmt)
    [] stmt[1] = "label" -> Out(s, env, <<"end">>)
    [] stmt[1] = "do" -> Inner(Does(s, env, stmt[2]), env)
    [] stmt[1] = "if" -> Branch(One(s, env, stmt[2]), env, stmt)
    [] stmt[1] \in {"while", "repeat"} -> Loop(s, env, stmt)
    [] stmt[1] = "fornum" -> StartCount(Values(s, env, stmt[3], <<>>), env, stmt)
    [] stmt[1] = "forin" -> StartIterate(Values(s, env, stmt[3], <<>>), env, stmt)
    [] stmt[1] = "localfunction" -> LocalFunction(Declared(s, env, <<stmt[2]>>, <<NewClosure(s)>>), stmt)
    [] stmt[1] = "function" ->
         Out(AssignAll(Places(s, env, <<stmt[2]>>, <<>>), env, <<<<"closure", stmt[3], stmt[4], stmt[5]>>>>),
             env, <<"end">>)

\* A program's outcome: undecided when the bound ends it.
StartState(globals) ==
  [heap |-> <<globals>>, cells |-> <<>>, clos |-> <<<<>>>>, log |-> <<>>, tbc |-> <<>>, err |-> <<>>, fuel |-> MaxCalls]
Outcome(x) ==
  IF x.s.err = <<OutOfFuel>> THEN [status |-> "undecided"]
  ELSE [status |-> IF Failed(x.s) THEN "error" ELSE "done", log |-> x.s.log, heap |-> x.s.heap,
        result |-> IF Failed(x.s) \/ x.out[1] # "return" THEN <<>> ELSE x.out[2]]
Meaning(program, globals) == Outcome(Does(StartState(globals), Scope(<<>>, <<>>, MainArgs), program))
=============================================================================
