----------------------------- MODULE MCLuaCode -----------------------------
EXTENDS LuaCode

V(n) == <<"var", n>>
N(i) == <<"num", IntV(i)>>
F(i) == <<"num", FltV(i)>>
S(s) == <<"str", StrV(<<s>>)>>
True == <<"true">>
False == <<"false">>
NilE == <<"nil">>
Dots == <<"dots">>
Bin(op, a, b) == <<"bin", op, a, b>>
Un(op, a) == <<"un", op, a>>
Paren(e) == <<"paren", e>>
CallE(n, args) == <<"call", V(n), args>>
Do(n, args) == <<"exprstat", CallE(n, args)>>
Local(names, es) == <<"local", names, "REG", es>>
Const(n, e) == <<"local", <<n>>, "CONST", <<e>>>>
CloseV(n, e) == <<"local", <<n>>, "CLOSE", <<e>>>>
Assign_(targets, es) == <<"assign", targets, es>>
Set1(n, e) == Assign_(<<V(n)>>, <<e>>)
Dot(e, n) == <<"dot", e, n>>
Ix(e, k) == <<"index", e, k>>
Ret(es) == <<"return", es>>
Table(items) == <<"table", [i \in DOMAIN items |-> <<"item", items[i]>>]>>

Functions_ == {"f", "it", "pcall"}
MCGlobals ==
  [k \in {StrV(<<n>>) : n \in Functions_ \cup {"o", "p"}} |->
     CASE k[2][1] \in Functions_ -> CFn(k[2][1]) [] k[2][1] = "o" -> <<"obj", 1>> [] k[2][1] = "p" -> <<"obj", 2>>]
None == [program |-> {}, conditions |-> {True}, globals |-> MCGlobals, given |-> <<>>, statements |-> 1, depth |-> 2]

\* and, or, not: the values they give
Logic1 == {True, NilE, V("a"), CallE("f", <<N(1)>>), Bin("LT", V("a"), N(2))}
Logic2 == {Bin(op, x, y) : op \in {"AND", "OR"}, x \in Logic1, y \in Logic1}
Logic3 == {Bin(op, x, y) : op \in {"AND", "OR"}, x \in Logic2, y \in {V("a"), Bin("LT", V("a"), N(2))}}
          \cup {Un("NOT", x) : x \in Logic2}
Logic == [None EXCEPT !.given = <<Local(<<"a">>, <<N(1)>>)>>,
  !.program = {Ret(<<x>>) : x \in Logic3}
              \cup {Ret(<<N(3), Bin(op, V("a"), x)>>) : op \in {"EQ", "AND"}, x \in Logic2}]

\* conditions, loops and breaks
Less == Bin("LT", V("a"), N(3))
Jumps == [None EXCEPT !.given = <<Local(<<"a">>, <<CallE("f", <<N(1)>>)>>)>>, !.statements = 3, !.depth = 3,
  !.conditions = {Less, True},
  !.program = {Set1("a", Bin("ADD", V("a"), N(1))), <<"break">>, <<"repeat">>, <<"while", Bin("AND", V("a"), Less)>>}
              \cup {<<k, Less>> : k \in {"while", "if", "ifbreak", "ifbreakmore"}}]

\* operators on numbers and objects
Operands == {V("x"), V("o"), V("i"), N(2), N(-30), F(2)}
Compare == {"EQ", "NE", "LT", "LE", "GT", "GE"}
Numbers == [None EXCEPT !.given = <<Local(<<"x", "i">>, <<V("p"), N(5)>>)>>,
  !.program = {Ret(<<Bin(op, a, b)>>) : op \in Arith \cup Compare, a \in Operands, b \in Operands}
              \cup {Ret(<<Un(op, a)>>) : op \in {"UNM", "BNOT", "NOT"}, a \in Operands}]
InnerOps == {Bin(op, a, b) : op \in {"ADD", "BAND", "LE"}, a \in {V("i"), N(3)}, b \in {V("x"), F(30)}}
Deeper == [None EXCEPT !.given = <<Local(<<"x", "i">>, <<V("p"), N(5)>>)>>,
  !.program = {Ret(<<S("k"), Bin(op, e, c)>>) : op \in {"SUB", "SHL", "LT", "EQ"}, e \in InnerOps, c \in {V("i"), N(3)}}
              \cup {Ret(<<S("k"), Bin(op, c, e)>>) : op \in {"SUB", "SHL", "LT", "EQ"}, e \in InnerOps, c \in {V("i"), N(3)}}]

\* assignments whose targets use one another
Places_ == {V("a"), V("t"), Ix(V("t"), V("a")), Dot(V("t"), "a"), Ix(V("g"), N(9))}
Sources == {<<V("t"), V("a")>>, <<CallE("f", <<N(1), N(2)>>)>>}
Assigns == [None EXCEPT !.given = <<Local(<<"a", "t">>, <<N(1), Table(<<N(5)>>)>>), Set1("g", V("t"))>>, !.statements = 2,
  !.program = {Ret(<<V("a"), V("t"), Dot(V("t"), "a"), Ix(V("g"), N(1))>>)}
              \cup {Assign_(<<x, y>>, es) : x \in Places_, y \in Places_, es \in Sources}]
\* the same with a variable of an enclosing function
Outer == [Assigns EXCEPT !.given = <<Local(<<"a", "u">>, <<N(1), Table(<<N(5)>>)>>), <<"localfunction", "t", <<"t">>, FALSE>>>>,
  !.program = {Ret(<<V("a"), V("t"), Dot(V("u"), "a")>>), Do("t", <<V("u")>>)}
              \cup {Assign_(<<x, y>>, <<V("t"), V("a"), N(3)>>) :
                      x \in Places_ \cup {Ix(V("u"), V("a"))}, y \in Places_ \cup {Ix(V("u"), V("a"))}}]

\* calls, with open numbers of arguments and results
Lists == {<<>>, <<Dots>>, <<N(1), CallE("f", <<Dots>>)>>, <<Paren(CallE("f", <<Dots>>)), N(3)>>, <<CallE("f", <<Dots>>), Dots>>}
Calls == [None EXCEPT !.statements = 3, !.depth = 1,
  !.program = {<<"localfunction", "h", <<"x">>, TRUE>>, <<"localfunction", "h", <<"x", "y">>, FALSE>>,
               Ret(<<CallE("h", <<N(7), Dots>>)>>), Ret(<<CallE("f", <<N(7)>>)>>), Ret(<<V("x"), Dots>>), Ret(<<V("y")>>)}
              \cup {Do("f", es) : es \in Lists} \cup {Local(<<"u", "v">>, es) : es \in Lists \ {<<>>}}]
Twice == [Calls EXCEPT !.given = <<<<"localfunction", "h", <<"x">>, TRUE>>, Do("f", <<V("x"), Dots>>)>>, !.statements = 2]

\* upvalues in blocks, loops and after gotos
Shared == [None EXCEPT !.given = <<Local(<<"x">>, <<N(0)>>), <<"label", "l", FALSE>>, <<"do">>, Local(<<"y">>, <<V("x")>>)>>,
  !.statements = 3, !.depth = 2,
  !.program = {Set1("x", Bin("ADD", V("x"), N(1))), Set1("y", N(7)), <<"localfunction", "h", <<>>, FALSE>>,
               Ret(<<V("x"), V("y"), CallE("g", <<>>)>>), <<"if", Bin("LT", V("x"), N(2))>>,
               <<"goto", "l">>, Set1("g", V("h"))}]
Loops == [None EXCEPT !.statements = 3, !.depth = 3, !.conditions = {Bin("EQ", V("x"), N(2))},
  !.given = <<<<"fornum", "i", <<N(1), N(3)>>>>, Local(<<"x">>, <<V("i")>>)>>,
  !.program = {<<"function", V("g"), <<>>, FALSE>>, Ret(<<V("x"), V("i")>>), Do("g", <<>>), <<"repeat">>, <<"break">>,
               Local(<<"x">>, <<Bin("ADD", V("x"), N(1))>>)}]
Gotos == [None EXCEPT !.given = <<Local(<<"x">>, <<N(0)>>), <<"do">>>>, !.statements = 3, !.depth = 2,
  !.program = {<<"goto", "l">>, <<"label", "l", FALSE>>, <<"label", "l", TRUE>>, Do("f", <<V("x")>>), <<"do">>,
               Local(<<"y">>, <<V("x")>>), CloseV("z", V("o")), <<"localfunction", "h", <<>>, FALSE>>}]

\* numerical loops at the ends of the integers
Starts == {N(1), N(30), N(-32)}
Limits == {N(3), N(31), N(-32), F(40), F(-40)}
Steps == {<<>>, <<N(-32)>>, <<N(31)>>, <<N(0)>>, <<F(2)>>}
ForNums == [None EXCEPT !.statements = 2, !.depth = 1,
  !.program = {Do("f", <<V("i")>>)} \cup {<<"fornum", "i", <<a, b>> \o c>> : a \in Starts, b \in Limits, c \in Steps}]

\* generic loops, and variables to be closed
Generic == [None EXCEPT !.statements = 3, !.depth = 2,
  !.program = {<<"forin", <<"k", "v">>, <<V("it"), N(2), N(0), V("o")>>>>, <<"forin", <<"k">>, <<V("it"), N(1), N(0)>>>>,
               <<"forin", <<"k">>, <<V("p"), V("o"), NilE, N(1)>>>>,
               CloseV("x", V("p")), Ret(<<V("k"), V("x")>>), <<"break">>, Do("f", <<V("k")>>), <<"do">>}]
ToBeClosed == [None EXCEPT !.given = <<<<"localfunction", "h", <<"a">>, TRUE>>>>, !.statements = 3, !.depth = 2,
  !.program = {CloseV("x", V("p")), CloseV("y", V("o")), CloseV("x", NilE), Ret(<<N(6), V("a")>>), Ret(<<CallE("f", <<N(4), N(5)>>)>>),
               <<"do">>, Local(<<"z">>, <<CallE("h", <<N(8), N(9)>>)>>)}]

\* constructors and lengths
Tables == [None EXCEPT !.statements = 2,
  !.program = {Local(<<"t">>, <<Table(items)>>) :
                 items \in UNION {[1 .. n -> {CallE("f", <<N(3), N(4)>>), Dots}] : n \in 0 .. 3}}
    \cup {Local(<<"t">>, <<Table([i \in 1 .. n |-> IF i = n THEN e ELSE N(i)])>>) : n \in {6, 7, 8, 9, 15, 16, 17}, e \in {N(0), Dots}}
    \cup {Local(<<"t">>, <<<<"table", <<<<"item", S("x")>>, <<"name", "a", V("f")>>, <<"key", k, V("o")>>, <<"item", Dots>>>>>>>>) :
            k \in {S("b"), F(9), V("p"), CallE("f", <<N(9)>>)}}
    \cup {Ret(<<Un("LEN", V("t")), Ix(V("t"), N(1)), Ix(V("t"), N(9)), Dot(V("t"), "a")>>), Ret(<<Un("LEN", V("o")), Un("LEN", S("k"))>>),
          Ret(<<Ix(V("o"), V("p")), Dot(V("o"), "a")>>), Ret(<<<<"method", V("t"), "a", <<Dots>>>>>>),
          Ret(<<<<"method", V("o"), "a", <<N(2)>>>>>>)}]

\* constants and errors
Errors == [None EXCEPT !.given = <<Const("c", N(3))>>, !.statements = 3, !.depth = 2,
  !.program = {Const("c", V("o")), Set1("c", N(1)), CloseV("x", V("o")), CloseV("x", N(1)),
               <<"localfunction", "h", <<"a">>, FALSE>>, Ret(<<CallE("pcall", <<V("h"), N(4)>>)>>), Do("t", <<>>),
               Ret(<<V("c"), Bin("ADD", V("c"), V("a"))>>), Do("pcall", <<V("h")>>), Do("o", <<V("c")>>)}]
Caught == [Errors EXCEPT !.given = <<Const("c", V("p")), <<"localfunction", "h", <<"a">>, FALSE>>, CloseV("x", V("c"))>>, !.statements = 2]

\* concatenation
Parts_ == {S("a"), N(1), V("o"), F(2), <<"str", StrV(<<>>)>>}
Joins == [None EXCEPT
  !.program = {Ret(<<Bin("CONCAT", a, Bin("CONCAT", b, c))>>) : a \in Parts_, b \in Parts_, c \in Parts_}
              \cup {Ret(<<Bin("CONCAT", Bin("CONCAT", a, b), c)>>) : a \in Parts_, b \in Parts_, c \in Parts_}
              \cup {Ret(<<Bin("CONCAT", S("a"), Bin("CONCAT", a, Bin("CONCAT", b, c)))>>) : a \in Parts_, b \in Parts_, c \in Parts_}]

MCMenus == <<Logic, Jumps, Numbers, Deeper, Assigns, Outer, Calls, Twice, Shared, Loops, Gotos, ForNums, Generic, ToBeClosed, Tables, Errors, Caught, Joins>>
=============================================================================
