------------------------------- MODULE Lpeg -------------------------------
(***************************************************************************)
(* A program that makes patterns with LPegLabel (lpeglabel/lptree.c): each *)
(* action is one function of the library, applied to the patterns on top   *)
(* of a stack.  A pattern is its tree, its ktable, its code once it has    *)
(* been compiled, and, for the properties only, the expression that the    *)
(* program meant by it.  A call that raises an error is not enabled.       *)
(***************************************************************************)
EXTENDS LpegVM, LpegMeaning, TLC

CONSTANTS Menus,                   \* bound: the functions and values a program uses
          Careful                  \* programs avoid what the library does not check

VARIABLES menu, stk, made
vars == <<menu, stk, made>>
Uses == Menus[menu]

Pattern(tree, k, exp) == [tree |-> tree, k |-> k, code |-> <<>>, exp |-> exp]
Top1 == stk[Len(stk)]
Top2 == stk[Len(stk) - 1]
\* (bound: Uses.calls calls, and as many left as it takes to join the patterns)
Push(n, p) ==
  /\ made + Len(stk) - n < Uses.calls
  /\ made' = made + 1
  /\ stk' = Append(SubSeq(stk, 1, Len(stk) - n), p)
  /\ UNCHANGED menu
Has(n)   == Len(stk) >= n
Room     == Len(stk) < Uses.depth

\* addtonewktable: a table of its own, with the values of the pattern first.
Added(k, v) == [id |-> made + 1, vals |-> Append(k.vals, v)]
NewKey(k)   == Len(k.vals) + 1

Init == menu \in DOMAIN Menus /\ stk = <<>> /\ made = 0

----------------------------------------------------------------------------
\* Leaves.

\* fillseq, numtree
RECURSIVE FillSeq(_, _)
FillSeq(cs, n) == IF n = 1 THEN Charset(cs) ELSE Two("Seq", Charset(cs), FillSeq(cs, n - 1))
NumTree(n) == IF n = 0 THEN Leaf("True")
              ELSE IF n > 0 THEN FillSeq(Chars, n) ELSE One("Not", FillSeq(Chars, -n))
RECURSIVE XTimes(_, _)
XTimes(x, n) == IF n = 0 THEN XEmpty ELSE X2("seq", x, XTimes(x, n - 1))
XNumber(n) == IF n >= 0 THEN XTimes(XSet(Chars), n) ELSE X1("not", XTimes(XSet(Chars), -n))

lp_set == Room /\ \E cs \in Uses.sets : Push(0, Pattern(Charset(cs), NoTable, XSet(cs)))
lp_P   == Room /\ \E n \in Uses.numbers : Push(0, Pattern(NumTree(n), NoTable, XNumber(n)))
lp_P_false == Room /\ "false" \in Uses.ops /\ Push(0, Pattern(Leaf("False"), NoTable, XNever))
lp_V == Room /\ \E name \in Uses.rules :
          Push(0, Pattern(OpenCall(1), Added(NoTable, name), XName("rule", name)))
lp_throw == Room /\ \E l \in Uses.labels :
              Push(0, Pattern(Throw(1), Added(NoTable, l), XName("throw", l)))
EmptyCap(kind, key, k, val) ==
  Push(0, Pattern(Capture(kind, key, Leaf("True")), k, XCap(kind, val, XEmpty)))
lp_poscapture   == Room /\ "Cp" \in Uses.ops /\ EmptyCap("position", 0, NoTable, 0)
lp_constcapture == Room /\ \E v \in Uses.consts : EmptyCap("const", 1, Added(NoTable, v), v)
lp_backref      == Room /\ \E name \in Uses.names : EmptyCap("backref", 1, Added(NoTable, name), name)

\* A variable of the program used once more.
Again == Room /\ "again" \in Uses.ops /\ Has(1) /\ Push(0, Top1)

----------------------------------------------------------------------------
\* One pattern.

Root1(tag, exp) == Push(1, Pattern(One(tag, Top1.tree), Top1.k, exp))
lp_and == "and" \in Uses.ops /\ Has(1) /\ Root1("And", X1("and", Top1.exp))
lp_not == "not" \in Uses.ops /\ Has(1) /\ Root1("Not", X1("not", Top1.exp))

\* p^n: seq p (... (rep p)), or choice (seq p (choice p true)) true ...
RECURSIVE AtLeast(_, _)
AtLeast(t, n) == IF n = 0 THEN One("Rep", t) ELSE Two("Seq", t, AtLeast(t, n - 1))
RECURSIVE AtMost(_, _)
AtMost(t, n) == Two("Choice", IF n = 1 THEN t ELSE Two("Seq", t, AtMost(t, n - 1)), Leaf("True"))
lp_star ==
  /\ Has(1)
  /\ \E n \in Uses.stars :
       /\ n >= 0 => ~Nullable(Top1.tree, <<>>)
       /\ Push(1, Pattern(IF n >= 0 THEN AtLeast(Top1.tree, n) ELSE AtMost(Top1.tree, -n),
                          Top1.k, XStar(Top1.exp, n)))

lp_behind ==
  LET n == FixedLen(Top1.tree, <<>>, {}) IN
  /\ "behind" \in Uses.ops /\ Has(1)
  /\ n >= 0 /\ ~HasCaptures(Top1.tree, <<>>, {})
  /\ Push(1, Pattern(Behind(n, Top1.tree), Top1.k, [x |-> "behind", a |-> Top1.exp, n |-> n]))

\* capture_aux: captures without a value, with one, and by number.
Captured(kind, key, k, val) ==
  Push(1, Pattern(Capture(kind, key, Top1.tree), k, XCap(kind, val, Top1.exp)))
lp_plaincapture ==
  Has(1) /\ \E kind \in Uses.plain : Captured(kind, 0, Top1.k, "anon")
lp_valuecapture ==
  Has(1) /\ \E c \in Uses.valued : Captured(c[1], NewKey(Top1.k), Added(Top1.k, c[2]), c[2])
lp_numcapture ==
  Has(1) /\ \E n \in Uses.nums : Captured("num", n, Top1.k, n)
lp_matchtime ==
  Has(1) /\ \E f \in Uses.functions :
    Push(1, Pattern(RunTime(NewKey(Top1.k), Top1.tree), Added(Top1.k, f), XRun(f, Top1.exp)))

----------------------------------------------------------------------------
\* Two patterns.

Charsets    == Top1.tree.tag = "Set" /\ Top2.tree.tag = "Set"
Shifted     == CorrectKeys(Top1.tree, JoinShift(Top2.k, Top1.k))
Joined(tree, exp) == Push(2, Pattern(tree, JoinTables(Top2.k, Top1.k, made + 1), exp))
Keep(p, exp)      == Push(2, [p EXCEPT !.exp = exp])

lp_seq ==
  LET exp == X2("seq", Top2.exp, Top1.exp) IN
  /\ "seq" \in Uses.ops /\ Has(2)
  /\ IF Top2.tree.tag = "False" \/ Top1.tree.tag = "True" THEN Keep(Top2, exp)
     ELSE IF Top2.tree.tag = "True" THEN Keep(Top1, exp)
     ELSE Joined(Two("Seq", Top2.tree, Shifted), exp)

lp_choice ==
  LET exp == X2("choice", Top2.exp, Top1.exp) IN
  /\ "choice" \in Uses.ops /\ Has(2)
  /\ IF Charsets
     THEN Push(2, Pattern(Charset(Top2.tree.cs \union Top1.tree.cs), NoTable, exp))
     ELSE IF NoFail(Top2.tree, <<>>) \/ Top1.tree.tag = "False" THEN Keep(Top2, exp)
     ELSE IF Top2.tree.tag = "False" THEN Keep(Top1, exp)
     ELSE Joined(Two("Choice", Top2.tree, Shifted), exp)

lp_sub ==
  LET exp == X2("sub", Top2.exp, Top1.exp) IN
  /\ "sub" \in Uses.ops /\ Has(2)
  /\ IF Charsets
     THEN Push(2, Pattern(Charset(Top2.tree.cs \ Top1.tree.cs), NoTable, exp))
     ELSE Joined(Two("Seq", One("Not", Shifted), Top2.tree), exp)

----------------------------------------------------------------------------
\* Grammars.

RECURSIVE Flat(_)
Flat(ss) == IF ss = <<>> THEN <<>> ELSE ss[1] \o Flat(Tail(ss))
TablesOf(ps) == Flat([i \in DOMAIN ps |-> ps[i].k.vals])

\* buildgrammar with finalfix: the tables one after another, keys corrected.
RuleTrees(ps, names) ==
  [i \in DOMAIN ps |->
     FinalFix(CorrectKeys(ps[i].tree, Len(TablesOf(SubSeq(ps, 1, i - 1)))), names, TablesOf(ps))]

\* initialrulename
GrammarTable(ps, names, rules) ==
  [id |-> made + 1,
   vals |-> TablesOf(ps) \o IF 1 \in UNION {Called(rules[i]) : i \in DOMAIN rules}
                            THEN <<>> ELSE <<names[1]>>]

\* What the code does not check of a grammar and a program has to see to
\* itself: that recovery rules are no left recursion and consume something,
\* and that a rule does not come back to itself after a repeated grammar.
\* AsCalls: throws that have a rule become calls of it, grammars inside become
\* leaves.
RECURSIVE AsCalls(_)
AsCalls(t) ==
  IF t.tag = "Throw" /\ t.rule # 0 THEN [tag |-> "Call", key |-> t.key, rule |-> t.rule]
  ELSE IF t.tag = "Grammar" THEN IF Nullable(t, <<>>) THEN Leaf("True") ELSE Charset(Chars)
  ELSE WithKids(t, [i \in DOMAIN Kids(t) |-> AsCalls(Kids(t)[i])])
RECURSIVE RecoveryRules(_)
RecoveryRules(t) ==
  IF t.tag = "Throw" THEN {t.rule} \ {0}
  ELSE IF t.tag = "Grammar" THEN {}
  ELSE UNION {RecoveryRules(Kids(t)[i]) : i \in DOMAIN Kids(t)}
NoLeftCalls(g) == \A i \in DOMAIN g : VerifyRule(g[i], g, {}, FALSE) # "left"
SeenTo(rules, g) ==
  /\ NoLeftCalls(g)
  /\ \A i \in DOMAIN g : ~CheckLoops(g[i], g)
  /\ \A i \in DOMAIN rules : \A r \in RecoveryRules(rules[i]) : ~Nullable(g[r], g)

NewGrammar(ps, names, rules) ==
  /\ \A i \in DOMAIN rules : ~Undefined(rules[i])
  /\ Careful => SeenTo(rules, [i \in DOMAIN rules |-> AsCalls(rules[i])])
  /\ Verified(rules)
  /\ Push(Len(names),
          Pattern(Grammar(rules), GrammarTable(ps, names, rules),
                  XGrammar([i \in DOMAIN ps |-> [name |-> names[i], exp |-> ps[i].exp]])))
GrammarOf(ps, names) == NewGrammar(ps, names, RuleTrees(ps, names))
newgrammar ==
  \E names \in Uses.grammars :
    Has(Len(names)) /\ GrammarOf(SubSeq(stk, Len(stk) - Len(names) + 1, Len(stk)), names)

\* And of a pattern: that the first part of a sequence does not throw if it
\* may also match nothing (the test made for the sequence forgets the label:
\* getfirst), ...
RECURSIVE MayThrow(_, _, _)
MayThrow(t, g, seen) ==
  \/ t.tag = "Throw"
  \/ t.tag = "Call" /\ t.rule \notin seen /\ MayThrow(g[t.rule], g, seen \union {t.rule})
  \/ t.tag = "Grammar" /\ MayThrow(t.rules[1], t.rules, {})
  \/ t.tag # "Grammar" /\ \E i \in DOMAIN Kids(t) : MayThrow(Kids(t)[i], g, seen)
RECURSIVE ForgetsLabel(_, _)
ForgetsLabel(t, g) ==
  \/ t.tag = "Seq" /\ MayThrow(t.p, g, {}) /\ Nullable(t.p, g)
  \/ \E i \in DOMAIN Kids(t) :
       ForgetsLabel(Kids(t)[i], IF t.tag = "Grammar" THEN t.rules ELSE g)

\* ... that no rule called in a predicate throws (the machine looks for the
\* predicate in frames that calls do not fill: IThrow), ...
RECURSIVE ThrowsCalled(_, _, _)
ThrowsCalled(t, g, inpred) ==
  \/ inpred /\ t.tag \in {"Call", "Grammar"} /\ MayThrow(t, g, {})
  \/ \E i \in DOMAIN Kids(t) :
       ThrowsCalled(Kids(t)[i], IF t.tag = "Grammar" THEN t.rules ELSE g,
                    t.tag # "Grammar" /\ (inpred \/ t.tag \in {"Not", "And"}))

\* ... and that a grammar whose labels have rules is not part of another (their
\* positions are corrected twice: correctcalls).
RECURSIVE Recovers(_)
Recovers(t) == \/ t.tag = "Throw" /\ t.rule # 0
               \/ \E i \in DOMAIN Kids(t) : Recovers(Kids(t)[i])
RECURSIVE NestedRecovers(_, _)
NestedRecovers(t, inside) ==
  \/ inside /\ t.tag = "Grammar" /\ Recovers(t)
  \/ \E i \in DOMAIN Kids(t) : NestedRecovers(Kids(t)[i], inside \/ t.tag = "Grammar")

\* prepcompile: the tree itself is changed, and is used from then on.
Prepared(p, tree) == [p EXCEPT !.tree = tree, !.code = Compile(tree)]
prepcompile ==
  /\ Has(1) /\ Top1.code = <<>> /\ ~Undefined(Top1.tree)
  /\ Careful => ~ForgetsLabel(Top1.tree, <<>>) /\ ~ThrowsCalled(Top1.tree, <<>>, FALSE)
                /\ ~NestedRecovers(Top1.tree, FALSE)
  /\ Push(1, Prepared(Top1, FinalFix(Top1.tree, <<>>, Top1.k.vals)))

Next ==
  \/ lp_set \/ lp_P \/ lp_P_false \/ lp_V \/ lp_throw
  \/ lp_poscapture \/ lp_constcapture \/ lp_backref \/ Again
  \/ lp_and \/ lp_not \/ lp_star \/ lp_behind
  \/ lp_plaincapture \/ lp_valuecapture \/ lp_numcapture \/ lp_matchtime
  \/ lp_seq \/ lp_choice \/ lp_sub \/ newgrammar \/ prepcompile
Spec == Init /\ [][Next]_vars

----------------------------------------------------------------------------
\* Properties, of the pattern on top of the stack.

Closed   == stk # <<>> /\ ~Undefined(Top1.tree)
Compiled == stk # <<>> /\ Top1.code # <<>>

\* Whatever the compiler made of a pattern (tests instead of choices, partial
\* commits, tail calls, full captures, merged tables, jumps to jumps), the
\* matching machine gives the values, the failure or the label that the
\* expression means, for every subject and whatever its stack held before
\* (lpcode.c, lpvm.c, lpcap.c).
Agrees ==
  Compiled => \A subject \in Uses.subjects : \A junk \in BOOLEAN :
                Match(Top1.code, Top1.k.vals, subject, junk) = Meaning(Top1.exp, subject)

\* What the compiler believes of a tree is so of every match: that it cannot
\* fail, consumes something, or a fixed length, makes no captures, starts with
\* one of a set of characters, fails only by its first character (checkaux,
\* fixedlen, hascaptures, getfirst, headfail of lpcode.c).
Starts(r, subject, f) ==
  f.e = {} /\ r.r # "fail" => subject # <<>> /\ subject[1] \in f.cs
SoundFor(tree, exp, subject, r, len, f) ==
  /\ NoFail(tree, <<>>) => r.r # "fail"
  /\ r.r = "ok" /\ ~Nullable(tree, <<>>) => r.s > 0
  /\ r.r = "ok" /\ len >= 0 => r.s = len
  /\ r.r = "ok" /\ ~HasCaptures(tree, <<>>, {}) => r.caps = <<>>
  /\ r.r # "error" /\ ~ForgetsLabel(tree, <<>>) => Starts(r, subject, f)
AnalysesSound ==
  Closed =>
    /\ \A subject \in Uses.subjects :
         SoundFor(Top1.tree, Top1.exp, subject, Matched(Top1.exp, subject),
                  FixedLen(Top1.tree, <<>>, {}), GetFirst(Top1.tree, Chars, <<>>))
    /\ HeadFail(Top1.tree, <<>>) =>
         \A s1, s2 \in Uses.subjects :
           s1 # <<>> /\ s2 # <<>> /\ Head(s1) = Head(s2) =>
             (Meaning(Top1.exp, s1) = [fail |-> TRUE] <=> Meaning(Top1.exp, s2) = [fail |-> TRUE])

\* A match leaves on the Lua stack exactly the values of the run-time captures
\* that are still in its list, each capture pointing at its own, however often
\* it backtracked over them (removedyncap, adddyncaptures of lpvm.c, lpcap.c).
DynBalanced ==
  Compiled => \A subject \in Uses.subjects :
    LET m   == Run(Start(subject, 0, FALSE), Top1.code, Top1.k.vals, subject)
        dyn == SelectSeq(m.caps, LAMBDA c : c.kind = "runtime")
    IN m.status = "match" =>
         /\ m.ndyn = Len(m.dyn) /\ Len(dyn) = m.ndyn
         /\ \A i \in DOMAIN dyn : dyn[i].idx = i
=============================================================================
