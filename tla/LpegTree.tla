----------------------------- MODULE LpegTree -----------------------------
(***************************************************************************)
(* Pattern trees of LPegLabel (lpeglabel/lptree.c) and what the compiler   *)
(* asks of them (the first part of lpeglabel/lpcode.c).  A tree is a       *)
(* record [tag, children and data]; a character is a member of Chars, and  *)
(* TChar, TSet and TAny are one node that holds its set.  A rule is known  *)
(* by its number in the grammar, so that 'g', the rules of the grammar     *)
(* around a tree, stands for the pointers of calls.                        *)
(***************************************************************************)
EXTENDS Integers, Sequences, FiniteSets

CONSTANT Chars

Leaf(tag)       == [tag |-> tag]
Charset(cs)     == [tag |-> "Set", cs |-> cs]
One(tag, p)     == [tag |-> tag, p |-> p]
Two(tag, p, q)  == [tag |-> tag, p |-> p, q |-> q]
OpenCall(key)   == [tag |-> "OpenCall", key |-> key]
Throw(key)      == [tag |-> "Throw", key |-> key, rule |-> 0]
Capture(cap, key, p) == [tag |-> "Capture", cap |-> cap, key |-> key, p |-> p]
RunTime(key, p) == [tag |-> "RunTime", key |-> key, p |-> p]
Behind(n, p)    == [tag |-> "Behind", n |-> n, p |-> p]
Grammar(rules)  == [tag |-> "Grammar", rules |-> rules]

\* numsiblings: the children that every walk of a tree follows.
Kids(t) ==
  IF t.tag = "Grammar" THEN t.rules
  ELSE IF t.tag \in {"Seq", "Choice"} THEN <<t.p, t.q>>
  ELSE IF t.tag \in {"Rep", "Not", "And", "Behind", "Capture", "RunTime"} THEN <<t.p>>
  ELSE <<>>
WithKids(t, ks) ==
  IF t.tag = "Grammar" THEN [t EXCEPT !.rules = ks]
  ELSE IF Len(ks) = 2 THEN [t EXCEPT !.p = ks[1], !.q = ks[2]]
  ELSE IF Len(ks) = 1 THEN [t EXCEPT !.p = ks[1]]
  ELSE t

----------------------------------------------------------------------------
\* Values in a pattern: the ktable.  Patterns made of one another may share a
\* table, so a table has an identity as well as its values.

NoTable == [id |-> 0, vals |-> <<>>]

RECURSIVE CorrectKeys(_, _)
CorrectKeys(t, n) ==
  LET keyed == t.tag \in {"OpenCall", "Call", "RunTime", "Throw"} \/
               (t.tag = "Capture" /\ t.cap \notin {"arg", "num"})
      t1    == IF keyed /\ t.key > 0 THEN [t EXCEPT !.key = @ + n] ELSE t
  IN WithKids(t1, [i \in DOMAIN Kids(t) |-> CorrectKeys(Kids(t)[i], n)])

\* What joinktables adds to the keys of the second tree, and the new table.
SecondKept(k1, k2) == k1.vals = <<>> \/ k2.vals = <<>> \/ k1.id = k2.id
JoinShift(k1, k2)  == IF SecondKept(k1, k2) THEN 0 ELSE Len(k1.vals)
JoinTables(k1, k2, id) ==
  IF k2.vals = <<>> \/ k1.id = k2.id THEN k1
  ELSE IF k1.vals = <<>> THEN k2
  ELSE [id |-> id, vals |-> k1.vals \o k2.vals]

----------------------------------------------------------------------------
\* Analyses.

\* hascaptures and fixedlen follow a call only once (callrecursive): 'seen'
\* holds the rules being visited.
RECURSIVE HasCaptures(_, _, _)
HasCaptures(t, g, seen) ==
  CASE t.tag \in {"Capture", "RunTime"} -> TRUE
    [] t.tag = "Call" -> t.rule \notin seen /\ HasCaptures(g[t.rule], g, seen \union {t.rule})
    [] t.tag = "Grammar" -> HasCaptures(t.rules[1], t.rules, {})
    [] OTHER -> \E i \in DOMAIN Kids(t) : HasCaptures(Kids(t)[i], g, seen)

RECURSIVE FixedLen(_, _, _)
FixedLen(t, g, seen) ==
  CASE t.tag = "Set" -> 1
    [] t.tag \in {"True", "False", "Not", "And", "Behind"} -> 0
    [] t.tag \in {"Rep", "RunTime", "OpenCall", "Throw"} -> -1
    [] t.tag = "Capture" -> FixedLen(t.p, g, seen)
    [] t.tag = "Grammar" -> FixedLen(t.rules[1], t.rules, {})
    [] t.tag = "Call" -> IF t.rule \in seen THEN -1 ELSE FixedLen(g[t.rule], g, seen \union {t.rule})
    [] t.tag \in {"Seq", "Choice"} ->
         LET n1 == FixedLen(t.p, g, seen)
             n2 == FixedLen(t.q, g, seen)
         IN IF n1 < 0 \/ n2 < 0 THEN -1
            ELSE IF t.tag = "Seq" THEN n1 + n2
            ELSE IF n1 = n2 THEN n1 ELSE -1

\* checkaux: 'nofail' asks whether the tree cannot fail, else whether it is
\* nullable.
RECURSIVE CheckAux(_, _, _)
CheckAux(t, g, nofail) ==
  CASE t.tag \in {"Set", "False", "OpenCall", "Throw"} -> FALSE
    [] t.tag \in {"Rep", "True"} -> TRUE
    [] t.tag \in {"Not", "Behind"} -> ~nofail
    [] t.tag = "And" -> ~nofail \/ CheckAux(t.p, g, nofail)
    [] t.tag = "RunTime" -> ~nofail /\ CheckAux(t.p, g, nofail)
    [] t.tag = "Seq" -> CheckAux(t.p, g, nofail) /\ CheckAux(t.q, g, nofail)
    [] t.tag = "Choice" -> CheckAux(t.q, g, nofail) \/ CheckAux(t.p, g, nofail)
    [] t.tag = "Capture" -> CheckAux(t.p, g, nofail)
    [] t.tag = "Grammar" -> CheckAux(t.rules[1], t.rules, nofail)
    [] t.tag = "Call" -> CheckAux(g[t.rule], g, nofail)
\* (mutant) the two questions confused
NullableNoFail(t, g) == CheckAux(t, g, TRUE)

NoFail(t, g)   == CheckAux(t, g, TRUE)
Nullable(t, g) == CheckAux(t, g, FALSE)

\* getfirst: the characters a match can start with and why no test may use
\* them ("eps": the tree accepts the empty string, "rt": a function runs).
RECURSIVE GetFirst(_, _, _)
GetFirst(t, follow, g) ==
  CASE t.tag = "Set" -> [cs |-> t.cs, e |-> {}]
    [] t.tag = "True" -> [cs |-> follow, e |-> {"eps"}]
    [] t.tag = "False" -> [cs |-> {}, e |-> {}]
    [] t.tag = "Throw" -> [cs |-> Chars, e |-> {"eps"}]
    [] t.tag = "Choice" ->
         LET f1 == GetFirst(t.p, follow, g)  f2 == GetFirst(t.q, follow, g)
         IN [cs |-> f1.cs \union f2.cs, e |-> f1.e \union f2.e]
    [] t.tag = "Seq" ->
         IF ~Nullable(t.p, g) THEN GetFirst(t.p, Chars, g)
         ELSE LET f2 == GetFirst(t.q, follow, g)
                  f1 == GetFirst(t.p, f2.cs, g)
              IN [cs |-> f1.cs,
                  e  |-> IF f1.e = {} THEN {}
                         ELSE IF "rt" \in f1.e \union f2.e THEN {"rt"} ELSE f2.e]
    [] t.tag = "Rep" -> [cs |-> GetFirst(t.p, follow, g).cs \union follow, e |-> {"eps"}]
    [] t.tag = "Capture" -> GetFirst(t.p, follow, g)
    [] t.tag = "Grammar" -> GetFirst(t.rules[1], follow, t.rules)
    [] t.tag = "Call" -> GetFirst(g[t.rule], follow, g)
    [] t.tag = "RunTime" ->
         LET f == GetFirst(t.p, Chars, g) IN [cs |-> f.cs, e |-> IF f.e = {} THEN {} ELSE {"rt"}]
    [] t.tag = "And" ->
         LET f == GetFirst(t.p, follow, g) IN [cs |-> f.cs \intersect follow, e |-> f.e]
    [] t.tag = "Not" /\ t.p.tag = "Set" -> [cs |-> Chars \ t.p.cs, e |-> {"eps"}]
    [] t.tag \in {"Not", "Behind"} /\ t.p.tag # "Set" ->
         [cs |-> follow, e |-> GetFirst(t.p, follow, g).e \union {"eps"}]
    [] t.tag = "Behind" /\ t.p.tag = "Set" -> [cs |-> follow, e |-> {"eps"}]

\* The tree can fail only depending on the next character.
RECURSIVE HeadFail(_, _)
HeadFail(t, g) ==
  CASE t.tag \in {"Set", "False"} -> TRUE
    [] t.tag \in {"True", "Rep", "RunTime", "Not", "Behind", "Throw"} -> FALSE
    [] t.tag \in {"Capture", "And"} -> HeadFail(t.p, g)
    [] t.tag = "Grammar" -> HeadFail(t.rules[1], t.rules)
    [] t.tag = "Call" -> HeadFail(g[t.rule], g)
    [] t.tag = "Seq" -> NoFail(t.q, g) /\ HeadFail(t.p, g)
    [] t.tag = "Choice" -> HeadFail(t.p, g) /\ HeadFail(t.q, g)

RECURSIVE NeedFollow(_)
NeedFollow(t) ==
  CASE t.tag \in {"Choice", "Rep"} -> TRUE
    [] t.tag = "Capture" -> NeedFollow(t.p)
    [] t.tag = "Seq" -> NeedFollow(t.q)
    [] OTHER -> FALSE

----------------------------------------------------------------------------
\* The last changes to a tree before it is compiled, or becomes a grammar.

RECURSIVE CorrectAssociativity(_)
CorrectAssociativity(t) ==
  IF t.p.tag # t.tag THEN t
  ELSE CorrectAssociativity(Two(t.tag, t.p.p, Two(t.tag, t.p.q, t.q)))

\* The number of the rule a name refers to (0 if there is none).
RuleOf(name, names) ==
  IF \E i \in DOMAIN names : names[i] = name
  THEN CHOOSE i \in DOMAIN names : names[i] = name ELSE 0

\* finalfix: 'names' are those of the rules, <<>> outside a grammar; 'k' is
\* the table of the pattern.  A call of a missing rule stays open (the code
\* raises an error: Undefined).
RECURSIVE FinalFix(_, _, _)
FinalFix(t, names, k) ==
  CASE t.tag = "Grammar" -> t
    [] t.tag = "OpenCall" ->
         LET n == RuleOf(k[t.key], names)
         IN IF n = 0 THEN t ELSE [tag |-> "Call", key |-> t.key, rule |-> n]
    [] t.tag = "Throw" -> IF names = <<>> THEN t ELSE [t EXCEPT !.rule = RuleOf(k[t.key], names)]
    [] t.tag \in {"Seq", "Choice"} ->
         LET c == CorrectAssociativity(t)
         IN [c EXCEPT !.p = FinalFix(@, names, k), !.q = FinalFix(@, names, k)]
    [] t.tag \notin {"Grammar", "OpenCall", "Throw", "Seq", "Choice"} ->
         WithKids(t, [i \in DOMAIN Kids(t) |-> FinalFix(Kids(t)[i], names, k)])

RECURSIVE Undefined(_)
Undefined(t) == t.tag = "OpenCall" \/ \E i \in DOMAIN Kids(t) : Undefined(Kids(t)[i])

\* The rules that have a key: those some call refers to, and the first.
RECURSIVE Called(_)
Called(t) ==
  IF t.tag = "Call" THEN {t.rule}
  ELSE IF t.tag = "Grammar" THEN {}
  ELSE UNION {Called(Kids(t)[i]) : i \in DOMAIN Kids(t)}
Used(g) == {1} \union UNION {Called(g[i]) : i \in DOMAIN g}

\* verifyrule: "left" if a rule may come back to itself without advancing
\* (the code finds out when its path is longer than MAXRULES), else whether
\* the tree is nullable, or 'nb' holds.
RECURSIVE VerifyRule(_, _, _, _)
VerifyRule(t, g, passed, nb) ==
  CASE t.tag \in {"Set", "False", "Throw"} -> IF nb THEN "yes" ELSE "no"
    [] t.tag \in {"True", "Behind"} -> "yes"
    [] t.tag \in {"Not", "And", "Rep"} -> VerifyRule(t.p, g, passed, TRUE)
    [] t.tag \in {"Capture", "RunTime"} -> VerifyRule(t.p, g, passed, nb)
    [] t.tag = "Call" ->
         IF t.rule \in passed THEN "left"
         ELSE VerifyRule(g[t.rule], g, passed \union {t.rule}, nb)
    [] t.tag = "Seq" ->
         LET v == VerifyRule(t.p, g, passed, FALSE)
         IN IF v = "left" THEN v
            ELSE IF v = "no" THEN IF nb THEN "yes" ELSE "no"
            ELSE VerifyRule(t.q, g, passed, nb)
    [] t.tag = "Choice" ->
         LET v == VerifyRule(t.p, g, passed, nb)
         IN IF v = "left" THEN v ELSE VerifyRule(t.q, g, passed, v = "yes")
    [] t.tag = "Grammar" -> IF Nullable(t, g) THEN "yes" ELSE "no"

RECURSIVE CheckLoops(_, _)
CheckLoops(t, g) ==
  IF t.tag = "Grammar" THEN FALSE
  ELSE \/ t.tag = "Rep" /\ Nullable(t.p, g)
       \/ \E i \in DOMAIN Kids(t) : CheckLoops(Kids(t)[i], g)

\* verifygrammar
Verified(g) ==
  /\ \A i \in Used(g) : VerifyRule(g[i], g, {}, FALSE) # "left"
  /\ \A i \in Used(g) : ~CheckLoops(g[i], g)
=============================================================================
