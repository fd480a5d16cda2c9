---------------------------- MODULE LpegMeaning ----------------------------
(***************************************************************************)
(* What a pattern means: the expression the program wrote, read as a       *)
(* parsing expression grammar with labels and captures, with no tree, no   *)
(* code and no table of values.  This is the specification that compiled   *)
(* patterns are checked against.  Captures are trees: [kind, val, b, e,    *)
(* kids].                                                                  *)
(***************************************************************************)
EXTENDS LpegCaptures

\* Expressions, written as the constructors of the library.
XSet(cs)     == [x |-> "set", cs |-> cs]
XEmpty       == [x |-> "true"]
XNever       == [x |-> "false"]
X1(op, a)    == [x |-> op, a |-> a]                    \* not and behind
X2(op, a, b) == [x |-> op, a |-> a, b |-> b]           \* seq choice sub
XStar(a, n)  == [x |-> "star", a |-> a, n |-> n]
XName(op, name)    == [x |-> op, name |-> name]        \* rule throw
XCap(kind, val, a) == [x |-> "cap", kind |-> kind, val |-> val, a |-> a]
XRun(val, a)       == [x |-> "runtime", val |-> val, a |-> a]
XGrammar(rules)    == [x |-> "grammar", rules |-> rules]  \* of [name, exp]

\* Results.  'r' is "ok", "fail", "throw" or "error".
Ok(s, caps)   == [r |-> "ok", s |-> s, caps |-> caps, label |-> "none"]
Failed        == [r |-> "fail", s |-> 0, caps |-> <<>>, label |-> "none"]
Label(l, s)   == [r |-> "throw", s |-> s, caps |-> <<>>, label |-> l]
Raised        == [r |-> "error", s |-> 0, caps |-> <<>>, label |-> "none"]

HasRule(g, name) == \E i \in DOMAIN g : g[i].name = name
RuleBody(g, name) == g[CHOOSE i \in DOMAIN g : g[i].name = name].exp

----------------------------------------------------------------------------
\* Values of capture trees.  'prev' holds the captures that ended before, the
\* last one at the end: what a back reference may find.
RECURSIVE ValuesOf(_, _, _)
RECURSIVE ListValues(_, _, _, _)
Listing(subject, caps, prev, vals, r) ==
  IF r.err THEN r ELSE ListValues(subject, Tail(caps), Append(prev, caps[1]), vals \o r.vals)
ListValues(subject, caps, prev, vals) ==
  IF caps = <<>> THEN Result(vals, 0)
  ELSE Listing(subject, caps, prev, vals, ValuesOf(subject, caps[1], prev))
Kids0(subject, c, prev) == ListValues(subject, c.kids, prev, <<>>)

Whole(subject, c) == Str(Substr(subject, c.b, c.e))
OrWhole(subject, c, r) ==
  IF r.err \/ r.vals # <<>> THEN r ELSE Result(<<Whole(subject, c)>>, 0)
Inner(subject, c, prev) == OrWhole(subject, c, Kids0(subject, c, prev))

\* Fields of a table: named groups give fields, the others a list.
RECURSIVE TableOf(_, _, _, _, _)
IsNamed(c) == c.kind = "group" /\ c.val # "anon"
WithField(subject, caps, prev, list, fields, r) ==
  IF r.err THEN r
  ELSE TableOf(subject, Tail(caps), Append(prev, caps[1]), list,
               {f \in fields : f.name # caps[1].val} \union {[name |-> caps[1].val, val |-> r.vals[1]]})
WithItems(subject, caps, prev, list, fields, r) ==
  IF r.err THEN r
  ELSE TableOf(subject, Tail(caps), Append(prev, caps[1]), list \o r.vals, fields)
TableOf(subject, caps, prev, list, fields) ==
  IF caps = <<>> THEN Result(<<[list |-> list, fields |-> fields]>>, 0)
  ELSE IF IsNamed(caps[1])
  THEN WithField(subject, caps, prev, list, fields, Inner(subject, caps[1], prev))
  ELSE WithItems(subject, caps, prev, list, fields, ValuesOf(subject, caps[1], prev))

RECURSIVE FoldOf(_, _, _, _, _)
Folding(subject, caps, prev, f, acc, r) ==
  IF r.err THEN r
  ELSE FoldOf(subject, Tail(caps), Append(prev, caps[1]), f, [fn |-> f, args |-> <<acc>> \o r.vals])
FoldOf(subject, caps, prev, f, acc) ==
  IF caps = <<>> THEN Result(<<acc>>, 0)
  ELSE Folding(subject, caps, prev, f, acc, ValuesOf(subject, caps[1], prev))
FoldFirst(subject, c, prev, r) ==
  IF r.err \/ r.vals = <<>> THEN Error(0)
  ELSE FoldOf(subject, Tail(c.kids), Append(prev, c.kids[1]), c.val, r.vals[1])

\* The text of a substitution: each capture inside replaced by its first
\* value, if it has one.
NoString(r) == r.err \/ (r.vals # <<>> /\ ~IsString(r.vals[1]))
RECURSIVE SubstOf(_, _, _, _, _, _)
Substituted(subject, caps, prev, at, e, out, r) ==
  IF NoString(r) THEN Error(0)
  ELSE IF r.vals = <<>>
  THEN SubstOf(subject, Tail(caps), Append(prev, caps[1]), caps[1].b, e,
               out \o Substr(subject, at, caps[1].b))
  ELSE SubstOf(subject, Tail(caps), Append(prev, caps[1]), caps[1].e, e,
               out \o Substr(subject, at, caps[1].b) \o AsString(r.vals[1]))
SubstOf(subject, caps, prev, at, e, out) ==
  IF caps = <<>> THEN Result(<<Str(out \o Substr(subject, at, e))>>, 0)
  ELSE Substituted(subject, caps, prev, at, e, out, ValuesOf(subject, caps[1], prev))

\* The captures that %0, %1 ... of a format stand for: the whole, then those
\* inside, simple ones before what they hold.
RECURSIVE FormatCaps(_, _)
FormatCaps(caps, prev) ==
  IF caps = <<>> THEN <<>>
  ELSE <<[c |-> caps[1], prev |-> prev]>>
       \o (IF caps[1].kind = "simple" THEN FormatCaps(caps[1].kids, prev) ELSE <<>>)
       \o FormatCaps(Tail(caps), Append(prev, caps[1]))
RECURSIVE FormatOf(_, _, _, _)
FormatWith(subject, fmt, items, out, r) ==
  IF NoString(r) \/ r.vals = <<>> THEN Error(0)
  ELSE FormatOf(subject, Tail(fmt), items, out \o AsString(r.vals[1]))
FormatOf(subject, fmt, items, out) ==
  IF fmt = <<>> THEN Result(<<Str(out)>>, 0)
  ELSE IF fmt[1] >= 0 THEN FormatOf(subject, Tail(fmt), items, Append(out, fmt[1]))
  ELSE IF -fmt[1] > Len(items) THEN Error(0)
  ELSE FormatWith(subject, fmt, items, out,
                  IF items[-fmt[1]].c.kind = "simple" \/ -fmt[1] = 1
                  THEN Result(<<Whole(subject, items[-fmt[1]].c)>>, 0)
                  ELSE ValuesOf(subject, items[-fmt[1]].c, items[-fmt[1]].prev))

\* The last group of a name that ended before.
BackOf(prev, name) == {i \in DOMAIN prev : prev[i].kind = "group" /\ prev[i].val = name}
Latest(is) == CHOOSE i \in is : \A j \in is : j <= i
BackTo(subject, prev, is) ==
  IF is = {} THEN Error(0)
  ELSE Inner(subject, prev[Latest(is)], SubSeq(prev, 1, Latest(is) - 1))

Prefixed(v, r)   == IF r.err THEN r ELSE Result(<<v>> \o r.vals, 0)
Called1(f, r)    == IF r.err THEN r ELSE Result(Applied(f, r.vals), 0)
Queried(f, r)    == IF r.err THEN r ELSE Result(Applied(f, First(r.vals)), 0)
Numbered(n, r)   == IF r.err THEN r ELSE IF Len(r.vals) < n THEN Error(0) ELSE Result(<<r.vals[n]>>, 0)
ValuesOf(subject, c, prev) ==
  CASE c.kind = "position" -> Result(<<Num(c.b + 1)>>, 0)
    [] c.kind = "const"    -> Result(<<c.val>>, 0)
    [] c.kind = "dynamic"  -> Result(c.val, 0)
    [] c.kind = "simple"   -> Prefixed(Whole(subject, c), Kids0(subject, c, prev))
    [] c.kind = "group"    -> IF c.val # "anon" THEN Result(<<>>, 0) ELSE Inner(subject, c, prev)
    [] c.kind = "backref"  -> BackTo(subject, prev, BackOf(prev, c.val))
    [] c.kind = "table"    -> TableOf(subject, c.kids, prev, <<>>, {})
    [] c.kind = "function" -> Called1(c.val, Inner(subject, c, prev))
    [] c.kind = "query"    -> Queried(c.val, Inner(subject, c, prev))
    [] c.kind = "num"      ->
         IF c.val = 0 THEN Result(<<>>, 0) ELSE Numbered(c.val, Inner(subject, c, prev))
    [] c.kind = "fold"     ->
         IF c.kids = <<>> THEN Error(0)
         ELSE FoldFirst(subject, c, prev, ValuesOf(subject, c.kids[1], prev))
    [] c.kind = "subst"    -> SubstOf(subject, c.kids, prev, c.b, c.e, <<>>)
    [] c.kind = "string"   ->
         FormatOf(subject, c.val, <<[c |-> c, prev |-> prev]>> \o FormatCaps(c.kids, prev), <<>>)

----------------------------------------------------------------------------
\* Matching at position s.  'in' is what is around: the rules, whether a
\* predicate is being tried, and the subject; 'prev' the captures made so far.
RECURSIVE Eval(_, _, _, _)
RECURSIVE Greedy(_, _, _, _, _)
RECURSIVE Times(_, _, _, _, _, _)

After(caps, r) == IF r.r = "ok" THEN Ok(r.s, caps \o r.caps) ELSE r

\* As many as there are, at most n; at least n.
GreedyOn(a, n, in, s, prev, r) ==
  IF r.r = "fail" THEN Ok(s, <<>>)
  ELSE IF r.r # "ok" THEN r
  ELSE After(r.caps, Greedy(a, n - 1, in, r.s, prev \o r.caps))
Greedy(a, n, in, s, prev) ==
  GreedyOn(a, n, in, s, prev, IF n = 0 THEN Failed ELSE Eval(a, in, s, prev))
TimesOn(a, n, max, in, prev, r) ==
  IF r.r # "ok" THEN r ELSE After(r.caps, Times(a, n - 1, max, in, r.s, prev \o r.caps))
Times(a, n, max, in, s, prev) ==
  IF n = 0 THEN Greedy(a, max, in, s, prev)
  ELSE TimesOn(a, n, max, in, prev, Eval(a, in, s, prev))

Node(kind, val, b, e, kids) == [kind |-> kind, val |-> val, b |-> b, e |-> e, kids |-> kids]
AsNode(x, s, r) ==
  IF r.r # "ok" THEN r ELSE Ok(r.s, <<Node(x.kind, x.val, s, r.s, r.caps)>>)

\* A function called while matching.
RunsTo(subject, f, s, e, v) ==
  CASE v.err -> Raised
    [] ~v.err /\ f = "refuse" -> Failed
    [] ~v.err /\ f = "accept" -> Ok(e, <<>>)
    [] ~v.err /\ f = "value"  -> Ok(e, <<Node("dynamic", <<[fn |-> f, args |-> v.vals]>>, s, e, <<>>)>>)
    [] ~v.err /\ f = "advance" ->
         IF e = Len(subject) THEN Raised ELSE Ok(e + 1, <<Node("dynamic", v.vals, s, e + 1, <<>>)>>)
RunMeaning(subject, f, s, r, prev) ==
  IF r.r # "ok" THEN r
  ELSE RunsTo(subject, f, s, r.s, Inner(subject, Node("group", "anon", s, r.s, r.caps), prev))

ThenSecond(x, in, prev, r) ==
  IF r.r # "ok" THEN r ELSE After(r.caps, Eval(x.b, in, r.s, prev \o r.caps))
OrSecond(x, in, s, prev, r) == IF r.r = "fail" THEN Eval(x.b, in, s, prev) ELSE r
NotThen(r, then)  == IF r.r = "error" THEN r ELSE IF r.r = "ok" THEN Failed ELSE then
AndThen(r, s)     == IF r.r = "error" THEN r ELSE IF r.r = "ok" THEN Ok(s, <<>>) ELSE Failed
BackAt(r, s)      == IF r.r = "ok" THEN Ok(s, <<>>) ELSE r
Trying(in) == [in EXCEPT !.inpred = TRUE]
Eval(x, in, s, prev) ==
  CASE x.x = "set"   ->
         IF s < Len(in.subject) /\ in.subject[s + 1] \in x.cs THEN Ok(s + 1, <<>>) ELSE Failed
    [] x.x = "true"  -> Ok(s, <<>>)
    [] x.x = "false" -> Failed
    [] x.x = "seq"   -> ThenSecond(x, in, prev, Eval(x.a, in, s, prev))
    [] x.x = "choice" -> OrSecond(x, in, s, prev, Eval(x.a, in, s, prev))
    [] x.x = "sub"   -> NotThen(Eval(x.b, Trying(in), s, prev), Eval(x.a, in, s, prev))
    [] x.x = "not"   -> NotThen(Eval(x.a, Trying(in), s, prev), Ok(s, <<>>))
    [] x.x = "and"   -> AndThen(Eval(x.a, Trying(in), s, prev), s)
    [] x.x = "behind" -> BackAt(IF s < x.n THEN Failed ELSE Eval(x.a, in, s - x.n, prev), s)
    [] x.x = "star"  ->
         IF x.n >= 0 THEN Times(x.a, x.n, -1, in, s, prev) ELSE Greedy(x.a, -x.n, in, s, prev)
    [] x.x = "throw" /\ (in.inpred \/ ~HasRule(in.rules, x.name)) -> Label(x.name, s)
    [] x.x = "rule" \/ (x.x = "throw" /\ ~in.inpred /\ HasRule(in.rules, x.name)) ->
         Eval(RuleBody(in.rules, x.name), in, s, prev)
    [] x.x = "cap"   -> AsNode(x, s, Eval(x.a, in, s, prev))
    [] x.x = "runtime" -> RunMeaning(in.subject, x.val, s, Eval(x.a, in, s, prev), prev)
    [] x.x = "grammar" -> Eval(x.rules[1].exp, [in EXCEPT !.rules = x.rules], s, prev)

\* What the program sees of a match of the whole pattern.
Matched(x, subject) == Eval(x, [rules |-> <<>>, inpred |-> FALSE, subject |-> subject], 0, <<>>)
SeenValues(r, s) ==
  IF r.err THEN [err |-> TRUE] ELSE [vals |-> IF r.vals = <<>> THEN <<Num(s + 1)>> ELSE r.vals]
Seen(r, subject) ==
  CASE r.r = "ok"    -> SeenValues(ListValues(subject, r.caps, <<>>, <<>>), r.s)
    [] r.r = "fail"  -> [fail |-> TRUE]
    [] r.r = "throw" -> [label |-> r.label, at |-> r.s]
    [] r.r = "error" -> [stop |-> "error"]
Meaning(x, subject) == Seen(Matched(x, subject), subject)
=============================================================================
