--------------------------- MODULE LpegCaptures ---------------------------
(***************************************************************************)
(* From the list of captures of a match to the values it gives             *)
(* (lpeglabel/lpcap.c).  The list is flat: an entry is open (siz = 0),     *)
(* full (siz = its length + 1) or a close.  A context holds the list, the  *)
(* ktable, the subject and the values that functions have put on the Lua   *)
(* stack.  A value is a record with one field, named for its type; a       *)
(* string is a sequence of characters and a number in a string stands as   *)
(* one character.                                                          *)
(***************************************************************************)
EXTENDS Integers, Sequences

MaxStrCaps == 10

Str(s)         == [str |-> s]
Num(n)         == [num |-> n]
Digits(n)      == 1000 + n
Substr(s, b, e) == SubSeq(s, b + 1, e)       \* positions b .. e count from 0
IsString(v)    == DOMAIN v \in {{"str"}, {"num"}}
AsString(v)    == IF DOMAIN v = {"num"} THEN <<Digits(v.num)>> ELSE v.str

\* The result of an evaluation: values, the next entry, and whether an error
\* was raised.
Result(vals, next) == [vals |-> vals, next |-> next, err |-> FALSE]
Error(next)        == [vals |-> <<>>, next |-> next, err |-> TRUE]
First(vals)        == IF Len(vals) > 1 THEN <<vals[1]>> ELSE vals

IsClose(c)   == c.kind = "close"
IsFull(c)    == c.siz # 0
CloseAddr(c) == c.s + c.siz - 1

\* findopen: the open entry of the close at i.
RECURSIVE OpenBefore(_, _, _)
OpenBefore(caps, i, n) ==
  IF IsClose(caps[i - 1]) THEN OpenBefore(caps, i - 1, n + 1)
  ELSE IF IsFull(caps[i - 1]) THEN OpenBefore(caps, i - 1, n)
  ELSE IF n = 0 THEN i - 1 ELSE OpenBefore(caps, i - 1, n - 1)
FindOpen(caps, i) == OpenBefore(caps, i, 0)

\* nextcap: the entry after the capture at i.
RECURSIVE CloseAfter(_, _, _)
CloseAfter(caps, i, n) ==
  IF IsClose(caps[i]) THEN IF n = 0 THEN i ELSE CloseAfter(caps, i + 1, n - 1)
  ELSE CloseAfter(caps, i + 1, IF IsFull(caps[i]) THEN n ELSE n + 1)
NextCap(caps, i) == IF IsFull(caps[i]) THEN i + 1 ELSE CloseAfter(caps, i + 1, 0) + 1

\* findback: the last complete group with the given name before entry i, not
\* inside another capture (0 if there is none: an error).
RECURSIVE FindBack(_, _, _)
FindBack(cx, i, name) ==
  LET j == IF IsClose(cx.caps[i - 1]) THEN FindOpen(cx.caps, i - 1) ELSE i - 1 IN
  IF i = 1 THEN 0
  ELSE IF /\ IsClose(cx.caps[i - 1]) \/ IsFull(cx.caps[i - 1])
          /\ cx.caps[j].kind = "group" /\ cx.caps[j].idx # 0 /\ cx.k[cx.caps[j].idx] = name
  THEN j ELSE FindBack(cx, j, name)

\* What the functions and tables of a program make of values; "none" is a
\* function that returns nothing and a table that lacks the key.
Applied(f, vals) == IF f = "none" THEN <<>> ELSE <<[fn |-> f, args |-> vals]>>

----------------------------------------------------------------------------
RECURSIVE PushCapture(_, _)

\* The values of captures from entry i to the close of the one around them.
RECURSIVE Siblings(_, _, _)
Siblings(cx, i, vals) ==
  IF IsClose(cx.caps[i]) THEN Result(vals, i)
  ELSE LET r == PushCapture(cx, i)
       IN IF r.err THEN r ELSE Siblings(cx, r.next, vals \o r.vals)

\* pushnestedvalues
WithWhole(cx, i, r, extra) ==
  IF r.err THEN r
  ELSE Result(IF extra \/ r.vals = <<>>
              THEN Append(r.vals, Str(Substr(cx.subject, cx.caps[i].s, cx.caps[r.next].s)))
              ELSE r.vals, r.next + 1)
Nested(cx, i, extra) ==
  IF IsFull(cx.caps[i])
  THEN Result(<<Str(Substr(cx.subject, cx.caps[i].s, CloseAddr(cx.caps[i])))>>, i + 1)
  ELSE WithWhole(cx, i, Siblings(cx, i + 1, <<>>), extra)

\* tablecap: a list and the fields that named groups set.
RECURSIVE TableFrom(_, _, _, _)
Named(cx, r, list, fields, name) ==
  IF r.err THEN r
  ELSE TableFrom(cx, r.next, list,
                 {f \in fields : f.name # name} \union {[name |-> name, val |-> r.vals[1]]})
Listed(cx, r, list, fields) ==
  IF r.err THEN r ELSE TableFrom(cx, r.next, list \o r.vals, fields)
TableFrom(cx, i, list, fields) ==
  LET c == cx.caps[i] IN
  IF IsClose(c) THEN Result(<<[list |-> list, fields |-> fields]>>, i + 1)
  ELSE IF c.kind = "group" /\ c.idx # 0
  THEN Named(cx, Nested(cx, i, FALSE), list, fields, cx.k[c.idx])
  ELSE Listed(cx, PushCapture(cx, i), list, fields)
TableCap(cx, i) ==
  IF IsFull(cx.caps[i]) THEN Result(<<[list |-> <<>>, fields |-> {}]>>, i + 1)
  ELSE TableFrom(cx, i + 1, <<>>, {})

\* foldcap
RECURSIVE FoldFrom(_, _, _, _)
FoldStep(cx, r, f, acc) ==
  IF r.err THEN r ELSE FoldFrom(cx, r.next, f, [fn |-> f, args |-> <<acc>> \o r.vals])
FoldFrom(cx, i, f, acc) ==
  IF IsClose(cx.caps[i]) THEN Result(<<acc>>, i + 1)
  ELSE FoldStep(cx, PushCapture(cx, i), f, acc)
FoldInit(cx, r, f) ==
  IF r.err \/ r.vals = <<>> THEN Error(r.next) ELSE FoldFrom(cx, r.next, f, r.vals[1])
FoldCap(cx, i) ==
  IF IsFull(cx.caps[i]) \/ IsClose(cx.caps[i + 1]) THEN Error(i)
  ELSE FoldInit(cx, PushCapture(cx, i + 1), cx.k[cx.caps[i].idx])

\* numcap
Selected(r, n) ==
  IF r.err THEN r ELSE IF Len(r.vals) < n THEN Error(r.next) ELSE Result(<<r.vals[n]>>, r.next)
NumCap(cx, i) ==
  IF cx.caps[i].idx = 0 THEN Result(<<>>, NextCap(cx.caps, i))
  ELSE Selected(Nested(cx, i, FALSE), cx.caps[i].idx)

\* backrefcap
Resumed(r, i) == IF r.err THEN r ELSE Result(r.vals, i + 1)
BackRefTo(cx, i, j) == IF j = 0 THEN Error(i) ELSE Resumed(Nested(cx, j, FALSE), i)

\* functioncap, querycap
FunctionOf(r, f) == IF r.err THEN r ELSE Result(Applied(f, r.vals), r.next)
QueryOf(r, f) == IF r.err THEN r ELSE Result(Applied(f, First(r.vals)), r.next)

\* getstrcaps: the captures that %0, %1 ... of a format stand for, as
\* [str, s, e] or [at].
RECURSIVE StrCapsFrom(_, _, _)
RECURSIVE StrCaps(_, _, _)
StrCapsFrom(cx, i, cps) ==
  IF IsClose(cx.caps[i]) THEN [cps |-> cps, next |-> i + 1]
  ELSE IF Len(cps) >= MaxStrCaps THEN StrCapsFrom(cx, NextCap(cx.caps, i), cps)
  ELSE IF cx.caps[i].kind = "simple"
  THEN LET r == StrCaps(cx, i, cps) IN StrCapsFrom(cx, r.next, r.cps)
  ELSE StrCapsFrom(cx, NextCap(cx.caps, i), Append(cps, [at |-> i]))
StrCaps(cx, i, cps) ==
  LET r == IF IsFull(cx.caps[i]) THEN [cps |-> Append(cps, [at |-> i]), next |-> i + 1]
           ELSE StrCapsFrom(cx, i + 1, Append(cps, [at |-> i]))
      s == Str(Substr(cx.subject, cx.caps[i].s, CloseAddr(cx.caps[r.next - 1])))
  IN [r EXCEPT !.cps[Len(cps) + 1] = s]

\* addonestring: the string a capture stands for ('has': it had a value).
RECURSIVE OneString(_, _)

\* stringcap: each item of a format is a character or -1 - n for %n.
RECURSIVE Formatted(_, _, _, _)
FormatItem(cx, fmt, cps, r, out) ==
  IF r.err \/ ~r.has THEN Error(0) ELSE Formatted(cx, Tail(fmt), cps, out \o r.s)
Formatted(cx, fmt, cps, out) ==
  IF fmt = <<>> THEN Result(<<Str(out)>>, 0)
  ELSE IF fmt[1] >= 0 THEN Formatted(cx, Tail(fmt), cps, Append(out, fmt[1]))
  ELSE IF -fmt[1] > Len(cps) THEN Error(0)
  ELSE IF DOMAIN cps[-fmt[1]] = {"str"} THEN Formatted(cx, Tail(fmt), cps, out \o cps[-fmt[1]].str)
  ELSE FormatItem(cx, fmt, cps, OneString(cx, cps[-fmt[1]].at), out)
StringBy(cx, i, c) == [Formatted(cx, cx.k[cx.caps[i].idx], c.cps, <<>>) EXCEPT !.next = c.next]
StringCap(cx, i)   == StringBy(cx, i, StrCaps(cx, i, <<>>))

\* substcap
RECURSIVE SubstFrom(_, _, _, _)
SubstStep(cx, i, curr, out, r) ==
  IF r.err THEN Error(i)
  ELSE SubstFrom(cx, r.next, IF r.has THEN CloseAddr(cx.caps[r.next - 1]) ELSE cx.caps[i].s,
                 out \o Substr(cx.subject, curr, cx.caps[i].s) \o r.s)
SubstFrom(cx, i, curr, out) ==
  IF IsClose(cx.caps[i])
  THEN Result(<<Str(out \o Substr(cx.subject, curr, cx.caps[i].s))>>, i + 1)
  ELSE SubstStep(cx, i, curr, out, OneString(cx, i))
SubstCap(cx, i) ==
  IF IsFull(cx.caps[i]) THEN Nested(cx, i, FALSE) ELSE SubstFrom(cx, i + 1, cx.caps[i].s, <<>>)

AsOne(r) ==
  IF r.err \/ (r.vals # <<>> /\ ~IsString(r.vals[1]))
  THEN [err |-> TRUE, has |-> FALSE, s |-> <<>>, next |-> r.next]
  ELSE [err |-> FALSE, has |-> r.vals # <<>>, next |-> r.next,
        s |-> IF r.vals = <<>> THEN <<>> ELSE AsString(r.vals[1])]
OneString(cx, i) == AsOne(PushCapture(cx, i))

PushCapture(cx, i) ==
  LET c == cx.caps[i] IN
  CASE c.kind = "position" -> Result(<<Num(c.s + 1)>>, i + 1)
    [] c.kind = "const"    -> Result(<<cx.k[c.idx]>>, i + 1)
    [] c.kind = "simple"   ->
         LET r == Nested(cx, i, TRUE)
         IN IF r.err THEN r
            ELSE Result(<<r.vals[Len(r.vals)]>> \o SubSeq(r.vals, 1, Len(r.vals) - 1), r.next)
    [] c.kind = "runtime"  -> Result(<<cx.dyn[c.idx]>>, i + 1)
    [] c.kind = "string"   -> StringCap(cx, i)
    [] c.kind = "subst"    -> SubstCap(cx, i)
    [] c.kind = "group"    ->
         IF c.idx = 0 THEN Nested(cx, i, FALSE) ELSE Result(<<>>, NextCap(cx.caps, i))
    [] c.kind = "backref"  -> BackRefTo(cx, i, FindBack(cx, i, cx.k[c.idx]))
    [] c.kind = "table"    -> TableCap(cx, i)
    [] c.kind = "function" -> FunctionOf(Nested(cx, i, FALSE), cx.k[c.idx])
    [] c.kind = "num"      -> NumCap(cx, i)
    [] c.kind = "query"    -> QueryOf(Nested(cx, i, FALSE), cx.k[c.idx])
    [] c.kind = "fold"     -> FoldCap(cx, i)

\* getcaptures: all values, or the final position when there are none.
GetCaptures(cx, final) ==
  LET r == Siblings(cx, 1, <<>>)
  IN IF r.err THEN [err |-> TRUE]
     ELSE [vals |-> IF r.vals = <<>> THEN <<Num(final + 1)>> ELSE r.vals]
=============================================================================
