------------------------------- MODULE LuaStr -------------------------------
(***************************************************************************)
(* string.find, match, gmatch, gsub and sub (src/src/lua/lstrlib.c): a     *)
(* backtracking matcher that keeps the captures in one array and undoes    *)
(* what it did to it when the rest of the pattern fails.  Texts are        *)
(* sequences of characters; positions count from 1; the character after    *)
(* the last one is the terminator, and none is read after it.              *)
(***************************************************************************)
EXTENDS Integers, Sequences, FiniteSets, SequencesExt

CONSTANTS
  LUA_MAXCAPTURES, MAXCCALLS,
  Questions,       \* patterns, with what they mean, and replacements
  Subjects         \* the texts that are searched

ASSUME StrAssumption ==
  /\ LUA_MAXCAPTURES \in Nat \ {0} /\ MAXCCALLS \in Nat \ {0}
  /\ \A q \in Questions : DOMAIN q = {"items", "anchor", "repl", "max"}

VARIABLES question, subject, from   \* 'from' is the position asked for, 0 before it is

strVars == <<question, subject, from>>

NUL == "NUL"
Ch(q, k) == IF k = Len(q) + 1 THEN NUL ELSE q[k]
End(q) == Len(q) + 1
SetMin(S) == CHOOSE x \in S : \A y \in S : x <= y
SetMax(S) == CHOOSE x \in S : \A y \in S : y <= x

----------------------------------------------------------------------------
\* Characters.

Letters == {"a", "b"}
Digits == {"1", "2"}
Code(c) == CASE c = NUL -> 0 [] c = "1" -> 49 [] c = "2" -> 50 [] c = "a" -> 97 [] c = "b" -> 98
DigitValue(c) == CASE c = "0" -> 0 [] c = "1" -> 1 [] c = "2" -> 2
\* isalpha and isdigit stand for all the classes
MatchClass(c, cl) ==
  CASE cl = "a" -> c \in Letters
    [] cl = "A" -> c \notin Letters
    [] cl = "d" -> c \in Digits
    [] OTHER -> cl = c

Nil == 0
Raised == -1
\* classend
RECURSIVE BracketEnd(_, _)
BracketEnd(q, x) ==
  LET y == x + 1 + (IF Ch(q, x) = "%" /\ x + 1 < End(q) THEN 1 ELSE 0)
  IN IF x = End(q) THEN Raised ELSE IF Ch(q, y) = "]" THEN y + 1 ELSE BracketEnd(q, y)
ClassEnd(q, x) ==
  CASE q[x] = "%" -> IF x + 1 = End(q) THEN Raised ELSE x + 2
    [] q[x] = "[" -> BracketEnd(q, IF Ch(q, x + 1) = "^" THEN x + 2 ELSE x + 1)
    [] OTHER -> x + 1
\* matchbracketclass: one element after the other, until the ']' at 'ec'
RECURSIVE InSet(_, _, _, _)
InSet(c, q, x, ec) ==
  IF x >= ec THEN FALSE
  ELSE IF q[x] = "%" THEN MatchClass(c, q[x + 1]) \/ InSet(c, q, x + 2, ec)
  ELSE IF q[x + 1] = "-" /\ x + 2 < ec
       THEN Code(c) \in Code(q[x]) .. Code(q[x + 2]) \/ InSet(c, q, x + 3, ec)
  ELSE q[x] = c \/ InSet(c, q, x + 1, ec)
Bracket(c, q, x, ec) ==
  IF q[x + 1] = "^" THEN ~InSet(c, q, x + 2, ec) ELSE InSet(c, q, x + 1, ec)
SingleMatch(ms, s, x, ep) ==
  /\ s < End(ms.src)
  /\ CASE ms.pat[x] = "." -> TRUE
       [] ms.pat[x] = "%" -> MatchClass(ms.src[s], ms.pat[x + 1])
       [] ms.pat[x] = "[" -> Bracket(ms.src[s], ms.pat, x, ep - 1)
       [] OTHER -> ms.pat[x] = ms.src[s]

----------------------------------------------------------------------------
\* The matcher.  'ms' is the MatchState; a result is where the match ends (or
\* Nil, or Raised) and the state that it leaves.

UNFINISHED == -1
POSITION == -2
Result(ms, s) == [ms |-> ms, s |-> s]

RECURSIVE Match(_, _, _)

\* (mutant) a capture that could not be closed stays closed
EndCaptureKept(ms, s, x) ==
  LET open == {l \in DOMAIN ms.cap : ms.cap[l].len = UNFINISHED}
      l    == SetMax(open)
      r    == Match([ms EXCEPT !.cap[l].len = s - ms.cap[l].init], s, x)
  IN IF open = {} THEN Result(ms, Raised) ELSE r
EndCapture(ms, s, x) ==
  LET open == {l \in DOMAIN ms.cap : ms.cap[l].len = UNFINISHED}
      l    == SetMax(open)
      r    == Match([ms EXCEPT !.cap[l].len = s - ms.cap[l].init], s, x)
  IN IF open = {} THEN Result(ms, Raised)
     ELSE IF r.s = Nil THEN [r EXCEPT !.ms.cap[l].len = UNFINISHED] ELSE r
StartCapture(ms, s, x, what) ==
  LET r == Match([ms EXCEPT !.cap = Append(ms.cap, [init |-> s, len |-> what])], s, x)
  IN IF Len(ms.cap) >= LUA_MAXCAPTURES THEN Result(ms, Raised)
     ELSE IF r.s = Nil THEN [r EXCEPT !.ms.cap = Front(r.ms.cap)] ELSE r
\* match_capture
MatchCapture(ms, s, l) ==
  IF l \notin DOMAIN ms.cap \/ ms.cap[l].len = UNFINISHED THEN Raised
  ELSE LET c == ms.cap[l] IN
       IF c.len # POSITION /\ End(ms.src) - s >= c.len
          /\ \A d \in 0 .. c.len - 1 : ms.src[c.init + d] = ms.src[s + d]
       THEN s + c.len ELSE Nil

\* matchbalance: 'cont' more closing characters are missing after 's'
RECURSIVE Balance(_, _, _, _, _)
Balance(src, s, b, e, cont) ==
  IF s >= End(src) THEN Nil
  ELSE IF src[s] = e THEN IF cont = 1 THEN s + 1 ELSE Balance(src, s + 1, b, e, cont - 1)
  ELSE Balance(src, s + 1, b, e, IF src[s] = b THEN cont + 1 ELSE cont)
MatchBalance(ms, s, x) ==
  IF x >= Len(ms.pat) THEN Raised
  ELSE IF Ch(ms.src, s) # ms.pat[x] THEN Nil
  ELSE Balance(ms.src, s + 1, ms.pat[x], ms.pat[x + 1], 1)
Frontier(ms, s, x, ep) ==
  LET previous == IF s = 1 THEN NUL ELSE ms.src[s - 1]
  IN ~Bracket(previous, ms.pat, x, ep - 1) /\ Bracket(Ch(ms.src, s), ms.pat, x, ep - 1)

\* max_expand: 'n' repetitions, then one less
RECURSIVE Expand(_, _, _, _)
Expand(ms, s, n, ep) ==
  LET r == Match(ms, s + n, ep + 1)
  IN IF r.s # Nil \/ n = 0 THEN r ELSE Expand(r.ms, s, n - 1, ep)
Repeats(ms, s, x, ep) ==
  SetMax({n \in 0 .. End(ms.src) - s : \A d \in 0 .. n - 1 : SingleMatch(ms, s + d, x, ep)})
RECURSIVE MinExpand(_, _, _, _)
MinExpand(ms, s, x, ep) ==
  LET r == Match(ms, s, ep + 1)
  IN IF r.s # Nil THEN r
     ELSE IF SingleMatch(r.ms, s, x, ep) THEN MinExpand(r.ms, s + 1, x, ep) ELSE r

\* The labels 'init' and 'dflt' of 'match'
RECURSIVE Scan(_, _, _)
Suffixed(ms, s, x, ep) ==
  LET suffix == Ch(ms.pat, ep)
      more   == Match(ms, s + 1, ep + 1)
  IN IF ~SingleMatch(ms, s, x, ep)
     THEN IF suffix \in {"*", "?", "-"} THEN Scan(ms, s, ep + 1) ELSE Result(ms, Nil)
     ELSE CASE suffix = "?" -> IF more.s # Nil THEN more ELSE Scan(more.ms, s, ep + 1)
            [] suffix = "+" -> Expand(ms, s + 1, Repeats(ms, s + 1, x, ep), ep)
            [] suffix = "*" -> Expand(ms, s, Repeats(ms, s, x, ep), ep)
            [] suffix = "-" -> MinExpand(ms, s, x, ep)
            [] OTHER -> Scan(ms, s + 1, ep)
\* The match goes on at 'x' unless there is none.
GoOn(ms, s, x) == IF s \in {Nil, Raised} THEN Result(ms, s) ELSE Scan(ms, s, x)
Escaped(ms, s, x) ==
  LET c  == Ch(ms.pat, x + 1)
      ep == ClassEnd(ms.pat, x + 2)
  IN CASE c = "b" -> GoOn(ms, MatchBalance(ms, s, x + 2), x + 4)
       [] c = "f" -> IF Ch(ms.pat, x + 2) # "[" \/ ep = Raised THEN Result(ms, Raised)
                     ELSE GoOn(ms, IF Frontier(ms, s, x + 2, ep) THEN s ELSE Nil, ep)
       [] c \in {"0", "1", "2"} -> GoOn(ms, MatchCapture(ms, s, DigitValue(c)), x + 2)
Scan(ms, s, x) ==
  LET c  == Ch(ms.pat, x)
      ep == ClassEnd(ms.pat, x)
  IN IF x = End(ms.pat) THEN Result(ms, s)
     ELSE IF c = "(" /\ Ch(ms.pat, x + 1) = ")" THEN StartCapture(ms, s, x + 2, POSITION)
     ELSE IF c = "(" THEN StartCapture(ms, s, x + 1, UNFINISHED)
     ELSE IF c = ")" THEN EndCapture(ms, s, x + 1)
     ELSE IF c = "$" /\ x = Len(ms.pat) THEN Result(ms, IF s = End(ms.src) THEN s ELSE Nil)
     ELSE IF c = "%" /\ Ch(ms.pat, x + 1) \in {"b", "f", "0", "1", "2"} THEN Escaped(ms, s, x)
     ELSE IF ep = Raised THEN Result(ms, Raised)
     ELSE Suffixed(ms, s, x, ep)
Match(ms, s, x) ==
  LET r == Scan([ms EXCEPT !.matchdepth = ms.matchdepth - 1], s, x)
  IN IF ms.matchdepth = 0 THEN Result(ms, Raised)
     ELSE IF r.s = Raised THEN r ELSE [r EXCEPT !.ms.matchdepth = r.ms.matchdepth + 1]

----------------------------------------------------------------------------
\* The functions of the library.

\* posrelatI and getendpos
PosRelat(pos, len) ==
  IF pos > 0 THEN pos ELSE IF pos = 0 \/ pos < -len THEN 1 ELSE len + pos + 1
EndPos(pos, len) ==
  IF pos > len THEN len ELSE IF pos >= 0 THEN pos ELSE IF pos < -len THEN 0 ELSE len + pos + 1
StrSub(s, x, y) == SubSeq(s, PosRelat(x, Len(s)), EndPos(y, Len(s)))

\* lmemfind: 'n' positions from 's' on are left
RECURSIVE MemFind(_, _, _, _)
MemFind(src, s, n, text) ==
  LET heads == {x \in s .. s + n - 1 : src[x] = text[1]}
      x     == SetMin(heads)
  IN IF heads = {} THEN Nil
     ELSE IF SubSeq(src, x, x + Len(text) - 1) = text THEN x
     ELSE MemFind(src, x + 1, n - (x + 1 - s), text)
LMemFind(src, s, text) ==
  IF text = <<>> THEN s
  ELSE IF Len(text) > End(src) - s THEN Nil
  ELSE MemFind(src, s, End(src) - s - (Len(text) - 1), text)
NoSpecials(q) == ToSet(q) \cap {"^", "$", "*", "+", "?", ".", "(", "[", "%", "-"} = {}

\* prepstate and reprepstate
Prepared(src, pat) == [src |-> src, pat |-> pat, cap |-> <<>>, matchdepth |-> MAXCCALLS]

\* get_onecapture
RaisedCapture == <<"raised">>
OneCapture(ms, l, s, e) ==
  IF l > Len(ms.cap) THEN IF l = 1 THEN <<"text", SubSeq(ms.src, s, e - 1)>> ELSE RaisedCapture
  ELSE LET c == ms.cap[l] IN
       CASE c.len = UNFINISHED -> RaisedCapture
         [] c.len = POSITION -> <<"position", c.init>>
         [] OTHER -> <<"text", SubSeq(ms.src, c.init, c.init + c.len - 1)>>
\* push_captures; 'find' pushes no whole match
Captures(ms, s, e, find) ==
  LET n == IF ms.cap = <<>> /\ ~find THEN 1 ELSE Len(ms.cap)
  IN [l \in 1 .. n |-> OneCapture(ms, l, s, e)]
NotFound == [at |-> Nil, to |-> Nil, caps |-> <<>>]
Error == [at |-> Raised, to |-> Nil, caps |-> <<>>]
Found(s, e, caps) ==
  IF RaisedCapture \in ToSet(caps) THEN Error ELSE [at |-> s, to |-> e, caps |-> caps]

\* str_find_aux
RECURSIVE Search(_, _, _, _, _)
Search(src, pat, s, anchor, find) ==
  LET r == Match(Prepared(src, pat), s, 1)
  IN IF r.s = Raised THEN Error
     ELSE IF r.s # Nil THEN Found(s, r.s, Captures(r.ms, s, r.s, find))
     ELSE IF anchor \/ s = End(src) THEN NotFound
     ELSE Search(src, pat, s + 1, anchor, find)
Unanchored(pat) == IF Ch(pat, 1) = "^" THEN Tail(pat) ELSE pat
FindAux(src, pat, init, find, plain) ==
  LET s  == PosRelat(init, Len(src))
      at == LMemFind(src, s, pat)
  IN IF s > End(src) THEN NotFound
     ELSE IF find /\ (plain \/ NoSpecials(pat))
     THEN IF at = Nil THEN NotFound ELSE [at |-> at, to |-> at + Len(pat), caps |-> <<>>]
     ELSE Search(src, Unanchored(pat), s, Ch(pat, 1) = "^", find)

\* gmatch_aux, called until there is no other match
RECURSIVE Gmatch(_, _, _, _)
Gmatch(src, pat, s, lastmatch) ==
  LET r == Match(Prepared(src, pat), s, 1)
      f == Found(s, r.s, Captures(r.ms, s, r.s, FALSE))
  IN IF s > End(src) THEN <<>>
     ELSE IF r.s = Raised \/ (r.s \notin {Nil, lastmatch} /\ f = Error) THEN <<Error>>
     ELSE IF r.s \notin {Nil, lastmatch} THEN <<f>> \o Gmatch(src, pat, r.s, r.s)
     ELSE Gmatch(src, pat, s + 1, lastmatch)

\* A capture in a replacement: a position is written in decimal.
AsText(c) == IF c[1] = "position" THEN <<ToString(c[2])>> ELSE c[2]
RaisedText == <<"raised">>
\* add_s: the replacement string, piece by piece
RECURSIVE AddS(_, _, _, _)
AddS(ms, s, e, news) ==
  LET esc  == {x \in DOMAIN news : news[x] = "%"}
      x    == SetMin(esc)
      c    == Ch(news, x + 1)
      cap  == OneCapture(ms, DigitValue(c), s, e)
      rest == AddS(ms, s, e, SubSeq(news, x + 2, Len(news)))
      Piece(text) == IF rest = RaisedText THEN rest ELSE SubSeq(news, 1, x - 1) \o text \o rest
  IN IF esc = {} THEN news
     ELSE CASE c = "%" -> Piece(<<"%">>)
            [] c = "0" -> Piece(SubSeq(ms.src, s, e - 1))
            [] c \in {"1", "2"} -> IF cap = RaisedCapture THEN RaisedText ELSE Piece(AsText(cap))
            [] OTHER -> RaisedText
\* add_value: a string, or a table that has a value for some captures
AddValue(ms, s, e, repl) ==
  LET key == OneCapture(ms, 1, s, e)
  IN IF repl.tr = "string" THEN AddS(ms, s, e, repl.text)
     ELSE IF key = RaisedCapture THEN RaisedText
     ELSE IF \E pair \in repl.table : pair[1] = key
     THEN (CHOOSE pair \in repl.table : pair[1] = key)[2]
     ELSE SubSeq(ms.src, s, e - 1)
\* str_gsub: 'n' replacements have made 'b' of the text before 's'.
RECURSIVE Gsub(_, _, _, _, _, _, _)
Gsub(src, pat, s, lastmatch, q, n, b) ==
  LET r     == Match(Prepared(src, pat), s, 1)
      value == AddValue(r.ms, s, r.s, q.repl)
      Loop(s2, last, n2, b2) ==
        IF q.anchor THEN [text |-> b2 \o SubSeq(src, s2, Len(src)), n |-> n2]
        ELSE Gsub(src, pat, s2, last, q, n2, b2)
  IN IF n >= q.max THEN [text |-> b \o SubSeq(src, s, Len(src)), n |-> n]
     ELSE IF r.s = Raised \/ (r.s \notin {Nil, lastmatch} /\ value = RaisedText)
     THEN [text |-> RaisedText, n |-> 0]
     ELSE IF r.s \notin {Nil, lastmatch} THEN Loop(r.s, r.s, n + 1, b \o value)
     ELSE IF s < End(src) THEN Loop(s + 1, lastmatch, n, Append(b, src[s]))
     ELSE [text |-> b, n |-> n]
StrGsub(src, pat, q) == Gsub(src, pat, 1, Nil, q, 0, <<>>)

----------------------------------------------------------------------------
\* What patterns mean.  A pattern is a sequence of items; a split gives every
\* item a stretch of the subject, from where the item before it ends.

Text(items) == FlattenSeq([x \in DOMAIN items |-> items[x].text])
Matching(items, open) ==   \* the item that closes the capture
  SetMin({y \in open + 1 .. Len(items) :
            Cardinality({x \in open .. y : items[x].k = "open"})
              = Cardinality({x \in open .. y : items[x].k = "close"})})
Opening(items) == SetToSortSeq({x \in DOMAIN items : items[x].k \in {"open", "position"}}, <)
Meant(items, pos, src, l) ==
  LET x == Opening(items)[l]
  IN IF items[x].k = "position" THEN <<"position", pos[x]>>
     ELSE <<"text", SubSeq(src, pos[x], pos[Matching(items, x)] - 1)>>

Occurs(src, c, x, y) == Cardinality({z \in x .. y : src[z] = c})
Balanced(src, b, e, x, y) ==
  /\ y > x /\ src[x] = b /\ Occurs(src, b, x, y) = Occurs(src, e, x, y)
  /\ \A z \in x .. y - 1 : Occurs(src, b, x, z) > Occurs(src, e, x, z)
Holds(items, x, pos, src) ==
  LET item == items[x]
      len  == pos[x + 1] - pos[x]
      l    == item.n
  IN CASE item.k = "class" ->
            /\ \A z \in pos[x] .. pos[x + 1] - 1 : src[z] \in item.set
            /\ item.rep = "+" => len >= 1
            /\ item.rep = "?" => len <= 1
            /\ item.rep = "" => len = 1
       [] item.k = "balance" -> Balanced(src, item.b, item.e, pos[x], pos[x + 1] - 1)
       [] item.k = "frontier" ->
            /\ len = 0 /\ Ch(src, pos[x]) \in item.set
            /\ (IF pos[x] = 1 THEN NUL ELSE src[pos[x] - 1]) \notin item.set
       [] item.k = "back" ->
            Meant(items, pos, src, l) = <<"text", SubSeq(src, pos[x], pos[x + 1] - 1)>>
       [] item.k = "end" -> len = 0 /\ pos[x] = End(src)
       [] OTHER -> len = 0

\* Patterns whose captures all close, and are not referred to before
WellFormed(items) ==
  /\ \A x \in DOMAIN items : items[x].k = "open" =>
       \E y \in x + 1 .. Len(items) :
         Cardinality({z \in x .. y : items[z].k = "open"}) = Cardinality({z \in x .. y : items[z].k = "close"})
  /\ \A y \in DOMAIN items :
       Cardinality({z \in 1 .. y : items[z].k = "open"}) >= Cardinality({z \in 1 .. y : items[z].k = "close"})
  /\ \A x \in DOMAIN items : items[x].k = "back" =>
       /\ items[x].n \in DOMAIN Opening(items)
       /\ LET o == Opening(items)[items[x].n]
          IN o < x /\ (items[o].k = "open" => Matching(items, o) < x)
  /\ Len(Opening(items)) <= LUA_MAXCAPTURES

\* The first item that two splits place differently prefers one of them.
Lazy(item) == item.k = "class" /\ item.rep = "-"
Prefers(items, pos, other) ==
  LET x == SetMin({y \in DOMAIN pos : pos[y] # other[y]})
  IN IF Lazy(items[x - 1]) THEN pos[x] < other[x] ELSE pos[x] > other[x]
Splits(items, src, s) ==
  {pos \in [1 .. Len(items) + 1 -> s .. End(src)] :
     /\ pos[1] = s /\ \A x \in DOMAIN items : pos[x] <= pos[x + 1]
     /\ \A x \in DOMAIN items : Holds(items, x, pos, src)}
Best(items, S) == CHOOSE pos \in S : \A other \in S \ {pos} : Prefers(items, pos, other)
MeantAt(items, src, s, find) ==
  LET pos  == Best(items, Splits(items, src, s))
      to   == pos[Len(items) + 1]
      caps == [l \in DOMAIN Opening(items) |-> Meant(items, pos, src, l)]
  IN [at |-> s, to |-> to,
      caps |-> IF caps = <<>> /\ ~find THEN <<<<"text", SubSeq(src, s, to - 1)>>>> ELSE caps]
Starts(items, src, from1) == {s \in from1 .. End(src) : Splits(items, src, s) # {}}
MeantFrom(items, src, from1, anchor, find) ==
  LET starts == Starts(items, src, from1)
  IN IF starts = {} \/ (anchor /\ from1 \notin starts) THEN NotFound
     ELSE MeantAt(items, src, SetMin(starts), find)
\* All the matches: each one the first that does not end where the last did
RECURSIVE MeantAll(_, _, _, _)
MeantAll(items, src, from1, last) ==
  LET next == {s \in Starts(items, src, from1) : MeantAt(items, src, s, FALSE).to # last}
      m    == MeantAt(items, src, SetMin(next), FALSE)
  IN IF next = {} THEN <<>> ELSE <<m>> \o MeantAll(items, src, m.to, m.to)
\* The replacement of a match, by the pieces of the replacement text
MeantValue(m, src, repl) ==
  IF repl.tr = "string"
  THEN FlattenSeq([x \in DOMAIN repl.pieces |->
         LET piece == repl.pieces[x]
         IN CASE piece[1] = "char" -> <<piece[2]>>
              [] piece[1] = "whole" -> SubSeq(src, m.at, m.to - 1)
              [] piece[1] = "capture" -> AsText(m.caps[piece[2]])])
  ELSE IF \E pair \in repl.table : pair[1] = m.caps[1]
  THEN (CHOOSE pair \in repl.table : pair[1] = m.caps[1])[2]
  ELSE SubSeq(src, m.at, m.to - 1)
MeantGsub(ms, src, repl) ==
  [n |-> Len(ms),
   text |-> FlattenSeq([x \in DOMAIN ms |->
              SubSeq(src, IF x = 1 THEN 1 ELSE ms[x - 1].to, ms[x].at - 1)
              \o MeantValue(ms[x], src, repl)])
            \o SubSeq(src, IF ms = <<>> THEN 1 ELSE ms[Len(ms)].to, Len(src))]
\* The replacement names captures that there are.
ReplFits(items, repl) ==
  repl.tr = "string" => \A piece \in ToSet(repl.pieces) :
    piece[1] = "capture" => piece[2] <= SetMax({1, Len(Opening(items))})

----------------------------------------------------------------------------
\* Programs ask for one pattern in one subject.

StrInit == question \in Questions /\ subject = <<>> /\ from = 0
Ask ==
  /\ from = 0
  /\ subject' \in Subjects /\ from' \in {1, 2, -1} /\ UNCHANGED question
StrNext == Ask

Pattern == (IF question.anchor THEN <<"^">> ELSE <<>>) \o Text(question.items)
Taken(ms, n) == SubSeq(ms, 1, IF n < Len(ms) THEN n ELSE Len(ms))

\* Positions count back from the end when they are negative.
Absolute(x, src) == IF x < 0 THEN End(src) + x ELSE x
Slice(src, x, y) ==
  LET S == {z \in DOMAIN src : Absolute(x, src) <= z /\ z <= Absolute(y, src)}
  IN [z \in 1 .. Cardinality(S) |-> src[SetMin(S) + z - 1]]

\* The functions find the leftmost match, in it the split that the items
\* prefer in their order, with its captures, and go through the subject match
\* by match; a match that fails leaves the state as it was, in the depth that
\* reprepstate asserts (lstrlib.c:749); malformed captures never match.
MatchAgrees ==
  from # 0 =>
    LET items == question.items
        init  == PosRelat(from, Len(subject))
        all   == IF question.anchor
                 THEN LET m == MeantFrom(items, subject, 1, TRUE, FALSE) IN IF m = NotFound THEN <<>> ELSE <<m>>
                 ELSE MeantAll(items, subject, 1, Nil)
        first == Match(Prepared(subject, Text(items)), 1, 1)
        got   == FindAux(subject, Pattern, from, FALSE, FALSE)
    IN /\ ~WellFormed(items) => got \in {NotFound, Error}
       /\ first.s = Nil => first.ms = Prepared(subject, Text(items))
       /\ first.s > Nil => first.ms.matchdepth = MAXCCALLS
       /\ WellFormed(items) =>
            /\ got = MeantFrom(items, subject, init, question.anchor, FALSE)
            /\ FindAux(subject, Pattern, from, TRUE, FALSE)
                 = MeantFrom(items, subject, init, question.anchor, TRUE)
            /\ ~question.anchor => Gmatch(subject, Pattern, 1, Nil) = all
            /\ ReplFits(items, question.repl) =>
                 StrGsub(subject, Text(items), question)
                   = MeantGsub(Taken(all, question.max), subject, question.repl)
       /\ \A y \in {from, -1, 2} : StrSub(subject, from, y) = Slice(subject, from, y)
=============================================================================
