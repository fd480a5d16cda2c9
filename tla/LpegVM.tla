------------------------------ MODULE LpegVM ------------------------------
(***************************************************************************)
(* The matching machine of LPegLabel (lpeglabel/lpvm.c): one instruction   *)
(* is one application of Exec to the machine's state, a record.  The stack *)
(* is an array whose frames keep what their last use left there, as the C  *)
(* array does: a call writes only part of its frame.                       *)
(***************************************************************************)
EXTENDS LpegCode, LpegCaptures

CONSTANTS MaxBack,                 \* frames of the backtrack stack
          MaxSiz,                  \* UCHAR_MAX: longest full capture at run time
          MaxSteps                 \* bound: instructions of one match

NULL == -1                         \* saved position of a call
Frame(s, p, caplevel, labenv, pred) ==
  [s |-> s, p |-> p, caplevel |-> caplevel, labenv |-> labenv, pred |-> pred]

\* Positions count from 0; instruction 0 is IGiveup.  'junk' is what the
\* frames nobody has used hold.
Start(subject, s, junk) ==
  [p |-> 1, s |-> s, top |-> 1, inpred |-> FALSE, caps |-> <<>>, dyn |-> <<>>, ndyn |-> 0,
   label |-> 0, sfail |-> s, status |-> "run", steps |-> 0,
   stack |-> [i \in 1 .. MaxBack |->
                IF i = 1 THEN Frame(s, 0, 0, FALSE, junk) ELSE Frame(NULL, 0, 0, FALSE, junk)]]

Top(m) == m.stack[m.top]
Put(m, frame) ==
  IF m.top = MaxBack THEN [m EXCEPT !.status = "overflow"]
  ELSE [m EXCEPT !.top = @ + 1, !.stack[m.top + 1] = frame]
Goto(m, p)  == [m EXCEPT !.p = p]
Next1(m)    == Goto(m, m.p + 1)
Jump(m, i)  == Goto(m, m.p + i.to)
Farthest(m, s) == IF s > m.sfail THEN s ELSE m.sfail

\* removedyncap: forget the runtime captures above a level, with their values.
DynAfter(m, level) ==
  LET dyn == {i \in level + 1 .. Len(m.caps) : m.caps[i].kind = "runtime"}
  IN IF dyn = {} THEN m.dyn
     ELSE SubSeq(m.dyn, 1, m.caps[CHOOSE i \in dyn : \A j \in dyn : i <= j].idx - 1)
\* (mutant) the values stay on the Lua stack
CutCapsKeep(m, level) == [m EXCEPT !.caps = SubSeq(@, 1, level)]

CutCaps(m, level) ==
  [m EXCEPT !.caps = SubSeq(@, 1, level),
            !.dyn  = IF m.ndyn > 0 THEN DynAfter(m, level) ELSE @,
            !.ndyn = IF @ > 0 THEN @ - (Len(m.dyn) - Len(DynAfter(m, level))) ELSE @]

\* The common exit 'fail': to the last choice, past the pending calls.
RECURSIVE PopCalls(_)
PopCalls(m) ==
  IF Top(m).s = NULL THEN PopCalls([m EXCEPT !.top = @ - 1]) ELSE m
Resume(m) ==
  LET f == Top(m)
  IN [CutCaps(m, f.caplevel) EXCEPT !.top = @ - 1, !.s = f.s, !.inpred = f.labenv, !.p = f.p]
Backtrack(m) == Resume(PopCalls(m))

\* A failure that is no label.
Fail(m) == Backtrack([m EXCEPT !.label = 0, !.sfail = Farthest(m, m.s)])

Matches(m, subject, cs) == m.s < Len(subject) /\ subject[m.s + 1] \in cs
Consume(m, ok) == IF ok THEN [m EXCEPT !.p = @ + 1, !.s = @ + 1] ELSE Fail(m)
Test(m, i, ok) == IF ok THEN Next1(m) ELSE Jump(m, i)

RECURSIVE SpanEnd(_, _, _)
SpanEnd(subject, s, cs) ==
  IF s < Len(subject) /\ subject[s + 1] \in cs THEN SpanEnd(subject, s + 1, cs) ELSE s

\* IThrow, IThrowRec: inside a predicate no label is set and no rule called.
RECURSIVE PopToPredicate(_)
PopToPredicate(m) == IF Top(m).pred THEN m ELSE PopToPredicate([m EXCEPT !.top = @ - 1])
ThrowInside(m) == Backtrack([PopToPredicate(m) EXCEPT !.label = 0, !.sfail = m.s])
Thrown(m, i)   == Backtrack([m EXCEPT !.label = i.key, !.sfail = m.s, !.top = 1])
Recover(m, i)  ==
  Jump(Put([m EXCEPT !.label = i.key, !.sfail = m.s],
           [m.stack[m.top + 1] EXCEPT !.s = NULL, !.p = m.p + 1, !.caplevel = Len(m.caps)]), i)

\* Captures.
Cap(kind, s, idx, siz) == [kind |-> kind, s |-> s, idx |-> idx, siz |-> siz]
PutCap(m, cap) == [m EXCEPT !.caps = Append(@, cap), !.p = @ + 1]
CloseCapture(m) ==
  LET n == Len(m.caps)
      c == m.caps[n]
  IN IF c.siz = 0 /\ m.s - c.s < MaxSiz
     THEN [m EXCEPT !.caps[n].siz = m.s - c.s + 1, !.p = @ + 1]
     ELSE PutCap(m, Cap("close", m.s, 0, 1))

\* ICloseRunTime: call the function with the values of its group (runtimecap),
\* and take its results as position and captures (resdyncaptures,
\* adddyncaptures).  A program's function is known by its name.
RunFunction(f, s, vals) ==
  CASE f = "refuse" -> [ok |-> FALSE, s |-> s, vals |-> <<>>]
    [] f = "accept" -> [ok |-> TRUE, s |-> s, vals |-> <<>>]
    [] f = "value"  -> [ok |-> TRUE, s |-> s, vals |-> <<[fn |-> f, args |-> vals]>>]
    [] f = "advance" -> [ok |-> TRUE, s |-> s + 1, vals |-> vals]

\* The entries a call leaves: the group, made anonymous, with its values.
DynEntries(s, from, n) ==
  [i \in 1 .. n |-> Cap("runtime", s, from + i - 1, 1)] \o <<Cap("close", s, 0, 1)>>
Without(dyn, id) == IF id = 0 THEN dyn ELSE SubSeq(dyn, 1, id - 1)
FirstDyn(m, open) ==
  LET dyn == {i \in open .. Len(m.caps) : m.caps[i].kind = "runtime"}
  IN IF dyn = {} THEN 0 ELSE m.caps[CHOOSE i \in dyn : \A j \in dyn : i <= j].idx
Returned(m, open, r, kept) ==
  LET caps == SubSeq(m.caps, 1, open)
      m1   == [m EXCEPT !.dyn = kept, !.ndyn = @ - (Len(m.dyn) - Len(kept)), !.caps = caps]
  IN IF ~r.ok THEN Fail(m1)
     ELSE [m1 EXCEPT !.s = r.s, !.p = @ + 1, !.dyn = @ \o r.vals, !.ndyn = @ + Len(r.vals),
                     !.caps = IF r.vals = <<>> THEN SubSeq(@, 1, open - 1)
                              ELSE [@ EXCEPT ![open].idx = 0]
                                   \o DynEntries(r.s, Len(kept) + 1, Len(r.vals))]
CloseRunTime(m, open, r, k, subject) ==
  IF r.err THEN [m EXCEPT !.status = "error"]
  ELSE LET f == RunFunction(k[m.caps[open].idx], m.s, r.vals)
       IN IF f.s > Len(subject) THEN [m EXCEPT !.status = "error"]
          ELSE Returned(m, open, f, Without(m.dyn, FirstDyn(m, open)))
RunTimeAt(m, open, k, subject) ==
  CloseRunTime(m, open,
               Nested([caps |-> Append(m.caps, Cap("close", m.s, 0, 1)), k |-> k,
                       subject |-> subject, dyn |-> m.dyn], open, FALSE), k, subject)

\* IBackCommit: back to where the predicate began, and on.
BackCommit(m, i) ==
  LET f == Top(m)
  IN Jump([CutCaps(m, f.caplevel) EXCEPT !.top = @ - 1, !.s = f.s, !.inpred = f.labenv], i)

Exec(m, i, k, subject) ==
  CASE i.op = "IEnd"     -> [m EXCEPT !.status = "match"]
    [] i.op = "IGiveup"  -> [m EXCEPT !.status = "giveup"]
    [] i.op = "IRet"     -> [m EXCEPT !.p = Top(m).p, !.top = @ - 1]
    [] i.op = "IAny"     -> Consume(m, Matches(m, subject, Chars))
    [] i.op = "ISet"     -> Consume(m, Matches(m, subject, i.cs))
    [] i.op = "ITestAny" -> Test(m, i, Matches(m, subject, Chars))
    [] i.op = "ITestSet" -> Test(m, i, Matches(m, subject, i.cs))
    [] i.op = "IBehind"  -> IF i.n > m.s THEN Fail(m) ELSE [m EXCEPT !.s = @ - i.n, !.p = @ + 1]
    [] i.op = "ISpan"    -> Next1([m EXCEPT !.s = SpanEnd(subject, m.s, i.cs)])
    [] i.op = "IJmp"     -> Jump(m, i)
    [] i.op = "IChoice"  -> Next1(Put(m, Frame(m.s, m.p + i.to, Len(m.caps), m.inpred, FALSE)))
    [] i.op = "IPredChoice" ->
         Next1([Put(m, Frame(m.s, m.p + i.to, Len(m.caps), m.inpred, TRUE)) EXCEPT !.inpred = TRUE])
    [] i.op = "ICall"    ->
         Jump(Put(m, [m.stack[m.top + 1] EXCEPT !.s = NULL, !.p = m.p + 1]), i)
    [] i.op = "ICommit"  -> Jump([m EXCEPT !.top = @ - 1], i)
    [] i.op = "IPartialCommit" ->
         Jump([m EXCEPT !.stack[m.top].s = m.s, !.stack[m.top].caplevel = Len(m.caps)], i)
    [] i.op = "IBackCommit" -> BackCommit(m, i)
    [] i.op = "IThrow"    -> IF m.inpred THEN ThrowInside(m) ELSE Thrown(m, i)
    [] i.op = "IThrowRec" -> IF m.inpred THEN ThrowInside(m) ELSE Recover(m, i)
    [] i.op = "IFailTwice" -> Fail([m EXCEPT !.top = @ - 1])
    [] i.op = "IFail"     -> Fail(m)
    [] i.op = "IOpenCapture" -> PutCap(m, Cap(i.cap, m.s, i.key, 0))
    [] i.op = "IFullCapture" -> PutCap(m, Cap(i.cap, m.s - i.n, i.key, i.n + 1))
    [] i.op = "ICloseCapture" -> CloseCapture(m)
    [] i.op = "ICloseRunTime" ->
         RunTimeAt(m, FindOpen(Append(m.caps, Cap("close", m.s, 0, 1)), Len(m.caps) + 1), k, subject)

RECURSIVE Run(_, _, _, _)
Run(m, code, k, subject) ==
  IF m.status # "run" THEN m
  ELSE IF m.steps >= MaxSteps THEN [m EXCEPT !.status = "loops"]
  ELSE Run([Exec(m, IF m.p = 0 THEN Inst("IGiveup") ELSE code[m.p], k, subject) EXCEPT !.steps = @ + 1],
           code, k, subject)

\* lp_match: the values, or the label and the position of the failure.
Outcome(m, k, subject) ==
  CASE m.status = "match" ->
         GetCaptures([caps |-> Append(m.caps, Cap("close", 0, 0, 1)), k |-> k,
                      subject |-> subject, dyn |-> m.dyn], m.s)
    [] m.status = "giveup" ->
         IF m.label = 0 THEN [fail |-> TRUE] ELSE [label |-> k[m.label], at |-> m.sfail]
    [] OTHER -> [stop |-> m.status]
Match(code, k, subject, junk) == Outcome(Run(Start(subject, 0, junk), code, k, subject), k, subject)
=============================================================================
