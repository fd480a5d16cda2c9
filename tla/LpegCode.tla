----------------------------- MODULE LpegCode -----------------------------
(***************************************************************************)
(* The compiler of LPegLabel (lpeglabel/lpcode.c).  Code is a sequence of  *)
(* instructions, one element each whatever its size, and jumps are         *)
(* relative, so that the code of a tree is made of the code of its         *)
(* children put one after another.  'tt' is the test instruction that      *)
(* protects a piece of code, or NoInst.                                    *)
(***************************************************************************)
EXTENDS LpegTree

CONSTANT MaxOff                    \* MAXOFF: longest full capture coded

Inst(op)          == [op |-> op, cs |-> {}, key |-> 0, cap |-> "none", n |-> 0, to |-> 0]
JumpTo(op, to)    == [Inst(op) EXCEPT !.to = to]
OnSet(op, cs)     == [Inst(op) EXCEPT !.cs = cs]
InstCap(op, cap, key, n) == [Inst(op) EXCEPT !.cap = cap, !.key = key, !.n = n]
NoInst == Inst("none")

\* charsettype with the instructions for each kind of set: codechar and
\* codecharset, ...
CodeCharset(cs, tt) ==
  IF cs = {} THEN <<Inst("IFail")>>
  ELSE IF cs = Chars THEN <<Inst("IAny")>>
  ELSE IF tt.op = "ITestSet" /\ tt.cs = cs THEN <<Inst("IAny")>>
  ELSE <<OnSet("ISet", cs)>>

\* ... and codetestset, jumping 'to' when the test fails; no instruction if
\* the empty string must be accepted.
CodeTest(cs, e, to) ==
  IF e # {} THEN <<>>
  ELSE IF cs = {} THEN <<JumpTo("IJmp", to)>>
  ELSE IF cs = Chars THEN <<JumpTo("ITestAny", to)>>
  ELSE <<[OnSet("ITestSet", cs) EXCEPT !.to = to]>>

\* The test as 'tt' of what follows it.
TestOf(cs, e) ==
  IF e # {} \/ cs \in {{}, Chars} THEN NoInst ELSE OnSet("ITestSet", cs)

\* codethrow, codecall
CodeThrow(t) ==
  IF t.rule = 0 THEN <<[Inst("IThrow") EXCEPT !.key = t.key]>>
  ELSE <<[Inst("IThrowRec") EXCEPT !.key = t.key, !.n = t.rule]>>
CodeCall(t) == <<[Inst("IOpenCall") EXCEPT !.n = t.rule]>>

\* The instruction that a chain of jumps from instruction i ends at.
RECURSIVE FinalTarget(_, _)
FinalTarget(code, i) == IF code[i].op = "IJmp" THEN FinalTarget(code, i + code[i].to) ELSE i
FinalLabel(code, i)  == FinalTarget(code, i + code[i].to)

\* correctcalls: open calls become calls, or jumps when a return follows.
\* The throws of a grammar inside this one have been corrected before and are
\* again, by the positions of this grammar; a number this grammar does not
\* have reads a position nobody wrote ('from', for one).
CorrectCalls(code, positions) ==
  [i \in DOMAIN code |->
     LET c == code[i] IN
     IF c.op = "IOpenCall"
     THEN JumpTo(IF code[FinalTarget(code, i + 1)].op = "IRet" THEN "IJmp" ELSE "ICall",
                 positions[c.n] - i)
     ELSE IF c.op = "IThrowRec"
     THEN [c EXCEPT !.to = positions[IF c.n \in DOMAIN positions THEN c.n ELSE 1] - i]
     ELSE c]

\* (mutant) also when the tree accepts the empty string
TestSufficesEmpty(p, f, after, g) ==
  HeadFail(p, g) \/ f.cs \intersect after = {}

\* A test may take the place of the choice: the tree fails on its first
\* character or not at all, or what comes after starts otherwise.
TestSuffices(p, f, after, g) ==
  HeadFail(p, g) \/ (f.e = {} /\ f.cs \intersect after = {})

\* codegen: 'opt' says that the code is the last thing in an optional
\* pattern, whose choice it may use; 'fl' is what may follow.
RECURSIVE CodeGen(_, _, _, _, _)

\* codechoice
ByTest(f, p, q, e) ==
  LET jmp == IF e THEN <<>> ELSE <<JumpTo("IJmp", Len(q) + 1)>>
  IN CodeTest(f.cs, {}, Len(p) + Len(jmp) + 1) \o p \o jmp \o q
ByChoice(f, p, q) ==
  CodeTest(f.cs, f.e, Len(p) + 3)
  \o <<JumpTo("IChoice", Len(p) + 2)>> \o p \o <<JumpTo("ICommit", Len(q) + 1)>> \o q
CodeChoice(p, q, opt, fl, g) ==
  LET f == GetFirst(p, Chars, g)
      e == q.tag = "True"
  IN IF TestSuffices(p, f, GetFirst(q, fl, g).cs, g)
     THEN ByTest(f, CodeGen(p, FALSE, TestOf(f.cs, {}), fl, g), CodeGen(q, opt, NoInst, fl, g), e)
     ELSE IF opt /\ e
     THEN <<JumpTo("IPartialCommit", 1)>> \o CodeGen(p, TRUE, NoInst, Chars, g)
     ELSE ByChoice(f, CodeGen(p, e, TestOf(f.cs, f.e), Chars, g), CodeGen(q, opt, NoInst, fl, g))

\* coderep
RepByTest(f, p) ==
  CodeTest(f.cs, {}, Len(p) + 2) \o p \o <<JumpTo("IJmp", -(Len(p) + 1))>>
RepByChoice(f, p, opt) ==
  LET head == IF opt THEN <<JumpTo("IPartialCommit", 1)>> ELSE <<JumpTo("IChoice", Len(p) + 2)>>
  IN CodeTest(f.cs, f.e, Len(p) + 3) \o head \o p \o <<JumpTo("IPartialCommit", -Len(p))>>
CodeRep(p, opt, fl, g) ==
  LET f == GetFirst(p, Chars, g)
  IN IF p.tag = "Set" THEN <<OnSet("ISpan", p.cs)>>
     ELSE IF TestSuffices(p, f, fl, g) THEN RepByTest(f, CodeGen(p, FALSE, TestOf(f.cs, {}), Chars, g))
     ELSE RepByChoice(f, CodeGen(p, FALSE, NoInst, Chars, g), opt)

\* codenot, codeand
NotBy(f, body) == CodeTest(f.cs, f.e, Len(body) + 1) \o body
CodeNot(p, g) ==
  LET f == GetFirst(p, Chars, g)
      c == CodeGen(p, FALSE, NoInst, Chars, g)
  IN IF HeadFail(p, g) THEN NotBy(f, <<Inst("IFail")>>)
     ELSE NotBy(f, <<JumpTo("IPredChoice", Len(c) + 2)>> \o c \o <<Inst("IFailTwice")>>)
AndBy(c) ==
  <<JumpTo("IPredChoice", Len(c) + 2)>> \o c \o <<JumpTo("IBackCommit", 2), Inst("IFail")>>

\* codecapture, coderuntime
CodeCapture(t, tt, fl, g) ==
  LET len == FixedLen(t.p, g, {})
      c   == CodeGen(t.p, FALSE, tt, fl, g)
  IN IF len >= 0 /\ len <= MaxOff /\ ~HasCaptures(t.p, g, {})
     THEN c \o <<InstCap("IFullCapture", t.cap, t.key, len)>>
     ELSE <<InstCap("IOpenCapture", t.cap, t.key, 0)>> \o c \o <<InstCap("ICloseCapture", "close", 0, 0)>>
CodeRunTime(t, c) ==
  <<InstCap("IOpenCapture", "group", t.key, 0)>> \o c \o <<InstCap("ICloseRunTime", "close", 0, 0)>>

\* codegrammar: call the first rule, jump over the rules.
RECURSIVE CodeRules(_, _)
CodeRules(rules, g) ==
  IF rules = <<>> THEN <<>>
  ELSE <<CodeGen(rules[1], FALSE, NoInst, Chars, g) \o <<Inst("IRet")>>>> \o CodeRules(Tail(rules), g)
RECURSIVE Concat(_)
Concat(codes) == IF codes = <<>> THEN <<>> ELSE codes[1] \o Concat(Tail(codes))
AroundRules(code) == <<JumpTo("ICall", 2), JumpTo("IJmp", Len(code) + 1)>> \o code
Placed(codes) ==
  CorrectCalls(Concat(codes), [i \in DOMAIN codes |-> Len(Concat(SubSeq(codes, 1, i - 1))) + 1])

\* codeseq1: the test still protects the second child if the first consumes
\* nothing.
CodeSeq(p, q, opt, tt, fl, g) ==
  CodeGen(p, FALSE, tt, IF NeedFollow(p) THEN GetFirst(q, fl, g).cs ELSE Chars, g)
  \o CodeGen(q, opt, IF FixedLen(p, g, {}) # 0 THEN NoInst ELSE tt, fl, g)

CodeGen(t, opt, tt, fl, g) ==
  CASE t.tag = "Set" -> CodeCharset(t.cs, tt)
    [] t.tag = "True" -> <<>>
    [] t.tag = "False" -> <<Inst("IFail")>>
    [] t.tag = "Choice" -> CodeChoice(t.p, t.q, opt, fl, g)
    [] t.tag = "Rep" -> CodeRep(t.p, opt, fl, g)
    [] t.tag = "Behind" ->
         (IF t.n > 0 THEN <<[Inst("IBehind") EXCEPT !.n = t.n]>> ELSE <<>>)
         \o CodeGen(t.p, FALSE, NoInst, Chars, g)
    [] t.tag = "Not" -> CodeNot(t.p, g)
    [] t.tag = "And" -> AndBy(CodeGen(t.p, FALSE, tt, Chars, g))
    [] t.tag = "Capture" -> CodeCapture(t, tt, fl, g)
    [] t.tag = "RunTime" -> CodeRunTime(t, CodeGen(t.p, FALSE, tt, Chars, g))
    [] t.tag = "Grammar" -> AroundRules(Placed(CodeRules(t.rules, t.rules)))
    [] t.tag = "Call" -> CodeCall(t)
    [] t.tag = "Seq" -> CodeSeq(t.p, t.q, opt, tt, fl, g)
    [] t.tag = "Throw" -> CodeThrow(t)

\* peephole, from instruction i on.
Labelled == {"IChoice", "ICall", "ICommit", "IPartialCommit", "IBackCommit", "ITestSet", "ITestAny"}
Explicit == {"ICommit", "IPartialCommit", "IBackCommit"}
Implicit == {"IRet", "IFail", "IFailTwice", "IEnd"}
RelabelTo(code, i, op, target) == [code EXCEPT ![i] = [op EXCEPT !.to = target - i]]
PeepJump(code, i, ft) ==
  IF code[ft].op \in Implicit THEN [code EXCEPT ![i] = code[ft]]
  ELSE IF code[ft].op \in Explicit THEN RelabelTo(code, i, code[ft], FinalLabel(code, ft))
  ELSE RelabelTo(code, i, code[i], ft)
PeepAt(code, i) ==
  IF code[i].op \in Labelled THEN RelabelTo(code, i, code[i], FinalLabel(code, i))
  ELSE IF code[i].op = "IJmp" THEN PeepJump(code, i, FinalTarget(code, i))
  ELSE code
RECURSIVE Peephole(_, _)
Peephole(code, i) == IF i > Len(code) THEN code ELSE Peephole(PeepAt(code, i), i + 1)

Compile(tree) == Peephole(Append(CodeGen(tree, FALSE, NoInst, Chars, <<>>), Inst("IEnd")), 1)
=============================================================================
