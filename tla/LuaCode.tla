------------------------------ MODULE LuaCode ------------------------------
(***************************************************************************)
(* The compiler of the Lua interpreter reading a program statement by      *)
(* statement, and what the machine does with the code made so far: a       *)
(* program is complete whenever no block is open.  fs is the function      *)
(* being compiled, and open the blocks around the next statement with the  *)
(* statements read in them.  A program begins as given and goes on with    *)
(* at most left statements.                                                *)
(***************************************************************************)
EXTENDS LuaParser, LuaMeaning

CONSTANT Menus    \* what the programs of a run are made of

VARIABLES fs, open, menu, given, left
vars == <<fs, open, menu, given, left>>

M == Menus[menu]

\* An open block: its first statement, the statements in it, what the parser
\* keeps of it (x.e and the start of its code), the parts of an 'if' that
\* are finished with the jumps out of them, and the part that is being read.
Opened(st, e, start, body, part) ==
  [st |-> st, e |-> e, start |-> start, body |-> body, done |-> <<>>, escape |-> NO_JUMP, part |-> part]

Init ==
  /\ menu \in DOMAIN Menus
  /\ fs = MainFunc
  /\ open = <<Opened(<<"main">>, Void, 0, <<>>, "body")>>
  /\ given = M.given
  /\ left = M.statements

Top == open[Len(open)]
\* block_follow comes after a return, after 'if x then break', and after a
\* label if labelstat sees it; it does not see 'until'.
AfterLabel(b, last) == b.body # <<>> /\ LastOf(b.body)[1] = "label" /\ LastOf(b.body)[3] = last
MayGoOn ==
  /\ Top.part # "broken" /\ ~AfterLabel(Top, TRUE)
  /\ Top.body # <<>> => LastOf(Top.body)[1] # "return"
MayEnd == ~AfterLabel(Top, Top.st[1] = "repeat")
Nested == Len(open) > 1
IsIf == Top.st[1] \in {"if", "ifbreak", "ifbreakmore"} /\ Top.part # "else"

\* What may be read next
Blocks == {"do", "while", "repeat", "if", "ifbreak", "ifbreakmore", "fornum", "forin", "localfunction", "function"}
MayRead ==
  (IF MayGoOn /\ left > 0 THEN {st \in M.program : st[1] \in Blocks => Len(open) <= M.depth} ELSE {})
  \cup (IF Nested /\ MayEnd /\ IsIf /\ left > 0 THEN {<<"else">>} \cup {<<"elseif", e>> : e \in M.conditions} ELSE {})
  \cup (IF Nested /\ MayEnd /\ Top.st[1] = "repeat" THEN {<<"until", e>> : e \in M.conditions} ELSE {})
  \cup (IF Nested /\ MayEnd /\ Top.st[1] # "repeat" THEN {<<"end">>} ELSE {})
Reads == IF given # <<>> THEN {given[1]} ELSE MayRead

\* Another part of an 'if' begins where the last ended.
EndThen(f) == Jump(LeaveBlock(f))
ThenLeft(f) ==
  IF Top.part = "broken" THEN f ELSE AfterThen(EndThen(f), Top.e.f, Top.escape)
Escape(f) == IF Top.part = "broken" THEN Top.escape ELSE Joined(Top.escape, Pc(LeaveBlock(f)))
Parsed(a) ==
  CASE a[1] = "else" -> InFunc(EnterBlock(ThenLeft(fs), FALSE), Void)
    [] a[1] = "elseif" -> Parse(ThenLeft(fs), <<"if", a[2]>>)
    [] a[1] = "end" -> InFunc(fs, Void)
    [] OTHER -> Parse(fs, a)

\* The statement of a closed block
ThenPart(b) == IF b.st[1] = "if" THEN b.body ELSE <<<<"break">>>> \o b.body
RECURSIVE IfOf(_, _)
IfOf(parts, rest) ==
  IF parts = <<>> THEN rest
  ELSE IfOf(SubSeq(parts, 1, Len(parts) - 1), <<<<"if", LastOf(parts)[1], LastOf(parts)[2], rest>>>>)
IfTree(b) ==
  IF b.part = "else" THEN IfOf(b.done, b.body) ELSE IfOf(Append(b.done, <<b.st[2], ThenPart(b)>>), <<>>)
StatementFrom(b, a) ==
  CASE b.st[1] \in {"if", "ifbreak", "ifbreakmore"} -> IfTree(b)[1]
    [] b.st[1] = "repeat" -> <<"repeat", b.body, a[2]>>
    [] OTHER -> Append(b.st, b.body)

\* The end of a block's code
InIf(f) == IF Top.part = "broken" THEN f ELSE LeaveBlock(f)
BlockEnd(x) ==
  CASE Top.st[1] = "do" -> LeaveBlock(x.f)
    [] Top.st[1] = "while" -> WhileEnd(x.f, Top.start, Top.e.f)
    [] Top.st[1] = "repeat" -> RepeatEnd(x, Top.start)
    [] Top.st[1] \in {"if", "ifbreak", "ifbreakmore"} ->
         IfEnd(InIf(x.f), IF Top.part = "else" THEN NO_JUMP ELSE Top.e.f, Top.escape)
    [] Top.st[1] \in {"fornum", "forin"} -> ForEnd_(x.f, Top.e, Top.st[1] = "forin")
    [] Top.st[1] \in {"localfunction", "function"} -> FunctionEnd(InOuter(Ended(x.f)), Top.e)

Add(o, st) == [o EXCEPT ![Len(o)].body = Append(@, st)]

\* A statement without a block
Statement(a, x) ==
  /\ a[1] \in Statements \ (Blocks \cup {"until"})
  /\ fs' = EndStat(x.f)
  /\ open' = Add(open, a)
\* A statement up to its block
OpenBlock(a, x) ==
  /\ a[1] \in Blocks
  /\ fs' = x.f
  /\ open' = Append(open, Opened(a, x.e, Pc(fs), <<>>, IF a[1] = "ifbreak" THEN "broken" ELSE "body"))
\* elseif and else
NextPart(a, x) ==
  /\ a[1] \in {"elseif", "else"}
  /\ fs' = x.f
  /\ open' = [open EXCEPT ![Len(open)] =
       [@ EXCEPT !.part = IF a[1] = "else" THEN "else" ELSE "body", !.body = <<>>, !.e = x.e,
                 !.st = IF a[1] = "else" THEN @ ELSE <<"if", a[2]>>,
                 !.escape = Escape(fs), !.done = Append(@, <<Top.st[2], ThenPart(Top)>>)]]
\* end and until
CloseBlock(a, x) ==
  /\ a[1] \in {"end", "until"}
  /\ fs' = EndStat(BlockEnd(x))
  /\ open' = Add(SubSeq(open, 1, Len(open) - 1), StatementFrom(Top, a))

Next ==
  /\ ~fs.err
  /\ \E a \in Reads : \E x \in {Parsed(a)} :
       Statement(a, x) \/ OpenBlock(a, x) \/ NextPart(a, x) \/ CloseBlock(a, x)
  /\ given' = IF given = <<>> THEN <<>> ELSE Tail(given)
  /\ left' = IF given # <<>> \/ Len(open') < Len(open) THEN left ELSE left - 1
  /\ UNCHANGED menu

Spec == Init /\ [][Next]_vars

----------------------------------------------------------------------------
\* Properties.

Complete == given = <<>> /\ ~Nested /\ MayEnd /\ ~Ended(fs).err
Machine(yields) == RunMain(Proto(Ended(fs)), M.globals, yields)
Expected == Meaning(open[1].body, M.globals)

Matches(m, r) == r.status # "undecided" => m.ok /\ RunOutcome(m) = r
\* What the compiler made of a program does what the program means: it calls
\* the same functions and metamethods in the same order with the same values,
\* leaves the same tables, and gives the same results or error.
Agrees == Complete => Matches(Machine(FALSE), Expected)
\* The same when every C function and metamethod yields, so that
\* luaV_finishOp ends what luaV_execute began.
AgreesYielding == Complete => LET m == Machine(TRUE) IN m.recounted \/ Matches(m, Expected)
\* The compiler's own assertions: registers are freed as a stack and are as
\* many as there are variables between statements, jumps go to code that
\* exists, a label's variables are active, and an instruction that leaves an
\* open number of values is followed by one that takes them.
AssertsHold == fs.ok /\ (Complete => Ended(fs).ok)
=============================================================================
