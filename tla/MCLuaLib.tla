------------------------------ MODULE MCLuaLib ------------------------------
EXTENDS LuaTable, LuaSort, LuaStr
Ints(S) == {<<"int", n>> : n \in S}
\* Integers that fill an array part; integers kept in the hash part, up to the
\* greatest one; strings, a float, addresses and integers that collide.
MCTables == <<
  [keys |-> Ints({1, 2, 3, 4, 6}), sizes |-> {<<0, 0>>, <<3, 0>>}],
  [keys |-> Ints({0, 1, 2, 8, 15}), sizes |-> {<<0, 8>>}],
  [keys |-> {<<"str", 3>>, <<"str", 7>>, <<"ref", 3>>, <<"flt", 7>>} \cup Ints({1}), sizes |-> {<<0, 0>>}]>>

\* All orders of up to 6 elements of 3 ranks, and answers that keep to no order.
MCSortInputs ==
  [rank : UNION {[1 .. n -> 1 .. 3] : n \in 0 .. 6}, sound : {TRUE}]
    \cup [rank : {[x \in 1 .. n |-> 0] : n \in 0 .. 6}, sound : {FALSE}]

\* Patterns of up to three items, and longer ones that nest and refer back.
Item == [k |-> "class", text |-> <<>>, set |-> {}, rep |-> "", n |-> 0, b |-> "", e |-> ""]
Class(text, set, rep) ==
  [Item EXCEPT !.text = text \o (IF rep = "" THEN <<>> ELSE <<rep>>), !.set = set, !.rep = rep]
Open == [Item EXCEPT !.k = "open", !.text = <<"(">>]
Close == [Item EXCEPT !.k = "close", !.text = <<")">>]
Position == [Item EXCEPT !.k = "position", !.text = <<"(", ")">>]
Balance12 == [Item EXCEPT !.k = "balance", !.text = <<"%", "b", "a", "b">>, !.b = "a", !.e = "b"]
FrontierNotA == [Item EXCEPT !.k = "frontier", !.text = <<"%", "f", "[", "^", "a", "]">>, !.set = {"b", "1", NUL}]
Back1 == [Item EXCEPT !.k = "back", !.text = <<"%", "1">>, !.n = 1]
Dollar == [Item EXCEPT !.k = "end", !.text = <<"$">>]
Dot(rep) == Class(<<".">>, {"a", "b", "1"}, rep)
A(rep) == Class(<<"a">>, {"a"}, rep)
Letter(rep) == Class(<<"%", "a">>, {"a", "b"}, rep)
Bracketed(rep) == Class(<<"[", "b", "%", "d", "]">>, {"b", "1"}, rep)
Inside == {A(""), A("*"), Dot("-"), Dot("?"), Bracketed("+"), Class(<<"[", "^", "a", "-", "b", "]">>, {"1"}, ""),
           Open, Close, Position, Back1}
AllItems == UNION {[1 .. n -> Inside] : n \in 0 .. 2}
  \cup {<<Open, x, Close, y>> : x \in Inside, y \in Inside \cup {Dollar, Balance12}}
  \cup {<<x, y, z>> : x \in {Dot("-"), A("*"), Dot("?")}, y \in {Balance12, FrontierNotA, Letter("-")}, z \in {Dollar, Dot("*")}}
  \cup {<<Open, Dot("*"), Close, Open, Dot("-"), Close, Back1>>, <<Open, Open, Dot("?"), Close, A("*"), Close, Dot("")>>}
\* '(' and ')' side by side are a position capture.
Items == {x \in AllItems : \A y \in 1 .. Len(x) - 1 : x[y] # Open \/ x[y + 1] # Close}
Plain == [tr |-> "string", text |-> <<"1", "%", "0">>, pieces |-> <<<<"char", "1">>, <<"whole">>>>, table |-> {}]
Refers == [tr |-> "string", text |-> <<"%", "%", "%", "1">>, pieces |-> <<<<"char", "%">>, <<"capture", 1>>>>, table |-> {}]
Table == [tr |-> "table", text |-> <<>>, pieces |-> <<>>, table |-> {<<<<"text", <<"a">>>>, <<"b", "b">>>>}]
MCQuestions ==
  {[items |-> x, anchor |-> FALSE, repl |-> Refers, max |-> 5] : x \in Items}
  \cup {[items |-> x, anchor |-> y, repl |-> IF y THEN Plain ELSE Table, max |-> 1] :
          x \in UNION {[1 .. n -> Inside] : n \in 1 .. 1}, y \in BOOLEAN}
MCSubjects == UNION {[1 .. n -> {"a", "b"}] : n \in 0 .. 2}
  \cup {<<"a", "a", "b">>, <<"b", "a", "a">>, <<"1", "a", "b">>, <<"a", "1", "b", "a">>}

TableIdle == t = Fresh /\ content = {} /\ iter = Idle /\ program = 1
SortIdle ==
  /\ a = <<>> /\ rank = <<>> /\ sound = TRUE /\ lo = 1 /\ up = 0 /\ rnd = 0
  /\ p = 0 /\ pivot = 0 /\ i = 0 /\ j = 0 /\ pending = <<>> /\ pc = "return"
StrIdle == question = (CHOOSE q \in Questions : TRUE) /\ subject = <<>> /\ from = -2
vars == <<tableVars, sortVars, strVars>>
\* One of the three runs; the others stay idle.
Init ==
  \/ TableInit /\ SortIdle /\ StrIdle
  \/ SortInit /\ TableIdle /\ StrIdle
  \/ StrInit /\ TableIdle /\ SortIdle
Next ==
  \/ from = -2 /\ rank = <<>> /\ TableNext /\ UNCHANGED <<sortVars, strVars>>
  \/ SortNext /\ UNCHANGED <<tableVars, strVars>>
  \/ StrNext /\ UNCHANGED <<tableVars, sortVars>>
Spec == Init /\ [][Next]_vars
=============================================================================
