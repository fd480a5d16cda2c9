------------------------------ MODULE MCLpeg ------------------------------
EXTENDS Lpeg

MCChars == 0 .. 2
Words(n) == UNION {[1 .. i -> MCChars] : i \in 0 .. n}
Base == [calls |-> 6, depth |-> 2, sets |-> {}, numbers |-> {}, ops |-> {}, rules |-> {}, labels |-> {},
         consts |-> {}, names |-> {}, stars |-> {}, plain |-> {}, valued |-> {}, nums |-> {},
         functions |-> {}, grammars |-> {}, subjects |-> Words(2)]
\* choices and repetitions
Menu1 == [Base EXCEPT !.sets = {{0}, {1}}, !.numbers = {0}, !.ops = {"seq", "choice"}, !.stars = {0, -1},
                      !.calls = 7]
\* predicates
Menu2 == [Base EXCEPT !.sets = {{0}, {0, 1}}, !.numbers = {-1, 2}, !.stars = {1, -2},
                      !.ops = {"seq", "choice", "sub", "false", "not", "and", "behind"}, !.calls = 5]
\* grammars
Menu3 == [Base EXCEPT !.sets = {{0}}, !.rules = {"A", "B"}, !.ops = {"seq", "choice"}, !.stars = {0},
                      !.grammars = {<<"A">>, <<"A", "B">>}, !.calls = 7, !.depth = 3]
\* labels
Menu4 == [Base EXCEPT !.sets = {{0}}, !.rules = {"B"}, !.labels = {"B", "C"}, !.ops = {"seq", "choice", "not"},
                      !.grammars = {<<"A", "B">>}, !.calls = 7, !.depth = 3]
\* captures
Menu5 == [Base EXCEPT !.sets = {{0}}, !.ops = {"seq", "Cp"}, !.names = {"g"},
                      !.plain = {"simple", "table", "subst", "group"}, !.nums = {2}, !.calls = 5,
                      !.valued = {<<"group", "g">>, <<"fold", "f">>, <<"function", "none">>,
                                  <<"string", <<9, -1, -2>>>>}]
\* functions called in a match
Menu6 == [Base EXCEPT !.sets = {{0}, {0, 1}}, !.ops = {"seq", "choice", "and"}, !.stars = {0},
                      !.plain = {"simple", "table"},
                      !.functions = {"refuse", "accept", "value", "advance"}, !.calls = 5]
\* tables shared and joined
Menu7 == [Base EXCEPT !.ops = {"seq", "choice", "again"}, !.labels = {"L"}, !.names = {"g"},
                      !.consts = {[str |-> <<8>>], [str |-> <<9>>]}, !.valued = {<<"group", "g">>}, !.sets = {{0}}]
MCMenus == <<Menu1, Menu2, Menu3, Menu4, Menu5, Menu6, Menu7>>
=============================================================================
