------------------------------ MODULE MCLuaGC ------------------------------
(***************************************************************************)
(* The menus of the model-checking run: each behaviour gets one of them,   *)
(* so that every pair of features that interact meets within a few steps   *)
(* of the program.                                                         *)
(***************************************************************************)
EXTENDS LuaGC

Menu(kinds, modes, drives, start, gen, n) ==
  [kinds |-> kinds, modes |-> modes, drives |-> drives, start |-> start, gen |-> gen, ops |-> n]

\* An ephemeron table in the registry, and one held by a local besides.
WeakStart == LET S == Create(NewState, Main, "table", "weakk") IN PutEntry(S, Reg, NIL, 3)

\* A coroutine in a local; in the registry a closure over the coroutine's slot.
ThreadStart ==
  LET S == PushClosure(Create(NewState, Main, "thread", "strong"), 3)
  IN PutEntry(S, Reg, NIL, 4)

\* A table with a finalizer in a local; another one in the registry.
FinStart ==
  LET S == CheckFinalizer(Create(NewState, Main, "table", "strong"), 3)
  IN PutEntry(Create(S, Main, "table", "strong"), Reg, NIL, 3)

MCMenus ==
  { \* strong tables and finalizers, swept incrementally, then by age
    Menu({"table", "gc"}, {"strong"}, {"inc"}, NewState, FALSE, 3),
    Menu({"gc"}, {"strong"}, {"inc"}, FinStart, FALSE, 1),
    Menu({"table"}, {"strong"}, {"gen"}, NewState, TRUE, 3),
    Menu({"gc"}, {"strong"}, {"gen"}, FinStart, TRUE, 2),
    \* weak tables of the three modes
    Menu({"table"}, {"weakk", "weakv"}, {"inc"}, NewState, FALSE, 3),
    Menu({"table", "string"}, {"weakk", "weakv", "all"}, {"inc"}, NewState, FALSE, 2),
    Menu({"table", "string"}, {"weakv"}, {"gen"}, WeakStart, TRUE, 2),
    Menu({"table", "string"}, {"weakv"}, {"full"}, WeakStart, TRUE, 3),
    \* coroutines, closures and open upvalues
    Menu({"lcl"}, {"strong"}, {"inc"}, ThreadStart, FALSE, 2),
    Menu({"lcl"}, {"strong"}, {"gen"}, ThreadStart, TRUE, 2),
    \* full and emergency collections and changes of mode at any point
    Menu({"table", "gc", "lcl", "thread"}, {"weakk"}, Drives, NewState, FALSE, 2) }
=============================================================================
