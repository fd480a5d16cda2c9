---------------------------- MODULE MCRpMalloc ----------------------------
(***************************************************************************)
(* A small allocator: spans of three blocks, caches of two spans.          *)
(***************************************************************************)
EXTENDS RpMalloc

MCBlocks == [c \in {"a"} |-> 3]
MCMenus  == {[kinds |-> {<<"a", 1>>}, calls |-> 7],
             [kinds |-> {<<"a", 1>>, <<Large, 2>>}, calls |-> 6],
             [kinds |-> {<<"a", 1>>, <<Large, 1>>, <<Huge, 3>>}, calls |-> 6]}
=============================================================================
