--------------------------------- MODULE MCGC ---------------------------------
EXTENDS GC

(* Flags and finalizers of the blocks the program asks for.                *)
MCFin == {<<FALSE, FALSE, TRUE>>}
MCPlain == {<<FALSE, FALSE, FALSE>>}
MCMixed == {<<FALSE, FALSE, TRUE>>, <<FALSE, TRUE, FALSE>>, <<TRUE, FALSE, FALSE>>}
===============================================================================
