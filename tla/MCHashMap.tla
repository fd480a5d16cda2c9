------------------------------ MODULE MCHashMap ------------------------------
EXTENDS HashMap

(* 0, 7, 3, 10, 6, ...: which keys share a bucket changes with the number  *)
(* of buckets (all with 2, 0-2 and 1-3 with 4, 0-1 and 2-3 with 8).        *)
MCHash == [key \in Keys |-> 7 * (key % 2) + 3 * (key \div 2)]
===============================================================================
