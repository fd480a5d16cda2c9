---------------------------- MODULE ManagedMemory ----------------------------
(***************************************************************************)
(* What the collector promises, with no marks, lists, bounds or counters:  *)
(* a block is condemned only when nothing can reach it, condemning is all  *)
(* at once and complete, the finalizers of all the condemned blocks run    *)
(* before the first of them is reclaimed, each of them once, and nothing   *)
(* but a condemned block or one the program releases ever goes away.       *)
(*                                                                         *)
(* refs and stack belong to the program and are unconstrained here.        *)
(***************************************************************************)
CONSTANTS Addr

VARIABLES
  where,   (* Each block is "free", "live", "doomed" or "leaving".          *)
  pinned,  (* Blocks that are never collected.                              *)
  fate,    (* Each block's finalizer: "none", "owed" or "done".             *)
  refs,    (* Blocks each block refers to.                                  *)
  stack,   (* Blocks the program refers to directly.                        *)
  closing  (* The program is exiting.                                       *)

state == <<where, pinned, fate, closing>>

Tracked(w) == {p \in Addr : w[p] \in {"live", "doomed"}}

(* What can be reached at the end of a step that leaves blocks as in w.    *)
Reachable(w) ==
  {p \in Tracked(w) :
     \A S \in SUBSET Tracked(w) :
        /\ pinned' \subseteq S
        /\ stack' \cap Tracked(w) \subseteq S
        /\ \A q \in S : refs'[q] \cap Tracked(w) \subseteq S
        => p \in S}

(* A step leaves blocks as in w, or begins a cycle there if none is on.    *)
Settle(w) ==
  \/ where' = w
  \/ /\ \A p \in Addr : w[p] # "doomed"
     /\ where' = [p \in Addr |-> IF p \in Tracked(w) \ Reachable(w) THEN "doomed" ELSE w[p]]

Allocate(p) == /\ where[p] = "free"
               /\ pinned' \in {pinned, pinned \cup {p}}
               /\ fate' \in {[fate EXCEPT ![p] = f] : f \in {"none", "owed"}}
               /\ Settle([where EXCEPT ![p] = "live"])

Move(p, q) == /\ where[p] \in {"live", "doomed"} /\ where[q] = "free"
              /\ pinned' = IF p \in pinned THEN (pinned \ {p}) \cup {q} ELSE pinned
              /\ fate' = [fate EXCEPT ![p] = "none", ![q] = fate[p]]
              /\ Settle([where EXCEPT ![p] = "free", ![q] = where[p]])

(* The program releases a block: its finalizer is called, or is not owed.  *)
Release(p) == /\ where[p] \in {"live", "doomed"}
              /\ pinned' = pinned \ {p}
              /\ \/ /\ fate[p] = "owed"
                    /\ fate' = [fate EXCEPT ![p] = "done"]
                    /\ where' = [where EXCEPT ![p] = "leaving"]
                 \/ /\ fate[p] # "owed"
                    /\ fate' = [fate EXCEPT ![p] = "none"]
                    /\ where' = [where EXCEPT ![p] = "free"]

(* The program takes back a block of its own, finalized or not.            *)
TakeBack(p) == /\ where[p] \in {"live", "doomed"}
               /\ pinned' = pinned \ {p}
               /\ fate' = [fate EXCEPT ![p] = "none"]
               /\ where' = [where EXCEPT ![p] = "free"]

Leave(p) == /\ where[p] = "leaving"
            /\ where' = [where EXCEPT ![p] = "free"]
            /\ fate' = [fate EXCEPT ![p] = "none"]
            /\ UNCHANGED pinned

Condemn == Settle(where) /\ UNCHANGED <<pinned, fate>>

Finalize(p) == /\ where[p] = "doomed" /\ fate[p] = "owed"
               /\ fate' = [fate EXCEPT ![p] = "done"]
               /\ UNCHANGED <<where, pinned>>

Reclaim(p) == /\ where[p] = "doomed"
              /\ \A q \in Addr : where[q] = "doomed" => fate[q] # "owed"
              /\ where' = [where EXCEPT ![p] = "free"]
              /\ fate' = [fate EXCEPT ![p] = "none"]
              /\ UNCHANGED pinned

(* At exit everything but the pinned blocks is condemned, reachable or     *)
(* not, and what is still there when that is done is let go.               *)
Shutdown == /\ ~closing /\ closing' = TRUE
            /\ where' = [p \in Addr |-> IF where[p] = "live" /\ p \notin pinned
                                        THEN "doomed" ELSE where[p]]
            /\ UNCHANGED <<pinned, fate>>
LetGo == /\ closing /\ closing' = TRUE
         /\ where' = [p \in Addr |-> "free"]
         /\ pinned' = {}
         /\ UNCHANGED fate

Init == /\ where \in [Addr -> {"free", "live"}]
        /\ pinned = {p \in Addr : where[p] = "live"}
        /\ fate = [p \in Addr |-> "none"]
        /\ closing = FALSE

Manage == \/ \E p \in Addr : Allocate(p) \/ Release(p) \/ TakeBack(p) \/ Leave(p)
                             \/ Finalize(p) \/ Reclaim(p)
          \/ \E p, q \in Addr : Move(p, q)
          \/ Condemn
Next == \/ Manage /\ UNCHANGED closing
        \/ Shutdown
        \/ LetGo

Spec == Init /\ [][Next]_state
===============================================================================
