---------------------------- MODULE MCSharedState ----------------------------
(* Bounded instances of SharedState: this is node 1, the other one is node 2. *)
EXTENDS SharedState, TLC

Sessions == Permutations(Session)

Everything == SqlFunction
SomeEvents == [event \in Event |-> IF event = "pause" THEN 2 ELSE 1]
=============================================================================
