---------------------------- MODULE MCBrainSplit ----------------------------
(* Bounded instances of BrainSplit: the nodes are 1, 2 and 3, node 1 is the   *)
(* first primary.                                                             *)
EXTENDS BrainSplit, TLC

Equal == [n \in Node |-> 100]
ManyEvents == [event \in Event |-> IF event = "promote" THEN 2 ELSE 1]
=============================================================================
