----------------------------- MODULE MCFailover -----------------------------
(* Bounded instances of Failover: the primary is 10, its standbys 1, 2 and 3, *)
(* its witness 9.                                                             *)
EXTENDS Failover, TLC, Functions

\* Whom a node reaches when the network is split into these parts.
Split(parts) == [n \in Node |-> UNION {p \in parts : n \in p}]

Whole == {Split({Node})}

\* The primary may be cut off, alone or with any minority of the others.
Splits == {Split({Node \ p, p}) : p \in {q \in SUBSET Node : Primary \in q}}

\* The same, but the witness is never cut off from a standby alone.
SplitsBesideWitness ==
  Whole \cup {Split({Node \ p, p}) : p \in {{Primary} \cup q : q \in SUBSET Standby \ {Standby}}}

OneLocation == [n \in Node |-> "dc1"]

NoFault == [fault \in Fault |-> 0]
CommandMayFail == [NoFault EXCEPT !["command"] = 1, !["rerun"] = 1]

Faults == [fault \in Fault |-> IF fault = "rerun" THEN 0 ELSE 1]

\* How many of them happen in one behaviour.
FewFaults == FoldFunction(+, 0, spent) <= 3

PriorityOfTwo == (1 :> 1) @@ (2 :> 1)
PriorityOfThree == (1 :> 1) @@ (2 :> 1) @@ (3 :> 2)
=============================================================================
