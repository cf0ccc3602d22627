---------------------------- MODULE MCElectionRun ----------------------------
(* Bounded instances of ElectionRun: the local node is 2, its sibling          *)
(* standbys are 1 and 3 (a lower and a higher id), the witness is 9.           *)
EXTENDS ElectionRun

MCLsns == {4, 5}
MCPriorities == {0, 1, 2}
=============================================================================
