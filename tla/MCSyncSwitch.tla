---------------------------- MODULE MCSyncSwitch ----------------------------
(* Bounded instances of SyncSwitch: enough losses of a connection for both    *)
(* standbys to go and for the synchronous one to go again.                    *)
EXTENDS SyncSwitch, TLC

Losses == [fault \in Fault |-> IF fault = "detach" THEN 3 ELSE 1]
=============================================================================
