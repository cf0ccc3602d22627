------------------------- MODULE MCReplicationSlots -------------------------
(* Instance of ReplicationSlots for TLC. *)
EXTENDS ReplicationSlots
=============================================================================
