--------------------------- MODULE MCNodeRecords ---------------------------
(* Instance of NodeRecords for TLC. *)
EXTENDS NodeRecords
=============================================================================
