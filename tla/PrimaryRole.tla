---------------------------- MODULE PrimaryRole ----------------------------
(***************************************************************************)
(* What automatic failover promises of the role of primary, said without   *)
(* repmgrds, elections, notices or commands: the primary may be lost; one  *)
(* of its standbys, which has all that the standbys it sees have received, *)
(* may take its place, once; and the others may move over to that one, if  *)
(* it has all they have.  Nothing else ever happens to a server.           *)
(*                                                                         *)
(* Failover implements this in a network that does not change.             *)
(***************************************************************************)
EXTENDS Naturals

CONSTANTS
  Primary,      \* the server whose role it is
  Standby,      \* its standbys
  Electable,    \* those that may take its place
  MaxLsn        \* bound on the WAL written

VARIABLES
  serving,      \* the servers that accept writes
  follows,      \* the upstream of each standby
  wal,          \* how far each server has written or received WAL
  sees          \* the servers that each server can reach

vars == <<serving, follows, wal, sees>>

Init ==
  /\ serving = {Primary}
  /\ follows = [n \in Standby |-> Primary]
  /\ \A n \in {Primary} \cup Standby : wal[n] = 0

\* The primary writes, or a standby that is attached to it receives.
Advance(n) ==
  /\ Primary \in serving
  /\ \/ n = Primary
     \/ n \in Standby \ serving /\ follows[n] = Primary /\ wal[n] < wal[Primary]
  /\ wal' = [wal EXCEPT ![n] = @ + 1]
  /\ wal'[n] <= MaxLsn
  /\ UNCHANGED <<serving, follows, sees>>

Lose ==
  /\ serving' = serving \ {Primary}
  /\ UNCHANGED <<follows, wal, sees>>

TakeOver(n) ==
  /\ serving \subseteq {Primary}
  /\ follows[n] = Primary
  /\ \A s \in Electable \cap sees[n] : wal[s] <= wal[n]
  /\ serving' = serving \cup {n}
  /\ UNCHANGED <<follows, wal, sees>>

MoveOver(n, m) ==
  /\ n \notin serving /\ follows[n] = Primary
  /\ m \in serving \ {Primary}
  /\ wal[n] <= wal[m]
  /\ follows' = [follows EXCEPT ![n] = m]
  /\ UNCHANGED <<serving, wal, sees>>

Next ==
  \/ Lose
  \/ \E n \in {Primary} \cup Standby : Advance(n)
  \/ \E n \in Standby : TakeOver(n)
  \/ \E n, m \in Standby : MoveOver(n, m)

Spec == Init /\ [][Next]_vars
=============================================================================
