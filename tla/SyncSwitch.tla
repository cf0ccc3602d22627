----------------------------- MODULE SyncSwitch -----------------------------
(***************************************************************************)
(* The switch of a primary between synchronous and asynchronous            *)
(* replication: check_sync_async() of repmgrd-physical.c, which the        *)
(* primary's repmgrd calls in each round of its loop while its server      *)
(* answers.  It edits postgresql.conf with sed and reloads the server, two *)
(* commands of which the second may fail; what it has done is remembered   *)
(* in a static variable, which does not outlive the process.               *)
(*                                                                         *)
(* synchronous_standby_names asks for one standby of Sync (where it asks   *)
(* for more only_one_sync_node() is false and nothing is ever switched).   *)
(* Left out: a restart of the primary's server, which applies the file as  *)
(* it is, and the failover of the primary.                                 *)
(***************************************************************************)
EXTENDS Integers, FiniteSets

CONSTANTS
  Standby,     \* the standbys in repmgr.nodes, which are read in this order
  Sync,        \* those that synchronous_standby_names lists
  Patience,    \* the rounds of the loop that fit into 30 seconds
  Near,        \* the lag that counts as none, 5 MB
  MaxWal,      \* bound on the WAL written
  Budget       \* bound on the faults of each kind

Fault == {"detach", "stop", "restart", "reload"}

ASSUME StandbyAssumption == Standby \subseteq Nat /\ IsFiniteSet(Standby) /\ Sync \subseteq Standby
ASSUME BoundAssumption ==
  /\ Patience \in Nat \ {0} /\ Near \in Nat /\ MaxWal \in Nat
  /\ Budget \in [Fault -> Nat]

VARIABLES
  wal,        \* how much WAL the primary has written
  received,   \* how much of it each standby has
  state,      \* each standby: "attached", "detached" or "down"
  waiting,    \* a transaction has written its commit and waits for a standby
  marks,      \* how many # stand before synchronous_standby_names in the file
  enforced,   \* the server's setting is not empty
  pc,         \* where repmgrd is
  missed,     \* unreachable_standby_counts
  switched,   \* switch_async_mode
  current,    \* primary_last_wal_location
  todo,       \* the standbys it has not looked at yet
  spent       \* the faults that have happened

server == <<wal, received, state, waiting>>
statics == <<missed, switched>>
locals == <<current, todo>>
vars == <<server, marks, enforced, pc, statics, locals, spent>>

Place == {"off", "loop", "comment", "reload_async", "scan", "uncomment", "reload_sync"}

Attached == {s \in Standby : state[s] = "attached"}

Spend(fault) ==
  /\ spent[fault] < Budget[fault]
  /\ spent' = [spent EXCEPT ![fault] = @ + 1]

Init ==
  /\ wal = 0 /\ received = [s \in Standby |-> 0]
  /\ state = [s \in Standby |-> "attached"]
  /\ waiting = FALSE
  /\ marks = 0 /\ enforced = TRUE
  /\ pc = "loop" /\ missed = 0 /\ switched = FALSE
  /\ current = 0 /\ todo = {}
  /\ spent = [fault \in Fault |-> 0]
-----------------------------------------------------------------------------
(***************************************************************************)
(* PostgreSQL.                                                             *)
(***************************************************************************)

\* A commit is written, and waits if replication is synchronous.
Commit ==
  /\ ~waiting /\ wal < MaxWal
  /\ wal' = wal + 1
  /\ waiting' = enforced
  /\ UNCHANGED <<received, state, marks, enforced, pc, statics, locals, spent>>

Receive(s) ==
  /\ state[s] = "attached" /\ received[s] < wal
  /\ received' = [received EXCEPT ![s] = @ + 1]
  /\ UNCHANGED <<wal, state, waiting, marks, enforced, pc, statics, locals, spent>>

\* A standby confirms, or the setting has been emptied.
Acknowledge ==
  /\ waiting
  /\ ~enforced \/ \E s \in Sync \cap Attached : received[s] = wal
  /\ waiting' = FALSE
  /\ UNCHANGED <<wal, received, state, marks, enforced, pc, statics, locals, spent>>

\* The WAL receiver loses its connection, or the whole server stops.
Leaves(s) ==
  /\ state[s] = "attached"
  /\ \/ Spend("detach") /\ state' = [state EXCEPT ![s] = "detached"]
     \/ Spend("stop") /\ state' = [state EXCEPT ![s] = "down"]
  /\ UNCHANGED <<wal, received, waiting, marks, enforced, pc, statics, locals>>

Returns(s) ==
  /\ state[s] # "attached"
  /\ state' = [state EXCEPT ![s] = "attached"]
  /\ UNCHANGED <<wal, received, waiting, marks, enforced, pc, statics, locals, spent>>
-----------------------------------------------------------------------------
(***************************************************************************)
(* check_sync_async().                                                     *)
(***************************************************************************)

\* only_one_sync_node(), of a setting that is empty or asks for one standby.
OneSyncNode == enforced

\* Mutant: it is not asked whether the mode has been switched already.
NobodyAttached_Again ==
  /\ pc = "loop" /\ Attached = {}
  /\ LET count == IF OneSyncNode THEN missed + 1 ELSE missed IN
     /\ missed' = IF count <= Patience THEN count ELSE missed
     /\ pc' = IF OneSyncNode /\ count > Patience THEN "comment" ELSE "loop"
  /\ UNCHANGED <<server, marks, enforced, switched, locals, spent>>

\* Nobody streams from the primary.  A setting that is empty already (the
\* switch is done, or was done by the repmgrd before this one) ends the check.
\* The 30 seconds are counted from the first round.
NobodyAttached ==
  /\ pc = "loop" /\ Attached = {}
  /\ LET count == IF OneSyncNode THEN missed + 1 ELSE missed IN
     /\ missed' = IF count <= Patience THEN count ELSE missed
     /\ pc' = IF OneSyncNode /\ count > Patience /\ ~switched THEN "comment" ELSE "loop"
  /\ UNCHANGED <<server, marks, enforced, switched, locals, spent>>

\* sed 's/synchronous_standby_names/#synchronous_standby_names/g'
CommentOut ==
  /\ pc = "comment"
  /\ marks' = marks + 1
  /\ pc' = "reload_async"
  /\ UNCHANGED <<server, enforced, statics, locals, spent>>

\* pg_ctl reload, whose result is not looked at.
Reload ==
  \/ enforced' = (marks = 0) /\ UNCHANGED spent
  \/ Spend("reload") /\ UNCHANGED enforced

\* Mutant: the switch is not remembered.
SwitchToAsync_Forgotten ==
  /\ pc = "reload_async"
  /\ Reload
  /\ pc' = "loop"
  /\ UNCHANGED <<server, marks, statics, locals>>

SwitchToAsync ==
  /\ pc = "reload_async"
  /\ Reload
  /\ switched' = TRUE
  /\ pc' = "loop"
  /\ UNCHANGED <<server, marks, missed, locals>>

SomebodyAttached ==
  /\ pc = "loop" /\ Attached # {}
  /\ missed' = 0
  /\ \/ ~switched /\ UNCHANGED <<pc, locals>>
     \/ switched /\ pc' = "scan" /\ current' = wal /\ todo' = Standby
  /\ UNCHANGED <<server, marks, enforced, switched, spent>>

\* A standby that answers is near, whether it is attached or not; not, however,
\* when it has received more than the primary had written at the start.
IsNear(s) == state[s] # "down" /\ current >= received[s] /\ current - received[s] <= Near

\* One standby after the other; a switch back does not end the loop.
LookAt(s) ==
  /\ pc = "scan"
  /\ s \in todo /\ \A other \in todo : s <= other
  /\ todo' = todo \ {s}
  /\ pc' = IF IsNear(s) THEN "uncomment" ELSE "scan"
  /\ UNCHANGED <<server, marks, enforced, statics, current, spent>>

ScanEnds ==
  /\ pc = "scan" /\ todo = {}
  /\ pc' = "loop"
  /\ UNCHANGED <<server, marks, enforced, statics, locals, spent>>

\* sed 's/#synchronous_standby_names/synchronous_standby_names/g'
Uncomment ==
  /\ pc = "uncomment"
  /\ marks' = IF marks > 0 THEN marks - 1 ELSE marks
  /\ pc' = "reload_sync"
  /\ UNCHANGED <<server, enforced, statics, locals, spent>>

\* Mutant: the mark that the mode was switched is not taken away.
SwitchToSync_StillSwitched ==
  /\ pc = "reload_sync"
  /\ Reload
  /\ pc' = "scan"
  /\ UNCHANGED <<server, marks, statics, locals>>

SwitchToSync ==
  /\ pc = "reload_sync"
  /\ Reload
  /\ switched' = FALSE
  /\ pc' = "scan"
  /\ UNCHANGED <<server, marks, missed, locals>>

\* repmgrd ends, anywhere; the statics are lost.
Dies ==
  /\ pc # "off" /\ Spend("restart")
  /\ pc' = "off"
  /\ missed' = 0 /\ switched' = FALSE
  /\ current' = 0 /\ todo' = {}
  /\ UNCHANGED <<server, marks, enforced>>

Starts ==
  /\ pc = "off"
  /\ pc' = "loop"
  /\ UNCHANGED <<server, marks, enforced, statics, locals, spent>>
-----------------------------------------------------------------------------
Repmgrd ==
  \/ NobodyAttached \/ SomebodyAttached
  \/ CommentOut \/ SwitchToAsync
  \/ \E s \in Standby : LookAt(s)
  \/ ScanEnds \/ Uncomment \/ SwitchToSync

Next ==
  \/ Repmgrd \/ Dies \/ Starts
  \/ Commit \/ Acknowledge
  \/ \E s \in Standby : Receive(s) \/ Leaves(s) \/ Returns(s)

Spec == Init /\ [][Next]_vars

\* repmgrd is a loop that sleeps for bounded times, and is started again by the
\* service manager; attached standbys receive WAL.
FairSpec ==
  /\ Spec
  /\ WF_vars(Repmgrd) /\ WF_vars(Starts) /\ WF_vars(Acknowledge)
  /\ \A s \in Standby : WF_vars(Receive(s))
-----------------------------------------------------------------------------
(***************************************************************************)
(* Properties                                                              *)
(***************************************************************************)

\* The types of the variables.
TypeOK ==
  /\ wal \in 0 .. MaxWal /\ received \in [Standby -> 0 .. MaxWal]
  /\ state \in [Standby -> {"attached", "detached", "down"}]
  /\ waiting \in BOOLEAN /\ enforced \in BOOLEAN /\ switched \in BOOLEAN
  /\ marks \in Nat
  /\ pc \in Place
  /\ missed \in 0 .. Patience
  /\ current \in 0 .. MaxWal /\ todo \in SUBSET Standby
  /\ spent \in [Fault -> Nat]

\* As long as repmgrd has not ended, the file has the setting commented out
\* exactly when repmgrd remembers that it has switched, or is between the edit
\* and the note of it: no path edits the file twice.  (sed would add a second #
\* that the switch back does not take away.)
MarkIsKnown ==
  spent["restart"] = 0 =>
    marks = IF pc = "reload_async" \/ (switched /\ pc # "reload_sync") THEN 1 ELSE 0

ReloadsWork == spent["reload"] = 0

\* A transaction does not wait for ever for a synchronous standby that has
\* gone, whenever repmgrd ends and starts again.  The premises are what
\* check_sync_async() relies on without looking: that pg_ctl reload works, and
\* that no other standby streams from the primary while those of
\* synchronous_standby_names are gone (it counts all the standbys).
CommitsResume ==
  [](ReloadsWork /\ (Attached = {} \/ Sync \cap Attached # {})) => [](waiting => <>~waiting)

\* Replication becomes synchronous again when a standby has come back, unless
\* repmgrd has ended after it had edited the file, since the one that is
\* started then does not know of it.
SyncReturns ==
  /\ [](ReloadsWork /\ (pc = "off" => marks = 0 /\ enforced))
  /\ <>[](\E s \in Standby : state[s] = "attached")
  => <>[]enforced
=============================================================================
