---------------------------- MODULE NodeRecords ----------------------------
(***************************************************************************)
(* The node records (repmgr.nodes), their copies and who changes them: the *)
(* register and unregister commands of primaries, standbys and the witness *)
(* (repmgr-action-primary.c, -standby.c, -witness.c), the updates in       *)
(* dbutils.c, and the witness' repmgrd, which keeps a copy of its own and  *)
(* has to find the new primary after a failover                            *)
(* (monitor_streaming_witness() of repmgrd-physical.c).                    *)
(*                                                                         *)
(* A standby has the records its server has replicated, the witness those  *)
(* it copied last, and every command looks for the primary in the records  *)
(* of the server it was started on.  What it checked may have changed when *)
(* it writes.  Node names are taken to be distinct; the virtual IP is in   *)
(* Switchover, waiting for a registration to be replicated changes nothing *)
(* and is left out.                                                        *)
(***************************************************************************)
EXTENDS Naturals, FiniteSets

CONSTANTS
  Data,           \* the ids of the nodes with the data; ids order the records
  Witness,        \* the id of the witness server
  None,
  Initial,        \* the primary initially; the others are its standbys
  MaxCommands,    \* bound: commands run in a behaviour
  MaxPromotions,  \* bound: promotions
  MaxFaults       \* bound: servers that go down, and lost processes

ASSUME NodeAssumption ==
  /\ Data \subseteq Nat /\ IsFiniteSet(Data)
  /\ Witness \in Nat \ Data /\ Initial \in Data /\ None \notin Nat
ASSUME BoundAssumption == {MaxCommands, MaxPromotions, MaxFaults} \subseteq Nat

Server == Data \cup {Witness}

VARIABLES
  server,    \* per server: is it up, is it a primary
  streams,   \* per data node: the server it streams from when both are up
  table,     \* per server: its copy of the records
  cmd,       \* per server: the command running there
  repmgrd,   \* the repmgrd of the witness
  notice,    \* the new primary announced in the shared memory of the witness
  spent      \* what the bounds have been used for

vars == <<server, streams, table, cmd, repmgrd, notice, spent>>

Type == {"none", "primary", "standby", "witness"}
Record == [type : Type, active : BOOLEAN, upstream : Server \cup {None}]
NoRecord == [type |-> "none", active |-> FALSE, upstream |-> None]
Empty == [n \in Server |-> NoRecord]

\* What is left to be done by a command: a change of the records over its
\* connection, with what it has read before.
Step == {"idle", "standby", "primary", "witness", "copy", "delete"}
Command == [step : Step, conn : Server \cup {None}, target : Server \cup {None},
            upstream : Server \cup {None},
            found : Type,        \* of the target's record
            current : BOOLEAN]   \* history: the target was a primary that runs then
Idle == [step |-> "idle", conn |-> None, target |-> None, upstream |-> None, found |-> "none",
         current |-> FALSE]

\* "copy", "sync" and "follow" stages: the primary has been seen to be one, its
\* records are read next.
Stage == {"stopped", "start", "copy at start", "monitor", "sync", "retry", "wait", "follow",
          "degraded", "degraded sync", "degraded follow"}

\* primary_conn: a session, one that has ended unnoticed, none.
Link == {"ok", "dead", "bad"}

TypeOK ==
  /\ server \in [Server -> [up : BOOLEAN, primary : BOOLEAN]]
  /\ streams \in [Data -> Data \cup {None}]
  /\ table \in [Server -> [Server -> Record]]
  /\ \A s, n \in Server :
       table[s][n].upstream # None => table[s][table[s][n].upstream].type # "none"
  /\ cmd \in [Server -> Command]
  /\ repmgrd \in [stage : Stage, link : Link, conn : Data \cup {None}, upstream : Data \cup {None},
                  follow : Data \cup {None}, siblingsOf : Server \cup {None}, active : BOOLEAN]
  /\ notice \in Data \cup {None}
  /\ spent \in [commands : 0..MaxCommands, promotions : 0..MaxPromotions, faults : 0..MaxFaults]

-----------------------------------------------------------------------------
(* Reading records, t being the copy of some server. *)

\* get_node_record() finds a record.
Registered(t, n) == n # None /\ t[n].type # "none"

\* get_primary_node_id(): any of them, if there are several.
PrimaryIds(t) == {n \in Server : t[n].type = "primary" /\ t[n].active}

\* A connection on which records can be changed.
Writable(p) == p # None /\ server[p].up /\ server[p].primary

\* A primary that runs, and is the primary of its own records.
RunningPrimary(p) == Writable(p) /\ p \in PrimaryIds(table[p])

\* The order in which _get_primary_connection() tries the active nodes.
Before(t, a, b) ==
  IF (t[a].type = "primary") = (t[b].type = "primary") THEN a <= b ELSE t[a].type = "primary"

\* _get_primary_connection(): the first that is up and not in recovery, if any.
PrimaryConnection(t) ==
  LET running == {n \in Data : Registered(t, n) /\ t[n].active /\ Writable(n)}
  IN {n \in running : \A m \in running : Before(t, n, m)}

\* get_downstream_node_records()
Downstream(t, n) == {m \in Server : Registered(t, m) /\ t[m].upstream = n}

\* get_active_sibling_node_records()
Siblings(t, n, upstream) == {m \in Downstream(t, upstream) \ {n} : t[m].active}

\* is_downstream_node_attached()
Attached(n, m) == server[n].up /\ server[m].up /\ streams[n] = m

-----------------------------------------------------------------------------
(* Changing records: the set of the possible results, empty if the change is *)
(* refused.  An upstream must be registered (a foreign key).                 *)

\* _create_update_node_record(): a standby without an upstream gets the primary
\* of the records; if they have none, -1 is not the id of a node.
UpstreamOf(t, record) ==
  IF record.type = "standby" /\ record.upstream = None THEN PrimaryIds(t) ELSE {record.upstream}

Stored(t, n, record) ==
  {[t EXCEPT ![n] = [record EXCEPT !.upstream = u]] :
     u \in {v \in UpstreamOf(t, record) : v = None \/ Registered(t, v)}}

\* create_node_record() and update_node_record(): an update of no row is no error.
Created(t, n, record) == IF Registered(t, n) THEN {} ELSE Stored(t, n, record)
Updated(t, n, record) == IF Registered(t, n) THEN Stored(t, n, record) ELSE {t}

\* Mutant: the table without its foreign key.
Deleted_NoReferences(t, n) == {[t EXCEPT ![n] = NoRecord]}

\* delete_node_record()
Deleted(t, n) == IF Downstream(t, n) = {} THEN {[t EXCEPT ![n] = NoRecord]} ELSE {}

\* update_node_record_set_active()
SetActive(t, n, active) ==
  IF Registered(t, n) THEN [t EXCEPT ![n].active = active] ELSE t

\* update_node_record_set_primary(), a transaction.
SetPrimary(t, n) ==
  [m \in Server |-> IF m = n THEN [type |-> "primary", active |-> TRUE, upstream |-> None]
                    ELSE IF m \in PrimaryIds(t) THEN [t[m] EXCEPT !.active = FALSE] ELSE t[m]]

\* update_node_record_set_active_standby(): the upstream remains what it was.
SetActiveStandby(t, n) == [t EXCEPT ![n].type = "standby", ![n].active = TRUE]

\* update_node_record_set_upstream()
SetUpstream(t, n, u) ==
  IF Registered(t, n) /\ Registered(t, u) THEN [t EXCEPT ![n].upstream = u] ELSE t

\* update_node_record_status() for a standby
SetStandby(t, n, u) ==
  IF Registered(t, n) /\ Registered(t, u)
    THEN [t EXCEPT ![n] = [type |-> "standby", active |-> TRUE, upstream |-> u]] ELSE t

\* witness_copy_node_records() replaces the records of the witness, w, by those
\* read from the primary, t, in the order of their ids.  A standby without an
\* upstream is given the primary among the records stored before it; without
\* one the transaction fails when it is committed, and nothing has changed.
\* The result of reading is not looked at: no records are copied as such.
Orphans(t) == {n \in Server : t[n].type = "standby" /\ t[n].upstream = None}
CopyFails(t) == \E n \in Orphans(t) : \A m \in PrimaryIds(t) : m > n
CopyOf(w, t) ==
  IF CopyFails(t) THEN w
  ELSE [n \in Server |-> IF n \in Orphans(t)
                           THEN [t[n] EXCEPT !.upstream = CHOOSE m \in PrimaryIds(t) : m < n]
                           ELSE t[n]]
CopyRecords(w, p, answers) == CopyOf(w, IF answers THEN table[p] ELSE Empty)

-----------------------------------------------------------------------------
\* The primary may already be registered, with its standbys and the witness.
Init ==
  /\ server = [n \in Server |-> [up |-> TRUE, primary |-> n \in {Initial, Witness}]]
  /\ streams = [n \in Data |-> IF n = Initial THEN None ELSE Initial]
  /\ \E known \in {{}, {Initial}, Server} :
       table = [s \in Server |->
         [n \in Server |->
            IF n \notin known \/ (s = Witness /\ Witness \notin known) THEN NoRecord
            ELSE IF n = Initial THEN [type |-> "primary", active |-> TRUE, upstream |-> None]
            ELSE [type |-> IF n = Witness THEN "witness" ELSE "standby",
                  active |-> TRUE, upstream |-> Initial]]]
  /\ cmd = [s \in Server |-> Idle]
  /\ repmgrd = [stage |-> "stopped", link |-> "bad", conn |-> None, upstream |-> None, follow |-> None,
                siblingsOf |-> None, active |-> TRUE]
  /\ notice = None
  /\ spent = [commands |-> 0, promotions |-> 0, faults |-> 0]

-----------------------------------------------------------------------------
(* Commands.  One that its checks refuse changes nothing and is no step. *)

Spend(what, bound) == spent[what] < bound /\ spent' = [spent EXCEPT ![what] = @ + 1]

\* A command can be started on s.
Free(s) == cmd[s].step = "idle" /\ spent.commands < MaxCommands

Begin(s, c) == cmd' = [cmd EXCEPT ![s] = c] /\ Spend("commands", MaxCommands)

End(s) == cmd' = [cmd EXCEPT ![s] = Idle]

\* do_primary_register(): no other running primary is known here.
PrimaryRegister(n) ==
  /\ Free(n)
  /\ Writable(n)
  /\ PrimaryConnection(table[n]) \subseteq {n}
  /\ Begin(n, [Idle EXCEPT !.step = "primary", !.conn = n])
  /\ UNCHANGED <<server, streams, table, repmgrd, notice>>

\* Mutant: the primary of the records is not looked at.
RecordsAllowPrimary_Any(t, n) == TRUE

RecordsAllowPrimary(t, n) == PrimaryIds(t) \subseteq {n}

\* Its transaction.
RegisterPrimary(n, force) ==
  LET record == [type |-> "primary", active |-> TRUE, upstream |-> None]
      t      == table[n]
  IN /\ cmd[n].step = "primary"
     /\ IF Writable(n) /\ RecordsAllowPrimary(t, n) /\ (Registered(t, n) => force)
          THEN table' = [table EXCEPT ![n] = [t EXCEPT ![n] = record]]
          ELSE UNCHANGED table
     /\ End(n)
     /\ UNCHANGED <<server, streams, repmgrd, notice, spent>>

\* Mutant: the current primary may be unregistered.
IsCurrentPrimary_Never(p, target) == FALSE

\* "the current primary node, unable to unregister"
IsCurrentPrimary(p, target) == target \in PrimaryIds(table[p])

\* do_primary_unregister(), run on s: the target's record is the one of the
\* primary, the local one, or the one found in the local records.
PrimaryUnregister(s, option, force) ==
  /\ Free(s)
  /\ server[s].up /\ Registered(table[s], s)
  /\ option # None => Registered(table[s], option)
  /\ \E p \in PrimaryIds(table[s]) : \E current \in PrimaryIds(table[p]) :
       LET target == IF option = None THEN current ELSE option
           record == IF option = None THEN table[p][current] ELSE table[s][option]
       IN /\ server[p].up
          /\ record.type # "witness"
          /\ Downstream(table[p], target) = {}
          /\ IF ~server[target].up THEN record.type = "primary"
             ELSE IF server[target].primary THEN ~IsCurrentPrimary(p, target)
             ELSE record.type = "primary" /\ force
          /\ record.active => force
          /\ Begin(s, [Idle EXCEPT !.step = "delete", !.conn = p, !.target = target,
                                  !.found = record.type, !.current = RunningPrimary(target)])
  /\ UNCHANGED <<server, streams, table, repmgrd, notice>>

\* do_standby_register(), the primary and the node's own record: a server that
\* is down can be registered with --force and the parameters of another one.
RegisterConnection(n, host) ==
  IF server[n].up THEN PrimaryConnection(table[n]) ELSE {h \in {host} : server[h].up}

\* The upstream that was asked for.  An unregistered one gets a placeholder.
\* Whether its record is active is not seen: the code looks at the node's own.
UpstreamAccepted(n, p, upstream, force) ==
  \/ upstream = None /\ (server[n].up => (force \/ Registered(table[p], n) \/ Attached(n, p)))
  \/ /\ upstream # None /\ upstream # n
     /\ \/ force
        \/ Registered(table[p], upstream) /\ Attached(n, upstream)

Placeholder(p, upstream) ==
  IF upstream = None \/ Registered(table[p], upstream) THEN {table[p]}
  ELSE IF Writable(p)
    THEN Created(table[p], upstream, [type |-> "standby", active |-> FALSE, upstream |-> None])
  ELSE {}

StandbyRegister(n, upstream, host, force) ==
  /\ Free(n)
  /\ ~(server[n].up /\ server[n].primary)
  /\ server[n].up \/ force
  /\ \E p \in RegisterConnection(n, host) :
       /\ Registered(table[p], n) => force
       /\ UpstreamAccepted(n, p, upstream, force)
       /\ \E t \in Placeholder(p, upstream) : table' = [table EXCEPT ![p] = t]
       /\ Begin(n, [Idle EXCEPT !.step = "standby", !.conn = p, !.target = n,
            !.upstream = IF upstream = None /\ server[n].up THEN p ELSE upstream,
            !.found = table[p][n].type])
  /\ UNCHANGED <<server, streams, repmgrd, notice>>

\* "if node record exists, update it, otherwise insert it"
Written(c, record) ==
  IF ~Writable(c.conn) THEN {}
  ELSE IF c.found # "none" THEN Updated(table[c.conn], c.target, record)
  ELSE Created(table[c.conn], c.target, record)

\* The records on p become one of the results; nothing changes if there is none.
Change(p, results) ==
  IF results = {} THEN UNCHANGED table ELSE \E t \in results : table' = [table EXCEPT ![p] = t]

RegisterStandby(n) ==
  LET c == cmd[n]
      record == [type |-> "standby", active |-> TRUE, upstream |-> c.upstream]
  IN /\ c.step = "standby"
     /\ Change(c.conn, Written(c, record))
     /\ End(n)
     /\ UNCHANGED <<server, streams, repmgrd, notice, spent>>

\* do_standby_unregister() and do_witness_unregister(), run on s: the target is
\* looked up on the primary.
Unregister(s, target, type) ==
  /\ Free(s)
  /\ server[s].up
  /\ \E p \in PrimaryConnection(table[s]) :
       /\ table[p][target].type = type
       /\ Begin(s, [Idle EXCEPT !.step = "delete", !.conn = p, !.target = target, !.found = type,
                               !.current = RunningPrimary(target)])
  /\ UNCHANGED <<server, streams, table, repmgrd, notice>>

StandbyUnregister(s, target) == Unregister(s, target, "standby")

\* With --force and connection parameters the witness may be down.
WitnessUnregister(host, force) ==
  \/ Unregister(Witness, Witness, "witness")
  \/ /\ Free(Witness)
     /\ ~server[Witness].up /\ force /\ server[host].up
     /\ table[host][Witness].type = "witness"
     /\ Begin(Witness, [Idle EXCEPT !.step = "delete", !.conn = host, !.target = Witness,
                                !.found = "witness"])
     /\ UNCHANGED <<server, streams, table, repmgrd, notice>>

DeleteRecord(s) ==
  LET c == cmd[s]
  IN /\ c.step = "delete"
     /\ Change(c.conn, IF Writable(c.conn) THEN Deleted(table[c.conn], c.target) ELSE {})
     /\ End(s)
     /\ UNCHANGED <<server, streams, repmgrd, notice, spent>>

\* do_witness_register(): host is the server named on the command line; the
\* primary is the one its records name.
WitnessRegister(host, force) ==
  /\ Free(Witness)
  /\ server[Witness].up
  /\ Writable(host)
  /\ \E p \in PrimaryIds(table[host]) :
       /\ server[p].up
       /\ Registered(table[p], Witness) => table[p][Witness].type = "witness" /\ force
       /\ table[Witness] # Empty => force
       /\ Begin(Witness, [Idle EXCEPT !.step = "witness", !.conn = p, !.target = Witness,
                                     !.upstream = p, !.found = table[p][Witness].type])
  /\ UNCHANGED <<server, streams, table, repmgrd, notice>>

RegisterWitness ==
  LET c == cmd[Witness]
      record == [type |-> "witness", active |-> TRUE, upstream |-> c.upstream]
  IN /\ c.step = "witness"
     /\ Change(c.conn, Written(c, record))
     /\ IF Written(c, record) # {} THEN cmd' = [cmd EXCEPT ![Witness].step = "copy"]
                                   ELSE End(Witness)
     /\ UNCHANGED <<server, streams, repmgrd, notice, spent>>

CopyToNewWitness ==
  /\ cmd[Witness].step = "copy"
  /\ LET conn == cmd[Witness].conn
     IN table' = [table EXCEPT ![Witness] =
          IF server[Witness].up THEN CopyRecords(@, conn, server[conn].up) ELSE @]
  /\ End(Witness)
  /\ UNCHANGED <<server, streams, repmgrd, notice, spent>>

-----------------------------------------------------------------------------
(* repmgrd on the witness, with connection_check_type=ping (the default). *)

At(stage) == repmgrd.stage = stage

\* repmgrd is started: main() needs the record of the node.
RepmgrdStarts ==
  /\ At("stopped") /\ server[Witness].up /\ Registered(table[Witness], Witness)
  /\ repmgrd' = [stage |-> "start", link |-> "bad", conn |-> None, upstream |-> None,
                 follow |-> None, siblingsOf |-> table[Witness][Witness].upstream,
                 active |-> table[Witness][Witness].active]
  /\ UNCHANGED <<server, streams, table, cmd, notice, spent>>

\* monitor_streaming_witness() up to its loop: the primary is looked for among
\* the nodes of the local records; without one the last known is waited for.
FindPrimary ==
  LET known == IF server[Witness].up THEN table[Witness] ELSE Empty
      found == PrimaryConnection(known)
  IN /\ At("start")
     /\ notice' = IF server[Witness].up THEN None ELSE notice
     /\ \/ \E p \in found :
             repmgrd' = [repmgrd EXCEPT !.stage = "copy at start", !.conn = p, !.link = "ok"]
        \/ /\ found = {}
           /\ \E m \in PrimaryIds(known) :
                repmgrd' = [repmgrd EXCEPT !.stage = "degraded", !.link = "bad", !.upstream = m]
        \/ /\ found = {} /\ PrimaryIds(known) = {}
           /\ repmgrd' = [repmgrd EXCEPT !.stage = "stopped"]
     /\ UNCHANGED <<server, streams, table, cmd, spent>>

\* A copy from p.  A session that has ended is noticed now.
CopyHere(p, answers) ==
  table' = [table EXCEPT ![Witness] = IF server[Witness].up THEN CopyRecords(@, p, answers) ELSE @]

Answers == repmgrd.link = "ok"
Noticed == IF Answers THEN "ok" ELSE "bad"

\* The upstream node's record is read from the primary after the copy; if that
\* fails, the one it had before remains.
CopyAtStart ==
  LET p == repmgrd.conn
  IN /\ At("copy at start")
     /\ CopyHere(p, Answers)
     /\ repmgrd' = [repmgrd EXCEPT !.stage = "monitor", !.link = Noticed,
          !.upstream = IF Answers /\ Registered(table[p], p) THEN p ELSE @]
     /\ UNCHANGED <<server, streams, cmd, notice, spent>>

\* Without a record of its own the upstream has no conninfo: nothing answers.
UpstreamAnswers == repmgrd.upstream # None /\ server[repmgrd.upstream].up

LosePrimary ==
  /\ At("monitor") /\ ~UpstreamAnswers
  /\ repmgrd' = [repmgrd EXCEPT !.stage = "retry"]
  /\ UNCHANGED <<server, streams, table, cmd, notice, spent>>

\* The upstream is back (try_reconnect(), or in the degraded loop).  If it is no
\* longer a primary, monitoring starts again.
UpstreamReturns ==
  /\ At("retry") \/ At("degraded")
  /\ UpstreamAnswers
  /\ repmgrd' = IF Writable(repmgrd.upstream)
       THEN [repmgrd EXCEPT !.stage = "monitor", !.conn = repmgrd.upstream, !.link = "ok"]
       ELSE [repmgrd EXCEPT !.stage = "start", !.link = "bad"]
  /\ UNCHANGED <<server, streams, table, cmd, notice, spent>>

\* reconnect_attempts have been made.
GiveUp ==
  /\ At("retry") /\ ~UpstreamAnswers
  /\ repmgrd' = [repmgrd EXCEPT !.stage = "wait"]
  /\ UNCHANGED <<server, streams, table, cmd, notice, spent>>

\* witness_follow_new_primary() up to the copy.
CanFollow(p) == server[Witness].up /\ Registered(table[Witness], p) /\ Writable(p)

Follow(p, stage) ==
  /\ repmgrd' = [repmgrd EXCEPT !.stage = stage, !.follow = p]
  /\ table' = [table EXCEPT ![p] = SetUpstream(@, Witness, p)]

Degrade == repmgrd' = [repmgrd EXCEPT !.stage = "degraded"] /\ UNCHANGED table

\* do_witness_failover() with wait_primary_notification()
WitnessFailover ==
  /\ At("wait")
  /\ \/ /\ notice # None /\ notice = repmgrd.upstream
        /\ repmgrd' = [repmgrd EXCEPT !.stage = "start"] /\ UNCHANGED table
     \/ notice # None /\ notice # repmgrd.upstream /\ CanFollow(notice) /\ Follow(notice, "follow")
     \/ (notice = None \/ (notice # repmgrd.upstream /\ ~CanFollow(notice))) /\ Degrade
  /\ UNCHANGED <<server, streams, cmd, notice, spent>>

\* The rest of witness_follow_new_primary(), on a connection of its own.
\* Monitoring starts again after a failover; in the degraded loop the result is
\* ignored.
FollowPrimary ==
  LET p   == repmgrd.follow
      ok  == server[p].up /\ Registered(table[p], p)
      own == ok /\ Registered(table[p], Witness)
  IN /\ At("follow") \/ At("degraded follow")
     /\ CopyHere(p, server[p].up)
     /\ repmgrd' = [repmgrd EXCEPT
          !.stage = IF own /\ At("follow") THEN "start" ELSE "degraded",
          !.follow = None,
          !.upstream = IF ok THEN p ELSE @,
          !.siblingsOf = IF own THEN table[p][Witness].upstream ELSE @,
          !.active = IF own THEN table[p][Witness].active ELSE @]
     /\ UNCHANGED <<server, streams, cmd, notice, spent>>

\* Mutant: only the upstream itself is tried again.
PromotedSiblings_None == {}

\* The degraded loop: the first of the siblings that is a primary.
PromotedSiblings ==
  LET promoted == {m \in Siblings(table[Witness], Witness, repmgrd.siblingsOf) \cap Data : Writable(m)}
  IN {m \in promoted : \A k \in promoted : m <= k}

FindSibling ==
  /\ At("degraded") /\ server[Witness].up /\ ~UpstreamAnswers
  /\ \E m \in PromotedSiblings : Follow(m, "degraded follow")
  /\ UNCHANGED <<server, streams, cmd, notice, spent>>

\* witness_sync_interval has passed: if the primary does not answer as one,
\* monitoring starts again.
SyncIsDue ==
  /\ At("monitor") \/ At("degraded")
  /\ repmgrd.link # "bad"
  /\ repmgrd' = IF Answers /\ Writable(repmgrd.conn)
       THEN [repmgrd EXCEPT !.stage = IF At("monitor") THEN "sync" ELSE "degraded sync"]
       ELSE [repmgrd EXCEPT !.stage = "start", !.link = "bad"]
  /\ UNCHANGED <<server, streams, table, cmd, notice, spent>>

SyncRecords ==
  /\ At("sync") \/ At("degraded sync")
  /\ CopyHere(repmgrd.conn, Answers)
  /\ repmgrd' = [repmgrd EXCEPT !.stage = IF At("sync") THEN "monitor" ELSE "degraded",
                                !.link = Noticed]
  /\ UNCHANGED <<server, streams, cmd, notice, spent>>

\* The connection to the witness' own server is lost, or back again.
NoteLocalServer ==
  LET up == server[Witness].up
  IN /\ At("monitor") \/ At("degraded")
     /\ repmgrd.active # up
     /\ up => repmgrd.link # "bad"
     /\ repmgrd' = [repmgrd EXCEPT !.link = Noticed,
                      !.active = IF up /\ ~(Answers /\ Writable(repmgrd.conn)) THEN @ ELSE up]
     /\ table' = IF Answers /\ Writable(repmgrd.conn)
                   THEN [table EXCEPT ![repmgrd.conn] = SetActive(@, Witness, up)] ELSE table
     /\ UNCHANGED <<server, streams, cmd, notice, spent>>

RepmgrdEnds ==
  /\ ~At("stopped") /\ Spend("faults", MaxFaults)
  /\ repmgrd' = [repmgrd EXCEPT !.stage = "stopped"]
  /\ UNCHANGED <<server, streams, table, cmd, notice>>

-----------------------------------------------------------------------------
(* repmgrd on the other nodes, as far as it changes records. *)

\* monitor_streaming_standby(): the local server has failed, or is back.  The loop
\* is that of a node recorded as a standby (repmgrd.c:569), and is left before the
\* record is marked active when it no longer is one.
MarkStandby(n, p) ==
  /\ ~server[n].primary /\ Writable(p)
  /\ table[p][n].type = "standby" /\ table[p][n].active # server[n].up
  /\ table' = [table EXCEPT ![p] = SetActive(@, n, server[n].up)]
  /\ UNCHANGED <<server, streams, cmd, repmgrd, notice, spent>>

\* check_primary_status(): the former primary runs as a standby.
RestoredAsStandby(n) ==
  /\ server[n].up /\ ~server[n].primary
  /\ \E p \in PrimaryConnection(table[n]) :
       /\ table[p][n].type = "primary"
       /\ table' = [table EXCEPT ![p] = SetActiveStandby(@, n)]
  /\ UNCHANGED <<server, streams, cmd, repmgrd, notice, spent>>

-----------------------------------------------------------------------------
(* Servers, replication and the failover of the data nodes. *)

ServerDown(s) ==
  /\ server[s].up /\ Spend("faults", MaxFaults)
  /\ server' = [server EXCEPT ![s].up = FALSE]
  /\ repmgrd' = [repmgrd EXCEPT !.link = IF @ = "ok" /\ repmgrd.conn = s THEN "dead" ELSE @]
  /\ UNCHANGED <<streams, table, cmd, notice>>

ServerUp(s) ==
  /\ ~server[s].up
  /\ server' = [server EXCEPT ![s].up = TRUE]
  /\ UNCHANGED <<streams, table, cmd, repmgrd, notice, spent>>

Replicate(n) ==
  /\ server[n].up /\ streams[n] # None /\ server[streams[n]].up
  /\ table' = [table EXCEPT ![n] = table[streams[n]]]
  /\ UNCHANGED <<server, streams, cmd, repmgrd, notice, spent>>

\* "standby promote" while no primary is up; the update of the records may fail.
Promote(n, recorded) ==
  /\ server[n].up /\ ~server[n].primary /\ Registered(table[n], n)
  /\ \A m \in Data : ~Writable(m)
  /\ Spend("promotions", MaxPromotions)
  /\ server' = [server EXCEPT ![n].primary = TRUE]
  /\ streams' = [streams EXCEPT ![n] = None]
  /\ table' = IF recorded THEN [table EXCEPT ![n] = SetPrimary(@, n)] ELSE table
  /\ UNCHANGED <<cmd, repmgrd, notice>>

\* notify_followers()
Notify(p) ==
  /\ Writable(p) /\ server[Witness].up
  /\ Registered(table[p], Witness) /\ table[p][Witness].active
  /\ notice' = p
  /\ UNCHANGED <<server, streams, table, cmd, repmgrd, spent>>

\* "standby follow", "node rejoin", or an operator who does it by hand and
\* leaves the records alone.
FollowNew(n, p, recorded) ==
  /\ Writable(p) /\ p # n
  /\ IF server[n].up THEN ~server[n].primary /\ streams[n] # p ELSE server[n].primary
  /\ server' = [server EXCEPT ![n] = [up |-> TRUE, primary |-> FALSE]]
  /\ streams' = [streams EXCEPT ![n] = p]
  /\ table' = IF recorded THEN [table EXCEPT ![p] = SetStandby(@, n, p)] ELSE table
  /\ UNCHANGED <<cmd, repmgrd, notice, spent>>

-----------------------------------------------------------------------------
PrimaryCommand ==
  \/ \E n \in Data : PrimaryRegister(n)
  \/ \E n \in Data, force \in BOOLEAN : RegisterPrimary(n, force)
  \/ \E s \in Server, option \in Server \cup {None}, force \in BOOLEAN :
       PrimaryUnregister(s, option, force)

StandbyCommand ==
  \/ \E n, host \in Data, upstream \in Server \cup {None}, force \in BOOLEAN :
       StandbyRegister(n, upstream, host, force)
  \/ \E n \in Data : RegisterStandby(n)
  \/ \E s \in Server, target \in Data : StandbyUnregister(s, target)
  \/ \E s \in Server : DeleteRecord(s)

WitnessCommand ==
  \/ \E host \in Data, force \in BOOLEAN :
       WitnessRegister(host, force) \/ WitnessUnregister(host, force)
  \/ RegisterWitness \/ CopyToNewWitness

WitnessRepmgrd ==
  \/ FindPrimary \/ CopyAtStart \/ LosePrimary \/ UpstreamReturns \/ GiveUp
  \/ WitnessFailover \/ FollowPrimary \/ FindSibling \/ SyncIsDue \/ SyncRecords \/ NoteLocalServer

Environment ==
  \/ RepmgrdStarts \/ RepmgrdEnds
  \/ \E s \in Server : ServerDown(s) \/ ServerUp(s)
  \/ \E n \in Data : Replicate(n) \/ Notify(n) \/ RestoredAsStandby(n)
  \/ \E n, p \in Data : MarkStandby(n, p)
  \/ \E n \in Data, recorded \in BOOLEAN : Promote(n, recorded)
  \/ \E n, p \in Data, recorded \in BOOLEAN : FollowNew(n, p, recorded)

Next == PrimaryCommand \/ StandbyCommand \/ WitnessCommand \/ WitnessRepmgrd \/ Environment

Spec == Init /\ [][Next]_vars /\ WF_vars(WitnessRepmgrd)

-----------------------------------------------------------------------------
(* Properties. *)

\* Whatever commands and promotions have happened, and in whichever copy of the
\* records: get_primary_node_id() has at most one answer.
OneActivePrimary == \A s \in Server : Cardinality(PrimaryIds(table[s])) <= 1

\* The records of a running primary never lose that primary, whoever
\* unregisters what on whichever server and with whatever copy of the records:
\* only a command that looked at it before it was promoted or registered as the
\* primary deletes its record.
PrimaryKeepsItsRecord ==
  [][\A p \in Data : RunningPrimary(p)
       => \/ Registered(table'[p], p)
          \/ \E s \in Server : cmd[s].step = "delete" /\ cmd[s].target = p /\ ~cmd[s].current]_vars

\* The witness can find p: it follows p already, or its own copy of the records
\* has p as an active sibling.
Findable(p) ==
  \/ repmgrd.upstream = p
  \/ p \in Siblings(table[Witness], Witness, repmgrd.siblingsOf)

Settled(p) ==
  /\ \A n \in Data : server[n].primary /\ server[n].up <=> n = p
  /\ server[Witness].up /\ ~At("stopped")
  /\ At("monitor") => repmgrd.link # "bad"
  /\ Registered(table[p], p) /\ Registered(table[p], Witness)
  /\ Findable(p) /\ ~CopyFails(table[p])

\* Once there is one primary for good, and whether or not it has notified the
\* witness, the witness has its records: however the failover and the copying
\* interleaved, unless the copy the witness is left with does not contain that
\* primary, or its session ended during a copy and every ping has been answered.
WitnessFollows ==
  \A p \in Data : <>[]Settled(p) => []<>(table[Witness] = CopyOf(table[Witness], table[p]))
=============================================================================
