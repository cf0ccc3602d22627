-------------------------- MODULE ReplicationSlots --------------------------
(***************************************************************************)
(* How a standby comes to stream from an upstream, and where its           *)
(* replication slot lives while that happens: "repmgr standby clone" (from *)
(* a server or from Barman), "standby clone --recovery-conf-only",         *)
(* "standby follow" and "node rejoin".  Every command is a sequence of     *)
(* steps on three servers (the node itself, the source or the old upstream *)
(* and the new upstream) that no transaction holds together; servers stop, *)
(* crash and are promoted between the steps, and commands of several nodes *)
(* interleave.  The configuration has use_replication_slots=true; the slot *)
(* of a node is named after its id, so a slot is modelled by its owner.    *)
(***************************************************************************)
EXTENDS Naturals, FiniteSets

CONSTANTS
  Node, None,         \* the servers, and "no server"
  Primary, Standby,   \* the primary and its standby initially
  Usable,             \* the servers whose settings pass check_upstream_config()
  Operated,           \* bound: the nodes commands are run on
  MaxSlots,           \* max_replication_slots of every server
  MaxLsn,             \* bound: WAL written
  MaxCommands,        \* bound: commands run in a behaviour
  MaxFaults           \* bound: stops and crashes

ASSUME SlotsAssumption ==
  /\ IsFiniteSet(Node)
  /\ Primary \in Node /\ Standby \in Node \ {Primary}
  /\ None \notin Node
  /\ Usable \subseteq Node /\ Operated \subseteq Node
  /\ {MaxSlots, MaxLsn, MaxCommands, MaxFaults} \subseteq Nat

\* The servers have room for the slots they hold initially: the primary for that
\* of its standby, the standby for those of all the other nodes.
ASSUME RoomAssumption == MaxSlots >= 1 /\ Cardinality(Node \ {Primary, Standby}) <= MaxSlots

VARIABLES
  server,     \* per node: is it up, how pg_control says it ended, its data directory
  wal,        \* per node: timeline and position of the WAL it has written or applied
  fork,       \* where timeline 2 left timeline 1
  slots,      \* per node: the owners of the slots it holds
  receiver,   \* per node: the upstream its WAL receiver is attached to
  conninfo,   \* per node: the upstream named in its primary_conninfo
  registry,   \* repmgr.nodes
  cmd,        \* per node: the command running on it, or the last one
  purged,     \* history: <<m, n>> if m dropped its slots while n's command ran
  spent       \* commands and faults so far

vars == <<server, wal, fork, slots, receiver, conninfo, registry, cmd, purged, spent>>

Exit == {"none", "SUCCESS", "ERR_BAD_CONFIG", "ERR_DB_CONN", "ERR_DB_QUERY",
         "ERR_BAD_BASEBACKUP", "ERR_BARMAN", "ERR_NO_RESTART", "ERR_FOLLOW_FAIL",
         "ERR_REJOIN_FAIL"}

Step == {"idle", "source slot", "backup", "upstream slot", "drop source slot",
         "write file", "write file only", "write file, then slot", "rewind", "copied slots",
         "target slot", "write conf", "restart", "drop old slot", "update record", "wait"}

\* The state in pg_control of a server that is down: DB_SHUTDOWNED (or
\* DB_SHUTDOWNED_IN_RECOVERY), DB_SHUTDOWNING, or one of a server that runs.
Ending == {"clean", "shutting down", "unclean"}

\* The data directory: empty, without a recovery configuration of its own (a base
\* backup, or what pg_rewind has left), or that of a standby or a primary.
Data == {"none", "backup", "standby", "primary"}

Command == {"none", "clone", "barman", "conf", "follow", "rejoin"}

NoCommand == [step |-> "idle", op |-> "none", source |-> None, target |-> None,
              old |-> None, rewind |-> FALSE, warned |-> FALSE, exit |-> "none",
              done |-> FALSE]

TypeOK ==
  /\ server \in [Node -> [up : BOOLEAN, ended : Ending, data : Data]]
  /\ wal \in [Node -> [tli : 1..2, lsn : 0..MaxLsn]]
  /\ fork \in 0..MaxLsn
  /\ slots \in [Node -> SUBSET Node]
  /\ \A n \in Node : Cardinality(slots[n]) <= MaxSlots
  /\ receiver \in [Node -> Node \cup {None}]
  /\ conninfo \in [Node -> Node \cup {None}]
  /\ registry \in [Node -> [type : {"none", "primary", "standby"},
                            active : BOOLEAN, upstream : Node \cup {None}]]
  /\ cmd \in [Node -> [step : Step, op : Command, source : Node \cup {None},
                       target : Node \cup {None}, old : Node \cup {None},
                       rewind : BOOLEAN, warned : BOOLEAN, exit : Exit,
                       done : BOOLEAN]]
  /\ purged \subseteq Node \X Node
  /\ spent \in [commands : 0..MaxCommands, faults : 0..MaxFaults]

-----------------------------------------------------------------------------
(* What the code reads from servers. *)

\* establish_db_connection() gives a usable connection.
Reachable(n) == n # None /\ server[n].up

Registered(n) == n # None /\ registry[n].type # "none"

\* pg_replication_slots.active: the owner's WAL receiver is attached here.
SlotActive(n, m) == receiver[n] = m

\* Mutant: a slot that nobody uses is not found.
SlotFound_Active(n, m) == n \in slots[m] /\ SlotActive(n, m)

\* get_slot_record()
SlotFound(n, m) == n \in slots[m]

\* get_primary_node_id(): what the node records say.
RecordedPrimary ==
  {m \in Node : registry[m].type = "primary" /\ registry[m].active}

\* _get_primary_connection(): a registered, active node that is not in recovery.
PrimaryConnections ==
  {m \in Node : Reachable(m) /\ Registered(m) /\ registry[m].active
                /\ server[m].data = "primary"}

\* Mutant: an off-by-one in the slot count.
FreeSlots_OffByOne(m) == MaxSlots + 1 - Cardinality(slots[m])

\* get_free_replication_slot_count()
FreeSlots(m) == MaxSlots - Cardinality(slots[m])

\* create_replication_slot(): an existing inactive slot is taken over, an
\* existing active one refused.
CanCreateSlot(n, m) ==
  /\ Reachable(m)
  /\ IF SlotFound(n, m) THEN ~SlotActive(n, m) ELSE FreeSlots(m) > 0

CreateSlot(n, m) == [slots EXCEPT ![m] = @ \cup {n}]

\* drop_replication_slot() and drop_replication_slot_if_exists(): the server
\* refuses to drop an active slot.
DropSlot(n, m) ==
  IF Reachable(m) /\ ~SlotActive(n, m)
    THEN [slots EXCEPT ![m] = @ \ {n}] ELSE slots

\* The WAL of n is part of the history of m.
SharesHistory(n, m) ==
  \/ wal[n].tli = wal[m].tli
  \/ wal[n].tli < wal[m].tli /\ wal[n].lsn <= fork

\* Mutant: only the timelines are compared.
CanAttach_Timeline(n, m, lsn, rewind) == wal[n].tli <= wal[m].tli

\* get_timeline_history(): where timeline 2 left timeline 1.
HistoryEnd == fork

\* check_node_can_attach(), given the position that n is taken to have reached.
CanAttach(n, m, lsn, rewind) ==
  \/ wal[n].tli = wal[m].tli /\ lsn <= wal[m].lsn
  \/ wal[n].tli < wal[m].tli /\ (lsn <= HistoryEnd \/ rewind)

\* The WAL receivers after those of the nodes S have ended.
Detached(S) == [n \in Node |-> IF n \in S THEN None ELSE receiver[n]]

\* When the server of n ends, so does its own receiver, and the receivers that
\* are attached to it lose their upstream.
Cut(n) == Detached({n} \cup {m \in Node : receiver[m] = n})

-----------------------------------------------------------------------------
\* The nodes other than Primary and Standby are either still to be cloned or
\* standbys of Standby.
Init ==
  /\ \E cascaded \in BOOLEAN :
       LET Upstream(n) == IF n = Primary THEN None
                          ELSE IF n = Standby THEN Primary
                          ELSE IF cascaded THEN Standby ELSE None
           Type(n) == IF n = Primary THEN "primary"
                      ELSE IF Upstream(n) = None THEN "none" ELSE "standby"
       IN /\ server = [n \in Node |->
                        [up |-> Type(n) # "none", ended |-> "clean", data |-> Type(n)]]
          /\ conninfo = [n \in Node |-> Upstream(n)]
          /\ receiver = conninfo
          /\ slots = [m \in Node |-> {n \in Node : Upstream(n) = m}]
          /\ registry = [n \in Node |-> [type |-> Type(n), active |-> Type(n) # "none",
                                         upstream |-> Upstream(n)]]
  /\ wal = [n \in Node |-> [tli |-> 1, lsn |-> 0]]
  /\ fork = 0
  /\ cmd = [n \in Node |-> NoCommand]
  /\ purged = {}
  /\ spent = [commands |-> 0, faults |-> 0]

-----------------------------------------------------------------------------
(* The outcome of a step of a command.  A command refused by its checks before *)
(* it has changed anything is no step of the model.                            *)

\* The slots of the nodes S are dropped under the commands that run.
Lost(S) == S \X {n \in Node : cmd[n].step # "idle"}

\* A new command starts on n, and deletes the data directories of emptied.
Begin(n, emptied) ==
  /\ cmd[n].step = "idle"
  /\ spent.commands < MaxCommands
  /\ spent' = [spent EXCEPT !.commands = @ + 1]
  /\ purged' = {pair \in purged : pair[2] # n} \cup Lost(emptied)

\* Replication slots of m are dropped, as a rule with its data directory.
Purge(m) == purged' = purged \cup Lost({m})

Run(n, op, step, source, target, rewind) ==
  cmd' = [cmd EXCEPT ![n] = [NoCommand EXCEPT !.op = op, !.step = step,
            !.source = source, !.target = target, !.rewind = rewind]]

Continue(n, step) == cmd' = [cmd EXCEPT ![n].step = step]

Warn(n, step) == cmd' = [cmd EXCEPT ![n].step = step, ![n].warned = TRUE]

\* The command exits before its work is done.
Abort(n, code) ==
  cmd' = [cmd EXCEPT ![n] = [NoCommand EXCEPT !.op = cmd[n].op, !.exit = code]]

Succeed(n) ==
  cmd' = [cmd EXCEPT ![n] = [NoCommand EXCEPT !.op = cmd[n].op, !.exit = "SUCCESS",
                                              !.done = TRUE]]

At(n, step) == cmd[n].step = step

-----------------------------------------------------------------------------
(* repmgr standby clone *)

\* do_standby_clone() up to initialise_direct_clone(), with
\* check_source_server() and check_upstream_config(): every condition is read
\* before anything is changed.
\* create_pg_dir() accepts the directory and is_pg_running() finds no server.
DirectoryAccepted(n, force) == server[n].data = "none" \/ force

NotRunning(n) == ~server[n].up

\* check_source_server(): the source and, if it is a standby, a primary answer.
SourceAccepted(source) ==
  /\ Reachable(source)
  /\ server[source].data = "standby" => PrimaryConnections # {}

\* check_upstream_config()
ConfigAccepted(source) == source \in Usable

\* --upstream-node-id, or else the primary of the records.
CloneTargets(option) == IF option # None THEN {option} ELSE RecordedPrimary

\* Without a record of the upstream there is no conninfo for it: --force only.
UpstreamAccepted(u, force) == Registered(u) \/ force

\* An upstream that is given by --upstream-conninfo is no node of the records, and
\* is left out.
StandbyClone(n, source, option, force) ==
  /\ Begin(n, {})
  /\ NotRunning(n) /\ DirectoryAccepted(n, force)
  /\ SourceAccepted(source) /\ ConfigAccepted(source)
  /\ \E u \in CloneTargets(option) :
       /\ UpstreamAccepted(u, force)
       /\ Run(n, "clone", "source slot", source, u, FALSE)
  /\ UNCHANGED <<server, wal, fork, slots, receiver, conninfo, registry>>

\* initialise_direct_clone(): the old data directory, with the slots it holds,
\* is deleted and the slot is created on the source.
InitialiseDirectClone(n) ==
  /\ At(n, "source slot")
  /\ server' = [server EXCEPT ![n].data = "none"]
  /\ LET emptied == [slots EXCEPT ![n] = {}]
     IN IF CanCreateSlot(n, cmd[n].source)
          THEN /\ slots' = [emptied EXCEPT ![cmd[n].source] = @ \cup {n}]
               /\ Continue(n, "backup")
          ELSE slots' = emptied /\ Abort(n, "ERR_DB_QUERY")
  /\ Purge(n)
  /\ UNCHANGED <<wal, fork, receiver, conninfo, registry, spent>>

\* run_basebackup(): pg_basebackup copies the source (not its slots), whose
\* pg_control says that it runs; when it fails do_standby_clone() drops the slot on
\* the source.
RunBasebackup(n) ==
  /\ At(n, "backup") /\ cmd[n].op = "clone"
  /\ \/ /\ Reachable(cmd[n].source)
        /\ server' = [server EXCEPT ![n].data = "backup", ![n].ended = "unclean"]
        /\ wal' = [wal EXCEPT ![n] = wal[cmd[n].source]]
        /\ Continue(n, "upstream slot")
        /\ UNCHANGED slots
     \/ /\ slots' = DropSlot(n, cmd[n].source)
        /\ Abort(n, "ERR_BAD_BASEBACKUP")
        /\ UNCHANGED <<server, wal>>
  /\ UNCHANGED <<fork, receiver, conninfo, registry, purged, spent>>

\* run_basebackup() after the backup: the slot is wanted on the upstream.
MoveSlotToUpstream(n) ==
  LET upstream == cmd[n].target
  IN /\ At(n, "upstream slot") /\ cmd[n].op = "clone"
     /\ \/ /\ ~Reachable(cmd[n].source) \/ ~Registered(upstream) \/ ~Reachable(upstream)
           /\ Warn(n, "drop source slot")
           /\ UNCHANGED slots
        \/ /\ Reachable(cmd[n].source) /\ Registered(upstream) /\ Reachable(upstream)
           /\ \/ /\ SlotFound(n, upstream)      \* slot_exists_on_upstream
                 /\ cmd' = [cmd EXCEPT ![n].step = "write file"]
                 /\ UNCHANGED slots
              \/ /\ ~SlotFound(n, upstream) /\ CanCreateSlot(n, upstream)
                 /\ slots' = CreateSlot(n, upstream)
                 /\ Continue(n, "drop source slot")
              \/ /\ ~SlotFound(n, upstream) /\ ~CanCreateSlot(n, upstream)
                 /\ Abort(n, "ERR_DB_QUERY")
                 /\ UNCHANGED slots
     /\ UNCHANGED <<server, wal, fork, receiver, conninfo, registry, purged, spent>>

\* "delete slot on source server"
DropSourceSlot(n) ==
  /\ At(n, "drop source slot")
  /\ slots' = DropSlot(n, cmd[n].source)
  /\ IF n \in slots'[cmd[n].source] THEN Warn(n, "write file")
                                    ELSE Continue(n, "write file")
  /\ UNCHANGED <<server, wal, fork, receiver, conninfo, registry, purged, spent>>

\* check_barman_config() empties the data directory before do_standby_clone()
\* looks for a running server in it.  Without a connection to the source, the
\* upstream is the primary of the records the Barman host can read.
BarmanTarget(source, option) ==
  IF Reachable(source) /\ option # None THEN {option} ELSE RecordedPrimary

BarmanClone(n, source, option, force) ==
  /\ Begin(n, {n})
  /\ DirectoryAccepted(n, force)
  /\ server' = [server EXCEPT ![n] = [up |-> FALSE, ended |-> "clean", data |-> "none"]]
  /\ slots' = [slots EXCEPT ![n] = {}]
  /\ receiver' = Cut(n)
  /\ LET sourceOk == Reachable(source) => SourceAccepted(source) /\ ConfigAccepted(source)
         targets  == {u \in BarmanTarget(source, option) : UpstreamAccepted(u, force)}
     IN \/ /\ sourceOk
           /\ \E u \in targets : Run(n, "barman", "backup", source, u, FALSE)
        \/ /\ ~sourceOk \/ targets = {}
           /\ cmd' = [cmd EXCEPT ![n] = [NoCommand EXCEPT !.op = "barman",
                                                          !.exit = "ERR_BAD_CONFIG"]]
  /\ UNCHANGED <<wal, fork, conninfo, registry>>

\* run_file_backup(): the files of the latest backup are fetched, and nobody looks
\* at how rsync ended.  It exits on its own when Barman does not answer.
FetchFileBackup(n) ==
  /\ At(n, "backup") /\ cmd[n].op = "barman"
  /\ \/ /\ server' = [server EXCEPT ![n].data = "backup", ![n].ended = "unclean"]
        /\ wal' = [wal EXCEPT ![n] = [tli |-> 1, lsn |-> 0]]
        /\ Continue(n, "upstream slot")
     \/ /\ Abort(n, "ERR_BARMAN")
        /\ UNCHANGED <<server, wal>>
  /\ UNCHANGED <<fork, slots, receiver, conninfo, registry, purged, spent>>

\* run_file_backup() cannot link a tablespace: no slot was created on the
\* source, but do_standby_clone() drops it there as after pg_basebackup.
FileBackupFails(n) ==
  /\ At(n, "backup") /\ cmd[n].op = "barman"
  /\ slots' = DropSlot(n, cmd[n].source)
  /\ Abort(n, "ERR_BAD_BASEBACKUP")
  /\ UNCHANGED <<server, wal, fork, receiver, conninfo, registry, purged, spent>>

\* The end of run_file_backup(): every failure is only a warning.
BarmanUpstreamSlot(n) ==
  LET upstream == cmd[n].target
      connected == Reachable(cmd[n].source) /\ Registered(upstream) /\ Reachable(upstream)
  IN /\ At(n, "upstream slot") /\ cmd[n].op = "barman"
     /\ \/ /\ connected /\ SlotFound(n, upstream)
           /\ Continue(n, "write file")
           /\ UNCHANGED slots
        \/ /\ connected /\ ~SlotFound(n, upstream) /\ CanCreateSlot(n, upstream)
           /\ slots' = CreateSlot(n, upstream)
           /\ Continue(n, "write file")
        \/ /\ ~connected \/ (~SlotFound(n, upstream) /\ ~CanCreateSlot(n, upstream))
           /\ Warn(n, "write file")
           /\ UNCHANGED slots
     /\ UNCHANGED <<server, wal, fork, receiver, conninfo, registry, purged, spent>>

\* write_primary_conninfo(): the parameters of the upstream.
PrimaryConninfo(n) == cmd[n].target

\* create_recovery_file(), with write_standby_signal(): the data directory
\* becomes one of a standby.  A running server takes no notice until it is
\* restarted.
RecoveryFileWritten(n) ==
  /\ conninfo' = [conninfo EXCEPT ![n] = PrimaryConninfo(n)]
  /\ server' = [server EXCEPT ![n].data = IF server[n].up THEN @ ELSE "standby"]

\* The end of do_standby_clone(): a failure here leaves the slots as they are.
FinishClone(n) ==
  /\ At(n, "write file")
  /\ \/ RecoveryFileWritten(n) /\ Succeed(n)
     \/ Abort(n, "ERR_BAD_CONFIG") /\ UNCHANGED <<conninfo, server>>
  /\ UNCHANGED <<wal, fork, slots, receiver, registry, purged, spent>>

-----------------------------------------------------------------------------
(* repmgr standby clone --recovery-conf-only: _do_create_recovery_conf() *)

\* An active slot of the node on the upstream, or no room for one.
SlotRefused(n, u) == IF SlotFound(n, u) THEN SlotActive(n, u) ELSE FreeSlots(u) = 0

\* The slot is looked up now and created, if that is required, at the end.
CreateRecoveryConf(n, source, option, force) ==
  /\ Begin(n, {})
  /\ server[n].data # "none"
  /\ ~server[n].up \/ force
  /\ Reachable(source)
  /\ Registered(n)
  /\ \E u \in CloneTargets(option) :
       /\ Registered(u) /\ Reachable(u)
       /\ ~SlotRefused(n, u) \/ force
       /\ cmd' = [cmd EXCEPT ![n] = [NoCommand EXCEPT !.op = "conf",
            !.step = IF SlotFound(n, u) \/ SlotRefused(n, u)
                       THEN "write file only" ELSE "write file, then slot",
            !.source = source, !.target = u, !.warned = SlotRefused(n, u)]]
  /\ UNCHANGED <<server, wal, fork, slots, receiver, conninfo, registry>>

\* A file that cannot be written is logged and nothing else: the slot is
\* created and the command returns as if all were well.
WriteRecoveryConf(n) ==
  /\ At(n, "write file only") \/ At(n, "write file, then slot")
  /\ RecoveryFileWritten(n) \/ UNCHANGED <<conninfo, server>>
  /\ IF At(n, "write file only") THEN slots' = slots /\ Succeed(n)
     ELSE IF CanCreateSlot(n, cmd[n].target)
       THEN slots' = CreateSlot(n, cmd[n].target) /\ Succeed(n)
       ELSE slots' = slots /\ Abort(n, "ERR_BAD_CONFIG")
  /\ UNCHANGED <<wal, fork, receiver, registry, purged, spent>>

-----------------------------------------------------------------------------
(* repmgr standby follow *)

\* --upstream-node-id, which must be registered and not this node, or else the
\* primary that is found from here.
FollowTargets(n, option) ==
  {m \in IF option # None THEN {option} \ {n} ELSE PrimaryConnections :
     Registered(m) /\ Reachable(m)}

\* do_standby_follow() up to do_standby_follow_internal().  The slot count is
\* of every slot of the target, the node's own slot there included.
StandbyFollow(n, option) ==
  /\ Begin(n, {})
  /\ Reachable(n) /\ server[n].data = "standby" /\ Registered(n)
  /\ \E target \in FollowTargets(n, option) :
       /\ FreeSlots(target) > 0
       /\ CanAttach(n, target, wal[n].lsn, FALSE)
       /\ Run(n, "follow", "target slot", None, target, FALSE)
  /\ UNCHANGED <<server, wal, fork, slots, receiver, conninfo, registry>>

\* do_standby_follow_internal(), the slot: the error code of the caller is
\* still SUCCESS when the slot cannot be created.  Afterwards the upstream of
\* the node record is the one whose slot will be removed, unless the command
\* was given the host of the target.
CreateTargetSlot(n, hostGiven) ==
  LET target == cmd[n].target
      old    == IF registry[n].upstream # None THEN registry[n].upstream ELSE target
  IN /\ At(n, "target slot")
     /\ IF PrimaryConnections = {} \/ ~Registered(n)
          THEN Abort(n, "ERR_BAD_CONFIG") /\ UNCHANGED slots
        ELSE IF ~CanCreateSlot(n, target)
          THEN Abort(n, "SUCCESS") /\ UNCHANGED slots
        ELSE /\ slots' = CreateSlot(n, target)
             /\ IF hostGiven THEN Continue(n, "write conf")
                ELSE IF ~server[n].up THEN Abort(n, "ERR_DB_CONN")
                ELSE cmd' = [cmd EXCEPT ![n].step = "write conf", ![n].old = old]
     /\ UNCHANGED <<server, wal, fork, receiver, conninfo, registry, purged, spent>>

\* general_error_code: the code of the command that called
\* do_standby_follow_internal().
GeneralError(n) == IF cmd[n].op = "follow" THEN "ERR_FOLLOW_FAIL" ELSE "ERR_REJOIN_FAIL"

\* create_recovery_file() in do_standby_follow_internal().
WriteConf(n) ==
  /\ At(n, "write conf")
  /\ \/ RecoveryFileWritten(n) /\ Continue(n, "restart")
     \/ Abort(n, GeneralError(n)) /\ UNCHANGED <<conninfo, server>>
  /\ UNCHANGED <<wal, fork, slots, receiver, registry, purged, spent>>

\* Mutant: remove_old_replication_slot is forgotten.
RestartServer_KeepSlot(n) ==
  /\ At(n, "restart")
  /\ server' = [server EXCEPT ![n].up = TRUE, ![n].ended = "clean"]
  /\ Continue(n, "update record")
  /\ receiver' = Cut(n)
  /\ UNCHANGED <<wal, fork, slots, conninfo, registry, purged, spent>>

\* update_node_record_status() with type "standby".
StandbyRecord(u) == [type |-> "standby", active |-> TRUE, upstream |-> u]

\* Stop (or restart) and start of the local server; either may fail.
RestartServer(n) ==
  /\ At(n, "restart")
  /\ \/ /\ server' = [server EXCEPT ![n].up = TRUE, ![n].ended = "clean"]
        /\ receiver' = Cut(n)
        /\ Continue(n, IF cmd[n].old # None THEN "drop old slot" ELSE "update record")
     \/ /\ server' = [server EXCEPT ![n].up = FALSE,
                                     ![n].ended = IF server[n].up THEN "clean" ELSE @]
        /\ receiver' = Cut(n)
        /\ Abort(n, "ERR_NO_RESTART")
     \/ /\ server[n].up
        /\ Abort(n, "ERR_NO_RESTART")
        /\ UNCHANGED <<server, receiver>>
  /\ UNCHANGED <<wal, fork, slots, conninfo, registry, purged, spent>>

\* The slot on the former upstream, which may be the target itself.
DropOldSlot(n) ==
  LET old == cmd[n].old
  IN /\ At(n, "drop old slot")
     /\ slots' = DropSlot(n, old)
     /\ IF Reachable(old) THEN Continue(n, "update record") ELSE Warn(n, "update record")
     /\ UNCHANGED <<server, wal, fork, receiver, conninfo, registry, purged, spent>>

\* update_node_record_status(): its failure, too, leaves the error code alone.
UpdateRecord(n) ==
  /\ At(n, "update record")
  /\ \/ /\ PrimaryConnections # {}
        /\ registry' = [registry EXCEPT ![n] = StandbyRecord(cmd[n].target)]
        /\ Continue(n, "wait")
     \/ /\ PrimaryConnections = {}
        /\ Abort(n, "SUCCESS")
        /\ UNCHANGED registry
  /\ UNCHANGED <<server, wal, fork, slots, receiver, conninfo, purged, spent>>

\* is_downstream_node_attached(): pg_stat_replication of m lists n.
IsAttached(n, m) == Reachable(m) /\ receiver[n] = m

\* The end of do_node_rejoin(): without pg_rewind, the slot the primary had on
\* this node while it was its standby is dropped.
SlotsAfterRejoin(n) == IF cmd[n].rewind THEN slots ELSE DropSlot(cmd[n].target, n)

\* The node is watched for a while.  Success is assumed where it is not watched at
\* all: standby_follow_timeout is zero, or the loop that waits for the server has
\* used up node_rejoin_timeout.  With --no-wait a rejoin that is not seen attached
\* is reported as completed, not as successful.
AwaitAttachment(n) ==
  /\ At(n, "wait")
  /\ \/ /\ \/ Succeed(n)
           \/ cmd[n].op = "rejoin" /\ ~IsAttached(n, cmd[n].target) /\ Abort(n, "SUCCESS")
        /\ slots' = IF cmd[n].op = "rejoin" THEN SlotsAfterRejoin(n) ELSE slots
        /\ IF cmd[n].op = "rejoin" THEN Purge(n) ELSE UNCHANGED purged
     \/ /\ ~IsAttached(n, cmd[n].target)
        /\ Abort(n, GeneralError(n))
        /\ UNCHANGED <<slots, purged>>
  /\ UNCHANGED <<server, wal, fork, receiver, conninfo, registry, spent>>

-----------------------------------------------------------------------------
(* repmgr node rejoin *)

\* get_latest_checkpoint_location(), or where it is set
\* get_min_recovery_location(): a server that did not finish its shutdown has
\* written WAL after its last checkpoint.
ComparedPositions(n) ==
  IF server[n].ended = "shutting down" THEN 0..wal[n].lsn ELSE {wal[n].lsn}

\* do_node_rejoin() up to the rewind: the node is down, and the primary of the
\* records is one and can be attached to.  Of a server that is still shutting down
\* there is an error message, but no exit.
NodeRejoin(n, upstream, rewind) ==
  /\ Begin(n, {})
  /\ server[n].data # "none"
  /\ ~server[n].up /\ server[n].ended # "unclean"
  /\ Reachable(upstream)
  /\ \E m \in RecordedPrimary :
       /\ Reachable(m) /\ server[m].data = "primary"
       /\ \E lsn \in ComparedPositions(n) : CanAttach(n, m, lsn, rewind)
       /\ Run(n, "rejoin", IF rewind THEN "rewind" ELSE "target slot", None, m, rewind)
  /\ UNCHANGED <<server, wal, fork, slots, receiver, conninfo, registry>>

\* pg_rewind: the timeline and the position the node then has.
Rewound(n) ==
  [tli |-> wal[cmd[n].target].tli, lsn |-> IF wal[n].lsn <= fork THEN wal[n].lsn ELSE fork]

\* pg_rewind replaces the data directory by that of the primary, the recovery
\* configuration and (before PostgreSQL 11) the slots included, or fails half-way.
\* It has nothing to do where the histories agree, and does nothing to a server
\* that was not shut down cleanly.
Rewind(n) ==
  /\ At(n, "rewind")
  /\ \/ /\ server[n].ended = "clean"
        /\ Reachable(cmd[n].target) /\ wal[n].tli < wal[cmd[n].target].tli
        /\ wal' = [wal EXCEPT ![n] = Rewound(n)]
        /\ server' = [server EXCEPT ![n].data = "backup", ![n].ended = "unclean"]
        /\ slots' = [slots EXCEPT ![n] = slots[cmd[n].target]]
        /\ Purge(n)
        /\ Continue(n, "copied slots")
     \/ /\ server[n].ended = "clean"
        /\ Reachable(cmd[n].target) /\ SharesHistory(n, cmd[n].target)
        /\ Continue(n, "copied slots")
        /\ UNCHANGED <<server, wal, slots, purged>>
     \/ /\ Abort(n, "ERR_REJOIN_FAIL")
        /\ \/ server' = server
           \/ server[n].ended = "clean" /\ server' = [server EXCEPT ![n].data = "backup"]
        /\ UNCHANGED <<wal, slots, purged>>
  /\ UNCHANGED <<fork, receiver, conninfo, registry, spent>>

\* "Delete any replication slots copied in by pg_rewind": what cannot be deleted
\* stays, with a warning.  Before that the archived configuration files are put
\* back, and the command exits if their directory cannot be opened.
DeleteCopiedSlots(n) ==
  /\ At(n, "copied slots")
  /\ \/ /\ \E kept \in SUBSET slots[n] : slots' = [slots EXCEPT ![n] = kept]
        /\ Purge(n)
        /\ Continue(n, "target slot")
     \/ /\ Abort(n, "ERR_BAD_CONFIG")
        /\ UNCHANGED <<slots, purged>>
  /\ UNCHANGED <<server, wal, fork, receiver, conninfo, registry, spent>>

-----------------------------------------------------------------------------
(* Servers, WAL and the other commands of the cluster. *)

Fault == spent.faults < MaxFaults /\ spent' = [spent EXCEPT !.faults = @ + 1]

Idle(n) == cmd[n].step = "idle"

\* A server stops or crashes, or a primary does while it is shutting down.
ServerDown(n, ended) ==
  /\ Fault
  /\ server[n].up
  /\ ended = "shutting down" => server[n].data = "primary"
  /\ server' = [server EXCEPT ![n].up = FALSE, ![n].ended = ended]
  /\ receiver' = Cut(n)
  /\ UNCHANGED <<wal, fork, slots, conninfo, registry, cmd, purged>>

\* A command is killed, at any of its steps.
Killed(n) ==
  /\ Fault
  /\ ~Idle(n)
  /\ Abort(n, "none")
  /\ UNCHANGED <<server, wal, fork, slots, receiver, conninfo, registry, purged>>

\* The operator starts no server on which a command is running, and none
\* without its recovery configuration.
ServerUp(n) ==
  /\ Idle(n) /\ ~server[n].up /\ server[n].data \in {"standby", "primary"}
  /\ server' = [server EXCEPT ![n].up = TRUE, ![n].ended = "clean",
                              ![n].data = IF conninfo[n] = None THEN @ ELSE "standby"]
  /\ UNCHANGED <<wal, fork, slots, receiver, conninfo, registry, cmd, purged, spent>>

\* The WAL receiver starts streaming with primary_slot_name set.
ReceiverStarts(n) ==
  LET u == conninfo[n]
  IN /\ Reachable(n) /\ server[n].data = "standby" /\ receiver[n] = None
     /\ u # None /\ u # n /\ Reachable(u)
     /\ SlotFound(n, u)
     /\ SharesHistory(n, u) /\ (wal[n].tli = wal[u].tli => wal[n].lsn <= wal[u].lsn)
     /\ receiver' = [receiver EXCEPT ![n] = u]
     /\ UNCHANGED <<server, wal, fork, slots, conninfo, registry, cmd, purged, spent>>

Stream(n) ==
  /\ receiver[n] # None /\ wal[n] # wal[receiver[n]]
  /\ wal' = [wal EXCEPT ![n] = wal[receiver[n]]]
  /\ UNCHANGED <<server, fork, slots, receiver, conninfo, registry, cmd, purged, spent>>

Write(n) ==
  /\ Reachable(n) /\ server[n].data = "primary" /\ wal[n].lsn < MaxLsn
  /\ wal' = [wal EXCEPT ![n].lsn = @ + 1]
  /\ UNCHANGED <<server, fork, slots, receiver, conninfo, registry, cmd, purged, spent>>

\* "standby promote" once the primary is down (modelled in Failover), with the
\* update of the node records.
StandbyPromote(n) ==
  /\ Reachable(n) /\ server[n].data = "standby" /\ Registered(n) /\ Idle(n)
  /\ \A m \in Node : wal[m].tli = 1 /\ (server[m].data = "primary" => ~server[m].up)
  /\ server' = [server EXCEPT ![n].data = "primary"]
  /\ receiver' = Detached({n})
  /\ conninfo' = [conninfo EXCEPT ![n] = None]
  /\ wal' = [wal EXCEPT ![n].tli = 2]
  /\ fork' = wal[n].lsn
  /\ registry' = [m \in Node |->
       IF m = n THEN [type |-> "primary", active |-> TRUE, upstream |-> None]
       ELSE IF registry[m].type = "primary" THEN [registry[m] EXCEPT !.active = FALSE]
       ELSE registry[m]]
  /\ UNCHANGED <<slots, cmd, purged, spent>>

\* "standby register" of a running standby (modelled in NodeRecords).
StandbyRegister(n) ==
  /\ Idle(n) /\ Reachable(n) /\ server[n].data = "standby"
  /\ PrimaryConnections # {} /\ ~Registered(n)
  /\ registry' = [registry EXCEPT ![n] = StandbyRecord(conninfo[n])]
  /\ UNCHANGED <<server, wal, fork, slots, receiver, conninfo, cmd, purged, spent>>

-----------------------------------------------------------------------------
CommandOf(n) ==
  \/ \E source, option \in (Node \cup {None}) \ {n}, force \in BOOLEAN :
       /\ source # None
       /\ \/ StandbyClone(n, source, option, force)
          \/ BarmanClone(n, source, option, force)
          \/ CreateRecoveryConf(n, source, option, force)
  \/ \E option \in Node \cup {None} : StandbyFollow(n, option)
  \/ \E upstream \in Node \ {n}, rewind \in BOOLEAN : NodeRejoin(n, upstream, rewind)

StepOf(n) ==
  \/ InitialiseDirectClone(n) \/ RunBasebackup(n) \/ MoveSlotToUpstream(n)
  \/ DropSourceSlot(n) \/ FetchFileBackup(n) \/ FileBackupFails(n) \/ BarmanUpstreamSlot(n)
  \/ FinishClone(n) \/ WriteRecoveryConf(n)
  \/ \E hostGiven \in BOOLEAN :
       (cmd[n].op = "follow" => ~hostGiven) /\ CreateTargetSlot(n, hostGiven)
  \/ WriteConf(n) \/ RestartServer(n) \/ DropOldSlot(n) \/ UpdateRecord(n)
  \/ AwaitAttachment(n) \/ Rewind(n) \/ DeleteCopiedSlots(n)

Environment(n) ==
  \/ \E ended \in Ending : ServerDown(n, ended)
  \/ Killed(n) \/ ServerUp(n) \/ ReceiverStarts(n) \/ Stream(n) \/ Write(n)
  \/ StandbyPromote(n) \/ StandbyRegister(n)

Next == \E n \in Node : (n \in Operated /\ CommandOf(n)) \/ StepOf(n) \/ Environment(n)

Spec == Init /\ [][Next]_vars

-----------------------------------------------------------------------------
(* Properties. *)

\* n's command reports success in this step without having warned about slots.
Reports(n) == cmd'[n].done /\ ~cmd[n].done /\ ~cmd[n].warned

\* A command that reports success, and printed no warning about the slot, has
\* left the node with a slot on the upstream its configuration names, unless that
\* upstream has itself been cloned or has rejoined while the command ran, or is
\* the former upstream too and the node had not attached to it when its slot was
\* dropped there (repmgr-action-standby.c:3122).  After a follow or a rejoin the
\* node streams from there, or not yet from anywhere, and the node record names
\* that upstream.
SuccessIsUsable ==
  [][\A n \in Node : Reports(n) =>
       LET u == cmd[n].target
       IN /\ \/ n \in slots'[u] \/ <<u, n>> \in purged
             \/ cmd[n].old = u /\ receiver'[n] # u
          /\ cmd[n].op \in {"follow", "rejoin"} =>
               conninfo'[n] = u /\ receiver'[n] \in {None, u} /\ registry'[n].upstream = u]_vars

\* A rejoin points the node only at an upstream whose history it shares: what
\* was compared before the slot was created and the files rewound still holds
\* when the configuration is written, unless that upstream has itself been cloned
\* or has rejoined meanwhile, or the node was still shutting down when it ended:
\* then only its last checkpoint is compared (repmgr-action-node.c:2189-2279).
RejoinCanAttach ==
  [][\A n \in Node : /\ cmd[n].op = "rejoin" /\ conninfo'[n] # conninfo[n]
                     /\ cmd'[n].step = "restart"
                     /\ <<conninfo'[n], n>> \notin purged
                     /\ server[n].ended # "shutting down"
        => SharesHistory(n, conninfo'[n])]_vars

\* A follow that succeeds leaves no slot of the node on its former upstream,
\* unless pg_rewind has copied one there from another server meanwhile.
FollowFreesOldSlot ==
  [][\A n \in Node : Reports(n) /\ cmd[n].op = "follow"
        => LET old == cmd[n].old
           IN old = cmd[n].target \/ n \notin slots'[old] \/ <<old, n>> \in purged]_vars

\* No command empties the data directory of a running server, whatever its
\* options (repmgr-action-standby.c:265).
ActiveDirectoryIsKept ==
  [][\A n \in Node : server[n].up => server'[n].data # "none"]_server
=============================================================================
