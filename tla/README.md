# A TLA+ model of hg_repmgr

hg_repmgr is HighGo's fork of repmgr 5.0, in C: it manages replication and
failover for PostgreSQL.  A daemon, `repmgrd`, runs beside each server; a
command, `repmgr`, does one operation and ends; an extension, `repmgr.c`,
keeps a few variables in the shared memory of each server.  There is no
consensus protocol: the daemons decide from what they read of each other, one
query after the other, and that is what this project checks.

## The system

| Component | State | Operations | Talks to |
|---|---|---|---|
| **Failover of a standby** (`repmgrd-physical.c` 829-1840, 2340-3500) | `monitoring_state`, `failover_state`, the local node record, `upstream_conn`, `local_conn` | `do_primary_failover`, `promote_self`, `notify_followers`, `wait_primary_notification`, `follow_new_primary`, degraded monitoring | the siblings' servers, the `repmgr standby promote/follow` commands |
| **Election** (3662-4121) | the locals of `do_election` and the list of siblings | examine each sibling, count, decide | every sibling, read-only |
| **Brain split check** (5169-5340, 4914-4983) | the node list | `check_BS`, `check_timeline`, `exec_node_rejoin_primary` | every other node, `pg_ctl`, `repmgr node rejoin` |
| **Monitoring of a primary** (264-826) | `monitoring_state`, virtual IP | reconnect, stop, rejoin, check disk and network card | the local server |
| **Synchronous switch** (4989-5165) | two static variables | `check_sync_async` edits postgresql.conf | `pg_stat_replication` |
| **Cascaded standby** (2853-3075) | as the standby's | `do_upstream_standby_failover` | the primary |
| **Witness** (1843-2335, 3526-3660, 4126-4204) | a copy of the node records | `do_witness_failover`, `witness_copy_node_records` | the primary |
| **Shared memory** (`repmgr.c`) | node id, pid, pause flag, notice, last upstream contact, BDR handler; a state file | SQL functions under one lock | all daemons and commands |
| **repmgrd process** (`repmgrd.c`) | pid file, signals | start, stop, reconnect | `repmgr daemon start/stop` |
| **BDR failover** (`repmgrd-bdr.c`) | a state per node, the handler | `do_bdr_failover`, `do_bdr_recovery` | both BDR nodes |
| **Node metadata** (`dbutils.c`) | `repmgr.nodes` on each server | register, unregister, set primary, set upstream, set active | replication carries it |
| **Switchover** (`repmgr-action-standby.c` 3170-4935) | its own locals, the pause of every node | `do_standby_switchover` | ssh, all servers, `node rejoin`, the repmgrds it pauses |
| **Commands** (`repmgr-action-*.c`) | none of their own | clone, register, promote, follow, switchover, rejoin, pause, cluster reports | servers, ssh, shared memory |
| **Configuration, strings, logging** | settings | parsing | - |

What is hard here:

* **Concurrency without a protocol.**  Every daemon runs its own election from
  what it reads; nobody votes.  That two never win rests on all of them
  computing the same order from stable data (`AtMostOnePromoted`).
* **Notifications** are one variable in each server's shared memory,
  overwritten by the next, reset at several places, lost in a restart.
* **Commands** are run with `system()` and may fail, or may time out and take
  effect later.
* **Partitions**, reappearing primaries, daemons that crash, operators who
  promote by hand or pause the daemons while they act.
* **Two primaries** that check each other at the same time.

What makes each component correct: the election chooses the same best node
whatever the order and lets a node win only with the majority; the failover
promotes at most one node, none that is behind, and gets the rest to follow; a
notice only ever names a primary; the brain split check never stops everything
and ends with one primary; the pause survives whatever restarts; a switchover moves
the role without losing a record or leaving two primaries; one repmgrd runs per
node and is registered in its server's shared memory; the node records name one
primary, and the witness' copy follows it; a command that reports success leaves
the slot that its standby needs and not the one it had; the synchronous switch
lets commits go on and is taken back.

## Modules

```
PrimaryRole      what a failover promises of the role of primary (abstract)
Election         the decision of do_election(), as operators
  ElectionRun    one election, every answer of every sibling   MCElectionRun
  Failover       all daemons, their servers, the network       MCFailover
    FailoverProof    proofs: types, notices, followers; one promotion, of the
                     furthest; Failover implements PrimaryRole

BrainSplit       all primaries checking each other             MCBrainSplit
SharedState      the functions of repmgr.c, interleaved        MCSharedState
  SharedProof        proofs
Switchover       the switchover command beside the daemons     MCSwitchover
  SwitchoverProof    proofs
BdrFailover      the daemons of a BDR pair, both servers       MCBdrFailover
DecisionProof    proofs about ElectionRun, BrainSplit and BdrFailover: what
                 repmgrd decides from what it reads of the others
Daemon           the repmgrd processes of one node             MCDaemon
  DaemonProof        proofs
NodeRecords      repmgr.nodes, its copies, who changes them    MCNodeRecords
  RecordsProof       proofs
ReplicationSlots clone, follow, rejoin and their slots         MCReplicationSlots
  SlotsProof         proofs
SyncSwitch       the switch to asynchronous replication        MCSyncSwitch
  SyncProof          proofs
```

Each model from `BrainSplit` on looks at one concern of the same servers: what
belongs to another concern is its environment, at the strength that concern has
(a promotion in `NodeRecords` may fail to update the records, as it may in
`Failover`).

### Election, ElectionRun

`Election` translates `do_election()`: `Prelude` is what precedes the loop
(manual failover, priority 0, no siblings), `Examine` one pass of the loop for
one sibling, `Verdicts` what follows it.  `Outranks` is the comparison of
candidates by LSN, priority and id.  The tally is a record of the function's
locals; a sibling's answer is a record of what the queries return.
`ElectionRun` drives one election over every combination of answers.

### Failover

The variables `pg`, `lsn`, `promotion`, `registered` are the servers, `notice`
and `paused` their shared memory, `reach` the network, and `daemon`,
`upstream`, `tally`, `todo`, `target`, `mail`, `stray`, `promotionFailed` the
locals of each repmgrd.  `daemon` is its place in the code:

| Stage | In the code |
|---|---|
| monitor, degraded | the two states of `monitor_streaming_standby()` |
| elect | the loop over the siblings in `do_election()`, one step each |
| promote, promoting, promote_failed | `promote_self()` before, during and after a failed promote command |
| notify | the loop of `notify_followers()`, one step each |
| wait | `wait_primary_notification()` |
| follow, following | `follow_new_primary()` before and during the follow command |
| leader | handed over to `monitor_streaming_primary()` |
| stopped, dead | not running, without and with its pid left in shared memory |

The election reads each sibling at the moment it examines it, so a decision
rests on data of different times.  A notice is delivered by writing the
sibling's `notice`; `RERUN` (-2) and `UNKNOWN_NODE_ID` (-1) are the marks of
the code.  `promotion` is a promotion that PostgreSQL was asked for and has not
finished; `PromoteErrs` lets the command fail and leaves it pending.  `stray`
is the other node that `upstream_conn` was left open to.

`PrimaryRole` says what all that amounts to: the primary may be lost, one
standby that has all the WAL of those it sees may take over, once, and the
others may move over to it.  `Failover!ImplementsRole` is the refinement: the
servers that serve are those with `pg = "primary"`, an upstream is that of the
daemon, what a node sees is `reach`.  Every election, notice, timeout and failing
command is a stutter there.

### BrainSplit

WAL is the set of what was written, tagged with timeline and writer, so that
two histories can diverge; `tl` is a server's timeline and `ctl` the one in
`pg_control`, which a promotion reaches only with its checkpoint.  Each repmgrd
scans the nodes one by one (`Ask`), decides (`Judge`; `JudgeFails` if the other
primary's record or timeline cannot be read) and stops or rejoins.
How there came to be several primaries (a failover across a partition, an old
primary started again) is the environment's doing, within `Budget`.

### SharedState

One step per section under the lock and per operation on the state file;
`session` holds what each session's call has done so far.  The argument of
`set_local_node_id()` is any node's id: `Own` is that of the repmgrd of this
server, `Other` holds the ids of cascaded standbys, whose repmgrds set their own
here when they find none (repmgrd-physical.c:4261, reached from 2883), and those
in the files of copied data directories.  Opening and writing the state file may
fail, the latter after the file has been truncated.  `acked` is history: the pause
state that was acknowledged last, and whether the file says so in this node's
name; so are `asked` and `clashed` (two calls have used the file at once).

### Switchover

`cmd` is the place in `do_standby_switchover()`, `todo` what is left of the loop
it is in; `info`, `lost`, `ckpt`, `behind`, `complete` are its locals.  The
checks before anything is changed are one step, `Checks`, that may refuse for
any reason; the loops over the nodes (`Record`, `Pause`, `SiblingFollows`,
`Unpause`) take a step per node.  Two processes may run "node rejoin" on the old
primary at once (`rejoin`), because that node's repmgrd never looks at the
pause: it takes the shutdown for a failure (`LocalLost`), gives up reconnecting
(`Reconnect`), stops whatever runs by then (`StopOwn`) and rejoins it, after
starting and stopping it if it crashed (`Clean`).  The failover of the standbys
is reduced to its decision (`Elect`, `PromoteSelf`, `Recover`): it is there to
show that the pause prevents it.  `settled` says whether the promoted server has
written a checkpoint, without which pg_rewind does nothing.  `Guarded` says where the
properties speak: while the command is at work, unforced and with the daemons
paused.  It ends where the daemons of a network that is cut are unpaused
(`Divided`).

### BdrFailover

`watch` is each daemon's list of the two nodes (`monitoring_state`,
`node_status`), `conn` its `local_conn` (open, none, or broken without its notice), `task` the
function it is in, with the node it is about and the connection (`link`) that the rest of the function uses:
open, broken by the other end, or freed by the function itself.  `handler` is
the variable in each server's shared memory, asked (`PeekHandler`) and written
(`ClaimHandler`) in two lock sections; `registered` says where
`set_local_node_id()` has been called since the server started, without which
`Unset` does nothing.  `record` is each server's copy of the two node records,
tagged with its last update.  `left` and `missed` are history: where a handler
was not released, and which daemon was mistaken about a node.  They occur in the
premises of the properties only.

### Daemon

The repmgrd processes of one node, told apart by pid.  `proc[p].stage` is the
place in the code: `main()` ("identify" to "register"), `check_connection()`
("set id", "set pid"), degraded monitoring ("degraded", "down", "rejoin"),
`follow_new_primary()` ("followed"), `terminate()` ("unlink"); `link` is its
session with the server.  `segment` is the shared memory, which a restart of the
server empties (`Zapped`), and `file` the pid file, checked, opened and written in
three steps.  `command` is one `repmgr daemon start` or `stop`.  `gap` and
`lapse` are history: they record the events that the two properties except.

### NodeRecords

`table[s]` is the copy of `repmgr.nodes` on server s: a standby's changes by
replication (`Replicate`), the witness' when it copies, and everyone reads its own.
A command is split where it has read something that it uses later: what it found
is in `cmd`, and the write is a step of its own.  `repmgrd` is the witness'
daemon with its stage in `monitor_streaming_witness()`.  The changes of the
records are operators (`Stored`, `Created`, `Deleted`, `SetPrimary`) that return
the set of possible results, empty when the foreign key of `upstream_node_id`
refuses.  `current` is history: whether the target of a delete was a primary that
ran when the command looked at it.

### ReplicationSlots

`cmd[n].step` is the place in the command that runs on node n, and the fields
beside it its locals (source, target, the former upstream, the exit code).
`slots[m]` are the owners of the slots on m, `conninfo` what the node's
configuration names, `receiver` where it is attached.  A slot belongs to the
data directory: it is gone when that is cloned anew or rewound (pg_rewind may
bring copies of the primary's, which `DeleteCopiedSlots` removes as far as it
can).  `server[n].ended` is what pg_control says of the last shutdown; node rejoin
refuses a server that crashed, but not one that was "shutting down", of which only
the last checkpoint is compared (`ComparedPositions`).  `purged` is history: it
relates a node to the commands in whose course it has been cloned or has rejoined,
which drops slots of others (a rejoin without pg_rewind drops the one of the
primary that it joins).  A command may be killed at any step (`Killed`).  The end
of follow and rejoin (`AwaitAttachment`) reports success attached or not.  The WAL
receivers attached to a server end with it, whether it stops, crashes, is
restarted or replaced (`Cut`).

### SyncSwitch

`marks` counts the # before `synchronous_standby_names` in postgresql.conf,
`enforced` is what the server has loaded; `missed` and `switched` are the static
variables of `check_sync_async()` and are reset when repmgrd ends (`Dies`).  The
edit with sed, the reload and the note of the switch are separate steps, as a
process may end between them.

## Runs

Runs that pass:

| Run | Instance | Question |
|---|---|---|
| election | a standby, two sibling standbys, a witness, two locations, all answers | Is the best contender chosen, is a victory justified, does a loser have a winner? |
| failover_split | three standbys, two priorities, one WAL record, the primary alone or with any of the others behind a partition, a failing command, a rerun | Is at most one standby promoted, and none that is behind? Does it implement PrimaryRole? Does a failover of connected standbys end with all of them attached? |
| failover_faults | two standbys, a witness, partitions; up to three of: another partition, a primary that returns, a repmgrd that stops or crashes, a failing command, a pause, a promotion by hand | Does a notice name a primary, do followers stay followers? |
| split | three nodes of equal priority, two promotions, a partition, a crash, a failed host, a start, a late checkpoint | Is the last of primaries whose WAL has not diverged ever stopped? Is there at most one primary in the end? (1,627,576 states) |
| shmem | two sessions, all functions, the ids of two nodes, two pauses, a restart, a crash, a copied directory, a file that cannot be opened or written | Are notices whole, does a foreign state file pause nobody but under its own node's id, is the pause kept while this node's id is set? (1,375,784 states) |
| switchover | a primary, a sibling, the candidate; --siblings-follow, --dry-run, or --force with --always-promote and --force-rewind; one WAL record; one of: a crash, an unreachable sibling, a slow promotion, a shutdown or a start without effect; a paused repmgrd and absent ones | Is there one primary and one virtual IP, is nothing lost, are the pauses restored, does the old primary return? |
| bdr | both daemons and servers of a pair; two of: a failure of a server, the death of a repmgrd | Is the handler released, is one daemon enough to handle a failure, does monitoring become normal again? |
| slots | three servers with two slots each, one WAL record; two commands (clone, Barman clone, recovery-conf-only, follow, rejoin) on two nodes, a stop, a crash or a killed command, a promotion | What can be relied on when a command reports success: the slot it needs, the old one freed, configuration and record; does a rejoin only point at a shared history? (1,554,820 states) |
| records | two data nodes and a witness; two commands, a promotion whose record update may fail, a fault, a repmgrd of the witness that starts and ends | Is there one active primary in every copy, does a running primary keep its record, does the witness find the new one? |
| daemon | two pids, three starts, two restarts of the server at any point, one of: a killed repmgrd, a failing start, a lost session, a pid taken by another process, a cascaded standby that connects; daemon start and stop | Does the pid file admit one repmgrd only, is one that remains alone registered? |
| sync | a synchronous and an asynchronous standby; three lost connections, a stopped standby, an end of repmgrd, a reload that fails | Do file and memory agree, do commits resume, does replication become synchronous again? |

A run that shows the code departing from what the repository says of it (it
checks one property, which quotes the statement):

| Run | What it shows |
|---|---|
| slots_active | a Barman clone with --force empties the data directory of a running server, before the check that "even -F/--force is not enough to overwrite an active directory" (repmgr-action-standby.c:265) |

The models show some more of that kind, for which no run is kept.  Of the
failover:

* What the witness has seen of the primary is not heeded in the consensus
  (`Examine` looks at standbys only, repmgrd-physical.c:3887).
* With connection_check_type=query a standby whose `upstream_conn` was left open
  to another node (`stray`) takes that node's answer for its upstream's
  (repmgrd-physical.c:3144; repmgrd-configuration.sgml:84 speaks of the
  upstream).
* A node outside the primary's location wins as soon as it reaches any node in
  that location (`Verdicts` asks for no more), although
  repmgrd-automatic-failover.sgml:56 reserves promotion to that location.
* A standby that has lost only its own link to the primary, and reaches the
  witness, has a majority and is promoted beside it (`NoMajority`), although
  repmgrd-automatic-failover.sgml:42 takes this for proof that the primary is
  down.
* The pause is read in `Detect` and at no later step, so it does not stop an
  election that has begun (repmgrd-operation.sgml:43).
* A pause that is set before repmgrd has registered is stored with node id -1
  and forgotten in a restart, and one that overlaps with the registration is
  undone by what that has read before (`ReadStateFile`, `SetLocalNodeId`),
  although repmgrd-operation.sgml:168-175 says that it is kept in both cases.
  It is lost as well, without any overlap, when the repmgrd of a cascaded standby
  is the first to set its id after a restart: the file is then compared with that
  id (repmgr.c:302) and passed over.  In the same way a file that was copied from
  that standby is heeded.  `PauseIsKept` and `NoForeignPause` are what remains true.
* While `pg_control` is on the old timeline after a promotion, both of two
  primaries may give way (`Yields` compares the local `ctl` with the other's
  `tl`): hence the condition on "late" in `OnlyOneIsStopped`.
* With `primary_visibility_consensus` the first standby to notice that the
  primary is gone cancels its election, because the others have seen it just
  now, and does not try again.
* A standby with failover=manual leaves its own election (`Prelude`), but those
  of its siblings may choose it for their candidate and wait for it; nobody is
  promoted, although the message at repmgrd-physical.c:3706 says that it "will
  not be considered as promotion candidate".
* When the follow command fails and the original primary is back, `local_conn`
  is closed (repmgrd-physical.c:3387), and repmgrd ends in `terminate()` where
  it says that it is resuming its monitoring mode (2659): `FollowFails` goes to
  "dead" then.

Of the brain split check and the switchover:

* Two primaries whose histories have diverged are not both stopped: one gives
  way and is rewound, and what was written there is lost (repmgrd-physical.c:5236
  never compares their WAL; repmgr.conf.sample:478-479 says that each "would stop
  the database").  `OnlyOneIsStopped` states the sentence before that one
  (476-477), with its condition that the WAL has not split (`WalHasSplit`); the
  theorem `OneGoesOn` proves `LastGoesOn` too, which holds without it.
* Which of the two survives is not always the one with the later timeline: a
  promoted node whose pg_control is still on the old timeline may lose to it.
  `SplitResolves` says that one is left, not which.
* The paused repmgrd of the old primary stops the server that the switchover has
  just rejoined (`StopOwn`, repmgrd-physical.c:438; repmgrd-operation.sgml:43).
* After a switchover that reports success the old primary's repmgrd may be left
  paused, because that very repmgrd had stopped the server again when
  `Unpause` came to it; hence the exception in `PausesAreRestored`.
* A switchover that is abandoned ("refused" after `Pause`, "aborted") leaves all
  repmgrds paused.
* With --force, a node that could not be asked whether it was paused is unpaused
  in the end; and after a crash the old primary's repmgrd may start its server as
  a second primary for a moment (`Clean`), while the candidate is promoted.
* With four nodes or more, once the command has unpaused the daemons while some
  standbys are cut off from the candidate, these take the shut down primary for
  failed and may promote one of themselves (`Divided`): with the old primary as a
  voter they can be more than half, and they do not reach the new one.

Of BDR:

* A node whose failure only its own repmgrd handled stays inactive after it has
  returned, for the recovery is left to the other one (repmgrd-bdr.c:635;
  repmgrd-bdr.sgml:386).
* Two daemons that ask at the same time are both told that they handle the BDR
  failover (`PeekHandler`, `ClaimHandler`): the lock is released between the test
  and the claim (repmgr.c:533).  Both then mark the node, which does no harm to the
  record, and run the failover command, which is meant to be run once.
* A BDR handler that dies between the claim and the release refuses the other
  daemon for ever, although repmgrd-bdr.sgml:378-380 says that this one performs
  the failover when the entire server becomes unavailable.  The same holds after a
  restart of the PostgreSQL that holds the handler: `monitor_bdr()` never calls
  `set_local_node_id()` again, and `Unset` does nothing there.  `left` marks both.
* When a BDR node reappears (`Recheck`), `do_bdr_failover()` says that it aborts
  and goes on with the closed connection; the node is left marked as down in
  normal monitoring, so that its next failure goes unnoticed.
* A handler whose command is still running when the node has recovered and fails
  again blocks the other daemon, which does not ask a second time.
* Without a local server a daemon takes the other node to be well again and does
  not mark it active (`RecoverAlone`).

Of the daemons (`gap` and `lapse` mark them):

* Two repmgrds that look at the pid file before either has written it both run
  (repmgrd.c:734), and one that is refused or whose node has no record removes
  the file of the one that runs (`Unlink`, repmgrd.c:1047, 495).
* After a restart of the server that repmgrd notices in degraded monitoring only
  it is not registered again (repmgrd-physical.c:496; the comment at 405 says
  that the registration is renewed).
* When the upstream of a cascaded standby fails, the standby's repmgrd sets its
  own id in the primary's shared memory if none is set there
  (`CascadedSetsId`, repmgrd-physical.c:4261 called from 2883).
* A start that is refused by the pid file has set the id first (repmgrd.c:498).

Of the records and the witness:

* `witness_copy_node_records()` truncates the copy before it reads: if the read
  fails the empty table is committed (dbutils.c:3226); if the witness' session
  has ended by then and the primary answers pings, nothing is copied again
  (repmgrd-physical.c:2269).
* After a promotion whose record update failed, `primary register --force` is
  refused (repmgr-action-primary.c:134).
* `standby register` looks at the node's own record to see whether its upstream
  is active (repmgr-action-standby.c:1576).
* The witness does not find a new primary that was registered after its last
  copy, or that was a cascaded standby (repmgrd-physical.c:2115), unless it is
  notified.

Of the slots:

* standby follow exits with SUCCESS when its slot could not be created or its
  record not updated (repmgr-action-standby.c:2895, 3134;
  doc/repmgr-standby-follow.sgml:190 takes SUCCESS to mean that it succeeded);
  hence `warned` in `Reports`.  --recovery-conf-only exits with SUCCESS when the
  file could not be written (1192).
* standby follow and node rejoin may report success for a node that is not
  attached: with standby_follow_timeout = 0 (repmgr-action-standby.c:2771), when
  the first wait loop of node rejoin has used up node_rejoin_timeout
  (repmgr-action-node.c:2542-2566), with --no-wait (2615).  So `SuccessIsUsable`
  promises a configuration and a record that name the upstream, and a receiver
  that is there or nowhere, not one that is there.
* A follow or rejoin whose former upstream is the target drops the slot that it
  has just made if that is not active yet (3108-3125), which a node that never
  attaches then lacks: the last exception in `SuccessIsUsable`.
* node rejoin goes on with a server that was shutting down when it ended
  (repmgr-action-node.c:2189-2203, after "database is still shutting down"), and
  then compares its last checkpoint only (2268), so it may point the node at an
  upstream whose history it does not share.
* A clone from a source that is not the upstream leaves its slot on the source if
  the upstream had one already (6091).
* A follow is refused if the target has no free slot, even when the node has its
  own there (2600).
* A Barman clone does not look at how rsync ended (6336).

Of the synchronous switch:

* Every attached standby counts: an asynchronous one that stays attached
  prevents the switch, and one that returns alone switches back, after which
  commits wait for ever (repmgrd-physical.c:5002, 5072).  Hence the premise of
  `CommitsResume`.
* The switch back compares what a standby has received with a position read
  earlier, so under a constant load it may never happen (5081); `MaxWal` bounds
  the load.
* A repmgrd that ends after the edit leaves the setting commented out for ever,
  or has its successor add a second # (5040).  The result of the reload is not
  looked at (5050).

The mutants in PROJECT.json (definitions whose name has a suffix, such as
`Outranks_NoTiebreak`) are plausible bugs; each property fails with its mutant.

### Bounds

Three standbys are the fewest with a winner, a loser and one more that may agree
with either; two are enough for notices and followers.  One WAL record tells
"behind" from "level".  Priorities take two values, one pair being equal, so
every tie is reached.  Every fault has a budget of one or two per run;
failover_faults takes at most three of them together (`FewFaults`), since more
exceed what can be enumerated; there is no such bound in the proofs.  Two rounds
of elections occur (one rerun).  In Switchover each event happens once and one
per behaviour; the sibling has a lower id than the candidate, so that it would
win an election; that the properties hold for more siblings, among which two may
agree without the candidate, is for the proofs.  In BdrFailover two faults are a
failure during the recovery from another, or a daemon that dies at any point of
a failover; the clock is bounded by them.  In BrainSplit the timeline ends at 3
with two promotions, and the "more than one other primary" case occurs.  In
ReplicationSlots three servers are the source, the upstream and the node; two
slots are few enough to run out; two commands are two nodes at once or one after
the other on one node.  One fault cannot both kill a rewind and hit a follow that
runs meanwhile, so the exception for copied slots in `FollowFreesOldSlot` matters
with two of them only, and in the proof.  Three commands have been run as well without a fault,
and random behaviours with four and two faults; they are why `purged` is a
history of each command and not only a look at what the upstream runs now.  In
NodeRecords two data nodes are a primary and the one that succeeds it, with no
third to confuse the witness; with one promotion no command looks at a primary
that runs only later once more, a case that the proofs have.  In Daemon two pids
let a repmgrd meet another, a dead one's file and a pid that was taken; the
second restart comes at any point of the recovery from the first.  In SyncSwitch
three lost connections are a switch, its return and another switch during the
scan; Patience stands for the 30 seconds, and a lag of 1 and of 2 are on both
sides of Near.

### What is assumed of the environment

* `AtMostOnePromoted` and `PromotedIsFurthest` are claimed for a network whose
  reachability is an equivalence and does not change during the failover, and
  for daemons that keep running and a primary that does not return: only then
  do all elections see the same data.  failover_faults drops these assumptions
  and claims less.
* The WAL is frozen for a standby that does not reach the primary.
* In `Switchover` all repmgrds are paused sooner than one of them runs out of
  its reconnection attempts (`UpstreamLost` waits for "record" and "pause"), the
  candidate's and the siblings' servers stay up, and only ssh and connections
  between the candidate and a sibling are cut.
* One primary fails, once; a standby's own server does not fail.

### Fairness

`Failover!FairSpec`: repmgrd is a loop that sleeps for a bounded time, each wait
has a timeout, so weak fairness of each daemon's step; PostgreSQL completes an
accepted promotion.  The environment is not fair: the primary need not return,
and a stopped daemon need not start.  `FailoverCompletes` excludes a failing
command, because a promotion that has failed is not tried again, and topologies
that keep the standbys apart.  `BrainSplit!FairSpec`: the same for the
primaries' daemons, and a checkpoint ends.  `Switchover!FairSpec`: the command,
the old primary's repmgrd and the two rejoins run on; nothing is asked of the
other daemons.  `BdrFailover!BdrFairSpec`: a daemon that runs goes on, BDR
replicates, and strong fairness of `Recovered` stands for a slot that becomes
active some time after both nodes are up, however often bdr_recovery_timeout
ends first.  `NodeRecords!Spec`: the witness' daemon is a loop of bounded
sleeps; commands and replication need not go on (the premise of `WitnessFollows`
holds what it needs of them for good).  `Daemon!Spec`: the same for the
repmgrds; the server need not start and a command need not end.
`SyncSwitch!FairSpec`: repmgrd's loop, its service manager, the WAL receivers
that are attached and the confirmations; no standby need return.

## Proofs

Each theorem is about every value of the constants that the named assumptions of
its model allow: any finite set of nodes, sessions or processes, any priorities,
bounds and budgets.  No theorem assumes a bound of a run, and no proof a step
that was not checked.  An invariant that is not
inductive is proved from a stronger one; TLC has checked each of these on the
instance of the run first.

| Proof module | Theorems (property) | Inductive invariant |
|---|---|---|
| FailoverProof | TypeCorrect (TypeOK), NoticesAreRight (NoticeNamesPrimary), FollowersAreSafe (FollowersStayFollowers), OneIsPromoted (AtMostOnePromoted), PromotedHasTheWal (PromotedIsFurthest), FailoverImplementsRole (ImplementsRole), OutranksIsAnOrder | NoticeInv, FollowInv, PromotionInv, RoleInv |
| DecisionProof, of ElectionRun | CandidateIsTheBest (CandidateIsBest), VictoriesAreJustified (WinIsJustified), DefeatsHaveWinners (LoserHasWinner) | ElectionInv |
| DecisionProof, of BrainSplit | TypeCorrect (TypeOK), OneGoesOn (OnlyOneIsStopped, and LastGoesOn), AboveIsAnOrder | TimelineInv, SplitInv |
| SwitchoverProof | TypeCorrect, OneAtATime (OnePrimary), NoWalIsLost (NothingIsLost), VipIsMoved (VipMoves), PausesComeBack (PausesAreRestored) | SwitchInv |
| SharedProof | TypeCorrect (TypeOK), NoticesAreWhole (NoticeIsWhole), ForeignFilesAreIgnored (NoForeignPause), PausesAreKept (PauseIsKept) | NoticeInv, TextIsOfCall, AskedInv, KeptInv |
| DecisionProof, of BdrFailover | HandlersAreReleased (HandlerIsReleased) | BdrInv |
| RecordsProof | TypeCorrect (TypeOK), OnePrimaryIsActive (OneActivePrimary), RunningPrimaryIsKept (PrimaryKeepsItsRecord) | RecordsInv, KeepInv |
| DaemonProof | TypeCorrect (TypeOK), OneRepmgrdMonitors (OneRepmgrd) | TypeInv, HolderInv |
| SlotsProof | TypeCorrect (TypeOK), SuccessLeavesASlot (SuccessIsUsable), FollowLeavesNoSlot (FollowFreesOldSlot), RejoinSharesHistory (RejoinCanAttach) | CommandInv (CommandsRest), HistoryInv (HistoriesAgree) |
| SyncProof | TypeCorrect, MarkIsRemembered (MarkIsKnown) | Known |

### Failover

The proofs about `Failover` hold for every finite set of standbys and
witnesses, every set of topologies, every priority and every budget of faults,
from the named assumptions of `Failover` and `Election`: node ids are natural
numbers, the primary is not a member, standbys and witnesses are disjoint, a
node reaches itself.  `TypeCorrect`, `NoticesAreRight` and `FollowersAreSafe`
assume nothing else, `OneIsPromoted`, `PromotedHasTheWal` and
`FailoverImplementsRole` also `Stable`; none depends on the bounds of the runs.

`FailoverProof!TypeCorrect` proves `Spec => []TypeOK`.  `TypeOK` is inductive;
the lemmas say why `Examine` keeps the type of a tally, that a set of naturals
has a least element (so that the next sibling and the first primary exist), and
that the first primary found is one.

`FailoverProof!NoticesAreRight` proves `Spec => []NoticeNamesPrimary`.  The
invariant adds `MailIsForOthers`: a mail names a node that is not among its
addressees, for without this a standby could be told to follow itself.
A notice changes in three ways, which `NoticeStep` tells apart: it stays, it is
reset, or it is copied from a sibling's mail; `MailStep` says the same of the
mail, which is only written by a node that is promoted itself, or names the
original primary or a rerun.  `PromotedStay` keeps what they name true.

`FailoverProof!FollowersAreSafe` proves `Spec => []FollowersStayFollowers`.
By itself that is not inductive: a standby that has left the primary could have
a promotion pending, or be in an election that still leads to one.  `FollowInv`
adds that it has none (`NothingPending`: attaching to a new primary restarts the
server) and that elections are only held by standbys of the original primary
(`ElectsForPrimary`).  It is proved node by node (`Follows`, `Elects`), once for
the environment and once for repmgrd.

`FailoverProof!OneIsPromoted` and `PromotedHasTheWal` prove
`Spec => []AtMostOnePromoted` and `Spec => []PromotedIsFurthest` from `Stable`:
what a part of the network reaches is the same for all its nodes and does not
change, the primary does not return, no repmgrd stops and nobody promotes a
standby by hand.  `PromotionInv` says of every standby that has won an election,
has a promotion pending or is promoted that it `Leads`: it has lost the primary,
reaches a majority of the members, and no standby there that may be promoted
outranks it; and of every standby in an election that what its tally holds is
still true of the others (`TallyIsRight`).  The second part holds because nobody
receives WAL once the primary is out of reach (`LostStep`); a standby that is
promoted already is found by all those that examine it, since it is not behind
them (`PromotedCanBeFollowed`).  Two leaders reach a common member
(`MajoritiesMeet`), so each other, so neither outranks the other, and
`Outranks` is a total order (`OutranksIsAnOrder`).  Notices matter too: one that
named its receiver would promote it without an election, which
`NoticesAreRight` excludes.

`FailoverProof!FailoverImplementsRole` proves `Spec => ImplementsRole`, from the
invariants of the other proofs.  A step of `Failover` changes the role in three
ways.  A promotion that completes is that of a leader, so nobody else serves
(`LeadersAreOne`), the standby has not left the primary (`FollowInv`), and it has
the WAL of all those it sees that may be promoted: `TakeOver`.  A follow command
that completes moves a standby that was still with the primary to one that is
promoted and not behind it: `MoveOver`.  WAL only grows at the primary and at the
standbys attached to it: `Advance`.  The proof goes through all other actions
and shows that they leave the servers, the WAL and the upstreams alone.

### Election

The first part of `DecisionProof` is about one call of `do_election()`, from `IdsAssumption` (the
ids are natural numbers, the siblings finitely many and not the node itself, no
sibling is a standby and a witness) and `ValuesAssumption` (positions and
priorities are numbers).  Its invariant relates the locals of the loop to the
reports received so far (`TallyIsRight`): the candidate is one of those compared
and nobody compared outranks it, and each node that is reached is counted once.
`WinIsJustified` and `LoserHasWinner` then follow at the exits, with `Outranks`
a strict order, so that the best by successive elimination is the best of all.
A defeat needs a witness: the candidate that the loop ended with.

### Switchover

`SwitchInv` has, beside the types, one part per concern; the first four are under
the premise `Careful` (nothing forced, not `Divided`):

* `RolesInv`: from the place where the old primary was found shut down it does not
  run as a primary, and nobody but the candidate becomes one.  The siblings stay
  standbys as none of their daemons gets to promote itself.
* `PausedInv` says why: until they are unpaused the daemons of the standbys are
  paused or do not run, and one that is unpaused finds the candidate.
* `WalInv`: whoever has as many records as were written has all of them, and from
  the shutdown to the promotion nobody writes; the checkpoint position that the
  candidate is compared with is therefore the end.
* `VipInv` follows the virtual IP from `unbind` to `bind`.
* `PausesInv` holds with any options: what `Record` has found is what is paused and
  unpaused, apart from those `lost`.
* `ServersInv`, `ChecksInv`: nothing has happened while the checks are not over.

The proof has a step for each place of the command and one for each event; most
leave a part alone, which a lemma of its own says once for each part.  It found that
`OnePrimary` is false for four nodes without `Divided`, see above.

### Brain split check

This is the second part of `DecisionProof`.  `OnlyOneIsStopped` is an action property with a premise: no repmgrd was made to
clean its server and no checkpoint is late, so that every `ctl` of a primary is
its `tl` (`Known`).  `Above` is then what `check_timeline()` decides, a strict
order (`AboveIsAnOrder`).  `BeatenInv` says that whoever is about to give way is
still `Beaten`: there is one above it that is a primary, or had to stop, or is
lost; a timeline only grows, and the one above that gives way itself leaves
another above both (`BeatenIsKept`).  If nobody has stopped and no lost host had
a timeline as late as those that run, the last primary cannot be beaten.  None of
this looks at what the primaries have written, as `check_BS()` does not: the
theorem has `LastGoesOn` beside `OnlyOneIsStopped`, without the condition on the
WAL.
`TimelineInv` adds to the types that a standby is not ahead of the node it
follows, or else adopting the upstream's timeline could put pg_control ahead of
the server.

### BDR failover

The last part of `DecisionProof` is about the handler that `BdrFailover` keeps in
the shared memory of both servers.  `HandlerIsReleased` is inductive with the
types of the handlers and of what the daemons do (`BdrInv`): a daemon becomes
the handler in one step, which brings it to a stage from which only the release,
its death or the loss of the server lead away, and the last two, with a release
that does nothing, are what `left` records.  Of the assumptions it only uses that
node ids are not negative, so that none is the mark for no handler.

### Shared memory

A notice is two variables written under one lock; `NoticeInv` adds that a call
that will write one names a node and that repmgrd has registered.  `AskedInv`
follows a pause through all the places it can be in (shared memory, the file,
the text read from the file, the argument of a call): each has been asked for on
this node, as long as it is not another node's id that is set.  A text that names
this node stems from a call here (`TextIsOfCall`); one that names another is
heeded under that id only.  `PauseIsKept` needs `KeptInv`: if the pause was
acknowledged in this node's name, and no call is about to change it, the file says
so, whoever has set an id or restarted the server since (`FileInv`); and while no
two calls have overlapped the call that uses the file is alone with it
(`AloneInv`).

### Node records

`RecordsInv` says of every copy (`Sound`) that an upstream named in it has a
record there and that at most one active record is a primary, and of what is
read over a connection or from the node that is followed that there is one.  The
records change through a few operators; each either makes no primary
(`FewerPrimaries`) or takes the place of the one there was.
`RunningPrimaryIsKept` needs `KeepInv`: a delete that looked at the target's own
copy did not find a running primary, and a primary streams from nobody, so that
replication brings no delete from elsewhere.  Proving it showed that with more
than one promotion a node that was a primary, but did not run as one when the
command looked, can lose its record after it has been promoted again; the
property excepts that.

### Clone, follow, rejoin and their slots

`SlotsProof` is about any finite set of servers that has a primary and a standby
to begin with (`SlotsAssumption`), any number of commands and faults, and any
number of slots from one up that is enough for the other standbys
(`RoomAssumption`: they have theirs on the primary initially, and the types
include that no server has more slots than it may).

* `SuccessLeavesASlot` and `FollowLeavesNoSlot` speak of the step that ends a
  command and of slots made several steps earlier, while servers fail, other
  nodes are cloned or rejoin, and commands drop slots.  `CommandInv` says for
  each place of each command what it rests on: what kind of command that place
  belongs to and what is known of its server (`Sound`), what the configuration,
  the receiver and the record already name (`Configured`), and which slots exist
  or have been `purged`, or dropped by the command itself where the former upstream
  is the target and the node has not attached there since (`Slotted`).  It is preserved for two reasons, which are
  proved apart: whatever another command, a server or a receiver does is `Quiet`
  for this command, i.e. leaves what it rests on; and each of its own steps
  prepares the next.
* `RejoinSharesHistory` needs what `node rejoin` compared to be true when it is
  relied upon.  `Compared` says what remains of the comparison at each place: the
  upstream is on no earlier timeline, not behind on the first one, and once the
  files are rewound the node forked off no later than the upstream did, and nobody
  replaces the upstream's data directory.  The upstream may meanwhile receive or
  write WAL, be promoted or fail.  That it only gains by what it receives is
  `Attachments`: who streams has a part of the WAL of the server it streams from,
  and that one is up.  Of a node that was shutting down when it ended nothing of
  this is known, which the property excepts.

The proof made two things in the model explicit: that receivers attached to a
server end with it whichever way it ends (without this a receiver could be
attached to a server that is being cloned anew), and `RoomAssumption`.

### repmgrd process

`HolderInv`: unless `lapse` has recorded an exception, at most one repmgrd is
between its look at the pid file and its end, and the file has its pid from when
it was written. `TypeInv` adds to the types that a session belongs to a repmgrd
whose server runs and that a pid is registered only where the id is known.

### Synchronous switch

`SyncProof!MarkIsRemembered` proves `Spec => []MarkIsKnown` of `SyncSwitch`, for
every set of standbys, bound and budget.  `MarkIsKnown` says nothing of the
places between the edits; `Known` adds what repmgrd remembers at each of them:
it goes to "comment" only when it has not switched, and back only from a scan,
which it enters when it has.  In a scan it may uncomment more than once, for each
standby that is near, which changes nothing after the first.  Only a death of
repmgrd breaks this, so the invariant is under the premise that there was none.
`SyncProof!TypeCorrect` is the type invariant it rests on.

### Only model-checked

Liveness (`FailoverCompletes`, `SplitResolves`, `OldPrimaryReturns`,
`FailureIsHandled`, `MonitoringResumes`, `RepmgrdIsKnown`, `WitnessFollows`,
`CommitsResume`, `SyncReturns`) and fairness are out of the prover's reach.
Every safety invariant and action property of a run that passes is proved.  Nothing is
claimed of `Failover` outside a stable network beyond what `NoticesAreRight` and
`FollowersAreSafe` say.

## Not modelled

* The failover of a cascaded standby, beyond what it does to the primary's shared
  memory (`Daemon`): it is one follow command, whose steps are in
  `ReplicationSlots`, and a change of the local variables of one daemon.
* standby_disconnect_on_failover and the wait for disconnected WAL receivers: an
  optional prelude to the election.
* Of the primary's monitoring: check_disk, check_network_card_status and the
  virtual IP of a failover, which are shell commands, and end in a stop of the
  server that BrainSplit has.  The virtual IP of a switchover is modelled.
* A second failover, and one during which a standby's own server fails.
* Reloads of the configuration, bdr_local_monitoring_only, the registration of
  BDR nodes, --siblings-follow of a promotion by hand.
* The configuration files that a node rejoin with pg_rewind archives and restores:
  only those that --config-files names are copied, a failed copy is ignored
  (repmgr-action-node.c:3102) and a failed restore a warning (3213), so that
  nothing is promised of them.
* --upstream-conninfo, which names an upstream without a record; the
  primary_conninfo that a running server has loaded, beside the one in its file;
  whether the files that a clone copies are complete.
* The cluster commands, which report; the monitoring history and events, which
  nothing reads back; configuration parsing, logging, strings, ssh, output; the
  SQL script, whose functions are those of repmgr.c.

## Plan

1. `UpstreamFailover`: the cascaded standby's daemon, composed with `Failover`.
2. `PauseFlag`, an abstract pause that `SharedState` implements when calls do not
   overlap.
