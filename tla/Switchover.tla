----------------------------- MODULE Switchover -----------------------------
(***************************************************************************)
(* "repmgr standby switchover" (do_standby_switchover() of                 *)
(* repmgr-action-standby.c): the candidate's server takes over from a      *)
(* primary that is shut down on purpose and rejoined as a standby, while   *)
(* the repmgrds are paused.                                                *)
(*                                                                         *)
(* The command is one process; beside it run the repmgrd of each node and, *)
(* on the old primary, up to two "repmgr node rejoin" at once: the one the *)
(* command starts by ssh and the one of that node's repmgrd, which does    *)
(* not look at the pause.  The daemons of the standbys are modelled as far *)
(* as they react to an upstream that has gone; Failover has the detail.    *)
(***************************************************************************)
EXTENDS Integers, FiniteSets

CONSTANTS
  Node,          \* node ids; all standbys but one have that one as their upstream
  Old,           \* the primary, which is to be demoted
  Candidate,     \* the standby on which the command is run
  Options,       \* the combinations of options with which it may be run
  Starts,        \* where repmgrd may be paused, and where it may not run
  MaxWal,        \* bound on the WAL records written
  MaxEvents      \* bound on the events that happen, each at most once

Event == {"crash",   \* the old primary's server crashes
          "cut",     \* a sibling cannot be reached from the candidate
          "slow",    \* a promotion outlasts promote_check_timeout
          "nostop",  \* the shutdown command has no effect
          "nostart"} \* the demoted server does not start

Option == [dry : BOOLEAN, nopause : BOOLEAN, force : BOOLEAN,
           always : BOOLEAN, rewind : BOOLEAN, siblings : BOOLEAN]

ASSUME NodeAssumption ==
  /\ Node \subseteq Nat /\ IsFiniteSet(Node)
  /\ Old \in Node /\ Candidate \in Node /\ Old # Candidate
ASSUME SettingAssumption ==
  /\ Options \subseteq Option
  /\ Starts \subseteq [paused : SUBSET Node, off : SUBSET Node]
  /\ MaxWal \in Nat /\ MaxEvents \in Nat

Sibling == Node \ {Old, Candidate}
Standby == Node \ {Old}

VARIABLES
  pg,        \* each server: "up", "stopping", "down" or, uncleanly so, "crashed"
  role,      \* what it is or would be started as: "primary" or "standby"
  wal,       \* what it has of the WAL
  written,   \* how many records have been written
  upstream,  \* the node it streams from
  known,     \* the primary according to its copy of the node records
  settled,   \* the last checkpoint is on the timeline it was promoted to
  vip,       \* the nodes that hold the virtual IP
  paused,    \* the nodes whose repmgrd is paused
  daemon,    \* what each repmgrd is doing
  rejoin,    \* the two "node rejoin" on the old primary: stage and target
  cut,       \* the siblings that the candidate cannot reach
  cmd,       \* the place of the command
  opt,       \* its options
  todo,      \* the nodes left in the loop it is in
  info,      \* the nodes it reached, found running and found paused
  lost,      \* the siblings it could not reach by ssh
  ckpt,      \* the old primary's last checkpoint, as a number of records
  behind,    \* the candidate was promoted without all of the WAL
  complete,  \* the old primary could be connected to in the end
  pending,   \* the candidate's promotion has been asked for and goes on
  spent      \* the events that have happened

server == <<pg, role, wal, written, upstream, known, settled, vip>>
command == <<cmd, opt, todo, info, lost, ckpt, behind, complete, pending>>
vars == <<server, paused, daemon, rejoin, cut, command, spent>>

Place ==
  {"checks", "record", "pause", "stop", "confirm", "unbind", "receive",
   "promote", "bind", "rejoin", "follow", "reach", "unpause",
   "done", "incomplete",      \* the two ends that report a switchover
   "refused",                 \* ended before anything was changed but pauses
   "aborted"}                 \* ended with the primary asked to stop

Stage ==
  {"off",        \* repmgrd does not run
   "standby",    \* monitors its upstream
   "degraded",   \* has found it gone
   "electing",   \* in do_primary_failover()
   "promoting",  \* has won the election
   "primary",    \* monitors its own server as a primary
   "lost",       \* has found that down and tries to reconnect
   "yielding",   \* has given up, and will stop the server
   "rejoining",  \* in exec_node_rejoin_primary()
   "cleaning"}   \* has started a crashed server, to stop it again

Rejoiner == {"command", "daemon"}
Idle == [stage |-> "idle", to |-> Old]

Position(n) == Cardinality(wal[n])
IsPrimary(n) == pg[n] = "up" /\ role[n] = "primary"
Primaries == {n \in Node : IsPrimary(n)}
Connects(n, m) ==
  pg[m] = "up" /\ ~(n = Candidate /\ m \in cut) /\ ~(m = Candidate /\ n \in cut)
CanAttach(n, m) == wal[n] \subseteq wal[m]
Attached(n, m) ==
  /\ pg[n] = "up" /\ role[n] = "standby" /\ upstream[n] = m
  /\ pg[m] = "up" /\ CanAttach(n, m)

Go(place) == cmd' = place
Become(n, stage) == daemon' = [daemon EXCEPT ![n] = stage]
Spend(event) ==
  /\ event \notin spent /\ Cardinality(spent) < MaxEvents
  /\ spent' = spent \cup {event}

Init ==
  /\ pg = [n \in Node |-> "up"]
  /\ role = [n \in Node |-> IF n = Old THEN "primary" ELSE "standby"]
  /\ wal = [n \in Node |-> {}] /\ written = 0
  /\ upstream = [n \in Node |-> Old] /\ known = [n \in Node |-> Old]
  /\ settled = [n \in Node |-> TRUE]
  /\ vip = {Old}
  /\ \E start \in Starts :
       /\ paused = start.paused
       /\ daemon = [n \in Node |-> CASE n \in start.off -> "off"
                                   [] n \notin start.off /\ n = Old -> "primary"
                                   [] n \notin start.off /\ n # Old -> "standby"]
  /\ rejoin = [r \in Rejoiner |-> Idle]
  /\ cut = {}
  /\ cmd = "checks" /\ opt \in Options
  /\ todo = {} /\ info = [reached |-> {}, running |-> {}, paused |-> {}]
  /\ lost = {} /\ ckpt = 0 /\ behind = FALSE /\ complete = TRUE
  /\ pending = FALSE
  /\ spent = {}
-----------------------------------------------------------------------------
(***************************************************************************)
(* The servers and the network.                                            *)
(***************************************************************************)

Write(n) ==
  /\ IsPrimary(n) /\ written < MaxWal
  /\ written' = written + 1
  /\ wal' = [wal EXCEPT ![n] = @ \cup {written'}]
  /\ UNCHANGED <<pg, role, upstream, known, settled, vip,
                 paused, daemon, rejoin, cut, command, spent>>

\* WAL carries the node records along.
Stream(n) ==
  LET from == upstream[n] IN
  /\ pg[n] = "up" /\ role[n] = "standby" /\ pg[from] \in {"up", "stopping"}
  /\ CanAttach(n, from)
  /\ wal[n] # wal[from] \/ known[n] # known[from]
  /\ wal' = [wal EXCEPT ![n] = wal[from]]
  /\ known' = [known EXCEPT ![n] = known[from]]
  /\ UNCHANGED <<pg, role, written, upstream, settled, vip,
                 paused, daemon, rejoin, cut, command, spent>>

\* Whatever the standbys have received by then.
ShutsDown ==
  /\ pg[Old] = "stopping"
  /\ pg' = [pg EXCEPT ![Old] = "down"]
  /\ UNCHANGED <<role, wal, written, upstream, known, settled, vip,
                 paused, daemon, rejoin, cut, command, spent>>

Crash ==
  /\ Spend("crash")
  /\ pg[Old] \in {"up", "stopping"} /\ cmd \notin {"checks", "refused"}
  /\ pg' = [pg EXCEPT ![Old] = "crashed"]
  /\ UNCHANGED <<role, wal, written, upstream, known, settled, vip,
                 paused, daemon, rejoin, cut, command>>

PromotionCompletes ==
  /\ pending
  /\ pending' = FALSE
  /\ role' = [role EXCEPT ![Candidate] = "primary"]
  /\ settled' = [settled EXCEPT ![Candidate] = FALSE]
  /\ UNCHANGED <<pg, wal, written, upstream, known, vip, paused, daemon, rejoin, cut,
                 cmd, opt, todo, info, lost, ckpt, behind, complete, spent>>

Checkpoint(n) ==
  /\ IsPrimary(n) /\ ~settled[n]
  /\ settled' = [settled EXCEPT ![n] = TRUE]
  /\ UNCHANGED <<pg, role, wal, written, upstream, known, vip,
                 paused, daemon, rejoin, cut, command, spent>>

Cuts(n) ==
  /\ Spend("cut")
  /\ n \in Sibling
  /\ cut' = cut \cup {n}
  /\ UNCHANGED <<server, paused, daemon, rejoin, command>>

Heals ==
  /\ cut # {}
  /\ cut' = {}
  /\ UNCHANGED <<server, paused, daemon, rejoin, command, spent>>
-----------------------------------------------------------------------------
(***************************************************************************)
(* The repmgrds of the standbys.  The command pauses all of them sooner    *)
(* than one of them gives up reconnecting.                                 *)
(***************************************************************************)

\* Mutant: the pause is not looked at.
UpstreamLost_Heedless(n) ==
  /\ daemon[n] = "standby" /\ role[n] = "standby" /\ pg[n] = "up"
  /\ pg[upstream[n]] # "up" /\ cmd \notin {"record", "pause"}
  /\ Become(n, "electing")
  /\ UNCHANGED <<server, paused, rejoin, cut, command, spent>>

UpstreamLost(n) ==
  /\ daemon[n] = "standby" /\ role[n] = "standby" /\ pg[n] = "up"
  /\ pg[upstream[n]] # "up" /\ cmd \notin {"record", "pause"}
  /\ Become(n, IF n \in paused THEN "degraded" ELSE "electing")
  /\ UNCHANGED <<server, paused, rejoin, cut, command, spent>>

Follow(n, m) ==
  /\ CanAttach(n, m)
  /\ upstream' = [upstream EXCEPT ![n] = m]
  /\ Become(n, "standby")
  /\ UNCHANGED <<pg, role, wal, written, known, settled, vip>>

Visible(n) == {m \in Standby : m = n \/ Connects(n, m)}
OthersPrimary(n) == {m \in Node \ {n} : Connects(n, m) /\ role[m] = "primary"}
Furthest(n) ==
  \A m \in Visible(n) : \/ Position(m) < Position(n)
                        \/ Position(m) = Position(n) /\ n <= m

\* do_primary_failover() up to its decision.
Elect(n) ==
  /\ daemon[n] = "electing"
  /\ \/ /\ role[n] = "standby"
        /\ \E m \in OthersPrimary(n) : Follow(n, m)
     \/ /\ role[n] = "standby" /\ OthersPrimary(n) = {}
        /\ Furthest(n) /\ 2 * Cardinality(Visible(n)) > Cardinality(Standby)
        /\ Become(n, "promoting")
        /\ UNCHANGED server
     \/ /\ \/ role[n] = "primary"
           \/ OthersPrimary(n) # {} /\ \A m \in OthersPrimary(n) : ~CanAttach(n, m)
           \/ OthersPrimary(n) = {} /\ ~Furthest(n)
           \/ 2 * Cardinality(Visible(n)) <= Cardinality(Standby)
        /\ Become(n, "degraded")
        /\ UNCHANGED server
  /\ UNCHANGED <<paused, rejoin, cut, command, spent>>

\* "repmgr standby promote" refuses when there is a primary.
PromoteSelf(n) ==
  /\ daemon[n] = "promoting"
  /\ IF role[n] = "standby" /\ OthersPrimary(n) = {}
     THEN /\ role' = [role EXCEPT ![n] = "primary"]
          /\ known' = [known EXCEPT ![n] = n]
          /\ settled' = [settled EXCEPT ![n] = FALSE]
          /\ vip' = vip \cup {n}
          /\ Become(n, "primary")
          /\ UNCHANGED <<pg, wal, written, upstream>>
     ELSE Become(n, "degraded") /\ UNCHANGED server
  /\ UNCHANGED <<paused, rejoin, cut, command, spent>>

\* Degraded monitoring: the upstream is back, the node has become a primary,
\* or another one is found to follow, the last unless paused.
Recover(n) ==
  /\ daemon[n] = "degraded"
  /\ \/ /\ pg[upstream[n]] = "up" /\ role[n] = "standby"
        /\ Become(n, "standby")
        /\ UNCHANGED server
     \/ /\ pg[upstream[n]] # "up" /\ role[n] = "standby" /\ n \notin paused
        /\ \E m \in OthersPrimary(n) : Follow(n, m)
  /\ UNCHANGED <<paused, rejoin, cut, command, spent>>

BecomeLeader(n) ==
  /\ daemon[n] \in {"standby", "degraded"} /\ IsPrimary(n) /\ known[n] = n
  /\ Become(n, "primary")
  /\ UNCHANGED <<server, paused, rejoin, cut, command, spent>>
-----------------------------------------------------------------------------
(***************************************************************************)
(* The repmgrd of the old primary: it never looks at the pause.            *)
(***************************************************************************)

\* When it monitors its server as a standby already, it rejoins that as well
\* (and asks the upstream only).
LocalLost ==
  /\ pg[Old] # "up"
  /\ \/ daemon[Old] = "primary" /\ Become(Old, "lost")
     \/ daemon[Old] = "standby" /\ Become(Old, "rejoining")
  /\ UNCHANGED <<server, paused, rejoin, cut, command, spent>>

\* try_reconnect() succeeds, or its last attempt fails.
Reconnect ==
  /\ daemon[Old] = "lost"
  /\ IF pg[Old] = "up"
     THEN Become(Old, "primary") /\ UNCHANGED server
     ELSE /\ Become(Old, "yielding")
          /\ vip' = vip \ {Old}
          /\ UNCHANGED <<pg, role, wal, written, upstream, known, settled>>
  /\ UNCHANGED <<paused, rejoin, cut, command, spent>>

\* "pg_ctl stop -m fast", whatever has been started in the meantime.
StopOwn ==
  /\ daemon[Old] \in {"yielding", "cleaning"}
  /\ pg' = [pg EXCEPT ![Old] = IF @ = "crashed" THEN "crashed" ELSE "down"]
  /\ Become(Old, "rejoining")
  /\ UNCHANGED <<role, wal, written, upstream, known, settled, vip,
                 paused, rejoin, cut, command, spent>>

\* exec_node_rejoin_primary(): a crashed server is started, to be stopped.
Clean ==
  /\ daemon[Old] = "rejoining" /\ rejoin["daemon"] = Idle /\ pg[Old] = "crashed"
  /\ pg' = [pg EXCEPT ![Old] = "up"]
  /\ Become(Old, "cleaning")
  /\ UNCHANGED <<role, wal, written, upstream, known, settled, vip,
                 paused, rejoin, cut, command, spent>>

\* Mutant: it asks the node that is the primary by its own records.
StartRejoin_OwnRecord ==
  /\ daemon[Old] = "rejoining" /\ rejoin["daemon"] = Idle /\ pg[Old] = "down"
  /\ pg[known[Old]] = "up"
  /\ rejoin' = [rejoin EXCEPT !["daemon"] = [stage |-> "rewind", to |-> known[Old]]]
  /\ UNCHANGED <<server, paused, daemon, cut, command, spent>>

\* "node rejoin" asks one node after the other for the primary it knows.
StartRejoin ==
  /\ daemon[Old] = "rejoining" /\ rejoin["daemon"] = Idle /\ pg[Old] = "down"
  /\ \E n \in Node :
       /\ pg[n] = "up" /\ IsPrimary(known[n])
       /\ rejoin' = [rejoin EXCEPT !["daemon"] = [stage |-> "rewind", to |-> known[n]]]
  /\ UNCHANGED <<server, paused, daemon, cut, command, spent>>

EndRejoin ==
  /\ rejoin["daemon"].stage \in {"ok", "failed"}
  /\ rejoin' = [rejoin EXCEPT !["daemon"] = Idle]
  /\ UNCHANGED <<server, paused, daemon, cut, command, spent>>

\* check_primary_status(): the server is a standby now, and there is a primary.
CheckPrimaryStatus ==
  /\ daemon[Old] \in {"primary", "rejoining"} /\ pg[Old] = "up"
  /\ rejoin["daemon"] = Idle
  /\ \/ role[Old] = "primary" /\ daemon[Old] = "rejoining" /\ Become(Old, "primary")
     \/ role[Old] = "standby" /\ OthersPrimary(Old) # {} /\ Become(Old, "standby")
  /\ UNCHANGED <<server, paused, rejoin, cut, command, spent>>
-----------------------------------------------------------------------------
(***************************************************************************)
(* do_node_rejoin(), from pg_rewind on.                                    *)
(***************************************************************************)

Step(r, stage) == rejoin' = [rejoin EXCEPT ![r].stage = stage]

\* pg_rewind takes the servers to be on one timeline, and does nothing,
\* until the primary's checkpoint is on its new one.
Rewind(r) ==
  LET to == rejoin[r].to IN
  /\ rejoin[r].stage = "rewind"
  /\ IF pg[Old] = "down" /\ IsPrimary(to)
     THEN /\ wal' = [wal EXCEPT ![Old] =
                       IF CanAttach(Old, to) \/ ~settled[to] THEN @ ELSE wal[to]]
          /\ Step(r, "start")
     ELSE Step(r, "failed") /\ UNCHANGED wal
  /\ UNCHANGED <<pg, role, written, upstream, known, settled, vip,
                 paused, daemon, cut, command, spent>>

\* do_standby_follow_internal(): configure as a standby, start or restart.
StartStandby(r) ==
  /\ rejoin[r].stage = "start"
  /\ role' = [role EXCEPT ![Old] = "standby"]
  /\ upstream' = [upstream EXCEPT ![Old] = rejoin[r].to]
  /\ \/ /\ pg[Old] # "stopping"
        /\ pg' = [pg EXCEPT ![Old] = "up"]
        /\ Step(r, "wait")
        /\ UNCHANGED spent
     \/ /\ pg[Old] # "up"
        /\ \/ pg[Old] = "stopping" /\ UNCHANGED spent
           \/ Spend("nostart")
        /\ Step(r, "failed")
        /\ UNCHANGED pg
  /\ UNCHANGED <<wal, written, known, settled, vip, paused, daemon, cut, command>>

\* The second loop, which waits for the node to attach, is skipped when the
\* first has taken longer than node_rejoin_timeout.
AwaitStandby(r) ==
  /\ rejoin[r].stage = "wait"
  /\ \/ Step(r, "ok")
     \/ ~Attached(Old, rejoin[r].to) /\ Step(r, "failed")
  /\ UNCHANGED <<server, paused, daemon, cut, command, spent>>
-----------------------------------------------------------------------------
(***************************************************************************)
(* do_standby_switchover().                                                *)
(***************************************************************************)

\* The candidate streams from the primary, which is registered as its upstream.
InPosition ==
  /\ pg[Candidate] = "up" /\ role[Candidate] = "standby"
  /\ IsPrimary(Old) /\ upstream[Candidate] = Old /\ CanAttach(Candidate, Old)

\* Every sibling answers by ssh, or they do not matter, or are forced not to.
SiblingsReachable == opt.siblings /\ cut # {} => opt.force

\* Any other of the checks, which only read, may refuse as well.
Checks ==
  /\ cmd = "checks"
  /\ \/ Go("refused") /\ UNCHANGED <<todo, lost>>
     \/ /\ InPosition /\ SiblingsReachable
        /\ lost' = IF opt.siblings THEN cut ELSE {}
        /\ todo' = IF opt.nopause THEN {} ELSE Node
        /\ Go(IF opt.nopause THEN "stop" ELSE "record")
  /\ UNCHANGED <<server, paused, daemon, rejoin, cut, opt, info, ckpt, behind, complete, pending, spent>>

\* The lists of nodes are in the order of the ids.
Turn(n) == n \in todo /\ \A m \in todo : n <= m

\* Mutant: everything is unpaused.
ToUnpause_All == IF opt.nopause \/ info.running = {} THEN {} ELSE Node

\* The nodes it has to pause, and those it will unpause: all that it did not
\* find paused, if any repmgrd was found running.
ToPause == (info.reached \cap info.running) \ info.paused
ToUnpause == IF opt.nopause \/ info.running = {} THEN {} ELSE Node \ info.paused

Record(n) ==
  /\ cmd = "record" /\ Turn(n)
  /\ todo' = todo \ {n}
  /\ info' = IF Connects(Candidate, n)
             THEN [reached |-> info.reached \cup {n},
                   running |-> info.running \cup
                                 (IF daemon[n] = "off" THEN {} ELSE {n}),
                   paused  |-> info.paused \cup ({n} \cap paused)]
             ELSE info
  /\ UNCHANGED <<server, paused, daemon, rejoin, cut, cmd, opt, lost, ckpt, behind,
                 complete, pending, spent>>

Recorded ==
  /\ cmd = "record" /\ todo = {}
  /\ IF info.reached # Node /\ ~opt.force
     THEN Go("refused") /\ UNCHANGED todo
     ELSE /\ Go("pause")
          /\ todo' = IF opt.dry THEN {} ELSE ToPause
  /\ UNCHANGED <<server, paused, daemon, rejoin, cut, opt, info, lost, ckpt, behind,
                 complete, pending, spent>>

\* The result is ignored, so a node that has gone meanwhile is not paused.
Pause(n) ==
  /\ cmd = "pause" /\ Turn(n)
  /\ todo' = todo \ {n}
  /\ paused' = IF pg[n] = "up" THEN paused \cup {n} ELSE paused
  /\ UNCHANGED <<server, daemon, rejoin, cut, cmd, opt, info, lost, ckpt, behind,
                 complete, pending, spent>>

Paused ==
  /\ cmd = "pause" /\ todo = {}
  /\ Go("stop")
  /\ UNCHANGED <<server, paused, daemon, rejoin, cut, opt, todo, info, lost, ckpt, behind,
                 complete, pending, spent>>

\* "node service --action=stop --checkpoint" by ssh; a failure is ignored.
StopOld ==
  /\ cmd = "stop"
  /\ IF opt.dry
     THEN Go("done") /\ UNCHANGED <<pg, spent>>
     ELSE /\ Go("confirm")
          /\ \/ /\ pg' = [pg EXCEPT ![Old] = IF @ = "up" THEN "stopping" ELSE @]
                /\ UNCHANGED spent
             \/ Spend("nostop") /\ UNCHANGED pg
  /\ UNCHANGED <<role, wal, written, upstream, known, settled, vip, paused, daemon, rejoin,
                 cut, opt, todo, info, lost, ckpt, behind, complete, pending>>

(***************************************************************************)
(* When the server does not answer, its pg_control tells whether it was    *)
(* shut down cleanly, and its last checkpoint.  The attempts are limited.  *)
(***************************************************************************)
ConfirmStop ==
  /\ cmd = "confirm"
  /\ \/ /\ pg[Old] = "down"
        /\ ckpt' = Position(Old)
        /\ Go("unbind")
     \/ /\ pg[Old] = "crashed" /\ opt.force
        /\ Go("unbind")
        /\ UNCHANGED ckpt
     \/ /\ pg[Old] # "down" /\ ~(pg[Old] = "crashed" /\ opt.force)
        /\ Go("aborted")
        /\ UNCHANGED ckpt
  /\ UNCHANGED <<server, paused, daemon, rejoin, cut, opt, todo, info, lost, behind,
                 complete, pending, spent>>

\* Mutant: the old primary keeps its virtual IP.
UnbindVip_Kept ==
  /\ cmd = "unbind"
  /\ Go("receive")
  /\ UNCHANGED <<server, paused, daemon, rejoin, cut, opt, todo, info, lost, ckpt, behind,
                 complete, pending, spent>>

UnbindVip ==
  /\ cmd = "unbind"
  /\ vip' = vip \ {Old}
  /\ Go("receive")
  /\ UNCHANGED <<pg, role, wal, written, upstream, known, settled, paused, daemon, rejoin,
                 cut, opt, todo, info, lost, ckpt, behind, complete, pending, spent>>

\* Mutant: the position is not compared.
AwaitWal_Blindly ==
  /\ cmd = "receive"
  /\ Go("promote")
  /\ UNCHANGED <<server, paused, daemon, rejoin, cut, opt, todo, info, lost, ckpt, behind,
                 complete, pending, spent>>

AwaitWal ==
  /\ cmd = "receive"
  /\ behind' = (Position(Candidate) < ckpt)
  /\ Go(IF behind' /\ ~opt.always THEN "aborted" ELSE "promote")
  /\ UNCHANGED <<server, paused, daemon, rejoin, cut, opt, todo, info, lost, ckpt,
                 complete, pending, spent>>

(***************************************************************************)
(* _do_standby_promote_internal(): without looking for another primary.    *)
(* PostgreSQL refuses if it is not in recovery any more.                   *)
(***************************************************************************)
Promote ==
  /\ cmd = "promote"
  /\ \/ /\ role[Candidate] = "standby"
        /\ role' = [role EXCEPT ![Candidate] = "primary"]
        /\ known' = [known EXCEPT ![Candidate] = Candidate]
        /\ settled' = [settled EXCEPT ![Candidate] = FALSE]
        /\ Go("bind")
        /\ UNCHANGED <<pending, spent>>
     \/ /\ role[Candidate] = "standby"
        /\ Spend("slow")
        /\ pending' = TRUE
        /\ Go("aborted")
        /\ UNCHANGED <<role, known, settled>>
     \/ /\ role[Candidate] = "primary"
        /\ Go("aborted")
        /\ UNCHANGED <<role, known, settled, pending, spent>>
  /\ UNCHANGED <<pg, wal, written, upstream, vip, paused, daemon, rejoin, cut,
                 opt, todo, info, lost, ckpt, behind, complete>>

\* Bind the virtual IP; with --force-rewind, checkpoint.
BindVip ==
  /\ cmd = "bind"
  /\ vip' = vip \cup {Candidate}
  /\ settled' = IF opt.rewind THEN [settled EXCEPT ![Candidate] = TRUE] ELSE settled
  /\ Go(IF behind /\ ~opt.rewind THEN "aborted" ELSE "rejoin")
  /\ UNCHANGED <<pg, role, wal, written, upstream, known, paused, daemon, rejoin, cut,
                 opt, todo, info, lost, ckpt, behind, complete, pending, spent>>

\* "node rejoin" on the old primary by ssh, up to pg_rewind: its server must
\* be down and, without --force-rewind, able to attach.
RejoinOld ==
  /\ cmd = "rejoin" /\ rejoin["command"] = Idle
  /\ rejoin' = [rejoin EXCEPT !["command"] =
       [stage |-> CASE pg[Old] # "down" -> "failed"
                    [] pg[Old] = "down" /\ behind -> "rewind"
                    [] pg[Old] = "down" /\ ~behind ->
                         IF CanAttach(Old, Candidate) THEN "start" ELSE "failed",
        to |-> Candidate]]
  /\ UNCHANGED <<server, paused, daemon, cut, command, spent>>

\* A failed rejoin is reported, and the switchover goes on.
Rejoined ==
  /\ cmd = "rejoin" /\ rejoin["command"].stage \in {"ok", "failed"}
  /\ Go("follow")
  /\ todo' = IF opt.siblings THEN Sibling \ lost ELSE {}
  /\ UNCHANGED <<server, paused, daemon, rejoin, cut, opt, info, lost, ckpt, behind,
                 complete, pending, spent>>

\* "standby follow" on a sibling by ssh; failures are counted, and reported.
SiblingFollows(n) ==
  /\ cmd = "follow" /\ Turn(n)
  /\ todo' = todo \ {n}
  /\ \/ /\ n \notin cut /\ role[n] = "standby"
        /\ \E m \in OthersPrimary(n) :
             CanAttach(n, m) /\ upstream' = [upstream EXCEPT ![n] = m]
     \/ /\ n \in cut \/ role[n] = "primary"
             \/ \A m \in OthersPrimary(n) : ~CanAttach(n, m)
        /\ UNCHANGED upstream
  /\ UNCHANGED <<pg, role, wal, written, known, settled, vip, paused, daemon, rejoin, cut,
                 cmd, opt, info, lost, ckpt, behind, complete, pending, spent>>

SiblingsFollowed ==
  /\ cmd = "follow" /\ todo = {}
  /\ Go("reach")
  /\ UNCHANGED <<server, paused, daemon, rejoin, cut, opt, todo, info, lost, ckpt, behind,
                 complete, pending, spent>>

\* Any server that answers will do.
ReachOld ==
  /\ cmd = "reach"
  /\ complete' = (pg[Old] = "up")
  /\ todo' = ToUnpause
  /\ Go("unpause")
  /\ UNCHANGED <<server, paused, daemon, rejoin, cut, opt, info, lost, ckpt, behind, pending,
                 spent>>

Unpause(n) ==
  /\ cmd = "unpause" /\ Turn(n)
  /\ todo' = todo \ {n}
  /\ paused' = IF Connects(Candidate, n) THEN paused \ {n} ELSE paused
  /\ UNCHANGED <<server, daemon, rejoin, cut, cmd, opt, info, lost, ckpt, behind,
                 complete, pending, spent>>

End ==
  /\ cmd = "unpause" /\ todo = {}
  /\ Go(IF complete THEN "done" ELSE "incomplete")
  /\ UNCHANGED <<server, paused, daemon, rejoin, cut, opt, todo, info, lost, ckpt, behind,
                 complete, pending, spent>>
-----------------------------------------------------------------------------
StandbyDaemon(n) ==
  UpstreamLost(n) \/ Elect(n) \/ PromoteSelf(n) \/ Recover(n) \/ BecomeLeader(n)

PrimaryDaemon ==
  LocalLost \/ Reconnect \/ StopOwn \/ Clean \/ StartRejoin \/ EndRejoin \/ CheckPrimaryStatus

NodeRejoin(r) == Rewind(r) \/ StartStandby(r) \/ AwaitStandby(r)

Switchover ==
  \/ Checks \/ Recorded \/ Paused \/ StopOld \/ ConfirmStop \/ UnbindVip \/ AwaitWal
  \/ Promote \/ BindVip \/ RejoinOld \/ Rejoined \/ SiblingsFollowed \/ ReachOld \/ End
  \/ \E n \in Node : Record(n) \/ Pause(n) \/ SiblingFollows(n) \/ Unpause(n)

Next ==
  \/ Switchover
  \/ PrimaryDaemon
  \/ \E n \in Node : StandbyDaemon(n)
  \/ \E r \in Rejoiner : NodeRejoin(r)
  \/ ShutsDown \/ Crash \/ PromotionCompletes \/ Heals
  \/ \E n \in Node : Write(n) \/ Stream(n) \/ Checkpoint(n) \/ Cuts(n)

Spec == Init /\ [][Next]_vars

\* Every process runs on.
Fairness ==
  /\ WF_vars(Switchover) /\ WF_vars(PrimaryDaemon)
  /\ \A r \in Rejoiner : WF_vars(NodeRejoin(r))

FairSpec == Spec /\ Fairness
-----------------------------------------------------------------------------
TypeOK ==
  /\ pg \in [Node -> {"up", "stopping", "down", "crashed"}]
  /\ role \in [Node -> {"primary", "standby"}]
  /\ wal \in [Node -> SUBSET (1 .. MaxWal)] /\ written \in 0 .. MaxWal
  /\ upstream \in [Node -> Node] /\ known \in [Node -> Node]
  /\ settled \in [Node -> BOOLEAN]
  /\ vip \subseteq Node /\ paused \subseteq Node /\ cut \subseteq Sibling
  /\ daemon \in [Node -> Stage]
  /\ rejoin \in [Rejoiner ->
       [stage : {"idle", "rewind", "start", "wait", "ok", "failed"}, to : Node]]
  /\ cmd \in Place /\ opt \in Options
  /\ todo \subseteq Node /\ lost \subseteq Sibling
  /\ info \in [reached : SUBSET Node, running : SUBSET Node, paused : SUBSET Node]
  /\ ckpt \in 0 .. MaxWal
  /\ behind \in BOOLEAN /\ complete \in BOOLEAN /\ pending \in BOOLEAN
  /\ spent \subseteq Event

\* Since it unpauses the repmgrds they are on their own: of four nodes or more,
\* those cut off with the shut down primary may fail over once again.
Divided == "cut" \in spent /\ cmd \in {"unpause", "done", "incomplete"}

\* The command is at work, with the precautions it takes by default.
Guarded ==
  cmd \notin {"checks", "refused"} /\ ~opt.dry /\ ~opt.force /\ ~opt.nopause /\ ~Divided

\* The candidate has been promoted by the command.
Handed == cmd \in {"bind", "rejoin", "follow", "reach", "unpause", "done", "incomplete"}

(***************************************************************************)
(* With the repmgrds paused and nothing forced there is never more than    *)
(* one primary: no failover happens beside the switchover, and the old     *)
(* primary's repmgrd does not start a crashed server as a second one.      *)
(***************************************************************************)
OnePrimary ==
  Guarded => Cardinality(Primaries) <= 1

(***************************************************************************)
(* Unless --force or --always-promote is given, the candidate takes over   *)
(* with everything that has been written, even if the old primary's        *)
(* repmgrd has started and stopped its server meanwhile.                   *)
(***************************************************************************)
NothingIsLost ==
  Guarded /\ Handed /\ ~opt.always => 1 .. written \subseteq wal[Candidate]

(***************************************************************************)
(* The virtual IP is never on two nodes, and ends on the candidate.        *)
(***************************************************************************)
VipMoves ==
  Guarded =>
    /\ Cardinality(vip) <= 1
    /\ cmd \in {"done", "incomplete"} => vip = {Candidate}

(***************************************************************************)
(* A repmgrd that was found paused stays paused; in the end no other is    *)
(* left paused that the command could reach throughout, the old primary's  *)
(* apart, whose server its own repmgrd may have stopped again.             *)
(***************************************************************************)
PausesAreRestored ==
  /\ info.paused \subseteq paused
  /\ cmd \in {"done", "incomplete"} /\ ~opt.nopause /\ "cut" \notin spent =>
       paused \subseteq info.paused \cup {Old}

(***************************************************************************)
(* Where nothing is forced, the old primary's server ends up as a standby  *)
(* of the candidate, whoever rejoins it, if its repmgrd runs to try again. *)
(***************************************************************************)
OldPrimaryReturns ==
  cmd = "rejoin" /\ daemon[Old] # "off" /\ ~opt.force /\ ~opt.always
    ~> Attached(Old, Candidate)
=============================================================================
