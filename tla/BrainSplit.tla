----------------------------- MODULE BrainSplit -----------------------------
(***************************************************************************)
(* What repmgrd does on a primary when it finds that other nodes are       *)
(* primaries too: monitor_streaming_primary(), check_BS(),                 *)
(* check_timeline() and exec_node_rejoin_primary() of repmgrd-physical.c,  *)
(* run concurrently on every node, with "repmgr node rejoin                *)
(* --force-rewind" as far as it decides whom a node may attach to.         *)
(*                                                                         *)
(* How a second primary comes about (a failover across a partition, an     *)
(* operator, an old primary started again) is the environment's doing and  *)
(* is bounded by Budget.  WAL is the set of what was written, each write   *)
(* tagged with its timeline and writer; a position is how many there are.  *)
(***************************************************************************)
EXTENDS Integers, FiniteSets

CONSTANTS
  Node,            \* node ids; none of them is a witness
  Priority,        \* the priority of each node, the same in every copy of the records
  First,           \* the node that is the primary initially
  MaxTimeline,     \* bound on the promotions
  Budget           \* bound on the events of each kind

\* "late": a promotion leaves pg_control on the old timeline for a while;
\* "failure": a server, or a query of check_BS(), fails; "crash": of a server
\* whose repmgrd is there to notice.
Event == {"promote", "late", "failure", "crash", "start", "split"}

ASSUME NodeAssumption == Node \subseteq Nat /\ IsFiniteSet(Node) /\ First \in Node
ASSUME SettingAssumption ==
  /\ Priority \in [Node -> Nat]
  /\ MaxTimeline \in Nat \ {0}
  /\ Budget \in [Event -> Nat]

VARIABLES
  pg,        \* each server: "primary", "standby", "down" or, uncleanly so, "crashed"
  tl,        \* the timeline it is on
  ctl,       \* the timeline of the last checkpoint, in pg_control
  wal,       \* what it has of the WAL
  up,        \* the primary according to its copy of the records
  island,    \* the nodes that are cut off from the others
  daemon,    \* what its repmgrd is doing
  todo,      \* check_BS(): the nodes it has not asked yet
  rivals,    \* check_BS(): the other primaries it has counted
  spent      \* the events that have happened

cluster == <<pg, tl, ctl, wal, up>>
vars == <<cluster, island, daemon, todo, rivals, spent>>

Stage ==
  {"standby",   \* monitors the node as a standby, or is not concerned
   "primary",   \* in the loop of monitor_streaming_primary()
   "scan",      \* in check_BS()
   "stopping",  \* DO_STOP was returned
   "yielding",  \* DO_REJOIN was returned, or the local node was found down
   "rejoining", \* the local node is down and is to be rejoined
   "cleaning",  \* the local node was started, to be stopped cleanly
   "ended",     \* repmgrd has exited
   "gone"}      \* the host has failed for good

Reaches(n, m) == (n \in island) <=> (m \in island)
Up(n, m) == pg[m] \in {"primary", "standby"} /\ Reaches(n, m)
IsPrimary(n, m) == Up(n, m) /\ pg[m] = "primary"
Position(n) == Cardinality(wal[n])
Become(n, stage) == daemon' = [daemon EXCEPT ![n] = stage]

Spend(events) ==
  /\ \A event \in events : spent[event] < Budget[event]
  /\ spent' = [event \in Event |-> spent[event] + (IF event \in events THEN 1 ELSE 0)]

Init ==
  /\ pg = [n \in Node |-> IF n = First THEN "primary" ELSE "standby"]
  /\ tl = [n \in Node |-> 1]
  /\ ctl = [n \in Node |-> 1]
  /\ wal = [n \in Node |-> {}]
  /\ up = [n \in Node |-> First]
  /\ island = {}
  /\ daemon = [n \in Node |-> IF n = First THEN "primary" ELSE "standby"]
  /\ todo = [n \in Node |-> {}]
  /\ rivals = [n \in Node |-> {}]
  /\ spent = [event \in Event |-> 0]
-----------------------------------------------------------------------------
(***************************************************************************)
(* The environment: PostgreSQL, the network, failovers, the operator.      *)
(***************************************************************************)

Write(n) ==
  /\ pg[n] = "primary" /\ <<tl[n], n>> \notin wal[n]
  /\ wal' = [wal EXCEPT ![n] = @ \cup {<<tl[n], n>>}]
  /\ UNCHANGED <<pg, tl, ctl, up, island, daemon, todo, rivals, spent>>

Stream(n) ==
  /\ pg[n] = "standby" /\ IsPrimary(n, up[n])
  /\ ~(wal[up[n]] \subseteq wal[n]) \/ tl[n] # tl[up[n]]
  /\ wal' = [wal EXCEPT ![n] = @ \cup wal[up[n]]]
  /\ tl' = [tl EXCEPT ![n] = tl[up[n]]]
  /\ UNCHANGED <<pg, ctl, up, island, daemon, todo, rivals, spent>>

Splits ==
  /\ Spend({"split"})
  /\ island' \in SUBSET Node
  /\ UNCHANGED <<cluster, daemon, todo, rivals>>

Heals ==
  /\ island # {}
  /\ island' = {}
  /\ UNCHANGED <<cluster, daemon, todo, rivals, spent>>

\* A standby that does not reach a primary is promoted, and monitored as one.
Promotes(n) ==
  /\ \/ /\ Spend({"promote"})
        /\ ctl' = [ctl EXCEPT ![n] = tl[n] + 1]
     \/ /\ Spend({"promote", "late"})
        /\ UNCHANGED ctl
  /\ pg[n] = "standby" /\ tl[n] < MaxTimeline
  /\ \A m \in Node : ~IsPrimary(n, m)
  /\ pg' = [pg EXCEPT ![n] = "primary"]
  /\ tl' = [tl EXCEPT ![n] = @ + 1]
  /\ up' = [up EXCEPT ![n] = n]
  /\ Become(n, "primary")
  /\ UNCHANGED <<wal, island, todo, rivals>>

Checkpoint(n) ==
  /\ pg[n] = "primary" /\ ctl[n] # tl[n]
  /\ ctl' = [ctl EXCEPT ![n] = tl[n]]
  /\ UNCHANGED <<pg, tl, wal, up, island, daemon, todo, rivals, spent>>

Crashes(n) ==
  /\ pg[n] = "primary"
  /\ pg' = [pg EXCEPT ![n] = "crashed"]
  /\ \/ Spend({"failure", "crash"}) /\ UNCHANGED daemon
     \/ Spend({"failure"}) /\ Become(n, "gone")
  /\ UNCHANGED <<tl, ctl, wal, up, island, todo, rivals>>

\* The server and, if it had exited, repmgrd are started again by hand.
Starts(n) ==
  /\ Spend({"start"})
  /\ pg[n] \in {"down", "crashed"} /\ daemon[n] # "gone"
  /\ pg' = [pg EXCEPT ![n] = "primary"]
  /\ daemon' = IF daemon[n] = "ended" THEN [daemon EXCEPT ![n] = "primary"] ELSE daemon
  /\ UNCHANGED <<tl, ctl, wal, up, island, todo, rivals>>
-----------------------------------------------------------------------------
(***************************************************************************)
(* monitor_streaming_primary() and check_BS().                             *)
(***************************************************************************)

\* The local node does not answer: whatever runs is stopped.
LocalLost(n) ==
  /\ daemon[n] = "primary" /\ pg[n] \in {"down", "crashed"}
  /\ Become(n, "yielding")
  /\ UNCHANGED <<cluster, island, todo, rivals, spent>>

StartScan(n) ==
  /\ daemon[n] = "primary" /\ pg[n] = "primary"
  /\ Become(n, "scan")
  /\ todo' = [todo EXCEPT ![n] = Node \ {n}]
  /\ rivals' = [rivals EXCEPT ![n] = {}]
  /\ UNCHANGED <<cluster, island, spent>>

\* The first loop: one node is asked whether it is a primary.
Ask(n) ==
  /\ daemon[n] = "scan"
  /\ \E m \in todo[n] :
       /\ \A other \in todo[n] : m <= other
       /\ todo' = [todo EXCEPT ![n] = @ \ {m}]
       /\ rivals' = IF IsPrimary(n, m) THEN [rivals EXCEPT ![n] = @ \cup {m}] ELSE rivals
  /\ UNCHANGED <<cluster, island, daemon, spent>>

\* Mutant: between equal priorities both nodes give way.
Yields_NoTiebreak(n, m) ==
  \/ ctl[n] < tl[m]
  \/ ctl[n] = tl[m] /\ Priority[n] <= Priority[m]

\* Mutant: between equal priorities neither node gives way.
Yields_NeverOnTie(n, m) ==
  \/ ctl[n] < tl[m]
  \/ ctl[n] = tl[m] /\ Priority[n] < Priority[m]

\* check_timeline() compares the timeline in the local pg_control with the
\* one that the other node reports.
Yields(n, m) ==
  \/ ctl[n] < tl[m]
  \/ /\ ctl[n] = tl[m]
     /\ \/ Priority[n] < Priority[m]
        \/ Priority[n] = Priority[m] /\ n > m

\* The second loop looks for the one other primary anew, in the order of the ids.
Judge(n) ==
  /\ daemon[n] = "scan" /\ todo[n] = {}
  /\ LET now == {m \in Node \ {n} : IsPrimary(n, m)}
         peer == {m \in now : \A other \in now : m <= other}
         verdict == IF Cardinality(rivals[n]) > 1 THEN "stopping"
                    ELSE IF rivals[n] # {} /\ \E m \in peer : Yields(n, m) THEN "yielding"
                    ELSE "primary"
     IN Become(n, verdict)
  /\ rivals' = [rivals EXCEPT ![n] = {}]
  /\ UNCHANGED <<cluster, island, todo, spent>>

\* The record of the other primary or its timeline (TL_UNKNOWN) cannot be read.
JudgeFails(n) ==
  /\ Spend({"failure"})
  /\ daemon[n] = "scan" /\ todo[n] = {} /\ Cardinality(rivals[n]) = 1
  /\ Become(n, "primary")
  /\ rivals' = [rivals EXCEPT ![n] = {}]
  /\ UNCHANGED <<cluster, island, todo>>

\* A clean shutdown writes a checkpoint.
ShutDown(n) ==
  IF pg[n] = "primary"
  THEN /\ pg' = [pg EXCEPT ![n] = "down"]
       /\ ctl' = [ctl EXCEPT ![n] = tl[n]]
  ELSE UNCHANGED <<pg, ctl>>

\* DO_STOP
Stops(n) ==
  /\ daemon[n] = "stopping"
  /\ ShutDown(n)
  /\ Become(n, "ended")
  /\ UNCHANGED <<tl, wal, up, island, todo, rivals, spent>>

\* DO_REJOIN
GivesWay(n) ==
  /\ daemon[n] = "yielding"
  /\ ShutDown(n)
  /\ Become(n, "rejoining")
  /\ UNCHANGED <<tl, wal, up, island, todo, rivals, spent>>

\* exec_node_rejoin_primary(): a node that was not shut down cleanly is started,
\* a primary for that while, and stopped again.
Recovers(n) ==
  /\ daemon[n] = "rejoining" /\ pg[n] = "crashed"
  /\ pg' = [pg EXCEPT ![n] = "primary"]
  /\ Become(n, "cleaning")
  /\ UNCHANGED <<tl, ctl, wal, up, island, todo, rivals, spent>>

IsCleaned(n) ==
  /\ daemon[n] = "cleaning"
  /\ ShutDown(n)
  /\ Become(n, "rejoining")
  /\ UNCHANGED <<tl, wal, up, island, todo, rivals, spent>>

\* "repmgr -d <m> node rejoin --force-rewind" succeeds: the node that m has
\* recorded as primary is one, and check_node_can_attach() has no objection.
CanRejoin(n, m) ==
  LET target == up[m] IN
  /\ Up(n, m) /\ IsPrimary(n, target)
  /\ tl[n] < tl[target] \/ (tl[n] = tl[target] /\ Position(n) <= Position(target))

\* pg_rewind does nothing when both nodes are on the same timeline.
Rewound(n, target) == IF tl[n] = tl[target] THEN wal[n] ELSE wal[target]

\* Mutant: pg_control is overwritten by pg_rewind, the WAL is not replayed.
Adopt_StaleTimeline(n, timeline) ==
  /\ ctl' = [ctl EXCEPT ![n] = timeline]
  /\ UNCHANGED tl

Adopt(n, timeline) ==
  /\ ctl' = [ctl EXCEPT ![n] = timeline]
  /\ tl' = [tl EXCEPT ![n] = timeline]

\* It is tried by way of each node of the list in turn.  What
\* follows, up to the monitoring as a standby, only depends on the local node.
Rejoins(n) ==
  /\ daemon[n] = "rejoining" /\ pg[n] = "down"
  /\ \E m \in Node :
       /\ CanRejoin(n, m)
       /\ \A other \in Node : CanRejoin(n, other) => m <= other
       /\ pg' = [pg EXCEPT ![n] = "standby"]
       /\ wal' = [wal EXCEPT ![n] = Rewound(n, up[m])]
       /\ up' = [up EXCEPT ![n] = up[m]]
       /\ Adopt(n, tl[up[m]])
  /\ Become(n, "standby")
  /\ UNCHANGED <<island, todo, rivals, spent>>

\* It was started by somebody else and is a primary still.
Resumes(n) ==
  /\ daemon[n] = "rejoining" /\ pg[n] = "primary"
  /\ Become(n, "primary")
  /\ UNCHANGED <<cluster, island, todo, rivals, spent>>
-----------------------------------------------------------------------------
RepmgrdStep(n) ==
  \/ LocalLost(n) \/ StartScan(n) \/ Ask(n) \/ Judge(n) \/ JudgeFails(n)
  \/ Stops(n) \/ GivesWay(n) \/ Recovers(n) \/ IsCleaned(n) \/ Rejoins(n) \/ Resumes(n)

Environment ==
  \/ Splits \/ Heals
  \/ \E n \in Node : Write(n) \/ Stream(n) \/ Promotes(n) \/ Checkpoint(n) \/ Crashes(n) \/ Starts(n)

Next == Environment \/ \E n \in Node : RepmgrdStep(n)

Spec == Init /\ [][Next]_vars

\* repmgrd loops at monitor_interval_secs; a checkpoint ends.
FairSpec ==
  /\ Spec
  /\ \A n \in Node : WF_vars(RepmgrdStep(n)) /\ WF_vars(Checkpoint(n))
-----------------------------------------------------------------------------
(***************************************************************************)
(* Properties                                                              *)
(***************************************************************************)

Records == (1 .. MaxTimeline) \X Node
Primaries == {n \in Node : pg[n] = "primary"}

\* The types of the variables; pg_control is never ahead of the server.
TypeOK ==
  /\ pg \in [Node -> {"primary", "standby", "down", "crashed"}]
  /\ tl \in [Node -> 1 .. MaxTimeline]
  /\ ctl \in [Node -> 1 .. MaxTimeline]
  /\ \A n \in Node : ctl[n] <= tl[n]
  /\ wal \in [Node -> SUBSET Records]
  /\ up \in [Node -> Node]
  /\ island \in SUBSET Node
  /\ daemon \in [Node -> Stage]
  /\ todo \in [Node -> SUBSET Node]
  /\ rivals \in [Node -> SUBSET Node]
  /\ spent \in [Event -> Nat]

\* In this step no primary has crashed and is cleaned up, none has found two
\* others, pg_control has been up to date, and the host of no primary that others
\* gave way to has failed.
Undisturbed ==
  /\ spent'["crash"] = 0 /\ spent'["late"] = 0
  /\ \A n \in Node : daemon[n] \notin {"stopping", "ended"}
  /\ \A n \in Node, m \in Primaries : daemon[n] = "gone" => tl[n] < tl[m]
  /\ spent' = spent

\* The WAL of two nodes that are or were primaries has split into two paths.
WalHasSplit ==
  \E n, m \in {k \in Node : pg[k] # "standby"} :
     ~(wal[n] \subseteq wal[m]) /\ ~(wal[m] \subseteq wal[n])

\* repmgr.conf.sample:476-477: "If the lsn on primary nodes were not split into
\* two different paths, repmgrd would stop one of the primary node and do
\* rejoin."  However the checks of such primaries, which run at the same time,
\* and the stops they order interleave, the last primary is not stopped.
OnlyOneIsStopped ==
  [][Undisturbed /\ ~WalHasSplit /\ Primaries # {} => Primaries' # {}]_vars

\* Once the network stays whole and nobody promotes or starts a node, a single
\* primary is left, or none.
SplitResolves == <>[](island = {}) => <>[](Cardinality(Primaries) <= 1)
=============================================================================
