------------------------------ MODULE Failover ------------------------------
(***************************************************************************)
(* Automatic failover: the repmgrd of every standby of one primary, run    *)
(* concurrently, from the moment it stops seeing the primary until it has  *)
(* promoted its node, follows another one or monitors in degraded state.   *)
(* monitor_streaming_standby(), do_primary_failover(), do_election(),      *)
(* promote_self(), notify_followers(), wait_primary_notification() and     *)
(* follow_new_primary() of repmgrd-physical.c, the commands they run       *)
(* ("repmgr standby promote", "repmgr standby follow") and the             *)
(* notification kept in the shared memory of each server (repmgr.c).       *)
(*                                                                         *)
(* What is left out, so what the model bounds: one primary fails once (a   *)
(* standby that follows the new primary does not start a second failover   *)
(* and the new primary writes no WAL); the PostgreSQL of a standby does    *)
(* not fail; repmgrd is not killed while it waits for a command; a witness *)
(* answers, counts and receives notifications, and what its own repmgrd    *)
(* does with them is not modelled here.                                    *)
(***************************************************************************)
EXTENDS Election

CONSTANTS
  Primary,      \* node id of the primary that fails
  Standby,      \* node ids of the standbys attached to it
  Witness,      \* node ids of its witness servers
  Priority,     \* priority of each standby
  Location,     \* location of every node
  Manual,       \* the standbys with failover=manual
  Topologies,   \* the networks that may arise: whom each node can reach
  Consensus,    \* primary_visibility_consensus
  CheckType,    \* connection_check_type: "ping" or "query"
  MaxLsn,       \* bound on the WAL written
  Budget        \* bound on the faults of each kind

Member == Standby \cup Witness
Node == {Primary} \cup Member

RERUN == -2     \* ELECTION_RERUN_NOTIFICATION

Fault == {"net", "return", "daemon", "rerun", "command", "pause", "operator"}

ASSUME NodeAssumption ==
  /\ Standby \subseteq Nat /\ Witness \subseteq Nat /\ Primary \in Nat
  /\ IsFiniteSet(Member)
  /\ Standby \cap Witness = {}
  /\ Primary \notin Member

ASSUME SettingAssumption ==
  /\ Priority \in [Standby -> Nat]
  /\ Manual \subseteq Standby
  /\ Consensus \in BOOLEAN
  /\ CheckType \in {"ping", "query"}
  /\ MaxLsn \in Nat

ASSUME EnvironmentAssumption ==
  /\ Topologies \subseteq [Node -> SUBSET Node]
  /\ \A t \in Topologies : \A n \in Node : n \in t[n]
  /\ Budget \in [Fault -> Nat]

VARIABLES
  \* PostgreSQL
  pg,              \* each server: "primary", "standby" or "down"
  lsn,             \* how far it has received (the primary: written) WAL
  promotion,       \* a promotion was requested and is not complete
  registered,      \* the type in the node's own copy of its record
  notice,          \* candidate_node_id in shared memory, once it is set
  paused,          \* repmgrd_paused in shared memory
  \* the network
  reach,           \* the nodes each node can connect to
  \* repmgrd on each standby
  daemon,          \* what it is doing
  upstream,        \* local_node_info.upstream_node_id
  tally,           \* the locals of do_election()
  todo,            \* the siblings it has not interrogated yet
  target,          \* the node it is about to follow
  mail,            \* notify_followers(): what it still has to send to whom
  stray,           \* the other node that upstream_conn was left open to
  promotionFailed, \* failover_state is FAILOVER_STATE_PROMOTION_FAILED
  \* the environment
  spent            \* the faults that have happened

server == <<pg, lsn, promotion, registered, reach>>
shmem  == <<notice, paused>>
ballot == <<tally, todo>>
locals == <<upstream, target, mail, stray, promotionFailed>>
vars   == <<server, shmem, daemon, ballot, locals, spent>>

Stage ==
  {"monitor",         \* monitoring the upstream, state "normal"
   "elect",           \* in the loop of do_election()
   "promote",         \* about to run promote_command
   "promoting",       \* promote_command waits for the promotion
   "promote_failed",  \* promote_command returned an error
   "notify",          \* in the loop of notify_followers()
   "wait",            \* in wait_primary_notification()
   "follow",          \* at the start of follow_new_primary()
   "following",       \* follow_command runs
   "degraded",        \* monitoring in degraded state
   "leader",          \* monitoring the local node as primary
   "stopped",         \* not running
   "dead"}            \* not running, its pid still in shared memory

NoMail == [id |-> UNKNOWN_NODE_ID, to |-> {}, next |-> "monitor"]

Up(n, m) == m \in reach[n] /\ pg[m] # "down"

Siblings(n) == Member \ {n}
Type(n) == IF n \in Witness THEN "witness" ELSE "standby"
Least(S) == CHOOSE x \in S : \A y \in S : x <= y

Become(n, stage) == daemon' = [daemon EXCEPT ![n] = stage]

\* reset_voting_status(), and what a restart of PostgreSQL does to the notice.
Forget(n) == notice' = [notice EXCEPT ![n] = UNKNOWN_NODE_ID]

Spend(fault) ==
  /\ spent[fault] < Budget[fault]
  /\ spent' = [spent EXCEPT ![fault] = @ + 1]

\* check_upstream_connection(): with "query" the test runs on upstream_conn,
\* whichever node that is open to.
UpstreamAnswers(n) ==
  \/ Up(n, upstream[n])
  \/ CheckType = "query" /\ stray[n] # UNKNOWN_NODE_ID /\ Up(n, stray[n])

Self(n) ==
  [id |-> n, lsn |-> lsn[n], priority |-> Priority[n], location |-> Location[n],
   termKnown |-> TRUE, manual |-> n \in Manual, info |-> TRUE, resumable |-> TRUE]

NoTally(n) == EmptyTally([id |-> n, lsn |-> 0, priority |-> 0, location |-> Location[n]],
                         Location[Primary])

Init ==
  /\ pg = [n \in Node |-> IF n = Primary THEN "primary" ELSE "standby"]
  /\ lsn = [n \in Node |-> 0]
  /\ promotion = [n \in Standby |-> FALSE]
  /\ registered = [n \in Standby |-> "standby"]
  /\ reach \in Topologies
  /\ notice = [n \in Member |-> UNKNOWN_NODE_ID]
  /\ paused = [n \in Standby |-> FALSE]
  /\ daemon = [n \in Standby |-> "monitor"]
  /\ tally = [n \in Standby |-> NoTally(n)]
  /\ todo = [n \in Standby |-> {}]
  /\ upstream = [n \in Standby |-> Primary]
  /\ target = [n \in Standby |-> UNKNOWN_NODE_ID]
  /\ mail = [n \in Standby |-> NoMail]
  /\ stray = [n \in Standby |-> UNKNOWN_NODE_ID]
  /\ promotionFailed = [n \in Standby |-> FALSE]
  /\ spent = [fault \in Fault |-> 0]
-----------------------------------------------------------------------------
(***************************************************************************)
(* The environment: the servers, the network, the operator.                *)
(***************************************************************************)

PrimaryFails ==
  /\ pg[Primary] = "primary"
  /\ pg' = [pg EXCEPT ![Primary] = "down"]
  /\ UNCHANGED <<lsn, promotion, registered, reach, shmem, daemon, ballot, locals, spent>>

\* It is restarted as it was.
PrimaryReturns ==
  /\ pg[Primary] = "down"
  /\ Spend("return")
  /\ pg' = [pg EXCEPT ![Primary] = "primary"]
  /\ UNCHANGED <<lsn, promotion, registered, reach, shmem, daemon, ballot, locals>>

Write ==
  /\ pg[Primary] = "primary"
  /\ lsn[Primary] < MaxLsn
  /\ lsn' = [lsn EXCEPT ![Primary] = @ + 1]
  /\ UNCHANGED <<pg, promotion, registered, reach, shmem, daemon, ballot, locals, spent>>

Stream(n) ==
  /\ pg[Primary] = "primary" /\ Up(n, Primary)
  /\ pg[n] = "standby" /\ upstream[n] = Primary
  /\ lsn[n] < lsn[Primary]
  /\ lsn' = [lsn EXCEPT ![n] = @ + 1]
  /\ UNCHANGED <<pg, promotion, registered, reach, shmem, daemon, ballot, locals, spent>>

NetworkChanges ==
  /\ Spend("net")
  /\ reach' \in Topologies \ {reach}
  /\ UNCHANGED <<pg, lsn, promotion, registered, shmem, daemon, ballot, locals>>

\* repmgrd_pause() on one node, as "repmgr daemon pause" calls it on each.
Pauses(n) ==
  /\ Spend("pause")
  /\ paused' = [paused EXCEPT ![n] = ~@]
  /\ UNCHANGED <<server, notice, daemon, ballot, locals>>

\* A promotion that was requested completes, or comes to nothing.
PgPromotes(n) ==
  /\ promotion[n]
  /\ pg' = [pg EXCEPT ![n] = "primary"]
  /\ promotion' = [promotion EXCEPT ![n] = FALSE]
  /\ UNCHANGED <<lsn, registered, reach, shmem, daemon, ballot, locals, spent>>

\* "No existing primary": every active node that is not a witness is asked.
PrimariesInReach(n) == {m \in Node \ Witness : Up(n, m) /\ pg[m] = "primary"}

\* "repmgr standby promote", run by hand; the time it takes is left out.
OperatorPromotes(n) ==
  /\ Spend("operator")
  /\ pg[n] = "standby" /\ upstream[n] = Primary
  /\ PrimariesInReach(n) = {}
  /\ pg' = [pg EXCEPT ![n] = "primary"]
  /\ promotion' = [promotion EXCEPT ![n] = FALSE]
  /\ registered' = [registered EXCEPT ![n] = "primary"]
  /\ UNCHANGED <<lsn, reach, shmem, daemon, ballot, locals>>

\* The locals of a repmgrd that has just started.
Blank(n) ==
  /\ tally' = [tally EXCEPT ![n] = NoTally(n)]
  /\ todo' = [todo EXCEPT ![n] = {}]
  /\ target' = [target EXCEPT ![n] = UNKNOWN_NODE_ID]
  /\ mail' = [mail EXCEPT ![n] = NoMail]
  /\ stray' = [stray EXCEPT ![n] = UNKNOWN_NODE_ID]
  /\ promotionFailed' = [promotionFailed EXCEPT ![n] = FALSE]

\* terminate(), or a crash that leaves the pid in shared memory.
DaemonStops(n) ==
  /\ Spend("daemon")
  /\ daemon[n] \notin {"stopped", "dead", "promoting", "following"}
  /\ \E stage \in {"stopped", "dead"} : Become(n, stage)
  /\ Blank(n)
  /\ UNCHANGED <<server, shmem, upstream>>

DaemonStarts(n) ==
  /\ daemon[n] \in {"stopped", "dead"}
  /\ Become(n, IF registered[n] = "primary" THEN "leader" ELSE "monitor")
  /\ Forget(n)
  /\ Blank(n)
  /\ UNCHANGED <<server, paused, upstream, spent>>
-----------------------------------------------------------------------------
(***************************************************************************)
(* do_election(), and what do_primary_failover() makes of its result.      *)
(***************************************************************************)

Settle(n, verdict, newPrimary) ==
  /\ promotionFailed' = [promotionFailed EXCEPT ![n] = FALSE]
  /\ \/ /\ verdict = "cancelled" /\ newPrimary # UNKNOWN_NODE_ID
        /\ Become(n, "follow")
        /\ target' = [target EXCEPT ![n] = newPrimary]
        /\ UNCHANGED <<notice, mail, spent>>
     \/ /\ verdict = "cancelled" /\ newPrimary = UNKNOWN_NODE_ID
        /\ Become(n, "degraded")
        /\ Forget(n)
        /\ UNCHANGED <<target, mail, spent>>
     \/ /\ verdict = "won"
        /\ Become(n, "promote")
        /\ UNCHANGED <<notice, target, mail, spent>>
     \/ /\ verdict = "rerun"
        /\ Spend("rerun")
        /\ Become(n, "notify")
        /\ mail' = [mail EXCEPT ![n] = [id |-> RERUN, to |-> Siblings(n), next |-> "monitor"]]
        /\ UNCHANGED <<notice, target>>
     \/ /\ verdict \in {"lost", "not_candidate"}
        /\ Become(n, "wait")
        /\ UNCHANGED <<notice, target, mail, spent>>

\* failover_validation_command is configured where it may fail.
ValidationCommand == Budget["rerun"] > 0

(***************************************************************************)
(* The upstream, a primary, does not answer and all the attempts to        *)
(* reconnect have failed.  The election is called, and begins, unless the  *)
(* node is paused: the only time the pause is looked at on this path.      *)
(***************************************************************************)
Detect(n) ==
  /\ daemon[n] = "monitor"
  /\ upstream[n] = Primary /\ ~UpstreamAnswers(n)
  /\ stray' = [stray EXCEPT ![n] = UNKNOWN_NODE_ID]
  /\ LET early == Prelude(Self(n), Siblings(n), Location[Primary]) IN
     \/ /\ paused[n]
        /\ Become(n, "degraded")
        /\ UNCHANGED <<notice, ballot, target, mail, promotionFailed, spent>>
     \/ /\ ~paused[n] /\ early = "continue"
        /\ Become(n, "elect")
        /\ tally' = [tally EXCEPT ![n] = EmptyTally(Self(n), Location[Primary])]
        /\ todo' = [todo EXCEPT ![n] = Siblings(n)]
        /\ UNCHANGED <<notice, target, mail, promotionFailed, spent>>
     \/ /\ ~paused[n] /\ early # "continue"
        /\ \E verdict \in IF early = "alone" THEN Validated(ValidationCommand) ELSE {early} :
             Settle(n, verdict, UNKNOWN_NODE_ID)
        /\ UNCHANGED ballot
  /\ UNCHANGED <<server, paused, upstream>>

\* A sibling that monitors has seen the primary just now, or not for as long
\* as its attempts to reconnect have lasted; one that gave up, not recently.
LastSeen(s) ==
  IF s \in Standby /\ daemon[s] = "monitor"
  THEN IF Up(s, Primary) THEN {0} ELSE {0, 2 * MonitorInterval}
  ELSE {2 * MonitorInterval}

Report(n, s, seen) ==
  [id |-> s, type |-> Type(s), location |-> Location[s],
   conn |-> Up(n, s),
   repmgrd |-> Up(n, s) /\ (s \in Witness \/ daemon[s] # "stopped"),
   info |-> TRUE,
   recovery |-> pg[s] = "standby" /\ s \in Standby,
   canFollow |-> s \in Standby /\ tally[n].own <= lsn[s],
   lastSeen |-> seen,
   priority |-> IF s \in Standby THEN Priority[s] ELSE 0,
   lsn |-> lsn[s]]

Interrogate(n) ==
  /\ daemon[n] = "elect"
  /\ \E s \in todo[n] :
       /\ \A other \in todo[n] : s <= other
       /\ \E seen \in LastSeen(s) :
            LET after == Examine(tally[n], Report(n, s, seen), Location[Primary])
            IN /\ tally' = [tally EXCEPT ![n] = after]
               /\ todo' = [todo EXCEPT ![n] =
                    IF after.newPrimary # UNKNOWN_NODE_ID THEN {} ELSE @ \ {s}]
  /\ UNCHANGED <<server, shmem, daemon, locals, spent>>

Conclude(n) ==
  /\ daemon[n] = "elect"
  /\ todo[n] = {}
  /\ \E verdict \in Verdicts(tally[n], Self(n), Cardinality(Member), Consensus, ValidationCommand) :
       Settle(n, verdict, tally[n].newPrimary)
  /\ tally' = [tally EXCEPT ![n] = NoTally(n)]
  /\ UNCHANGED <<server, paused, todo, upstream, stray>>
-----------------------------------------------------------------------------
(***************************************************************************)
(* promote_self() and notify_followers().                                  *)
(***************************************************************************)

\* The check with which the promote command begins.
PromoteCheck(n) ==
  /\ daemon[n] = "promote"
  /\ \/ /\ PrimariesInReach(n) = {}
        /\ Become(n, "promoting")
        /\ promotion' = [promotion EXCEPT ![n] = TRUE]
     \/ /\ PrimariesInReach(n) # {}
        /\ Become(n, "promote_failed")
        /\ UNCHANGED promotion
  /\ UNCHANGED <<pg, lsn, registered, reach, shmem, ballot, locals, spent>>

\* Mutant: the siblings are notified before the promotion is complete.
PromoteCompletes_Early(n) ==
  /\ daemon[n] = "promoting"
  /\ registered' = [registered EXCEPT ![n] = "primary"]
  /\ Become(n, "notify")
  /\ mail' = [mail EXCEPT ![n] = [id |-> n, to |-> Siblings(n), next |-> "leader"]]
  /\ UNCHANGED <<pg, lsn, promotion, reach, shmem, ballot,
                 upstream, target, stray, promotionFailed, spent>>

PromoteCompletes(n) ==
  /\ daemon[n] = "promoting"
  /\ pg[n] = "primary"
  /\ registered' = [registered EXCEPT ![n] = "primary"]
  /\ Become(n, "notify")
  /\ mail' = [mail EXCEPT ![n] = [id |-> n, to |-> Siblings(n), next |-> "leader"]]
  /\ UNCHANGED <<pg, lsn, promotion, reach, shmem, ballot,
                 upstream, target, stray, promotionFailed, spent>>

\* The promotion was refused, took longer than promote_check_timeout (and may
\* still complete), or the node record could not be updated after it.
PromoteErrs(n) ==
  /\ daemon[n] = "promoting"
  /\ Spend("command")
  /\ Become(n, "promote_failed")
  /\ promotion' \in {promotion, [promotion EXCEPT ![n] = FALSE]}
  /\ UNCHANGED <<pg, lsn, registered, reach, shmem, ballot, locals>>

\* _get_primary_connection(): the registered primary first, then by priority
\* and node id.
FirstPrimary(n) ==
  LET found == PrimariesInReach(n) IN
  IF Primary \in found THEN Primary
  ELSE IF found = {} THEN UNKNOWN_NODE_ID
  ELSE CHOOSE m \in found : \A k \in found :
         Priority[m] < Priority[k] \/ (Priority[m] = Priority[k] /\ m <= k)

PromoteFailed(n) ==
  /\ daemon[n] = "promote_failed"
  /\ \/ /\ FirstPrimary(n) = Primary
        /\ Become(n, "notify")
        /\ mail' = [mail EXCEPT ![n] = [id |-> Primary, to |-> Siblings(n), next |-> "restart"]]
        /\ UNCHANGED <<stray, promotionFailed>>
     \/ /\ FirstPrimary(n) # Primary
        /\ Become(n, "degraded")
        /\ stray' = [stray EXCEPT ![n] = FirstPrimary(n)]
        /\ promotionFailed' = [promotionFailed EXCEPT ![n] = TRUE]
        /\ UNCHANGED mail
  /\ UNCHANGED <<server, shmem, ballot, upstream, target, spent>>

\* A sibling that cannot be reached is skipped.
NotifyNext(n) ==
  /\ daemon[n] = "notify"
  /\ \E s \in mail[n].to :
       /\ \A other \in mail[n].to : s <= other
       /\ notice' = IF Up(n, s) THEN [notice EXCEPT ![s] = mail[n].id] ELSE notice
       /\ mail' = [mail EXCEPT ![n].to = @ \ {s}]
  /\ UNCHANGED <<server, paused, daemon, ballot,
                 upstream, target, stray, promotionFailed, spent>>

\* After "restart" monitor_streaming_standby() is entered anew and resets the
\* voting status; "dead" is what becomes of it without a local connection.
NotifyEnds(n) ==
  /\ daemon[n] = "notify"
  /\ mail[n].to = {}
  /\ \/ /\ mail[n].next = "restart"
        /\ Become(n, "monitor")
        /\ Forget(n)
     \/ /\ mail[n].next # "restart"
        /\ Become(n, mail[n].next)
        /\ UNCHANGED notice
  /\ mail' = [mail EXCEPT ![n] = NoMail]
  /\ UNCHANGED <<server, paused, ballot, upstream, target, stray, promotionFailed, spent>>
-----------------------------------------------------------------------------
(***************************************************************************)
(* wait_primary_notification() and follow_new_primary().                   *)
(***************************************************************************)

\* Mutant: a notification to rerun the election is taken for a node id.
HeedNotice_NoRerun(n) ==
  /\ daemon[n] = "wait"
  /\ notice[n] # UNKNOWN_NODE_ID
  /\ Become(n, "follow")
  /\ target' = [target EXCEPT ![n] = notice[n]]
  /\ UNCHANGED <<server, shmem, ballot, upstream, mail, stray, promotionFailed, spent>>

\* A node that is told to rerun the election, or to promote itself, keeps the
\* notice it was given.
HeedNotice(n) ==
  /\ daemon[n] = "wait"
  /\ notice[n] # UNKNOWN_NODE_ID
  /\ \/ /\ notice[n] = upstream[n]
        /\ Become(n, "monitor")
        /\ Forget(n)
        /\ UNCHANGED target
     \/ /\ notice[n] # upstream[n]
        /\ LET stage == CASE notice[n] = n                                  -> "promote"
                          [] notice[n] = RERUN                              -> "monitor"
                          [] notice[n] \notin {n, RERUN} /\ n \in Manual    -> "degraded"
                          [] notice[n] \notin {n, RERUN} /\ n \notin Manual -> "follow"
           IN /\ Become(n, stage)
              /\ target' = IF stage = "follow" THEN [target EXCEPT ![n] = notice[n]] ELSE target
        /\ UNCHANGED notice
  /\ UNCHANGED <<server, paused, ballot, upstream, mail, stray, promotionFailed, spent>>

WaitTimesOut(n) ==
  /\ daemon[n] = "wait"
  /\ Become(n, "degraded")
  /\ UNCHANGED <<server, shmem, ballot, locals, spent>>

\* Mutant: a node that answers is followed, be it a standby.
IsPrimary_Answers(n, m) == Up(n, m)

\* The target must be a primary now, whatever was said of it before.
IsPrimary(n, m) == Up(n, m) /\ pg[m] = "primary"

FollowCheck(n) ==
  /\ daemon[n] = "follow"
  /\ \/ /\ IsPrimary(n, target[n])
        /\ Become(n, "following")
        /\ stray' = [stray EXCEPT ![n] = target[n]]
        /\ UNCHANGED target
     \/ /\ ~IsPrimary(n, target[n])
        /\ Become(n, "degraded")
        /\ stray' = [stray EXCEPT ![n] = UNKNOWN_NODE_ID]
        /\ target' = [target EXCEPT ![n] = UNKNOWN_NODE_ID]
  /\ UNCHANGED <<server, shmem, ballot, upstream, mail, promotionFailed, spent>>

\* Mutant: a node with the same WAL as the target cannot attach to it.
CanAttach_StrictLsn(n, m) == pg[n] = "standby" /\ IsPrimary(n, m) /\ lsn[n] < lsn[m]

\* check_recovery_type() and check_node_can_attach(): the target's timeline
\* must not have forked off before the WAL that this standby has.
CanAttach(n, m) == pg[n] = "standby" /\ IsPrimary(n, m) /\ lsn[n] <= lsn[m]

\* Mutant: the promotion requested before is still carried out.
Reattach_StillPending(n, m) ==
  /\ CanAttach(n, m)
  /\ upstream' = [upstream EXCEPT ![n] = m]
  /\ Forget(n)
  /\ UNCHANGED promotion

\* PostgreSQL is restarted with a new upstream; its shared memory and a
\* promotion that was still pending are lost.
Reattach(n, m) ==
  /\ CanAttach(n, m)
  /\ upstream' = [upstream EXCEPT ![n] = m]
  /\ promotion' = [promotion EXCEPT ![n] = FALSE]
  /\ Forget(n)

FollowDone(n) ==
  /\ daemon[n] = "following"
  /\ Reattach(n, target[n])
  /\ target' = [target EXCEPT ![n] = UNKNOWN_NODE_ID]
  /\ stray' = [stray EXCEPT ![n] = UNKNOWN_NODE_ID]
  /\ Become(n, "monitor")
  /\ UNCHANGED <<pg, lsn, registered, reach, paused, ballot, mail, promotionFailed, spent>>

\* The siblings do_election() has read before it returned.
SiblingsRead(n) == IF n \in Manual \/ Priority[n] <= 0 THEN {} ELSE Siblings(n)

\* The local connection was closed before the command ran, so that the restart
\* of monitoring after the siblings were notified ends in terminate().
FollowFails(n) ==
  /\ daemon[n] = "following"
  /\ \/ ~CanAttach(n, target[n]) /\ UNCHANGED spent
     \/ CanAttach(n, target[n]) /\ Spend("command")
  /\ \/ /\ IsPrimary(n, Primary)
        /\ Become(n, "notify")
        /\ mail' = [mail EXCEPT ![n] = [id |-> Primary, to |-> SiblingsRead(n), next |-> "dead"]]
     \/ /\ ~IsPrimary(n, Primary)
        /\ Become(n, "degraded")
        /\ UNCHANGED mail
  /\ target' = [target EXCEPT ![n] = UNKNOWN_NODE_ID]
  /\ UNCHANGED <<server, shmem, ballot, upstream, stray, promotionFailed>>
-----------------------------------------------------------------------------
(***************************************************************************)
(* Degraded monitoring.                                                    *)
(***************************************************************************)

\* "upstream node has recovered", whatever it is now.
DegradedReconnects(n) ==
  /\ daemon[n] = "degraded"
  /\ UpstreamAnswers(n)
  /\ Become(n, "monitor")
  /\ stray' = IF CheckType = "query" THEN stray ELSE [stray EXCEPT ![n] = UNKNOWN_NODE_ID]
  /\ UNCHANGED <<server, shmem, ballot, upstream, target, mail, promotionFailed, spent>>

\* The promotion has completed although the promote command failed.
DegradedIsPrimary(n) ==
  /\ daemon[n] = "degraded"
  /\ ~UpstreamAnswers(n)
  /\ pg[n] = "primary" /\ promotionFailed[n]
  /\ registered' = [registered EXCEPT ![n] = "primary"]
  /\ Become(n, "notify")
  /\ mail' = [mail EXCEPT ![n] = [id |-> n, to |-> Siblings(n), next |-> "leader"]]
  /\ UNCHANGED <<pg, lsn, promotion, reach, shmem, ballot,
                 upstream, target, stray, promotionFailed, spent>>

\* The node record was updated by somebody else.
NoticesOwnPromotion(n) ==
  /\ daemon[n] \in {"monitor", "degraded"}
  /\ registered[n] = "primary"
  /\ Become(n, "leader")
  /\ UNCHANGED <<server, shmem, ballot, locals, spent>>

\* The first sibling that is a primary is followed; what becomes of it is
\* not looked at, and monitoring stays degraded.  The command takes no time.
DegradedScan(n) ==
  /\ daemon[n] = "degraded"
  /\ ~UpstreamAnswers(n)
  /\ n \notin Manual /\ ~paused[n]
  /\ pg[n] = "standby" /\ upstream[n] = Primary
  /\ \E s \in Standby \ {n} :
       /\ IsPrimary(n, s)
       /\ \A other \in Standby \ {n} : IsPrimary(n, other) => s <= other
       /\ stray[n] # s \/ CanAttach(n, s)
       /\ stray' = [stray EXCEPT ![n] = s]
       /\ \/ Reattach(n, s) /\ UNCHANGED spent
          \/ /\ IF CanAttach(n, s) THEN Spend("command") ELSE UNCHANGED spent
             /\ UNCHANGED <<upstream, promotion, notice>>
  /\ UNCHANGED <<pg, lsn, registered, reach, paused, daemon, ballot,
                 target, mail, promotionFailed>>
-----------------------------------------------------------------------------
RepmgrdStep(n) ==
  \/ Detect(n) \/ Interrogate(n) \/ Conclude(n)
  \/ PromoteCheck(n) \/ PromoteCompletes(n) \/ PromoteErrs(n) \/ PromoteFailed(n)
  \/ NotifyNext(n) \/ NotifyEnds(n)
  \/ HeedNotice(n) \/ WaitTimesOut(n)
  \/ FollowCheck(n) \/ FollowDone(n) \/ FollowFails(n)
  \/ DegradedReconnects(n) \/ DegradedIsPrimary(n) \/ NoticesOwnPromotion(n)
  \/ DegradedScan(n)

Environment ==
  \/ PrimaryFails \/ PrimaryReturns \/ Write \/ NetworkChanges
  \/ \E n \in Standby :
       \/ Stream(n) \/ Pauses(n) \/ PgPromotes(n) \/ OperatorPromotes(n)
       \/ DaemonStops(n) \/ DaemonStarts(n)

Next == Environment \/ \E n \in Standby : RepmgrdStep(n)

Spec == Init /\ [][Next]_vars

\* repmgrd is a loop that sleeps for bounded times, and a promotion that
\* PostgreSQL has accepted completes.
FairSpec ==
  /\ Spec
  /\ \A n \in Standby : WF_vars(RepmgrdStep(n)) /\ WF_vars(PgPromotes(n))
-----------------------------------------------------------------------------
(***************************************************************************)
(* Properties                                                              *)
(***************************************************************************)

Tallies ==
  [own : 0 .. MaxLsn, visible : SUBSET Member, located : BOOLEAN, seers : SUBSET Member,
   candidate : [id : Standby, lsn : 0 .. MaxLsn, priority : Nat],
   newPrimary : Standby \cup {UNKNOWN_NODE_ID}]

\* What may be followed, and what may be notified.
Candidate == {Primary} \cup Standby
Notice == Candidate \cup {UNKNOWN_NODE_ID, RERUN}

\* The types of the variables.
TypeOK ==
  /\ pg \in [Node -> {"primary", "standby", "down"}]
  /\ lsn \in [Node -> 0 .. MaxLsn]
  /\ promotion \in [Standby -> BOOLEAN]
  /\ registered \in [Standby -> {"primary", "standby"}]
  /\ reach \in Topologies
  /\ notice \in [Member -> Notice]
  /\ paused \in [Standby -> BOOLEAN]
  /\ daemon \in [Standby -> Stage]
  /\ tally \in [Standby -> Tallies]
  /\ todo \in [Standby -> SUBSET Member]
  /\ upstream \in [Standby -> Candidate]
  /\ target \in [Standby -> Candidate \cup {UNKNOWN_NODE_ID}]
  /\ mail \in [Standby -> [id : Notice, to : SUBSET Member,
                           next : {"monitor", "leader", "restart", "dead"}]]
  /\ stray \in [Standby -> Candidate \cup {UNKNOWN_NODE_ID}]
  /\ promotionFailed \in [Standby -> BOOLEAN]
  /\ spent \in [Fault -> Nat]

Promoted == {n \in Standby : pg[n] = "primary"}

\* The network does not change and every part of it is complete; the primary
\* does not return; no repmgrd stops and nobody promotes a standby by hand.
Stable ==
  /\ \A t \in Topologies : \A a, b \in Node : b \in t[a] => t[a] = t[b]
  /\ \A fault \in {"net", "return", "daemon", "operator"} : Budget[fault] = 0

\* In a stable network the standbys never promote two of themselves, however
\* the steps of their elections and promotions interleave, with command
\* failures, promotions that complete late, pauses and reruns.
AtMostOnePromoted == Cardinality(Promoted) <= 1

\* In a stable network no WAL that some standby in reach has received is lost
\* by the promotion, unless that standby may not be promoted.
PromotedIsFurthest ==
  \A n \in Promoted : \A s \in Standby \cap reach[n] :
    Priority[s] > 0 => lsn[s] <= lsn[n]

\* A standby is only ever told, and only ever told others, to follow the
\* original primary or a node that has been promoted; so it is never told to
\* promote itself, a case that do_primary_failover() provides for.
NoticeNamesPrimary ==
  /\ \A n \in Standby : notice[n] \in {UNKNOWN_NODE_ID, RERUN, Primary} \cup (Promoted \ {n})
  /\ \A n \in Standby : mail[n].to # {} => mail[n].id \in {RERUN, Primary} \cup Promoted

\* A standby that has left the failed primary stays a standby, of a server
\* that is a primary and has all its WAL: no notice that is still in its shared
\* memory and no promotion that is still pending makes it a primary later.
FollowersStayFollowers ==
  \A n \in Standby : upstream[n] # Primary =>
    /\ pg[n] = "standby"
    /\ pg[upstream[n]] = "primary" /\ lsn[n] <= lsn[upstream[n]]

Attached(n) == pg[n] = "primary" \/ (upstream[n] # Primary /\ pg[upstream[n]] = "primary")

\* When the standbys are connected and have lost the primary for good, some
\* standby takes over and all the others follow it, unless a command fails:
\* a promotion that has failed is not tried again.
FailoverCompletes ==
  /\ [](spent["command"] = 0 /\ \A n \in Standby : Standby \subseteq reach[n])
  /\ <>[](\A n \in Standby : ~Up(n, Primary))
  => <>[](\A n \in Standby : Attached(n))

\* The servers that accept writes.
Serving == {n \in Candidate : pg[n] = "primary"}

\* The servers' roles, seen without what the repmgrds do.
Role == INSTANCE PrimaryRole WITH
  Electable <- {n \in Standby : Priority[n] > 0},
  serving <- Serving,
  follows <- upstream,
  wal <- lsn,
  sees <- reach

\* In a stable network every step of a repmgrd, a command or a server is one
\* that PrimaryRole allows or leaves the roles alone: one standby takes over,
\* once and with all the WAL in its reach, and each other one moves once, from
\* the lost primary to that standby.
ImplementsRole == Role!Spec
=============================================================================
