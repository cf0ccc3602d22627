------------------------------ MODULE Election ------------------------------
(***************************************************************************)
(* do_election() (repmgrd-physical.c), as operators over what one standby  *)
(* reads from its siblings while it decides whether to promote itself.     *)
(*                                                                         *)
(* A sibling's answer to the interrogation is a record (a "report"); the   *)
(* locals the loop accumulates are a "tally".  visible_nodes is kept as    *)
(* the set of the nodes counted, because each node is counted once; LSNs   *)
(* and priorities are integers, of which only the order matters.           *)
(*                                                                         *)
(* No operator here has state: ElectionRun steps through one call of       *)
(* do_election() over arbitrary reports, Failover runs one on every        *)
(* standby of a cluster.                                                   *)
(***************************************************************************)
EXTENDS Integers, FiniteSets

CONSTANT MonitorInterval      \* monitor_interval_secs

ASSUME MonitorIntervalAssumption == MonitorInterval \in Nat \ {0}

UNKNOWN_NODE_ID == -1         \* also NODE_NOT_FOUND and NO_UPSTREAM_NODE

ServerType == {"primary", "standby", "witness"}
ElectionResult == {"not_candidate", "won", "lost", "cancelled", "rerun"}

\* Mutant: of two equals the one interrogated first stays the candidate.
Outranks_NoTiebreak(a, b) ==
  a.lsn > b.lsn \/ (a.lsn = b.lsn /\ a.priority > b.priority)

\* Mutant: the priority is compared before the WAL received.
Outranks_PriorityFirst(a, b) ==
  \/ a.priority > b.priority
  \/ a.priority = b.priority /\ (a.lsn > b.lsn \/ (a.lsn = b.lsn /\ a.id < b.id))

(***************************************************************************)
(* The order in which candidates replace one another: higher last receive  *)
(* LSN, then higher priority, then lower node id.                          *)
(***************************************************************************)
Outranks(a, b) ==
  \/ a.lsn > b.lsn
  \/ /\ a.lsn = b.lsn
     /\ \/ a.priority > b.priority
        \/ a.priority = b.priority /\ a.id < b.id

Standing(node) == [id |-> node.id, lsn |-> node.lsn, priority |-> node.priority]

\* The locals of do_election() before the first sibling is interrogated.
EmptyTally(self, primaryLocation) ==
  [own        |-> self.lsn,
   visible    |-> {self.id},
   located    |-> self.location = primaryLocation,
   seers      |-> {},
   candidate  |-> Standing(self),
   newPrimary |-> UNKNOWN_NODE_ID]

\* The node's upstream_last_seen counts as "recently": less than two
\* monitoring intervals ago (-1 is "never").
SawPrimary(report) == report.lastSeen \in 0 .. (2 * MonitorInterval - 1)

\* repmgrd runs on the node and its replication status could be read.
Answers(report) == report.conn /\ report.repmgrd /\ report.info

\* Mutant: a priority of zero is not looked at.
Contends_AnyPriority(report) ==
  Answers(report) /\ report.recovery /\ report.type # "witness"

\* The node's LSN is compared with that of the candidate so far.
Contends(report) ==
  /\ Answers(report)
  /\ report.recovery
  /\ report.type # "witness"
  /\ report.priority > 0

(***************************************************************************)
(* One iteration of the loop over the siblings.  A node that is not in     *)
(* recovery either ends the election (it can be followed) or is ignored,   *)
(* and the type is looked at only after that.                              *)
(***************************************************************************)
Examine(tally, report, primaryLocation) ==
  [own        |-> tally.own,
   visible    |-> tally.visible \cup (IF report.conn THEN {report.id} ELSE {}),
   located    |-> \/ tally.located
                  \/ report.conn /\ report.location = primaryLocation,
   seers      |-> tally.seers \cup
                    (IF Answers(report) /\ report.recovery /\ SawPrimary(report)
                     THEN {report.id} ELSE {}),
   candidate  |-> IF Contends(report) /\ Outranks(report, tally.candidate)
                  THEN Standing(report) ELSE tally.candidate,
   newPrimary |-> IF Answers(report) /\ ~report.recovery /\ report.canFollow
                  THEN report.id ELSE tally.newPrimary]

(***************************************************************************)
(* The early returns, in the order of the code; "continue" if none applies *)
(* and the siblings are to be interrogated.  "alone" is the fast path of a *)
(* standby without siblings in the primary's location.                     *)
(***************************************************************************)
Prelude(self, siblings, primaryLocation) ==
  CASE ~self.termKnown \/ self.manual                           -> "not_candidate"
    [] ~(~self.termKnown \/ self.manual) /\ self.priority <= 0  -> "lost"
    [] ~(~self.termKnown \/ self.manual) /\ self.priority > 0 /\ siblings = {} ->
         IF self.location = primaryLocation THEN "alone" ELSE "not_candidate"
    [] OTHER -> IF self.info /\ self.resumable THEN "continue" ELSE "lost"

\* What execute_failover_validation_command() turns a victory into; the
\* command's exit status is not under repmgrd's control.
Validated(command) == IF command THEN {"won", "rerun"} ELSE {"won"}

\* Mutant: half of the nodes are enough.
NoMajority_Half(tally, total) == 2 * Cardinality(tally.visible) < total

\* visible_nodes <= (total_nodes / 2.0)
NoMajority(tally, total) == 2 * Cardinality(tally.visible) <= total

\* The reasons for which an election without a new primary is called off;
\* each of them also enters degraded monitoring and resets the voting status.
CalledOff(tally, total, consensus) ==
  \/ ~tally.located
  \/ consensus /\ tally.seers # {}
  \/ NoMajority(tally, total)

\* The results do_election() can return once the loop is over.
Verdicts(tally, self, total, consensus, command) ==
  IF tally.newPrimary # UNKNOWN_NODE_ID \/ CalledOff(tally, total, consensus)
  THEN {"cancelled"}
  ELSE IF tally.candidate.id = self.id THEN Validated(command) ELSE {"lost"}
=============================================================================
