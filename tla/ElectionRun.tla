----------------------------- MODULE ElectionRun -----------------------------
(***************************************************************************)
(* One call of do_election() on the standby Me, whose siblings answer with *)
(* arbitrary reports.  The environment chooses each report when the loop   *)
(* reaches the sibling, in ascending node id as                            *)
(* get_active_sibling_node_records() orders them.  The reports are kept in *)
(* a history variable, so that the result can be compared with what the    *)
(* election should have concluded from them.                               *)
(***************************************************************************)
EXTENDS Election

CONSTANTS
  Me,                \* node id of the local node
  Standbys,          \* node ids of the sibling standbys
  Witnesses,         \* node ids of the sibling witness servers
  Locations,         \* location names; the primary's is PrimaryLocation
  PrimaryLocation,
  Lsns, Priorities,  \* small sets of integers
  Consensus,         \* primary_visibility_consensus
  Validation         \* a failover_validation_command is configured

Siblings == Standbys \cup Witnesses

\* The configuration refuses a node id that is not positive.
ASSUME IdsAssumption ==
  /\ Me \in Nat \ Siblings
  /\ Siblings \subseteq Nat /\ IsFiniteSet(Siblings)
  /\ Standbys \cap Witnesses = {}

ASSUME ValuesAssumption == Lsns \cup Priorities \subseteq Int

VARIABLES
  self,      \* the local node's record and state
  pc,        \* "start", "interrogate" or "done"
  remaining, \* siblings not interrogated yet
  tally,
  reports,   \* history: the reports received, in a set
  result

electionVars == <<self, pc, remaining, tally, reports, result>>

Selves ==
  [id : {Me}, lsn : Lsns, priority : Priorities, location : Locations,
   termKnown : BOOLEAN, manual : BOOLEAN, info : BOOLEAN, resumable : BOOLEAN]

Min(S) == CHOOSE x \in S : \A y \in S : x <= y

\* What get_replication_info() and the connection attempt can report of a node.
\* A witness is a server of its own and never in recovery.
Reports(s) ==
  { r \in [id : {s}, conn : BOOLEAN, repmgrd : BOOLEAN, info : BOOLEAN,
           recovery : BOOLEAN, canFollow : BOOLEAN,
           lastSeen : {-1, 0, 2 * MonitorInterval},
           type : {IF s \in Witnesses THEN "witness" ELSE "standby"},
           priority : Priorities, lsn : Lsns, location : Locations] :
      /\ r.info => r.repmgrd
      /\ r.repmgrd => r.conn
      /\ s \in Witnesses => ~r.recovery
      /\ (s \in Witnesses \/ r.recovery) => ~r.canFollow
      /\ (s \notin Witnesses /\ ~r.recovery) => r.lastSeen = -1
      /\ ~r.info => (s \in Witnesses \/ r.recovery) /\ r.lastSeen = -1
      \* what is never looked at keeps one value
      /\ (~r.info \/ s \in Witnesses) =>
           r.lsn = Min(Lsns) /\ r.priority = Min(Priorities) }

ElectionInit ==
  /\ self \in Selves
  /\ pc = "start"
  /\ remaining = {}
  /\ tally = EmptyTally(self, PrimaryLocation)
  /\ reports = {}
  /\ result = "not_candidate"

Start ==
  /\ pc = "start"
  /\ LET early == Prelude(self, Siblings, PrimaryLocation) IN
     \/ /\ early = "continue"
        /\ pc' = "interrogate"
        /\ remaining' = Siblings
        /\ UNCHANGED result
     \/ /\ early # "continue"
        /\ pc' = "done"
        /\ result' \in IF early = "alone" THEN Validated(Validation) ELSE {early}
        /\ UNCHANGED remaining
  /\ UNCHANGED <<self, tally, reports>>

Interrogate ==
  /\ pc = "interrogate"
  /\ remaining # {}
  /\ \E r \in Reports(Min(remaining)) :
       /\ tally' = Examine(tally, r, PrimaryLocation)
       /\ reports' = reports \cup {r}
  /\ remaining' = IF tally'.newPrimary # UNKNOWN_NODE_ID THEN {} ELSE remaining \ {Min(remaining)}
  /\ UNCHANGED <<self, pc, result>>

Conclude ==
  /\ pc = "interrogate"
  /\ remaining = {}
  /\ pc' = "done"
  /\ result' \in Verdicts(tally, self, Cardinality(Siblings) + 1, Consensus, Validation)
  /\ UNCHANGED <<self, remaining, tally, reports>>

ElectionNext == Start \/ Interrogate \/ Conclude

ElectionSpec == ElectionInit /\ [][ElectionNext]_electionVars
-----------------------------------------------------------------------------
(***************************************************************************)
(* Properties                                                              *)
(***************************************************************************)

\* The best of a set of candidates by successive elimination: the most WAL,
\* among those the highest priority, among those the lowest id.
Best(C) ==
  LET furthest == {c \in C : \A d \in C : d.lsn <= c.lsn}
      preferred == {c \in furthest : \A d \in furthest : d.priority <= c.priority}
  IN  CHOOSE c \in preferred : \A d \in preferred : c.id <= d.id

\* The candidate the loop ends with does not depend on the order in which the
\* siblings were interrogated: it is the best of the local node and of all
\* the siblings that contend.
CandidateIsBest ==
  tally.candidate =
    Best({Standing(self)} \cup {Standing(r) : r \in {q \in reports : Contends(q)}})

\* A standby declares itself the winner only with more than half of the
\* primary's attached nodes in reach, one of them in the primary's location,
\* no node it could follow instead, no contender with more WAL and, when
\* primary_visibility_consensus is set, no standby that still sees the
\* primary; and never with failover=manual or a priority of zero.
WinIsJustified ==
  (pc = "done" /\ result = "won") =>
    LET reached == {r \in reports : r.conn}
        answering == {r \in reports : Answers(r)}
    IN /\ ~self.manual /\ self.priority > 0
       /\ 2 * (Cardinality(reached) + 1) > Cardinality(Siblings) + 1
       /\ PrimaryLocation \in {self.location} \cup {r.location : r \in reached}
       /\ \A r \in answering :
            /\ ~r.canFollow
            /\ Contends(r) => r.lsn <= self.lsn
            /\ Consensus /\ r.type = "standby" => r.lastSeen \notin 0 .. (2 * MonitorInterval - 1)

\* A standby that lost after interrogating its siblings goes on to wait for a
\* notification, so there must be a sibling to wait for: one that it reached,
\* whose repmgrd runs, that may be promoted and that beats it.
LoserHasWinner ==
  (pc = "done" /\ result = "lost" /\ reports # {}) =>
    \E r \in reports :
      /\ r.conn /\ r.repmgrd /\ r.recovery /\ r.priority > 0
      /\ r.id \in Standbys
      /\ r.lsn >= self.lsn
=============================================================================
