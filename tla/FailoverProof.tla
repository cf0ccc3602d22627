--------------------------- MODULE FailoverProof ---------------------------
(***************************************************************************)
(* Proofs about Failover, for every set of standbys and witnesses and      *)
(* every budget.                                                           *)
(*                                                                         *)
(* The first part assumes nothing of the network or of the faults: the     *)
(* types; whom a notice names; and that who follows a new primary never    *)
(* becomes a primary itself.                                               *)
(*                                                                         *)
(* The second part is about a stable network: at most one standby is       *)
(* promoted, none that is behind a standby it reaches, and the roles       *)
(* change as PrimaryRole promises.                                         *)
(***************************************************************************)
EXTENDS Failover, FiniteSetTheorems, WellFoundedInduction, TLAPS

USE DEF server, shmem, ballot, locals

(* The types. *)

\* The ids that stand for "none" and "rerun" are no node's.
LEMMA NoNodeIsNegative == UNKNOWN_NODE_ID \notin Node /\ RERUN \notin Node
  BY NodeAssumption DEF Node, Member, UNKNOWN_NODE_ID, RERUN

\* Every set of numbers that is not empty has a least one.
LEMMA LeastNatural ==
  ASSUME NEW S \in SUBSET Nat, S # {}
  PROVE  \E m \in S : \A k \in S : m <= k
  <1> DEFINE R == OpToRel(<, Nat)
  <1>1. IsWellFoundedOn(R, Nat)
    BY NatLessThanWellFounded
  <1>2. \A x, y \in Nat : <<x, y>> \in R <=> x < y
    BY DEF OpToRel
  <1> HIDE DEF R
  <1>3. PICK m \in S : \A k \in S : ~(<<k, m>> \in R)
    BY <1>1, WFMin
  <1>4. ASSUME NEW k \in S PROVE m <= k
    <2>1. ~(<<k, m>> \in R)
      BY <1>3
    <2>2. k \in Nat /\ m \in Nat
      OBVIOUS
    <2>3. ~(k < m)
      BY <2>1, <2>2, <1>2
    <2>. QED  BY <2>2, <2>3
  <1>. QED  BY <1>4

\* get_primary_connection() finds a primary if there is one.
LEMMA FirstPrimaryIsPrimary ==
  ASSUME TypeOK, NEW n \in Standby
  PROVE  FirstPrimary(n) \in PrimariesInReach(n) \cup {UNKNOWN_NODE_ID}
  <1> DEFINE found == PrimariesInReach(n)
             first(m) == \A k \in found :
               Priority[m] < Priority[k] \/ (Priority[m] = Priority[k] /\ m <= k)
  <1>1. CASE Primary \in found \/ found = {}
    BY <1>1 DEF FirstPrimary
  <1>2. CASE Primary \notin found /\ found # {}
    <2>1. found \subseteq Standby
      BY <1>2 DEF PrimariesInReach, Node, Member
    <2> HIDE DEF found
    <2>2. \A m \in found : m \in Nat /\ Priority[m] \in Nat
      BY <2>1, NodeAssumption, SettingAssumption
    <2>3. PICK p \in {Priority[m] : m \in found} : \A k \in {Priority[m] : m \in found} : p <= k
      BY <1>2, <2>2, LeastNatural
    <2> DEFINE tied == {m \in found : Priority[m] = p}
    <2>4. PICK m \in tied : \A k \in tied : m <= k
      <3>1. tied # {} /\ tied \in SUBSET Nat
        BY <2>2, <2>3
      <3> HIDE DEF tied
      <3>. QED  BY <3>1, LeastNatural
    <2>5. m \in found /\ Priority[m] = p
      BY <2>4
    <2>6. ASSUME NEW k \in found
          PROVE  Priority[m] < Priority[k] \/ (Priority[m] = Priority[k] /\ m <= k)
      <3>1. p <= Priority[k] /\ p \in Nat /\ Priority[k] \in Nat
        BY <2>2, <2>3
      <3>2. Priority[k] = p => m <= k
        BY <2>4
      <3>. QED  BY <2>5, <3>1, <3>2
    <2>7. \E x \in found : first(x)
      BY <2>5, <2>6
    <2>8. (CHOOSE x \in found : first(x)) \in found
      BY <2>7
    <2>9. FirstPrimary(n) = CHOOSE x \in found : first(x)
      BY <1>2 DEF FirstPrimary, found
    <2>. QED  BY <2>8, <2>9 DEF found
  <1>. QED  BY <1>1, <1>2

\* The locals of do_election() that are not in use have their type.
LEMMA NoTallyType == \A n \in Standby : NoTally(n) \in Tallies
  <1> SUFFICES ASSUME NEW n \in Standby PROVE NoTally(n) \in Tallies
    OBVIOUS
  <1>1. 0 \in 0 .. MaxLsn
    BY SettingAssumption
  <1>2. n \in Member
    BY DEF Member
  <1>. QED  BY <1>1, <1>2 DEF NoTally, EmptyTally, Standing, Tallies, UNKNOWN_NODE_ID

\* The locals at the start of an election have their type.
LEMMA EmptyTallyType ==
  ASSUME TypeOK, NEW n \in Standby
  PROVE  EmptyTally(Self(n), Location[Primary]) \in Tallies
  <1>1. lsn[n] \in 0 .. MaxLsn /\ Priority[n] \in Nat /\ n \in Member
    BY SettingAssumption DEF TypeOK, Node, Member
  <1>. QED  BY <1>1 DEF EmptyTally, Self, Standing, Tallies

\* Interrogating a sibling keeps the type of the locals.
LEMMA ExamineType ==
  ASSUME TypeOK, NEW n \in Standby, NEW s \in Member, NEW seen
  PROVE  Examine(tally[n], Report(n, s, seen), Location[Primary]) \in Tallies
  <1> DEFINE t == tally[n]
             r == Report(n, s, seen)
             after == Examine(t, r, Location[Primary])
  <1>1. t \in Tallies
    BY DEF TypeOK
  <1>2. r.id = s /\ r.lsn = lsn[s] /\ lsn[s] \in 0 .. MaxLsn /\ r.type = Type(s)
    BY DEF Report, TypeOK, Node
  <1>3. s \in Standby => r.priority = Priority[s] /\ r.priority \in Nat
    BY SettingAssumption DEF Report
  <1>4. r.canFollow => s \in Standby
    BY DEF Report
  <1>5. r.type # "witness" => s \in Standby
    BY <1>2 DEF Type, Member
  <1>6. after.own \in 0 .. MaxLsn /\ after.located \in BOOLEAN
    BY <1>1 DEF Examine, Tallies
  <1>7. after.visible \in SUBSET Member /\ after.seers \in SUBSET Member
    BY <1>1, <1>2 DEF Examine, Tallies
  <1>8. after.candidate \in [id : Standby, lsn : 0 .. MaxLsn, priority : Nat]
    <2>1. CASE Contends(r) /\ Outranks(r, t.candidate)
      BY <2>1, <1>2, <1>3, <1>5 DEF Examine, Contends, Standing
    <2>2. CASE ~(Contends(r) /\ Outranks(r, t.candidate))
      BY <2>2, <1>1 DEF Examine, Tallies
    <2>. QED  BY <2>1, <2>2
  <1>9. after.newPrimary \in Standby \cup {UNKNOWN_NODE_ID}
    BY <1>1, <1>2, <1>4 DEF Examine, Tallies
  <1>10. after = [own |-> after.own, visible |-> after.visible, located |-> after.located,
                  seers |-> after.seers, candidate |-> after.candidate,
                  newPrimary |-> after.newPrimary]
    BY DEF Examine
  <1> HIDE DEF after
  <1>. QED  BY <1>6, <1>7, <1>8, <1>9, <1>10 DEF Tallies, after

LEMMA InitType == Init => TypeOK
  <1> SUFFICES ASSUME Init PROVE TypeOK
    OBVIOUS
  <1>1. 0 \in 0 .. MaxLsn
    BY SettingAssumption
  <1>2. tally \in [Standby -> Tallies]
    BY NoTallyType DEF Init
  <1>. QED
    BY <1>1, <1>2 DEF Init, TypeOK, Node, Notice, Candidate, Stage, NoMail, Fault

\* What becomes of an election keeps the types.
LEMMA SettleType ==
  ASSUME TypeOK, NEW n \in Standby, NEW verdict,
         NEW newPrimary \in Standby \cup {UNKNOWN_NODE_ID},
         Settle(n, verdict, newPrimary)
  PROVE  /\ daemon' \in [Standby -> Stage]
         /\ notice' \in [Member -> Notice]
         /\ target' \in [Standby -> Candidate \cup {UNKNOWN_NODE_ID}]
         /\ mail' \in [Standby -> [id : Notice, to : SUBSET Member,
                                   next : {"monitor", "leader", "restart", "dead"}]]
         /\ promotionFailed' \in [Standby -> BOOLEAN]
         /\ spent' \in [Fault -> Nat]
  <1>1. daemon' \in [Standby -> Stage]
    BY DEF Settle, TypeOK, Become, Stage
  <1>2. notice' \in [Member -> Notice]
    BY DEF Settle, TypeOK, Forget, Notice
  <1>3. target' \in [Standby -> Candidate \cup {UNKNOWN_NODE_ID}]
    BY DEF Settle, TypeOK, Candidate
  <1>4. mail' \in [Standby -> [id : Notice, to : SUBSET Member,
                                next : {"monitor", "leader", "restart", "dead"}]]
    <2> DEFINE rerun == [id |-> RERUN, to |-> Siblings(n), next |-> "monitor"]
    <2>1. rerun \in [id : Notice, to : SUBSET Member,
                    next : {"monitor", "leader", "restart", "dead"}]
      BY DEF Siblings, Notice
    <2>2. mail' = mail \/ mail' = [mail EXCEPT ![n] = rerun]
      BY DEF Settle
    <2> HIDE DEF rerun
    <2>. QED  BY <2>1, <2>2 DEF TypeOK
  <1>5. promotionFailed' \in [Standby -> BOOLEAN]
    BY DEF Settle, TypeOK
  <1>6. spent' \in [Fault -> Nat]
    <2>1. "rerun" \in Fault
      BY DEF Fault
    <2>2. spent' = spent \/ spent' = [spent EXCEPT !["rerun"] = @ + 1]
      BY DEF Settle, Spend
    <2>3. spent \in [Fault -> Nat]
      BY DEF TypeOK
    <2>. QED  BY <2>1, <2>2, <2>3
  <1>. QED  BY <1>1, <1>2, <1>3, <1>4, <1>5, <1>6

\* A step of the environment.
LEMMA EnvironmentType == TypeOK /\ Environment => TypeOK'
  <1> SUFFICES ASSUME TypeOK, Environment PROVE TypeOK'
    OBVIOUS
  <1> USE DEF TypeOK
  <1>1. CASE PrimaryFails
    BY <1>1 DEF PrimaryFails, Node
  <1>2. CASE PrimaryReturns
    BY <1>2 DEF PrimaryReturns, Spend, Node, Fault
  <1>3. CASE Write
    BY <1>3, SettingAssumption DEF Write, Node
  <1>4. CASE NetworkChanges
    BY <1>4 DEF NetworkChanges, Spend, Fault
  <1>5. ASSUME NEW n \in Standby, Stream(n) PROVE TypeOK'
    BY <1>5, SettingAssumption DEF Stream, Node, Member
  <1>6. ASSUME NEW n \in Standby, Pauses(n) PROVE TypeOK'
    BY <1>6 DEF Pauses, Spend, Fault
  <1>7. ASSUME NEW n \in Standby, PgPromotes(n) PROVE TypeOK'
    BY <1>7 DEF PgPromotes, Node, Member
  <1>8. ASSUME NEW n \in Standby, OperatorPromotes(n) PROVE TypeOK'
    BY <1>8 DEF OperatorPromotes, Spend, Fault, Node, Member
  <1>9. ASSUME NEW n \in Standby, DaemonStops(n) PROVE TypeOK'
    <2>1. tally' \in [Standby -> Tallies]
      BY <1>9, NoTallyType DEF DaemonStops, Blank
    <2>. QED
      BY <1>9, <2>1 DEF DaemonStops, Blank, Become, Spend, Stage, Fault, NoMail, Notice
  <1>10. ASSUME NEW n \in Standby, DaemonStarts(n) PROVE TypeOK'
    <2>1. tally' \in [Standby -> Tallies]
      BY <1>10, NoTallyType DEF DaemonStarts, Blank
    <2>. QED
      BY <1>10, <2>1 DEF DaemonStarts, Blank, Become, Forget, Stage, NoMail, Notice
  <1>. QED
    BY <1>1, <1>2, <1>3, <1>4, <1>5, <1>6, <1>7, <1>8, <1>9, <1>10 DEF Environment

\* A step of the repmgrd of one standby.
LEMMA RepmgrdType ==
  ASSUME TypeOK, NEW n \in Standby, RepmgrdStep(n)
  PROVE  TypeOK'
  <1> USE DEF TypeOK
  <1>1. CASE Detect(n)
    <2> DEFINE early == Prelude(Self(n), Siblings(n), Location[Primary])
    <2>1. CASE paused[n] /\ Become(n, "degraded") /\ UNCHANGED <<notice, ballot, target, mail, promotionFailed, spent>>
      BY <1>1, <2>1 DEF Detect, Become, Stage
    <2>2. CASE /\ ~paused[n] /\ early = "continue"
               /\ Become(n, "elect")
               /\ tally' = [tally EXCEPT ![n] = EmptyTally(Self(n), Location[Primary])]
               /\ todo' = [todo EXCEPT ![n] = Siblings(n)]
               /\ UNCHANGED <<notice, target, mail, promotionFailed, spent>>
      <3>1. tally' \in [Standby -> Tallies]
        BY <2>2, EmptyTallyType
      <3>. QED  BY <1>1, <2>2, <3>1 DEF Detect, Become, Stage, Siblings
    <2>3. CASE /\ ~paused[n] /\ early # "continue"
               /\ \E verdict \in IF early = "alone" THEN Validated(ValidationCommand) ELSE {early} :
                    Settle(n, verdict, UNKNOWN_NODE_ID)
               /\ UNCHANGED ballot
      BY <1>1, <2>3, SettleType DEF Detect
    <2>. QED  BY <1>1, <2>1, <2>2, <2>3 DEF Detect
  <1>2. CASE Interrogate(n)
    <2>1. tally' \in [Standby -> Tallies]
      BY <1>2, ExamineType DEF Interrogate
    <2>. QED  BY <1>2, <2>1 DEF Interrogate
  <1>3. CASE Conclude(n)
    <2>1. tally' \in [Standby -> Tallies]
      BY <1>3, NoTallyType DEF Conclude
    <2>2. tally[n].newPrimary \in Standby \cup {UNKNOWN_NODE_ID}
      BY DEF Tallies
    <2>. QED  BY <1>3, <2>1, <2>2, SettleType DEF Conclude
  <1>4. CASE PromoteCheck(n)
    BY <1>4 DEF PromoteCheck, Become, Stage
  <1>5. CASE PromoteCompletes(n)
    BY <1>5 DEF PromoteCompletes, Become, Stage, Siblings, Notice, Candidate
  <1>6. CASE PromoteErrs(n)
    <2>1. promotion' \in [Standby -> BOOLEAN]
      <3>1. CASE promotion' = promotion
        BY <3>1
      <3>2. CASE promotion' = [promotion EXCEPT ![n] = FALSE]
        BY <3>2
      <3>. QED  BY <1>6, <3>1, <3>2 DEF PromoteErrs
    <2>2. spent' \in [Fault -> Nat]
      BY <1>6 DEF PromoteErrs, Spend, Fault
    <2>. QED  BY <1>6, <2>1, <2>2 DEF PromoteErrs, Become, Stage
  <1>7. CASE PromoteFailed(n)
    <2>1. FirstPrimary(n) \in Candidate \cup {UNKNOWN_NODE_ID}
      BY FirstPrimaryIsPrimary DEF PrimariesInReach, Node, Member, Candidate
    <2>2. mail' \in [Standby -> [id : Notice, to : SUBSET Member,
                                  next : {"monitor", "leader", "restart", "dead"}]]
      <3> DEFINE resume == [id |-> Primary, to |-> Siblings(n), next |-> "restart"]
      <3>1. resume \in [id : Notice, to : SUBSET Member,
                       next : {"monitor", "leader", "restart", "dead"}]
        BY DEF Siblings, Notice, Candidate
      <3>2. mail' = mail \/ mail' = [mail EXCEPT ![n] = resume]
        BY <1>7 DEF PromoteFailed
      <3> HIDE DEF resume
      <3>. QED  BY <3>1, <3>2
    <2>3. /\ stray' \in [Standby -> Candidate \cup {UNKNOWN_NODE_ID}]
          /\ promotionFailed' \in [Standby -> BOOLEAN]
      <3>1. \/ UNCHANGED <<stray, promotionFailed>>
            \/ /\ stray' = [stray EXCEPT ![n] = FirstPrimary(n)]
               /\ promotionFailed' = [promotionFailed EXCEPT ![n] = TRUE]
        BY <1>7 DEF PromoteFailed
      <3>2. CASE UNCHANGED <<stray, promotionFailed>>
        BY <3>2
      <3>3. CASE /\ stray' = [stray EXCEPT ![n] = FirstPrimary(n)]
                 /\ promotionFailed' = [promotionFailed EXCEPT ![n] = TRUE]
        BY <2>1, <3>3
      <3>. QED  BY <3>1, <3>2, <3>3
    <2>4. daemon' \in [Standby -> Stage]
      <3>1. \E stage \in {"notify", "degraded"} : daemon' = [daemon EXCEPT ![n] = stage]
        BY <1>7 DEF PromoteFailed, Become
      <3>2. {"notify", "degraded"} \subseteq Stage
        BY DEF Stage
      <3>. QED  BY <3>1, <3>2
    <2>. QED  BY <1>7, <2>2, <2>3, <2>4 DEF PromoteFailed
  <1>8. CASE NotifyNext(n)
    <2>1. PICK m \in mail[n].to :
            /\ notice' = IF Up(n, m) THEN [notice EXCEPT ![m] = mail[n].id] ELSE notice
            /\ mail' = [mail EXCEPT ![n].to = @ \ {m}]
      BY <1>8 DEF NotifyNext
    <2>2. mail[n].id \in Notice /\ m \in Member
      OBVIOUS
    <2>3. notice' \in [Member -> Notice]
      BY <2>1, <2>2
    <2>4. mail' \in [Standby -> [id : Notice, to : SUBSET Member,
                                  next : {"monitor", "leader", "restart", "dead"}]]
      <3> DEFINE Letter == [id : Notice, to : SUBSET Member, next : {"monitor", "leader", "restart", "dead"}]
                 rest == [mail[n] EXCEPT !.to = @ \ {m}]
      <3>1. mail \in [Standby -> Letter]
        OBVIOUS
      <3>2. mail' = [mail EXCEPT ![n] = rest]
        BY <2>1
      <3>3. rest \in Letter
        BY <3>1
      <3> HIDE DEF Letter, rest
      <3>4. mail' \in [Standby -> Letter]
        BY <3>1, <3>2, <3>3, Zenon
      <3>. QED  BY <3>4 DEF Letter
    <2>. QED  BY <1>8, <2>3, <2>4 DEF NotifyNext
  <1>9. CASE NotifyEnds(n)
    <2>1. daemon' \in [Standby -> Stage]
      BY <1>9 DEF NotifyEnds, Become, Stage
    <2>2. notice' \in [Member -> Notice]
      BY <1>9 DEF NotifyEnds, Forget, Notice
    <2>3. mail' \in [Standby -> [id : Notice, to : SUBSET Member,
                                  next : {"monitor", "leader", "restart", "dead"}]]
      BY <1>9 DEF NotifyEnds, NoMail, Notice
    <2>. QED  BY <1>9, <2>1, <2>2, <2>3 DEF NotifyEnds
  <1>10. CASE HeedNotice(n)
    <2>1. {"monitor", "promote", "degraded", "follow"} \subseteq Stage
      BY DEF Stage
    <2>2. \E stage \in {"monitor", "promote", "degraded", "follow"} : daemon' = [daemon EXCEPT ![n] = stage]
      BY <1>10 DEF HeedNotice, Become
    <2>3. daemon' \in [Standby -> Stage]
      BY <2>1, <2>2
    <2>4. notice' \in [Member -> Notice]
      BY <1>10 DEF HeedNotice, Forget, Notice
    <2>5. target' \in [Standby -> Candidate \cup {UNKNOWN_NODE_ID}]
      <3>1. target' = target \/ (target' = [target EXCEPT ![n] = notice[n]] /\ notice[n] \in Candidate)
        <4>1. notice[n] \in Notice /\ notice[n] # UNKNOWN_NODE_ID
          BY <1>10 DEF HeedNotice, Member
        <4>2. \/ target' = target
              \/ target' = [target EXCEPT ![n] = notice[n]] /\ notice[n] # RERUN
          BY <1>10 DEF HeedNotice
        <4>. QED  BY <4>1, <4>2 DEF Notice
      <3>. QED  BY <3>1
    <2>. QED  BY <1>10, <2>3, <2>4, <2>5 DEF HeedNotice
  <1>11. CASE WaitTimesOut(n)
    BY <1>11 DEF WaitTimesOut, Become, Stage
  <1>12. CASE FollowCheck(n)
    BY <1>12 DEF FollowCheck, Become, Stage
  <1>13. CASE FollowDone(n)
    <2>1. target[n] \in Candidate
      BY <1>13, NoNodeIsNegative, EnvironmentAssumption
      DEF FollowDone, Reattach, CanAttach, IsPrimary, Up, Node, Member
    <2>. QED  BY <1>13, <2>1 DEF FollowDone, Reattach, Become, Forget, Stage, Notice
  <1>14. CASE FollowFails(n)
    <2>1. daemon' \in [Standby -> Stage]
      <3>1. \E stage \in {"notify", "degraded"} : daemon' = [daemon EXCEPT ![n] = stage]
        BY <1>14 DEF FollowFails, Become
      <3>2. {"notify", "degraded"} \subseteq Stage
        BY DEF Stage
      <3>. QED  BY <3>1, <3>2
    <2>2. mail' \in [Standby -> [id : Notice, to : SUBSET Member,
                                  next : {"monitor", "leader", "restart", "dead"}]]
      <3> DEFINE resume == [id |-> Primary, to |-> SiblingsRead(n), next |-> "dead"]
      <3>1. resume \in [id : Notice, to : SUBSET Member,
                       next : {"monitor", "leader", "restart", "dead"}]
        BY DEF SiblingsRead, Siblings, Notice, Candidate
      <3>2. mail' = mail \/ mail' = [mail EXCEPT ![n] = resume]
        BY <1>14 DEF FollowFails
      <3> HIDE DEF resume
      <3>. QED  BY <3>1, <3>2
    <2>3. spent' \in [Fault -> Nat]
      BY <1>14 DEF FollowFails, Spend, Fault
    <2>. QED  BY <1>14, <2>1, <2>2, <2>3 DEF FollowFails
  <1>15. CASE DegradedReconnects(n)
    BY <1>15 DEF DegradedReconnects, Become, Stage
  <1>16. CASE DegradedIsPrimary(n)
    BY <1>16 DEF DegradedIsPrimary, Become, Stage, Siblings, Notice, Candidate
  <1>17. CASE NoticesOwnPromotion(n)
    BY <1>17 DEF NoticesOwnPromotion, Become, Stage
  <1>18. CASE DegradedScan(n)
    <2>1. PICK s \in Standby \ {n} :
            /\ stray' = [stray EXCEPT ![n] = s]
            /\ \/ Reattach(n, s) /\ UNCHANGED spent
               \/ /\ IF CanAttach(n, s) THEN Spend("command") ELSE UNCHANGED spent
                  /\ UNCHANGED <<upstream, promotion, notice>>
      BY <1>18 DEF DegradedScan
    <2>2. upstream' \in [Standby -> Candidate] /\ promotion' \in [Standby -> BOOLEAN]
      <3>1. CASE Reattach(n, s)
        BY <3>1 DEF Reattach, Candidate
      <3>2. CASE UNCHANGED <<upstream, promotion, notice>>
        BY <3>2
      <3>. QED  BY <2>1, <3>1, <3>2
    <2>3. notice' \in [Member -> Notice]
      BY <2>1 DEF Reattach, Forget, Notice
    <2>4. spent' \in [Fault -> Nat]
      BY <2>1 DEF Spend, Fault
    <2>5. stray' \in [Standby -> Candidate \cup {UNKNOWN_NODE_ID}]
      BY <2>1 DEF Candidate
    <2>. QED  BY <1>18, <2>2, <2>3, <2>4, <2>5 DEF DegradedScan
  <1>. QED
    BY <1>1, <1>2, <1>3, <1>4, <1>5, <1>6, <1>7, <1>8, <1>9, <1>10, <1>11, <1>12, <1>13,
       <1>14, <1>15, <1>16, <1>17, <1>18 DEF RepmgrdStep

\* Every variable keeps its type, whatever the cluster and its faults: in
\* particular no node is ever told to follow a witness, and no stage of
\* do_primary_failover() is left for one that it does not provide for.
THEOREM TypeCorrect == Spec => []TypeOK
  <1>1. Init => TypeOK
    BY InitType
  <1>2. TypeOK /\ [Next]_vars => TypeOK'
    <2>1. TypeOK /\ Next => TypeOK'
      BY EnvironmentType, RepmgrdType DEF Next
    <2>2. TypeOK /\ UNCHANGED vars => TypeOK'
      BY DEF vars, TypeOK
    <2>. QED  BY <2>1, <2>2
  <1>. QED  BY <1>1, <1>2, PTL DEF Spec

-----------------------------------------------------------------------------
(* Notices and followers. *)

\* Nobody is to be sent its own id: notify_followers() skips the local node.
MailIsForOthers == \A n \in Standby : mail[n].id \notin mail[n].to

\* A standby that was attached to another primary was restarted for that.
NothingPending == \A n \in Standby : upstream[n] # Primary => ~promotion[n]

\* Only a standby of the original primary is in an election, or about to be
\* promoted by its repmgrd, or to be made to follow another node.
ElectsForPrimary ==
  \A n \in Standby : daemon[n] \in {"elect", "promote", "wait", "follow", "following"} => upstream[n] = Primary

NoticeInv == NoticeNamesPrimary /\ MailIsForOthers
FollowInv == FollowersStayFollowers /\ NothingPending /\ ElectsForPrimary

\* What a standby may hold in its shared memory, or be about to send.
Names(n, promoted) == {UNKNOWN_NODE_ID, RERUN, Primary} \cup (promoted \ {n})

\* A standby that was promoted stays so.
LEMMA PromotedStay ==
  ASSUME TypeOK, [Next]_vars
  PROVE  Promoted \subseteq Promoted'
  <1> SUFFICES ASSUME NEW m \in Standby, pg[m] = "primary" PROVE pg'[m] = "primary"
    BY DEF Promoted
  <1>1. m # Primary /\ m \in Node
    BY NodeAssumption DEF Node, Member
  <1>2. CASE UNCHANGED vars
    BY <1>2 DEF vars
  <1>3. CASE Environment
    BY <1>1, <1>3 DEF Environment, TypeOK, PrimaryFails, PrimaryReturns, Write, NetworkChanges,
       Stream, Pauses, PgPromotes, OperatorPromotes, DaemonStops, DaemonStarts
  <1>4. ASSUME NEW n \in Standby, RepmgrdStep(n) PROVE pg' = pg
    BY <1>4 DEF RepmgrdStep, Detect, Interrogate, Conclude, PromoteCheck, PromoteCompletes,
       PromoteErrs, PromoteFailed, NotifyNext, NotifyEnds, HeedNotice, WaitTimesOut, FollowCheck,
       FollowDone, FollowFails, DegradedReconnects, DegradedIsPrimary, NoticesOwnPromotion,
       DegradedScan
  <1>. QED  BY <1>2, <1>3, <1>4 DEF Next

\* Mail is left alone, or what is sent names a primary and goes to others.
LEMMA MailStep ==
  ASSUME TypeOK, NoticeInv, [Next]_vars, NEW m \in Standby
  PROVE  /\ mail'[m].id \notin mail'[m].to
         /\ mail'[m].to # {} => mail'[m].id \in {RERUN, Primary} \cup Promoted
  <1>1. /\ mail[m].id \notin mail[m].to
        /\ mail[m].to # {} => mail[m].id \in {RERUN, Primary} \cup Promoted
    BY DEF NoticeInv, MailIsForOthers, NoticeNamesPrimary
  <1>2. CASE mail' = mail
    BY <1>1, <1>2
  <1>3. RERUN \notin Member /\ Primary \notin Member
    BY NoNodeIsNegative, NodeAssumption DEF Node
  <1>4. ASSUME NEW n \in Standby, NEW verdict, NEW newPrimary, Settle(n, verdict, newPrimary)
        PROVE  mail' = mail \/ mail' = [mail EXCEPT ![n] =
                 [id |-> RERUN, to |-> Siblings(n), next |-> "monitor"]]
    BY <1>4 DEF Settle
  <1>5. ASSUME NEW n \in Standby, NEW new, mail' = [mail EXCEPT ![n] = new],
               new.id \in {RERUN, Primary, n}, new.id = n => pg[n] = "primary",
               new.to \subseteq Siblings(n)
        PROVE  /\ mail'[m].id \notin mail'[m].to
               /\ mail'[m].to # {} => mail'[m].id \in {RERUN, Primary} \cup Promoted
    <2>1. CASE m # n
      BY <1>1, <1>5, <2>1 DEF TypeOK
    <2>2. CASE m = n
      <3>1. mail'[m] = new
        BY <1>5, <2>2 DEF TypeOK
      <3>2. new.id \notin new.to
        BY <1>3, <1>5 DEF Siblings
      <3>. QED  BY <1>5, <3>1, <3>2 DEF Promoted
    <2>. QED  BY <2>1, <2>2
  <1>6. CASE Environment
    <2>1. mail' = mail \/ \E n \in Standby : mail' = [mail EXCEPT ![n] = NoMail]
      BY <1>6 DEF Environment, PrimaryFails, PrimaryReturns, Write, NetworkChanges,
         Stream, Pauses, PgPromotes, OperatorPromotes, DaemonStops, DaemonStarts, Blank
    <2>2. ASSUME NEW n \in Standby, mail' = [mail EXCEPT ![n] = NoMail]
          PROVE  mail'[m].to = {} \/ mail'[m] = mail[m]
      BY <2>2 DEF TypeOK, NoMail
    <2>. QED  BY <1>1, <1>2, <2>1, <2>2
  <1>7. ASSUME NEW n \in Standby, RepmgrdStep(n)
        PROVE  /\ mail'[m].id \notin mail'[m].to
               /\ mail'[m].to # {} => mail'[m].id \in {RERUN, Primary} \cup Promoted
    <2>0. RERUN # n /\ Primary # n
      BY <1>3 DEF Member
    <2>1. CASE Detect(n) \/ Conclude(n)
      <3>1. \/ mail' = mail
            \/ mail' = [mail EXCEPT ![n] = [id |-> RERUN, to |-> Siblings(n), next |-> "monitor"]]
        BY <1>4, <2>1 DEF Detect, Conclude
      <3>. QED  BY <1>2, <1>5, <2>0, <3>1
    <2>2. CASE PromoteCompletes(n) \/ DegradedIsPrimary(n)
      BY <1>5, <2>0, <2>2 DEF PromoteCompletes, DegradedIsPrimary
    <2>3. CASE PromoteFailed(n)
      <3>1. \/ mail' = mail
            \/ mail' = [mail EXCEPT ![n] =
                          [id |-> Primary, to |-> Siblings(n), next |-> "restart"]]
        BY <2>3 DEF PromoteFailed
      <3>. QED  BY <1>2, <1>5, <2>0, <3>1
    <2>4. CASE FollowFails(n)
      <3>1. SiblingsRead(n) \in SUBSET Siblings(n)
        BY DEF SiblingsRead
      <3>2. \/ mail' = mail
            \/ mail' = [mail EXCEPT ![n] =
                          [id |-> Primary, to |-> SiblingsRead(n), next |-> "dead"]]
        BY <2>4 DEF FollowFails
      <3>. QED  BY <1>2, <1>5, <2>0, <3>1, <3>2
    <2>5. CASE NotifyNext(n)
      BY <1>1, <2>5 DEF NotifyNext, TypeOK
    <2>6. CASE NotifyEnds(n)
      BY <1>1, <2>6 DEF NotifyEnds, NoMail, TypeOK
    <2>7. CASE Interrogate(n) \/ PromoteCheck(n) \/ PromoteErrs(n) \/ HeedNotice(n)
               \/ WaitTimesOut(n) \/ FollowCheck(n) \/ FollowDone(n) \/ DegradedReconnects(n)
               \/ NoticesOwnPromotion(n) \/ DegradedScan(n)
      BY <1>2, <2>7 DEF Interrogate, PromoteCheck, PromoteErrs, HeedNotice, WaitTimesOut,
         FollowCheck, FollowDone, DegradedReconnects, NoticesOwnPromotion, DegradedScan
    <2>. QED  BY <1>7, <2>1, <2>2, <2>3, <2>4, <2>5, <2>6, <2>7 DEF RepmgrdStep
  <1>8. CASE UNCHANGED vars
    BY <1>2, <1>8 DEF vars
  <1>. QED  BY <1>6, <1>7, <1>8 DEF Next

\* A notice is left alone, reset, or copied from the mail of a sibling.
LEMMA NoticeStep ==
  ASSUME TypeOK, NoticeInv, [Next]_vars, NEW m \in Standby
  PROVE  notice'[m] \in Names(m, Promoted)
  <1>1. notice[m] \in Names(m, Promoted)
    BY DEF NoticeInv, NoticeNamesPrimary, Names
  <1>2. m \in Member
    BY DEF Member
  <1>3. CASE notice' = notice
    BY <1>1, <1>3
  <1>4. ASSUME NEW n \in Standby, Forget(n) PROVE notice'[m] \in Names(m, Promoted)
    BY <1>1, <1>2, <1>4 DEF Forget, TypeOK, Names
  <1>5. CASE Environment
    BY <1>3, <1>4, <1>5 DEF Environment, PrimaryFails, PrimaryReturns, Write, NetworkChanges,
       Stream, Pauses, PgPromotes, OperatorPromotes, DaemonStops, DaemonStarts
  <1>6. ASSUME NEW n \in Standby, NotifyNext(n) PROVE notice'[m] \in Names(m, Promoted)
    <2>1. PICK s \in mail[n].to :
            notice' = IF Up(n, s) THEN [notice EXCEPT ![s] = mail[n].id] ELSE notice
      BY <1>6 DEF NotifyNext
    <2>2. CASE notice' = [notice EXCEPT ![s] = mail[n].id] /\ s = m
      <3>1. notice'[m] = mail[n].id
        BY <1>2, <2>2 DEF TypeOK
      <3>2. mail[n].id \in {RERUN, Primary} \cup Promoted /\ mail[n].id # m
        BY <2>1, <2>2 DEF NoticeInv, NoticeNamesPrimary, MailIsForOthers
      <3>. QED  BY <3>1, <3>2 DEF Names
    <2>3. CASE notice' = [notice EXCEPT ![s] = mail[n].id] /\ s # m
      BY <1>1, <1>2, <2>3 DEF TypeOK
    <2>. QED  BY <1>3, <2>1, <2>2, <2>3
  <1>7. ASSUME NEW n \in Standby, NEW verdict, NEW newPrimary, Settle(n, verdict, newPrimary)
        PROVE  notice' = notice \/ Forget(n)
    BY <1>7 DEF Settle
  <1>8. ASSUME NEW n \in Standby, RepmgrdStep(n), ~NotifyNext(n)
        PROVE  notice' = notice \/ Forget(n)
    <2>1. CASE Detect(n) \/ Conclude(n)
      BY <1>7, <2>1 DEF Detect, Conclude
    <2>2. CASE FollowDone(n) \/ DegradedScan(n)
      BY <2>2 DEF FollowDone, DegradedScan, Reattach
    <2>3. CASE NotifyEnds(n) \/ HeedNotice(n)
      BY <2>3 DEF NotifyEnds, HeedNotice
    <2>4. CASE Interrogate(n) \/ PromoteCheck(n) \/ PromoteCompletes(n) \/ PromoteErrs(n)
               \/ PromoteFailed(n) \/ WaitTimesOut(n) \/ FollowCheck(n) \/ FollowFails(n)
               \/ DegradedReconnects(n) \/ DegradedIsPrimary(n) \/ NoticesOwnPromotion(n)
      BY <2>4 DEF Interrogate, PromoteCheck, PromoteCompletes, PromoteErrs, PromoteFailed,
         WaitTimesOut, FollowCheck, FollowFails, DegradedReconnects, DegradedIsPrimary,
         NoticesOwnPromotion
    <2>. QED  BY <1>8, <2>1, <2>2, <2>3, <2>4 DEF RepmgrdStep
  <1>9. CASE UNCHANGED vars
    BY <1>3, <1>9 DEF vars
  <1>. QED  BY <1>3, <1>4, <1>5, <1>6, <1>8, <1>9 DEF Next

\* Whatever the network and the faults, a standby is only ever told, and only
\* ever tells others, to follow the original primary or a node that has been
\* promoted, and never to promote itself (notify_followers(),
\* notify_follow_primary()).
THEOREM NoticesAreRight == Spec => []NoticeNamesPrimary
  <1>1. Init => NoticeInv
    <2> SUFFICES ASSUME Init PROVE NoticeInv
      OBVIOUS
    <2>. QED  BY DEF Init, NoticeInv, NoticeNamesPrimary, MailIsForOthers, NoMail, Member
  <1>2. TypeOK /\ NoticeInv /\ [Next]_vars => NoticeInv'
    <2> SUFFICES ASSUME TypeOK, NoticeInv, [Next]_vars PROVE NoticeInv'
      OBVIOUS
    <2>1. Promoted \subseteq Promoted'
      BY PromotedStay
    <2>2. \A m \in Standby : notice'[m] \in Names(m, Promoted)
      BY NoticeStep
    <2>3. \A m \in Standby :
            /\ mail'[m].id \notin mail'[m].to
            /\ mail'[m].to # {} => mail'[m].id \in {RERUN, Primary} \cup Promoted
      BY MailStep
    <2>. QED  BY <2>1, <2>2, <2>3 DEF NoticeInv, NoticeNamesPrimary, MailIsForOthers, Names
  <1>. QED  BY <1>1, <1>2, TypeCorrect, PTL DEF Spec, NoticeInv
-----------------------------------------------------------------------------
\* What FollowInv says of one standby.
Follows(n) ==
  upstream[n] # Primary =>
    /\ pg[n] = "standby"
    /\ pg[upstream[n]] = "primary" /\ lsn[n] <= lsn[upstream[n]]
    /\ ~promotion[n]

Elects(n) == daemon[n] \in {"elect", "promote", "wait", "follow", "following"} => upstream[n] = Primary

LEMMA FollowInvByNode ==
  FollowInv <=> \A n \in Standby : Follows(n) /\ Elects(n)
  BY DEF FollowInv, FollowersStayFollowers, NothingPending, ElectsForPrimary, Follows, Elects

\* The servers and the network: only a standby of the original primary
\* receives its WAL or has a promotion that can still complete.
LEMMA EnvironmentKeepsFollowers ==
  ASSUME TypeOK, FollowInv, Environment, NEW m \in Standby
  PROVE  Follows(m)' /\ Elects(m)'
  <1>1. Follows(m) /\ Elects(m)
    BY FollowInvByNode
  <1>2. /\ m \in Node /\ m # Primary
        /\ upstream[m] \in Node
        /\ \A k \in Node : lsn[k] \in Int
    BY NodeAssumption, SettingAssumption DEF Node, Member, TypeOK, Candidate
  <1>3. CASE PrimaryFails
    BY <1>1, <1>2, <1>3 DEF PrimaryFails, Follows, Elects, TypeOK
  <1>4. CASE PrimaryReturns
    BY <1>1, <1>2, <1>4 DEF PrimaryReturns, Follows, Elects, TypeOK
  <1>5. CASE Write
    BY <1>1, <1>2, <1>5 DEF Write, Follows, Elects, TypeOK
  <1>6. CASE NetworkChanges
    BY <1>1, <1>6 DEF NetworkChanges, Follows, Elects
  <1>7. ASSUME NEW n \in Standby, Stream(n) PROVE Follows(m)' /\ Elects(m)'
    BY <1>1, <1>2, <1>7 DEF Stream, Follows, Elects, TypeOK
  <1>8. ASSUME NEW n \in Standby, Pauses(n) PROVE Follows(m)' /\ Elects(m)'
    BY <1>1, <1>8 DEF Pauses, Follows, Elects
  <1>9. ASSUME NEW n \in Standby, PgPromotes(n) PROVE Follows(m)' /\ Elects(m)'
    <2>1. upstream[n] = Primary
      BY <1>9, FollowInvByNode DEF PgPromotes, Follows
    <2>. QED  BY <1>1, <1>2, <1>9, <2>1 DEF PgPromotes, Follows, Elects, TypeOK
  <1>10. ASSUME NEW n \in Standby, OperatorPromotes(n) PROVE Follows(m)' /\ Elects(m)'
    BY <1>1, <1>2, <1>10 DEF OperatorPromotes, Follows, Elects, TypeOK
  <1>11. ASSUME NEW n \in Standby, DaemonStops(n) \/ DaemonStarts(n)
         PROVE  Follows(m)' /\ Elects(m)'
    <2>1. UNCHANGED <<server, upstream>>
      BY <1>11 DEF DaemonStops, DaemonStarts
    <2>2. \/ daemon'[m] = daemon[m]
          \/ daemon'[m] \in {"stopped", "dead", "leader", "monitor"}
      BY <1>11 DEF DaemonStops, DaemonStarts, Become, TypeOK
    <2>. QED  BY <1>1, <2>1, <2>2 DEF Follows, Elects
  <1>. QED
    BY <1>3, <1>4, <1>5, <1>6, <1>7, <1>8, <1>9, <1>10, <1>11, Environment DEF Environment

\* repmgrd attaches its node to another primary only while no election and no
\* promotion of that node is under way, and only a standby of the original
\* primary holds an election or requests a promotion.
LEMMA RepmgrdKeepsFollowers ==
  ASSUME TypeOK, FollowInv, NEW n \in Standby, RepmgrdStep(n), NEW m \in Standby
  PROVE  Follows(m)' /\ Elects(m)'
  <1>1. Follows(m) /\ Elects(m) /\ Follows(n) /\ Elects(n)
    BY FollowInvByNode
  <1>2. ASSUME NEW stage \in Stage, Become(n, stage), UNCHANGED <<pg, lsn, promotion, upstream>>,
               stage \in {"elect", "promote", "wait", "follow", "following"} => upstream[n] = Primary
        PROVE  Follows(m)' /\ Elects(m)'
    BY <1>1, <1>2 DEF Become, Follows, Elects, TypeOK
  <1>3. ASSUME UNCHANGED <<pg, lsn, promotion, upstream, daemon>>
        PROVE  Follows(m)' /\ Elects(m)'
    BY <1>1, <1>3 DEF Follows, Elects
  <1>4. ASSUME NEW k, Reattach(n, k), UNCHANGED <<pg, lsn>>,
               daemon'[n] \notin {"elect", "promote", "wait", "follow", "following"},
               m # n => daemon'[m] = daemon[m]
        PROVE  Follows(m)' /\ Elects(m)'
    <2>1. CASE m = n
      BY <1>4, <2>1 DEF Reattach, CanAttach, IsPrimary, Follows, Elects, TypeOK
    <2>2. CASE m # n
      BY <1>1, <1>4, <2>2 DEF Reattach, Follows, Elects, TypeOK
    <2>. QED  BY <2>1, <2>2
  <1>5. ASSUME NEW verdict, NEW newPrimary, Settle(n, verdict, newPrimary)
        PROVE  \E stage \in Stage : Become(n, stage)
    BY <1>5 DEF Settle, Stage
  <1>6. CASE Detect(n)
    <2>1. upstream[n] = Primary /\ UNCHANGED <<pg, lsn, promotion, upstream>>
      BY <1>6 DEF Detect
    <2>2. \E stage \in Stage : Become(n, stage)
      BY <1>5, <1>6 DEF Detect, Stage
    <2>. QED  BY <1>2, <2>1, <2>2
  <1>7. CASE Conclude(n)
    <2>1. upstream[n] = Primary /\ UNCHANGED <<pg, lsn, promotion, upstream>>
      BY <1>1, <1>7 DEF Conclude, Elects
    <2>2. \E stage \in Stage : Become(n, stage)
      BY <1>5, <1>7 DEF Conclude
    <2>. QED  BY <1>2, <2>1, <2>2
  <1>8. CASE PromoteCheck(n)
    <2>1. upstream[n] = Primary
      BY <1>1, <1>8 DEF PromoteCheck, Elects
    <2>2. daemon'[m] = daemon[m] \/ daemon'[m] \in {"promoting", "promote_failed"}
      BY <1>8 DEF PromoteCheck, Become, TypeOK
    <2>3. promotion'[m] = promotion[m] \/ m = n
      BY <1>8 DEF PromoteCheck, TypeOK
    <2>. QED  BY <1>1, <1>8, <2>1, <2>2, <2>3 DEF PromoteCheck, Follows, Elects
  <1>9. CASE PromoteErrs(n)
    <2>1. promotion'[m] => promotion[m]
      BY <1>9 DEF PromoteErrs, TypeOK
    <2>2. daemon'[m] = daemon[m] \/ daemon'[m] = "promote_failed"
      BY <1>9 DEF PromoteErrs, Become, TypeOK
    <2>. QED  BY <1>1, <1>9, <2>1, <2>2 DEF PromoteErrs, Follows, Elects
  <1>10. CASE FollowDone(n)
    <2>1. Become(n, "monitor") /\ Reattach(n, target[n]) /\ UNCHANGED <<pg, lsn>>
      BY <1>10 DEF FollowDone
    <2>2. daemon'[n] = "monitor" /\ (m # n => daemon'[m] = daemon[m])
      BY <2>1 DEF Become, TypeOK
    <2>. QED  BY <1>4, <2>1, <2>2
  <1>11. CASE DegradedScan(n)
    <2>1. daemon' = daemon /\ daemon[n] = "degraded" /\ UNCHANGED <<pg, lsn>>
      BY <1>11 DEF DegradedScan
    <2>2. UNCHANGED <<upstream, promotion>> \/ \E k \in Standby : Reattach(n, k)
      BY <1>11 DEF DegradedScan
    <2>. QED  BY <1>3, <1>4, <2>1, <2>2
  <1>12. CASE HeedNotice(n)
    <2>1. upstream[n] = Primary /\ UNCHANGED <<pg, lsn, promotion, upstream>>
      BY <1>1, <1>12 DEF HeedNotice, Elects
    <2>2. \E stage \in Stage : Become(n, stage)
      BY <1>12 DEF HeedNotice, Stage
    <2>. QED  BY <1>2, <2>1, <2>2
  <1>13. CASE NotifyEnds(n)
    <2>1. UNCHANGED <<pg, lsn, promotion, upstream>>
      BY <1>13 DEF NotifyEnds
    <2>2. mail[n].next \in {"monitor", "leader", "restart", "dead"}
      BY DEF TypeOK
    <2>3. \E stage \in {"monitor", "leader", "dead"} : Become(n, stage)
      BY <1>13, <2>2 DEF NotifyEnds
    <2>. QED  BY <1>2, <2>1, <2>3 DEF Stage
  <1>14. CASE Interrogate(n) \/ NotifyNext(n)
    BY <1>3, <1>14 DEF Interrogate, NotifyNext
  <1>15. CASE PromoteCompletes(n) \/ PromoteFailed(n) \/ WaitTimesOut(n)
              \/ FollowFails(n) \/ DegradedReconnects(n) \/ DegradedIsPrimary(n)
              \/ NoticesOwnPromotion(n)
    <2>1. UNCHANGED <<pg, lsn, promotion, upstream>>
      BY <1>15 DEF PromoteCompletes, PromoteFailed, WaitTimesOut, FollowFails,
         DegradedReconnects, DegradedIsPrimary, NoticesOwnPromotion
    <2>2. \E stage \in {"notify", "degraded", "monitor", "leader"} :
            Become(n, stage)
      BY <1>15 DEF PromoteCompletes, PromoteFailed, WaitTimesOut, FollowFails,
         DegradedReconnects, DegradedIsPrimary, NoticesOwnPromotion
    <2>. QED  BY <1>2, <2>1, <2>2 DEF Stage
  <1>16. CASE FollowCheck(n)
    <2>1. upstream[n] = Primary /\ UNCHANGED <<pg, lsn, promotion, upstream>>
      BY <1>1, <1>16 DEF FollowCheck, Elects
    <2>2. \E stage \in Stage : Become(n, stage)
      BY <1>16 DEF FollowCheck, Stage
    <2>. QED  BY <1>2, <2>1, <2>2
  <1>. QED
    BY RepmgrdStep(n), <1>6, <1>7, <1>8, <1>9, <1>10, <1>11, <1>12, <1>13, <1>14, <1>15,
       <1>16
    DEF RepmgrdStep

\* FollowInv is inductive.
LEMMA FollowersInvariant == Spec => []FollowInv
  <1>1. Init => FollowInv
    BY DEF Init, FollowInv, FollowersStayFollowers, NothingPending, ElectsForPrimary
  <1>2. TypeOK /\ FollowInv /\ [Next]_vars => FollowInv'
    <2> SUFFICES ASSUME TypeOK, FollowInv, [Next]_vars, NEW m \in Standby
                 PROVE  Follows(m)' /\ Elects(m)'
      BY DEF FollowInv, FollowersStayFollowers, NothingPending, ElectsForPrimary, Follows, Elects
    <2>1. CASE Environment
      BY <2>1, EnvironmentKeepsFollowers
    <2>2. ASSUME NEW n \in Standby, RepmgrdStep(n) PROVE Follows(m)' /\ Elects(m)'
      BY <2>2, RepmgrdKeepsFollowers
    <2>3. CASE UNCHANGED vars
      <3>1. Follows(m) /\ Elects(m)
        BY FollowInvByNode
      <3>. QED  BY <2>3, <3>1 DEF vars, Follows, Elects
    <2>. QED  BY <2>1, <2>2, <2>3 DEF Next
  <1>. QED  BY <1>1, <1>2, TypeCorrect, PTL DEF Spec

\* A standby that has left the failed primary (follow_new_primary(), the scan
\* of degraded monitoring) never becomes a primary itself, and its upstream
\* stays a primary that has all its WAL: whatever notices, promotions that
\* complete late and restarts of repmgrd there are.
THEOREM FollowersAreSafe == Spec => []FollowersStayFollowers
  BY FollowersInvariant, PTL DEF FollowInv
-----------------------------------------------------------------------------
(***************************************************************************)
(* In a stable network.                                                    *)
(*                                                                         *)
(* There is no vote.  What keeps two elections from having two winners is  *)
(* that both winners reach a majority, so that they reach each other; that *)
(* each has read the WAL position, priority and id of the other; and that  *)
(* these do not change once the primary is out of reach.                   *)
(***************************************************************************)

\* The node has won an election, was asked to promote itself or has done so.
Elected(n) == daemon[n] \in {"promote", "promoting"} \/ promotion[n] \/ pg[n] = "primary"

Rank(n) == [id |-> n, lsn |-> lsn[n], priority |-> Priority[n]]
Rivals(n) == {s \in Standby \cap reach[n] : Priority[s] > 0}

\* It has lost the primary, reaches a majority and nobody there outranks it.
Leads(n) ==
  /\ Priority[n] > 0
  /\ ~Up(n, Primary)
  /\ 2 * Cardinality(reach[n] \cap Member) > Cardinality(Member)
  /\ \A s \in Rivals(n) : ~Outranks(Rank(s), Rank(n))

\* What do_election() has found out so far is true still.
TallyIsRight(n) ==
  LET t == tally[n] IN
  /\ Priority[n] > 0
  /\ ~Up(n, Primary)
  /\ t.own = lsn[n]
  /\ t.visible \subseteq reach[n]
  /\ t.candidate.id \in t.visible /\ t.candidate = Rank(t.candidate.id)
  /\ ~Outranks(Rank(n), t.candidate)
  /\ t.newPrimary = UNKNOWN_NODE_ID =>
       \A s \in Rivals(n) \ (todo[n] \cup {n}) : ~Outranks(Rank(s), t.candidate)

\* What is true of each standby.
Sound(n) ==
  /\ pg[n] # "down" /\ daemon[n] # "stopped"
  /\ Elected(n) => Leads(n)
  /\ daemon[n] = "elect" => TallyIsRight(n)

PromotionInv == \A n \in Standby : Sound(n)
-----------------------------------------------------------------------------
(***************************************************************************)
(* The order of the candidates, and majorities.                            *)
(***************************************************************************)

Ranks == [id : Nat, lsn : Nat, priority : Nat]

\* The comparison at the end of the loop of do_election() is a strict total
\* order of the candidates, so that the outcome does not depend on the order
\* in which they are interrogated.
LEMMA OutranksIsAnOrder ==
  ASSUME NEW a \in Ranks, NEW b \in Ranks, NEW c \in Ranks
  PROVE  /\ ~Outranks(a, a)
         /\ ~Outranks(a, b) /\ Outranks(c, b) => ~Outranks(a, c)
         /\ ~Outranks(a, b) /\ ~Outranks(b, a) => a.id = b.id
         /\ ~Outranks(a, b) => a.lsn <= b.lsn
  BY DEF Ranks, Outranks

LEMMA RankType == ASSUME TypeOK PROVE \A n \in Standby : Rank(n) \in Ranks
  BY NodeAssumption, SettingAssumption DEF TypeOK, Rank, Ranks, Node, Member

\* Two sets that hold more than half of the members each have one in common.
LEMMA MajoritiesMeet ==
  ASSUME NEW A \in SUBSET Member, 2 * Cardinality(A) > Cardinality(Member),
         NEW B \in SUBSET Member, 2 * Cardinality(B) > Cardinality(Member)
  PROVE  A \cap B # {}
  <1>1. /\ IsFiniteSet(Member) /\ IsFiniteSet(A) /\ IsFiniteSet(B)
        /\ IsFiniteSet(A \cup B) /\ Cardinality(A \cup B) <= Cardinality(Member)
    <2>1. A \cup B \in SUBSET Member
      OBVIOUS
    <2>. QED  BY <2>1, FS_Subset, NodeAssumption
  <1>2. Cardinality(A \cup B) = Cardinality(A) + Cardinality(B) - Cardinality(A \cap B)
    BY <1>1, FS_Union
  <1>3. /\ Cardinality(A) \in Nat /\ Cardinality(B) \in Nat
        /\ Cardinality(Member) \in Nat /\ Cardinality(A \cup B) \in Nat
    BY <1>1, FS_CardinalityType
  <1>4. A \cap B = {} => Cardinality(A \cap B) = 0
    BY FS_EmptySet
  <1>. QED  BY <1>1, <1>2, <1>3, <1>4

\* Two standbys that reach a majority each reach one another.
LEMMA MajoritiesAreOne ==
  ASSUME TypeOK, Stable, NEW a \in Standby, NEW b \in Standby,
         2 * Cardinality(reach[a] \cap Member) > Cardinality(Member),
         2 * Cardinality(reach[b] \cap Member) > Cardinality(Member)
  PROVE  reach[a] = reach[b] /\ a \in reach[b] /\ b \in reach[a]
  <1>1. PICK m \in Member : m \in reach[a] /\ m \in reach[b]
    BY MajoritiesMeet
  <1>2. /\ a \in Node /\ b \in Node /\ m \in Node /\ reach \in Topologies
        /\ a \in reach[a] /\ b \in reach[b]
    BY EnvironmentAssumption DEF Node, Member, TypeOK
  <1>. QED  BY <1>1, <1>2 DEF Stable
-----------------------------------------------------------------------------
(***************************************************************************)
(* What a step leaves alone.                                               *)
(***************************************************************************)

\* None of the faults happens that Stable excludes.
LEMMA NoSuchFault ==
  ASSUME TypeOK, Stable, NEW fault \in {"net", "return", "daemon", "operator"}
  PROVE  ~Spend(fault)
  <1>1. spent[fault] \in Nat /\ Budget[fault] = 0
    BY DEF TypeOK, Stable, Fault
  <1>. QED  BY <1>1 DEF Spend

\* Only the primary writes WAL, and only a standby that reaches it receives any.
LEMMA WalStep ==
  ASSUME TypeOK, [Next]_vars, NEW s \in Standby, ~Up(s, Primary)
  PROVE  lsn'[s] = lsn[s]
  <1>1. s # Primary /\ s \in Node
    BY NodeAssumption DEF Node, Member
  <1>2. CASE Environment
    <2>1. CASE Write
      BY <1>1, <2>1 DEF Write, TypeOK
    <2>2. ASSUME NEW n \in Standby, Stream(n) PROVE lsn'[s] = lsn[s]
      BY <1>1, <2>2 DEF Stream, TypeOK
    <2>3. CASE lsn' = lsn
      BY <2>3
    <2>. QED
      BY <1>2, <2>1, <2>2, <2>3 DEF Environment, PrimaryFails, PrimaryReturns, NetworkChanges,
         Pauses, PgPromotes, OperatorPromotes, DaemonStops, DaemonStarts
  <1>3. ASSUME NEW n \in Standby, RepmgrdStep(n) PROVE lsn' = lsn
    BY <1>3 DEF RepmgrdStep, Detect, Interrogate, Conclude, PromoteCheck, PromoteCompletes,
       PromoteErrs, PromoteFailed, NotifyNext, NotifyEnds, HeedNotice, WaitTimesOut, FollowCheck,
       FollowDone, FollowFails, DegradedReconnects, DegradedIsPrimary, NoticesOwnPromotion,
       DegradedScan
  <1>4. CASE UNCHANGED vars
    BY <1>4 DEF vars
  <1>. QED  BY <1>2, <1>3, <1>4 DEF Next

\* The network stays, and the primary does not come back.
LEMMA ReachStep ==
  ASSUME TypeOK, Stable, [Next]_vars
  PROVE  /\ reach' = reach
         /\ pg'[Primary] # "down" => pg[Primary] # "down"
  <1>1. \A n \in Standby : n # Primary
    BY NodeAssumption DEF Member
  <1>2. ~Spend("net") /\ ~Spend("return") /\ ~Spend("operator")
    BY NoSuchFault
  <1>3. CASE Environment
    <2>1. reach' = reach
      BY <1>2, <1>3 DEF Environment, PrimaryFails, PrimaryReturns, Write, NetworkChanges,
         Stream, Pauses, PgPromotes, OperatorPromotes, DaemonStops, DaemonStarts
    <2>2. CASE PrimaryFails
      BY <2>1, <2>2 DEF PrimaryFails
    <2>3. ASSUME NEW n \in Standby, PgPromotes(n) PROVE pg'[Primary] = pg[Primary]
      BY <1>1, <2>3 DEF PgPromotes, TypeOK
    <2>4. \/ PrimaryFails \/ pg' = pg \/ \E n \in Standby : PgPromotes(n)
      BY <1>2, <1>3 DEF Environment, PrimaryReturns, Write, NetworkChanges,
         Stream, Pauses, OperatorPromotes, DaemonStops, DaemonStarts
    <2>. QED  BY <2>1, <2>2, <2>3, <2>4
  <1>4. ASSUME NEW n \in Standby, RepmgrdStep(n) PROVE pg' = pg /\ reach' = reach
    BY <1>4 DEF RepmgrdStep, Detect, Interrogate, Conclude, PromoteCheck, PromoteCompletes,
       PromoteErrs, PromoteFailed, NotifyNext, NotifyEnds, HeedNotice, WaitTimesOut, FollowCheck,
       FollowDone, FollowFails, DegradedReconnects, DegradedIsPrimary, NoticesOwnPromotion,
       DegradedScan
  <1>5. CASE UNCHANGED vars
    BY <1>5 DEF vars
  <1>. QED  BY <1>3, <1>4, <1>5 DEF Next

\* Once a standby has lost the primary, so have those it reaches: what their
\* elections compare does not change any more.
LEMMA LostStep ==
  ASSUME TypeOK, Stable, [Next]_vars, NEW n \in Standby, ~Up(n, Primary)
  PROVE  /\ ~Up(n, Primary)'
         /\ reach'[n] = reach[n]
         /\ \A s \in Standby \cap reach[n] : Rank(s)' = Rank(s)
  <1>1. reach' = reach /\ (pg'[Primary] # "down" => pg[Primary] # "down")
    BY ReachStep
  <1>2. ~Up(n, Primary)'
    BY <1>1 DEF Up
  <1>3. ASSUME NEW s \in Standby, s \in reach[n] PROVE Rank(s)' = Rank(s)
    <2>1. reach[s] = reach[n]
      BY <1>3 DEF Stable, TypeOK, Node, Member
    <2>2. ~Up(s, Primary)
      BY <2>1 DEF Up
    <2>3. lsn'[s] = lsn[s]
      BY <2>2, WalStep
    <2>. QED  BY <2>3 DEF Rank
  <1>. QED  BY <1>1, <1>2, <1>3

LEMMA SelfInReach == ASSUME TypeOK PROVE \A n \in Node : n \in reach[n]
  BY EnvironmentAssumption DEF TypeOK

LEMMA LeadsStep ==
  ASSUME TypeOK, Stable, [Next]_vars, NEW n \in Standby, Leads(n)
  PROVE  Leads(n)'
  <1>1. /\ ~Up(n, Primary)' /\ reach'[n] = reach[n]
        /\ \A s \in Standby \cap reach[n] : Rank(s)' = Rank(s)
    BY LostStep DEF Leads
  <1>2. Rivals(n)' = Rivals(n) /\ Rank(n)' = Rank(n)
    <2>1. n \in reach[n]
      BY SelfInReach DEF Node, Member
    <2>. QED  BY <1>1, <2>1 DEF Rivals
  <1>3. \A s \in Rivals(n) : Rank(s)' = Rank(s) /\ ~Outranks(Rank(s), Rank(n))
    BY <1>1 DEF Rivals, Leads
  <1>4. \A s \in Rivals(n)' : ~Outranks(Rank(s)', Rank(n)')
    BY <1>2, <1>3
  <1>. QED  BY <1>1, <1>4 DEF Leads

LEMMA TallyStep ==
  ASSUME TypeOK, Stable, [Next]_vars, NEW n \in Standby, TallyIsRight(n),
         tally'[n] = tally[n], todo'[n] = todo[n]
  PROVE  TallyIsRight(n)'
  <1> DEFINE c == tally[n].candidate
  <1>1. /\ ~Up(n, Primary)' /\ reach'[n] = reach[n]
        /\ \A s \in Standby \cap reach[n] : Rank(s)' = Rank(s)
    BY LostStep DEF TallyIsRight
  <1>2. n \in reach[n] /\ c.id \in Standby /\ c.id \in reach[n]
    BY SelfInReach DEF TypeOK, Tallies, TallyIsRight, Node, Member
  <1>3. Rank(n)' = Rank(n) /\ Rank(c.id)' = Rank(c.id) /\ lsn'[n] = lsn[n]
    <2>1. Rank(n)' = Rank(n) /\ Rank(c.id)' = Rank(c.id)
      BY <1>1, <1>2
    <2>. QED  BY <2>1 DEF Rank
  <1>4. Rivals(n)' = Rivals(n)
    BY <1>1 DEF Rivals
  <1>5. \A s \in Rivals(n) : Rank(s)' = Rank(s)
    BY <1>1 DEF Rivals
  <1>6. tally[n].newPrimary = UNKNOWN_NODE_ID =>
          \A s \in Rivals(n)' \ (todo'[n] \cup {n}) : ~Outranks(Rank(s)', c)
    BY <1>4, <1>5 DEF TallyIsRight
  <1>. QED  BY <1>1, <1>3, <1>6 DEF TallyIsRight
-----------------------------------------------------------------------------
(***************************************************************************)
(* The election.                                                           *)
(***************************************************************************)

\* A standby without priority holds no election, and only one without siblings
\* wins without interrogating them.
LEMMA PreludeCases ==
  ASSUME TypeOK, NEW n \in Standby
  PROVE  LET early == Prelude(Self(n), Siblings(n), Location[Primary]) IN
         /\ early \in {"continue", "alone"} => Priority[n] > 0
         /\ early = "alone" => Siblings(n) = {}
         /\ early # "won"
  <1> DEFINE early == Prelude(Self(n), Siblings(n), Location[Primary])
  <1>1. /\ Self(n).termKnown = TRUE /\ Self(n).priority = Priority[n]
        /\ Self(n).info = TRUE /\ Self(n).resumable = TRUE
        /\ Priority[n] \in Nat
    BY SettingAssumption DEF Self
  <1>2. CASE Self(n).manual
    BY <1>1, <1>2 DEF Prelude
  <1>3. CASE ~Self(n).manual /\ Priority[n] <= 0
    BY <1>1, <1>3 DEF Prelude
  <1>4. CASE ~Self(n).manual /\ Priority[n] > 0 /\ Siblings(n) = {}
    BY <1>1, <1>4 DEF Prelude
  <1>5. CASE ~Self(n).manual /\ Priority[n] > 0 /\ Siblings(n) # {}
    BY <1>1, <1>5 DEF Prelude
  <1>. QED  BY <1>1, <1>2, <1>3, <1>4, <1>5

\* What a standby has when it enters the loop of do_election().
LEMMA ElectionBegins ==
  ASSUME TypeOK, Stable, [Next]_vars, NEW n \in Standby, Detect(n), daemon'[n] = "elect"
  PROVE  TallyIsRight(n)'
  <1>1. /\ ~Up(n, Primary) /\ UNCHANGED server
        /\ Priority[n] > 0
        /\ tally'[n] = EmptyTally(Self(n), Location[Primary])
        /\ todo'[n] = Siblings(n)
    <2>1. upstream[n] = Primary /\ ~UpstreamAnswers(n) /\ UNCHANGED server
      BY DEF Detect
    <2>2. ~Up(n, Primary)
      BY <2>1 DEF UpstreamAnswers
    <2>3. ASSUME NEW verdict, NEW newPrimary, Settle(n, verdict, newPrimary) PROVE FALSE
      BY <2>3 DEF Settle, Become, TypeOK
    <2>4. /\ tally' = [tally EXCEPT ![n] = EmptyTally(Self(n), Location[Primary])]
          /\ todo' = [todo EXCEPT ![n] = Siblings(n)]
          /\ Prelude(Self(n), Siblings(n), Location[Primary]) = "continue"
      BY <2>3 DEF Detect, Become, TypeOK
    <2>. QED  BY <2>1, <2>2, <2>4, PreludeCases DEF TypeOK
  <1>2. /\ tally'[n].own = lsn[n] /\ tally'[n].visible = {n} /\ tally'[n].candidate = Rank(n)
    BY <1>1 DEF EmptyTally, Self, Standing, Rank
  <1>3. ~Outranks(Rank(n), Rank(n))
    BY RankType, OutranksIsAnOrder
  <1>4. Rivals(n) \ (Siblings(n) \cup {n}) = {}
    BY DEF Rivals, Siblings, Member
  <1>5. n \in reach[n] /\ Rank(n).id = n
    BY SelfInReach DEF Node, Member, Rank
  <1>. QED  BY <1>1, <1>2, <1>3, <1>4, <1>5 DEF TallyIsRight, Rank, Rivals, Up

\* A sibling that is a primary already ends the election: it outranks this node.
LEMMA PromotedCanBeFollowed ==
  ASSUME TypeOK, Stable, NEW n \in Standby, Priority[n] > 0,
         NEW s \in Standby, s \in reach[n], Leads(s)
  PROVE  lsn[n] <= lsn[s]
  <1>1. n \in reach[s]
    <2>1. reach[s] = reach[n] /\ n \in reach[n]
      BY SelfInReach DEF Stable, TypeOK, Node, Member
    <2>. QED  BY <2>1
  <1>2. ~Outranks(Rank(n), Rank(s))
    BY <1>1 DEF Leads, Rivals
  <1>. QED  BY <1>2, RankType, OutranksIsAnOrder DEF Rank

\* After one more sibling was interrogated, what is known is true still.
LEMMA ElectionGoesOn ==
  ASSUME TypeOK, Stable, PromotionInv, [Next]_vars, NEW n \in Standby, Interrogate(n)
  PROVE  TallyIsRight(n)'
  <1>0. PICK s \in todo[n] : \E seen \in LastSeen(s) :
          LET after == Examine(tally[n], Report(n, s, seen), Location[Primary])
          IN /\ tally' = [tally EXCEPT ![n] = after]
             /\ todo' = [todo EXCEPT ![n] =
                  IF after.newPrimary # UNKNOWN_NODE_ID THEN {} ELSE @ \ {s}]
    BY DEF Interrogate
  <1>1. PICK seen \in LastSeen(s) :
          LET after == Examine(tally[n], Report(n, s, seen), Location[Primary])
          IN /\ tally' = [tally EXCEPT ![n] = after]
             /\ todo' = [todo EXCEPT ![n] =
                  IF after.newPrimary # UNKNOWN_NODE_ID THEN {} ELSE @ \ {s}]
    BY <1>0
  <1> DEFINE t == tally[n]
             r == Report(n, s, seen)
             after == Examine(t, r, Location[Primary])
  <1>2. /\ tally'[n] = after
        /\ todo'[n] = IF after.newPrimary # UNKNOWN_NODE_ID THEN {} ELSE todo[n] \ {s}
        /\ UNCHANGED server
    BY <1>1 DEF Interrogate, TypeOK
  <1>3. TallyIsRight(n)
    BY DEF Interrogate, PromotionInv, Sound
  <1>4. /\ t.candidate.id \in Standby /\ t.candidate \in Ranks
        /\ s \in Member /\ n \in Node /\ n \in reach[n]
    <2>1. t.candidate.id \in Standby /\ s \in Member /\ n \in Node
      BY DEF TypeOK, Tallies, Node, Member
    <2>. QED  BY <1>3, <2>1, RankType, SelfInReach DEF TallyIsRight
  <1>5. after.own = t.own /\ after.visible \subseteq reach[n] /\ t.visible \subseteq after.visible
    BY <1>3 DEF Examine, TallyIsRight, Report, Up
  <1>6. CASE s \notin Standby \/ s \notin reach[n]
    <2>1. ~Contends(r) /\ ~(Answers(r) /\ ~r.recovery /\ r.canFollow)
      <3>1. CASE s \notin Standby
        BY <1>4, <3>1 DEF Report, Contends, Type, Member
      <3>2. CASE s \notin reach[n]
        BY <3>2 DEF Report, Contends, Answers, Up
      <3>. QED  BY <1>6, <3>1, <3>2
    <2>2. after.candidate = t.candidate /\ after.newPrimary = t.newPrimary
      BY <2>1 DEF Examine
    <2>3. s \notin Rivals(n)
      BY <1>6 DEF Rivals
    <2>4. after.newPrimary = UNKNOWN_NODE_ID =>
            \A k \in Rivals(n) \ (todo'[n] \cup {n}) : ~Outranks(Rank(k), after.candidate)
      BY <1>2, <1>3, <2>2, <2>3 DEF TallyIsRight
    <2>. QED  BY <1>2, <1>3, <1>5, <2>2, <2>4 DEF TallyIsRight, Rank, Rivals, Up
  <1>7. CASE s \in Standby /\ s \in reach[n] /\ pg[s] = "primary"
    <2>1. Leads(s)
      BY <1>7 DEF PromotionInv, Sound, Elected
    <2>2. lsn[n] <= lsn[s]
      BY <1>3, <1>7, <2>1, PromotedCanBeFollowed DEF TallyIsRight
    <2>3. Answers(r) /\ ~r.recovery /\ r.canFollow /\ r.id = s
      BY <1>3, <1>7, <2>2 DEF PromotionInv, Sound, Report, Answers, Up, TallyIsRight
    <2>4. after.newPrimary = s /\ after.candidate = t.candidate
      BY <2>3 DEF Examine, Contends
    <2>5. s # UNKNOWN_NODE_ID
      BY <1>4, NoNodeIsNegative DEF Node
    <2>. QED  BY <1>2, <1>3, <1>5, <2>4, <2>5 DEF TallyIsRight, Rank, Up
  <1>8. CASE s \in Standby /\ s \in reach[n] /\ pg[s] # "primary"
    <2>1. /\ pg[s] = "standby"
          /\ r.id = s /\ r.lsn = lsn[s] /\ r.priority = Priority[s]
          /\ r.conn /\ r.recovery /\ Answers(r) /\ r.type # "witness"
      <3>1. pg[s] = "standby" /\ daemon[s] # "stopped" /\ s \notin Witness
        BY <1>8, NodeAssumption DEF PromotionInv, Sound, TypeOK, Node, Member
      <3>. QED  BY <1>8, <3>1 DEF Report, Answers, Up, Type
    <2>2. Standing(r) = Rank(s) /\ (Outranks(r, t.candidate) <=> Outranks(Rank(s), t.candidate))
      BY <2>1 DEF Standing, Rank, Outranks
    <2>3. after.newPrimary = t.newPrimary /\ s \in after.visible
      BY <2>1 DEF Examine
    <2>4. CASE Priority[s] > 0 /\ Outranks(Rank(s), t.candidate)
      <3>1. after.candidate = Rank(s)
        BY <2>1, <2>2, <2>4 DEF Examine, Contends
      <3>2. ASSUME NEW k \in Standby, ~Outranks(Rank(k), t.candidate)
            PROVE  ~Outranks(Rank(k), Rank(s))
        BY <1>4, <1>8, <2>4, <3>2, RankType, OutranksIsAnOrder
      <3>3. ~Outranks(Rank(s), Rank(s))
        BY <1>8, RankType, OutranksIsAnOrder
      <3>4. ~Outranks(Rank(n), Rank(s))
        BY <1>3, <3>2 DEF TallyIsRight
      <3>5. after.newPrimary = UNKNOWN_NODE_ID =>
              \A k \in Rivals(n) \ (todo'[n] \cup {n}) : ~Outranks(Rank(k), Rank(s))
        BY <1>2, <1>3, <2>3, <3>2, <3>3 DEF TallyIsRight, Rivals
      <3>6. Rank(s).id = s
        BY DEF Rank
      <3>. QED
        BY <1>2, <1>3, <1>5, <2>3, <3>1, <3>4, <3>5, <3>6 DEF TallyIsRight, Rank, Rivals, Up
    <2>5. CASE ~(Priority[s] > 0 /\ Outranks(Rank(s), t.candidate))
      <3>1. after.candidate = t.candidate
        BY <2>1, <2>2, <2>5 DEF Examine, Contends
      <3>2. after.newPrimary = UNKNOWN_NODE_ID =>
              \A k \in Rivals(n) \ (todo'[n] \cup {n}) : ~Outranks(Rank(k), t.candidate)
        BY <1>2, <1>3, <2>3, <2>5 DEF TallyIsRight, Rivals
      <3>. QED  BY <1>2, <1>3, <1>5, <2>3, <3>1, <3>2 DEF TallyIsRight, Rank, Rivals, Up
    <2>. QED  BY <2>4, <2>5
  <1>. QED  BY <1>6, <1>7, <1>8

\* An election is won with a majority in reach and nobody there ahead, on what
\* has been found out before; or there are no siblings at all.
Wins(n) ==
  \/ /\ Prelude(Self(n), Siblings(n), Location[Primary]) = "alone"
     /\ Detect(n)
  \/ /\ daemon[n] = "elect" /\ todo[n] = {}
     /\ tally[n].newPrimary = UNKNOWN_NODE_ID
     /\ tally[n].candidate.id = n
     /\ ~NoMajority(tally[n], Cardinality(Member))

LEMMA WinnerLeads ==
  ASSUME TypeOK, Stable, NEW n \in Standby, Wins(n),
         daemon[n] = "elect" => TallyIsRight(n)
  PROVE  Leads(n)
  <1>1. n \in Member /\ n \in Node /\ n \in reach[n] /\ IsFiniteSet(Member)
    BY SelfInReach, NodeAssumption DEF Member, Node
  <1>2. ~Outranks(Rank(n), Rank(n))
    BY RankType, OutranksIsAnOrder
  <1>3. CASE Detect(n) /\ Prelude(Self(n), Siblings(n), Location[Primary]) = "alone"
    <2>1. Priority[n] > 0 /\ Siblings(n) = {}
      BY <1>3, PreludeCases
    <2>2. Member = {n} /\ reach[n] \cap Member = {n}
      BY <1>1, <2>1 DEF Siblings
    <2>3. Cardinality({n}) = 1
      BY FS_Singleton
    <2>4. 2 * Cardinality(reach[n] \cap Member) > Cardinality(Member)
      BY <2>2, <2>3
    <2>5. ~Up(n, Primary)
      BY <1>3 DEF Detect, UpstreamAnswers
    <2>6. \A s \in Rivals(n) : s = n
      BY <2>2 DEF Rivals, Member
    <2>. QED  BY <1>2, <2>1, <2>4, <2>5, <2>6 DEF Leads
  <1>4. CASE daemon[n] = "elect" /\ Wins(n) /\ ~Detect(n)
    <2>1. TallyIsRight(n) /\ todo[n] = {} /\ tally[n].newPrimary = UNKNOWN_NODE_ID
      BY <1>4 DEF Wins
    <2>2. tally[n].candidate = Rank(n)
      BY <1>4, <2>1 DEF Wins, TallyIsRight
    <2>3. \A s \in Rivals(n) : ~Outranks(Rank(s), Rank(n))
      BY <1>2, <2>1, <2>2 DEF TallyIsRight
    <2>4. 2 * Cardinality(reach[n] \cap Member) > Cardinality(Member)
      <3>1. tally[n].visible \in SUBSET (reach[n] \cap Member)
        BY <2>1 DEF TallyIsRight, TypeOK, Tallies
      <3>2. IsFiniteSet(reach[n] \cap Member)
        BY <1>1, FS_Subset
      <3>3. /\ Cardinality(tally[n].visible) <= Cardinality(reach[n] \cap Member)
            /\ IsFiniteSet(tally[n].visible)
        BY <3>1, <3>2, FS_Subset
      <3>4. /\ Cardinality(tally[n].visible) \in Nat /\ Cardinality(Member) \in Nat
            /\ Cardinality(reach[n] \cap Member) \in Nat
        BY <1>1, <3>2, <3>3, FS_CardinalityType
      <3>5. ~(2 * Cardinality(tally[n].visible) <= Cardinality(Member))
        BY <1>4 DEF Wins, NoMajority, Detect
      <3>. QED  BY <3>3, <3>4, <3>5
    <2>. QED  BY <2>1, <2>3, <2>4 DEF Leads, TallyIsRight
  <1>. QED  BY <1>3, <1>4 DEF Wins, Detect

\* A standby is elected by nothing else: no notice names the node itself.
LEMMA ElectedStep ==
  ASSUME TypeOK, Stable, NoticeNamesPrimary, [Next]_vars, NEW n \in Standby, Elected(n)'
  PROVE  Elected(n) \/ Wins(n)
  <1>0. ~Spend("operator") /\ ~Spend("return") /\ n # Primary /\ n \in Node
    BY NoSuchFault, NodeAssumption DEF Member, Node
  <1>1. CASE Environment
    <2>1. ASSUME NEW k \in Standby, PgPromotes(k) PROVE Elected(n)
      BY <2>1 DEF PgPromotes, Elected, TypeOK
    <2>2. ASSUME NEW k \in Standby, DaemonStops(k) \/ DaemonStarts(k) PROVE Elected(n)
      BY <2>2 DEF DaemonStops, DaemonStarts, Become, Elected, TypeOK
    <2>3. CASE PrimaryFails
      BY <1>0, <2>3 DEF PrimaryFails, Elected, TypeOK
    <2>. QED
      BY <1>0, <1>1, <2>1, <2>2, <2>3 DEF Environment, PrimaryReturns, Write, NetworkChanges,
         Stream, Pauses, OperatorPromotes, Elected
  <1>2. ASSUME NEW k \in Standby, RepmgrdStep(k) PROVE Elected(n) \/ Wins(n)
    <2>1. ASSUME pg' = pg, promotion' = promotion, NEW stage, Become(k, stage),
                 stage \notin {"promote", "promoting"}
          PROVE  Elected(n)
      BY <2>1 DEF Become, Elected, TypeOK
    <2>2. ASSUME NEW verdict, NEW newPrimary, Settle(k, verdict, newPrimary), verdict # "won"
          PROVE  \E stage : Become(k, stage) /\ stage \notin {"promote", "promoting"}
      BY <2>2 DEF Settle
    <2>3. ASSUME pg' = pg, promotion' = promotion, k # n, NEW stage, Become(k, stage)
          PROVE  Elected(n)
      BY <2>3 DEF Become, Elected, TypeOK
    <2>4. ASSUME NEW verdict, NEW newPrimary, Settle(k, verdict, newPrimary)
          PROVE  \E stage : Become(k, stage)
      BY <2>4 DEF Settle
    <2>5. CASE Detect(k)
      <3>1. pg' = pg /\ promotion' = promotion
        BY <2>5 DEF Detect
      <3>2. CASE k # n
        BY <2>3, <2>4, <2>5, <3>1, <3>2 DEF Detect
      <3>3. CASE k = n /\ Prelude(Self(n), Siblings(n), Location[Primary]) = "alone"
        BY <2>5, <3>3 DEF Wins
      <3>4. CASE k = n /\ Prelude(Self(n), Siblings(n), Location[Primary]) # "alone"
        <4>1. \/ Become(k, "degraded") \/ Become(k, "elect")
              \/ Settle(k, Prelude(Self(k), Siblings(k), Location[Primary]), UNKNOWN_NODE_ID)
          BY <2>5, <3>4 DEF Detect
        <4>. QED  BY <2>1, <2>2, <3>1, <3>4, <4>1, PreludeCases
      <3>. QED  BY <3>2, <3>3, <3>4
    <2>6. CASE Conclude(k)
      <3>1. pg' = pg /\ promotion' = promotion
        BY <2>6 DEF Conclude
      <3>2. PICK verdict \in Verdicts(tally[k], Self(k), Cardinality(Member), Consensus,
                                      ValidationCommand) :
              Settle(k, verdict, tally[k].newPrimary)
        BY <2>6 DEF Conclude
      <3>3. CASE k # n
        BY <2>3, <2>4, <3>1, <3>2, <3>3
      <3>4. CASE verdict # "won"
        BY <2>1, <2>2, <3>1, <3>2, <3>4
      <3>5. CASE k = n /\ verdict = "won"
        BY <2>6, <3>2, <3>5 DEF Verdicts, CalledOff, Wins, Conclude, Self
      <3>. QED  BY <3>3, <3>4, <3>5
    <2>7. CASE PromoteCheck(k)
      BY <2>7 DEF PromoteCheck, Become, Elected, TypeOK
    <2>8. CASE PromoteErrs(k)
      BY <2>8 DEF PromoteErrs, Become, Elected, TypeOK
    <2>9. CASE FollowDone(k)
      BY <2>9 DEF FollowDone, Reattach, Become, Elected, TypeOK
    <2>10. CASE DegradedScan(k)
      BY <2>10 DEF DegradedScan, Reattach, Elected, TypeOK
    <2>11. CASE HeedNotice(k)
      <3>1. notice[k] # k
        BY NoNodeIsNegative, NodeAssumption DEF NoticeNamesPrimary, Node, Member
      <3>2. /\ pg' = pg /\ promotion' = promotion
            /\ \E stage \in {"monitor", "degraded", "follow"} : Become(k, stage)
        BY <2>11, <3>1 DEF HeedNotice
      <3>. QED  BY <2>1, <3>2
    <2>12. CASE NotifyEnds(k)
      <3>1. mail[k].next \in {"monitor", "leader", "restart", "dead"}
        BY DEF TypeOK
      <3>2. /\ pg' = pg /\ promotion' = promotion
            /\ \E stage \in {"monitor", "leader", "dead"} : Become(k, stage)
        BY <2>12, <3>1 DEF NotifyEnds
      <3>. QED  BY <2>1, <3>2
    <2>13. CASE Interrogate(k) \/ NotifyNext(k)
      BY <2>13 DEF Interrogate, NotifyNext, Elected
    <2>14. CASE PromoteCompletes(k) \/ PromoteFailed(k) \/ WaitTimesOut(k) \/ FollowCheck(k)
                \/ FollowFails(k) \/ DegradedReconnects(k) \/ DegradedIsPrimary(k)
                \/ NoticesOwnPromotion(k)
      <3>1. /\ pg' = pg /\ promotion' = promotion
            /\ \E stage \in {"notify", "degraded", "following", "monitor", "leader"} :
                 Become(k, stage)
        BY <2>14 DEF PromoteCompletes, PromoteFailed, WaitTimesOut, FollowCheck, FollowFails,
           DegradedReconnects, DegradedIsPrimary, NoticesOwnPromotion
      <3>. QED  BY <2>1, <3>1
    <2>. QED
      BY <1>2, <2>5, <2>6, <2>7, <2>8, <2>9, <2>10, <2>11, <2>12, <2>13, <2>14 DEF RepmgrdStep
  <1>3. CASE UNCHANGED vars
    BY <1>3 DEF vars, Elected
  <1>. QED  BY <1>1, <1>2, <1>3 DEF Next

\* Only the standby itself writes the locals of its election.
LEMMA ElectingStep ==
  ASSUME TypeOK, [Next]_vars, NEW n \in Standby, daemon'[n] = "elect"
  PROVE  \/ Detect(n) \/ Interrogate(n)
         \/ daemon[n] = "elect" /\ tally'[n] = tally[n] /\ todo'[n] = todo[n]
  <1>1. CASE Environment
    <2>1. ASSUME NEW k \in Standby, DaemonStops(k) \/ DaemonStarts(k)
          PROVE  daemon[n] = "elect" /\ tally'[n] = tally[n] /\ todo'[n] = todo[n]
      <3>1. k # n
        BY <2>1 DEF DaemonStops, DaemonStarts, Become, TypeOK
      <3>. QED  BY <2>1, <3>1 DEF DaemonStops, DaemonStarts, Blank, Become, TypeOK
    <2>. QED
      BY <1>1, <2>1 DEF Environment, PrimaryFails, PrimaryReturns, Write, NetworkChanges,
         Stream, Pauses, PgPromotes, OperatorPromotes
  <1>2. ASSUME NEW k \in Standby, RepmgrdStep(k)
        PROVE  \/ Detect(n) \/ Interrogate(n)
               \/ daemon[n] = "elect" /\ tally'[n] = tally[n] /\ todo'[n] = todo[n]
    <2>1. ASSUME NEW stage, Become(k, stage), stage # "elect" \/ k # n
          PROVE  daemon[n] = "elect" /\ k # n
      BY <2>1 DEF Become, TypeOK
    <2>2. ASSUME NEW verdict, NEW newPrimary, Settle(k, verdict, newPrimary)
          PROVE  daemon[n] = "elect" /\ k # n
      <3>1. \E stage : Become(k, stage) /\ stage # "elect"
        BY <2>2 DEF Settle
      <3>. QED  BY <2>1, <3>1
    <2>3. CASE Detect(k)
      <3>1. CASE k = n
        BY <2>3, <3>1
      <3>2. CASE k # n
        <4>1. daemon[n] = "elect"
          BY <2>1, <2>2, <2>3, <3>2 DEF Detect
        <4>2. tally'[n] = tally[n] /\ todo'[n] = todo[n]
          BY <2>3, <3>2 DEF Detect, TypeOK
        <4>. QED  BY <4>1, <4>2
      <3>. QED  BY <3>1, <3>2
    <2>4. CASE Interrogate(k)
      <3>1. CASE k = n
        BY <2>4, <3>1
      <3>2. CASE k # n
        BY <2>4, <3>2 DEF Interrogate, TypeOK
      <3>. QED  BY <3>1, <3>2
    <2>5. CASE Conclude(k)
      <3>1. daemon[n] = "elect" /\ k # n
        BY <2>2, <2>5 DEF Conclude
      <3>. QED  BY <2>5, <3>1 DEF Conclude, TypeOK
    <2>6. CASE HeedNotice(k)
      <3>1. \E stage \in {"monitor", "promote", "degraded", "follow"} : Become(k, stage)
        BY <2>6 DEF HeedNotice
      <3>. QED  BY <2>1, <2>6, <3>1 DEF HeedNotice
    <2>7. CASE NotifyEnds(k)
      <3>1. mail[k].next \in {"monitor", "leader", "restart", "dead"}
        BY DEF TypeOK
      <3>2. \E stage \in {"monitor", "leader", "dead"} : Become(k, stage)
        BY <2>7, <3>1 DEF NotifyEnds
      <3>. QED  BY <2>1, <2>7, <3>2 DEF NotifyEnds
    <2>8. CASE NotifyNext(k) \/ DegradedScan(k)
      BY <2>8 DEF NotifyNext, DegradedScan
    <2>9. CASE PromoteCheck(k) \/ PromoteCompletes(k) \/ PromoteErrs(k) \/ PromoteFailed(k)
               \/ WaitTimesOut(k) \/ FollowCheck(k) \/ FollowDone(k) \/ FollowFails(k)
               \/ DegradedReconnects(k) \/ DegradedIsPrimary(k) \/ NoticesOwnPromotion(k)
      <3>1. /\ UNCHANGED ballot
            /\ \E stage \in {"promoting", "promote_failed", "notify", "degraded", "following",
                             "monitor", "leader"} : Become(k, stage)
        BY <2>9 DEF PromoteCheck, PromoteCompletes, PromoteErrs, PromoteFailed, WaitTimesOut,
           FollowCheck, FollowDone, FollowFails, DegradedReconnects, DegradedIsPrimary,
           NoticesOwnPromotion
      <3>. QED  BY <2>1, <3>1
    <2>. QED
      BY <1>2, <2>3, <2>4, <2>5, <2>6, <2>7, <2>8, <2>9 DEF RepmgrdStep
  <1>3. CASE UNCHANGED vars
    BY <1>3 DEF vars
  <1>. QED  BY <1>1, <1>2, <1>3 DEF Next

\* No server of a standby fails, and no repmgrd is stopped.
LEMMA RunningStep ==
  ASSUME TypeOK, Stable, [Next]_vars, NEW n \in Standby, pg[n] # "down", daemon[n] # "stopped"
  PROVE  pg'[n] # "down" /\ daemon'[n] # "stopped"
  <1>0. ~Spend("daemon") /\ n # Primary /\ n \in Node
    BY NoSuchFault, NodeAssumption DEF Member, Node
  <1>1. CASE Environment
    <2>1. ASSUME NEW k \in Standby, PgPromotes(k) \/ OperatorPromotes(k)
          PROVE  pg'[n] # "down" /\ daemon'[n] # "stopped"
      BY <1>0, <2>1 DEF PgPromotes, OperatorPromotes, TypeOK
    <2>2. ASSUME NEW k \in Standby, DaemonStarts(k)
          PROVE  pg'[n] # "down" /\ daemon'[n] # "stopped"
      BY <2>2 DEF DaemonStarts, Become, TypeOK
    <2>3. CASE PrimaryFails \/ PrimaryReturns
      BY <1>0, <2>3 DEF PrimaryFails, PrimaryReturns, TypeOK
    <2>. QED
      BY <1>0, <1>1, <2>1, <2>2, <2>3 DEF Environment, Write, NetworkChanges, Stream, Pauses,
         DaemonStops
  <1>2. ASSUME NEW k \in Standby, RepmgrdStep(k)
        PROVE  pg'[n] # "down" /\ daemon'[n] # "stopped"
    <2>1. pg' = pg
      BY <1>2 DEF RepmgrdStep, Detect, Interrogate, Conclude, PromoteCheck, PromoteCompletes,
         PromoteErrs, PromoteFailed, NotifyNext, NotifyEnds, HeedNotice, WaitTimesOut,
         FollowCheck, FollowDone, FollowFails, DegradedReconnects, DegradedIsPrimary,
         NoticesOwnPromotion, DegradedScan
    <2>2. ASSUME NEW stage, Become(k, stage), stage # "stopped" PROVE daemon'[n] # "stopped"
      BY <2>2 DEF Become, TypeOK
    <2>3. ASSUME NEW verdict, NEW newPrimary, Settle(k, verdict, newPrimary)
          PROVE  daemon'[n] # "stopped"
      <3>1. \E stage : Become(k, stage) /\ stage # "stopped"
        BY <2>3 DEF Settle
      <3>. QED  BY <2>1, <2>2, <3>1
    <2>4. CASE Detect(k) \/ Conclude(k)
      BY <2>2, <2>3, <2>4 DEF Detect, Conclude
    <2>5. CASE HeedNotice(k)
      <3>1. \E stage \in {"monitor", "promote", "degraded", "follow"} : Become(k, stage)
        BY <2>5 DEF HeedNotice
      <3>. QED  BY <2>1, <2>2, <3>1
    <2>6. CASE NotifyEnds(k)
      <3>1. mail[k].next \in {"monitor", "leader", "restart", "dead"}
        BY DEF TypeOK
      <3>2. \E stage \in {"monitor", "leader", "dead"} : Become(k, stage)
        BY <2>6, <3>1 DEF NotifyEnds
      <3>. QED  BY <2>1, <2>2, <3>2
    <2>7. CASE Interrogate(k) \/ NotifyNext(k) \/ DegradedScan(k)
      BY <2>7 DEF Interrogate, NotifyNext, DegradedScan
    <2>8. CASE PromoteCheck(k) \/ PromoteCompletes(k) \/ PromoteErrs(k) \/ PromoteFailed(k)
               \/ WaitTimesOut(k) \/ FollowCheck(k) \/ FollowDone(k) \/ FollowFails(k)
               \/ DegradedReconnects(k) \/ DegradedIsPrimary(k) \/ NoticesOwnPromotion(k)
      <3>1. \E stage \in {"promoting", "promote_failed", "notify", "degraded", "following",
                          "monitor", "leader"} : Become(k, stage)
        BY <2>8 DEF PromoteCheck, PromoteCompletes, PromoteErrs, PromoteFailed, WaitTimesOut,
           FollowCheck, FollowDone, FollowFails, DegradedReconnects, DegradedIsPrimary,
           NoticesOwnPromotion
      <3>. QED  BY <2>1, <2>2, <3>1
    <2>. QED
      BY <1>2, <2>1, <2>4, <2>5, <2>6, <2>7, <2>8 DEF RepmgrdStep
  <1>3. CASE UNCHANGED vars
    BY <1>3 DEF vars
  <1>. QED  BY <1>1, <1>2, <1>3 DEF Next
-----------------------------------------------------------------------------
(***************************************************************************)
(* The theorems.                                                           *)
(***************************************************************************)

LEMMA PromotionStep ==
  ASSUME TypeOK, Stable, NoticeNamesPrimary, PromotionInv, [Next]_vars
  PROVE  PromotionInv'
  <1> SUFFICES ASSUME NEW n \in Standby PROVE Sound(n)'
    BY DEF PromotionInv
  <1>1. Sound(n)
    BY DEF PromotionInv
  <1>2. pg'[n] # "down" /\ daemon'[n] # "stopped"
    BY <1>1, RunningStep DEF Sound
  <1>3. ASSUME Elected(n)' PROVE Leads(n)'
    <2>1. Elected(n) \/ Wins(n)
      BY <1>3, ElectedStep
    <2>2. Leads(n)
      BY <1>1, <2>1, WinnerLeads DEF Sound
    <2>. QED  BY <2>2, LeadsStep
  <1>4. ASSUME daemon'[n] = "elect" PROVE TallyIsRight(n)'
    <2>1. CASE Detect(n)
      BY <1>4, <2>1, ElectionBegins
    <2>2. CASE Interrogate(n)
      BY <2>2, ElectionGoesOn
    <2>3. CASE daemon[n] = "elect" /\ tally'[n] = tally[n] /\ todo'[n] = todo[n]
      BY <1>1, <2>3, TallyStep DEF Sound
    <2>. QED  BY <1>4, <2>1, <2>2, <2>3, ElectingStep
  <1>. QED  BY <1>2, <1>3, <1>4 DEF Sound

\* Nobody is elected when the system starts.
LEMMA PromotionInit == Init => PromotionInv
  <1> SUFFICES ASSUME Init, NEW n \in Standby PROVE Sound(n)
    BY DEF PromotionInv
  <1>1. n # Primary /\ n \in Node
    BY NodeAssumption DEF Node, Member
  <1>. QED  BY <1>1 DEF Init, Sound, Elected

\* PromotionInv is inductive, beside the type invariant and the notices'.
LEMMA PromotionHolds == ASSUME Stable PROVE Spec => []PromotionInv
  <1>1. TypeOK /\ NoticeNamesPrimary /\ PromotionInv /\ [Next]_vars => PromotionInv'
    BY PromotionStep
  <1>. QED  BY <1>1, PromotionInit, TypeCorrect, NoticesAreRight, PTL DEF Spec

\* Two standbys that lead reach each other, and neither outranks the other.
LEMMA LeadersAreOne ==
  ASSUME TypeOK, Stable, NEW a \in Standby, NEW b \in Standby, Leads(a), Leads(b)
  PROVE  a = b
  <1>1. a \in reach[b] /\ b \in reach[a]
    BY MajoritiesAreOne DEF Leads
  <1>2. ~Outranks(Rank(a), Rank(b)) /\ ~Outranks(Rank(b), Rank(a))
    BY <1>1 DEF Leads, Rivals
  <1>. QED  BY <1>2, RankType, OutranksIsAnOrder DEF Rank

LEMMA LeaderIsAlone ==
  ASSUME TypeOK, Stable, PromotionInv, NEW a \in Promoted, NEW b \in Promoted
  PROVE  a = b
  <1>1. a \in Standby /\ b \in Standby /\ Leads(a) /\ Leads(b)
    BY DEF Promoted, PromotionInv, Sound, Elected
  <1>. QED  BY <1>1, LeadersAreOne

\* In a stable network the standbys promote at most one of themselves, for any
\* number of them, of witnesses, of failing commands, reruns and pauses
\* (do_election() and promote_self(), run by all of them at once).
THEOREM OneIsPromoted == ASSUME Stable PROVE Spec => []AtMostOnePromoted
  <1>1. TypeOK /\ PromotionInv => AtMostOnePromoted
    <2> SUFFICES ASSUME TypeOK, PromotionInv PROVE AtMostOnePromoted
      OBVIOUS
    <2>1. CASE Promoted = {}
      BY <2>1, FS_EmptySet DEF AtMostOnePromoted
    <2>2. CASE Promoted # {}
      <3>1. PICK a : Promoted = {a}
        BY <2>2, LeaderIsAlone
      <3>. QED  BY <3>1, FS_Singleton DEF AtMostOnePromoted
    <2>. QED  BY <2>1, <2>2
  <1>. QED  BY <1>1, TypeCorrect, PromotionHolds, PTL

\* In a stable network the promoted standby has all the WAL of the standbys in
\* reach that may be promoted (the comparison of LSNs in do_election()).
THEOREM PromotedHasTheWal == ASSUME Stable PROVE Spec => []PromotedIsFurthest
  <1>1. TypeOK /\ PromotionInv => PromotedIsFurthest
    <2> SUFFICES ASSUME TypeOK, PromotionInv, NEW n \in Promoted,
                        NEW s \in Standby \cap reach[n], Priority[s] > 0
                 PROVE  lsn[s] <= lsn[n]
      BY DEF PromotedIsFurthest
    <2>1. n \in Standby /\ ~Outranks(Rank(s), Rank(n))
      BY DEF Promoted, PromotionInv, Sound, Elected, Leads, Rivals
    <2>. QED  BY <2>1, RankType, OutranksIsAnOrder DEF Rank
  <1>. QED  BY <1>1, TypeCorrect, PromotionHolds, PTL

-----------------------------------------------------------------------------
(***************************************************************************)
(* Failover in a stable network implements PrimaryRole.  A step of the     *)
(* detailed specification changes pg, lsn or upstream in one place only:   *)
(*   - pg: the primary fails (Lose), or a promotion completes (TakeOver),  *)
(*     of the only standby that leads;                                     *)
(*   - lsn: the primary writes or a standby receives (Advance);            *)
(*   - upstream: a standby reattaches (MoveOver), and has not done so      *)
(*     before, by the invariant of FailoverProof.                          *)
(* All the other steps of repmgrd leave the roles alone.                   *)
(***************************************************************************)

\* What a step starts from.
RoleInv == TypeOK /\ FollowInv /\ PromotionInv

LEMMA RoleNodes ==
  /\ Primary \notin Standby
  /\ Primary \in Node
  /\ Standby \subseteq Node
  BY NodeAssumption DEF Node, Member

LEMMA RoleInit == Init => Role!Init
  <1> SUFFICES ASSUME Init PROVE Role!Init
    OBVIOUS
  <1>1. Serving = {Primary}
    BY RoleNodes DEF Init, Serving, Candidate
  <1>. QED  BY <1>1, RoleNodes DEF Init, Role!Init

\* A step that leaves the servers, the network and the upstreams as they are.
LEMMA RolesUnchanged ==
  ASSUME UNCHANGED <<pg, upstream, lsn, reach>>
  PROVE  UNCHANGED Role!vars
  BY DEF Role!vars, Serving

\* A promotion completes: of a standby of the original primary, which leads,
\* while no other standby serves.
LEMMA PromotionTakesOver ==
  ASSUME Stable, RoleInv, NEW n \in Standby, PgPromotes(n)
  PROVE  Role!TakeOver(n) \/ UNCHANGED Role!vars
  <1>1. /\ upstream[n] = Primary /\ UNCHANGED <<upstream, lsn, reach>>
        /\ Leads(n)
    BY FollowInvByNode DEF PgPromotes, RoleInv, Follows, PromotionInv, Sound, Elected
  <1>2. pg' = [pg EXCEPT ![n] = "primary"] /\ pg \in [Node -> {"primary", "standby", "down"}]
    BY DEF PgPromotes, RoleInv, TypeOK
  <1>3. CASE pg[n] = "primary"
    <2>1. pg' = pg
      BY <1>2, <1>3, RoleNodes
    <2>. QED  BY <1>1, <2>1, RolesUnchanged
  <1>4. CASE pg[n] # "primary"
    <2>1. Serving' = Serving \cup {n}
      BY <1>2, RoleNodes DEF Serving, Candidate
    <2>2. Serving \subseteq {Primary}
      <3> SUFFICES ASSUME NEW m \in Standby, pg[m] = "primary" PROVE m = n
        BY <1>4 DEF Serving, Candidate
      <3>1. Leads(m)
        BY DEF RoleInv, PromotionInv, Sound, Elected
      <3>. QED  BY <1>1, <3>1, LeadersAreOne DEF RoleInv
    <2>3. \A s \in {k \in Standby : Priority[k] > 0} \cap reach[n] : lsn[s] <= lsn[n]
      <3> SUFFICES ASSUME NEW s \in Standby \cap reach[n], Priority[s] > 0
                   PROVE  lsn[s] <= lsn[n]
        OBVIOUS
      <3>1. ~Outranks(Rank(s), Rank(n))
        BY <1>1 DEF Leads, Rivals
      <3>. QED  BY <3>1, RankType, OutranksIsAnOrder DEF RoleInv, Rank
    <2>. QED  BY <1>1, <2>1, <2>2, <2>3 DEF Role!TakeOver
  <1>. QED  BY <1>3, <1>4

\* The servers, the network and the operator.
LEMMA EnvironmentRole ==
  ASSUME Stable, RoleInv, TypeOK', Environment
  PROVE  Role!Next \/ UNCHANGED Role!vars
  <1>1. CASE PrimaryFails
    <2>1. Serving' = Serving \ {Primary} /\ UNCHANGED <<upstream, lsn, reach>>
      BY <1>1, RoleNodes DEF PrimaryFails, Serving, Candidate, RoleInv, TypeOK
    <2>. QED  BY <2>1 DEF Role!Next, Role!Lose
  <1>2. CASE PrimaryReturns \/ NetworkChanges \/ \E n \in Standby : OperatorPromotes(n)
    BY <1>2, NoSuchFault DEF PrimaryReturns, NetworkChanges, OperatorPromotes, RoleInv
  <1>3. CASE Write
    <2>1. /\ Primary \in Serving
          /\ lsn' = [lsn EXCEPT ![Primary] = @ + 1] /\ lsn'[Primary] <= MaxLsn
          /\ UNCHANGED <<Serving, upstream, reach>>
      BY <1>3, RoleNodes, SettingAssumption DEF Write, Serving, Candidate, TypeOK
    <2>2. Role!Advance(Primary)
      BY <2>1 DEF Role!Advance
    <2>. QED  BY <2>2 DEF Role!Next
  <1>4. ASSUME NEW n \in Standby, Stream(n) PROVE Role!Next
    <2>1. /\ Primary \in Serving /\ n \notin Serving
          /\ upstream[n] = Primary /\ lsn[n] < lsn[Primary]
          /\ lsn' = [lsn EXCEPT ![n] = @ + 1] /\ lsn'[n] <= MaxLsn
          /\ UNCHANGED <<Serving, upstream, reach>>
      BY <1>4, RoleNodes, SettingAssumption DEF Stream, Serving, Candidate, TypeOK
    <2>2. Role!Advance(n)
      BY <2>1 DEF Role!Advance
    <2>. QED  BY <2>2 DEF Role!Next
  <1>5. ASSUME NEW n \in Standby, Pauses(n) \/ DaemonStops(n) \/ DaemonStarts(n)
        PROVE  UNCHANGED Role!vars
    BY <1>5, RolesUnchanged DEF Pauses, DaemonStops, DaemonStarts
  <1>6. ASSUME NEW n \in Standby, PgPromotes(n) PROVE Role!Next \/ UNCHANGED Role!vars
    BY <1>6, PromotionTakesOver DEF Role!Next
  <1>. QED  BY <1>1, <1>2, <1>3, <1>4, <1>5, <1>6 DEF Environment

\* PostgreSQL is restarted with another upstream.
LEMMA ReattachMovesOver ==
  ASSUME RoleInv, NEW n \in Standby, NEW m \in Candidate, Reattach(n, m),
         upstream[n] = Primary, UNCHANGED <<pg, lsn, reach>>
  PROVE  Role!Next \/ UNCHANGED Role!vars
  <1>1. upstream' = [upstream EXCEPT ![n] = m] /\ upstream \in [Standby -> Candidate]
    BY DEF Reattach, RoleInv, TypeOK
  <1>2. CASE m = Primary
    <2>1. upstream' = upstream
      BY <1>1, <1>2
    <2>. QED  BY <2>1, RolesUnchanged
  <1>3. CASE m # Primary
    <2>1. m \in Standby /\ m \in Serving /\ n \notin Serving /\ lsn[n] <= lsn[m]
      BY <1>3 DEF Reattach, CanAttach, IsPrimary, Serving, Candidate
    <2>2. Role!MoveOver(n, m)
      BY <1>1, <1>3, <2>1 DEF Role!MoveOver, Serving
    <2>. QED  BY <2>1, <2>2 DEF Role!Next
  <1>. QED  BY <1>2, <1>3

\* repmgrd itself changes no role but by "standby follow".
LEMMA RepmgrdRole ==
  ASSUME RoleInv, NEW n \in Standby, RepmgrdStep(n)
  PROVE  Role!Next \/ UNCHANGED Role!vars
  <1>1. CASE FollowDone(n)
    <2>1. /\ upstream[n] = Primary /\ Reattach(n, target[n]) /\ UNCHANGED <<pg, lsn, reach>>
      BY <1>1, FollowInvByNode DEF FollowDone, RoleInv, Elects
    <2>2. target[n] \in Candidate
      <3>1. target[n] \in Node
        BY <2>1, EnvironmentAssumption, RoleNodes
        DEF Reattach, CanAttach, IsPrimary, Up, RoleInv, TypeOK
      <3>. QED  BY <3>1, NoNodeIsNegative DEF RoleInv, TypeOK
    <2>. QED  BY <2>1, <2>2, ReattachMovesOver
  <1>2. CASE DegradedScan(n)
    <2>1. upstream[n] = Primary /\ UNCHANGED <<pg, lsn, reach>>
      BY <1>2 DEF DegradedScan
    <2>2. UNCHANGED upstream \/ \E m \in Standby : Reattach(n, m)
      BY <1>2 DEF DegradedScan
    <2>. QED  BY <2>1, <2>2, ReattachMovesOver, RolesUnchanged DEF Candidate
  <1>3. CASE ~FollowDone(n) /\ ~DegradedScan(n)
    <2>1. UNCHANGED <<pg, upstream, lsn, reach>>
      BY <1>3 DEF RepmgrdStep, Detect, Interrogate, Conclude, PromoteCheck, PromoteCompletes,
         PromoteErrs, PromoteFailed, NotifyNext, NotifyEnds, HeedNotice, WaitTimesOut, FollowCheck,
         FollowFails, DegradedReconnects, DegradedIsPrimary, NoticesOwnPromotion
    <2>. QED  BY <2>1, RolesUnchanged
  <1>. QED  BY <1>1, <1>2, <1>3

\* In a stable network automatic failover keeps the promise of PrimaryRole, for
\* any number of standbys and witnesses: one standby takes over, once, with all
\* the WAL in its reach, and the others move to it from the lost primary, once
\* (do_primary_failover(), "standby promote" and "standby follow").
THEOREM FailoverImplementsRole == ASSUME Stable PROVE Spec => ImplementsRole
  <1>1. TypeOK /\ TypeOK' /\ FollowInv /\ PromotionInv /\ [Next]_vars => [Role!Next]_Role!vars
    <2> SUFFICES ASSUME RoleInv, TypeOK', [Next]_vars PROVE Role!Next \/ UNCHANGED Role!vars
      BY DEF RoleInv
    <2>1. CASE UNCHANGED vars
      BY <2>1, RolesUnchanged DEF vars
    <2>. QED  BY <2>1, EnvironmentRole, RepmgrdRole DEF Next
  <1>. QED
    BY <1>1, RoleInit, TypeCorrect, FollowersInvariant, PromotionHolds, PTL
    DEF Spec, ImplementsRole, Role!Spec
=============================================================================
