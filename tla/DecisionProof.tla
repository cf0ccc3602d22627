----------------------------- MODULE DecisionProof -----------------------------
(***************************************************************************)
(* Proofs about what a repmgrd decides from what it reads of the other     *)
(* nodes, for any number of nodes, reports and faults.                     *)
(*                                                                         *)
(* do_election() on a standby (ElectionRun): the candidate is the best of  *)
(* those that contend, a winner is entitled to win, and a loser has        *)
(* somebody to wait for.                                                   *)
(*                                                                         *)
(* check_BS() on a primary (BrainSplit): the types, with pg_control never  *)
(* ahead of the server; and that primaries which check each other do not   *)
(* all give way.                                                           *)
(*                                                                         *)
(* do_bdr_failover() in a BDR pair (BdrFailover): a daemon has released    *)
(* the failover handler when it is not at work on a failover.              *)
(***************************************************************************)
EXTENDS ElectionRun, BrainSplit, BdrFailover, FiniteSetTheorems, WellFoundedInduction, TLAPS

(***************************************************************************)
(* The election of a standby.                                              *)
(***************************************************************************)

\* The candidates are compared by these.
Ranks == [id : Nat, lsn : Int, priority : Int]

\* Those the loop has compared so far.
Candidates == {Standing(self)} \cup {Standing(r) : r \in {q \in reports : Contends(q)}}

Reached == {r \in reports : r.conn}

\* What is known of the local node and of a report.
SelfIsKnown ==
  /\ self.id = Me /\ Standing(self) \in Ranks
  /\ pc \in {"start", "interrogate", "done"}
  /\ pc = "start" => reports = {}
  /\ pc = "interrogate" => ~self.manual /\ self.priority > 0

ReportsAreOfSiblings ==
  /\ remaining \subseteq Siblings /\ IsFiniteSet(reports)
  /\ \A r \in reports : r.id \in Siblings /\ r \in Reports(r.id)

\* The locals of the loop, in terms of the reports.
TallyIsRight ==
  /\ tally.visible = {Me} \cup {r.id : r \in Reached}
  /\ tally.located <=> PrimaryLocation \in {self.location} \cup {r.location : r \in Reached}
  /\ tally.seers = {} =>
       \A r \in reports : Answers(r) /\ r.recovery => ~SawPrimary(r)
  /\ tally.newPrimary = UNKNOWN_NODE_ID =>
       \A r \in reports : Answers(r) => r.recovery \/ ~r.canFollow
  /\ tally.candidate \in Candidates
  /\ \A c \in Candidates : ~Outranks(c, tally.candidate)

LoopInv == SelfIsKnown /\ ReportsAreOfSiblings /\ TallyIsRight
ElectionInv == LoopInv /\ WinIsJustified /\ LoserHasWinner

-----------------------------------------------------------------------------
(* The order of the candidates. *)

LEMMA OutranksIsAnOrder ==
  ASSUME NEW a \in Ranks, NEW b \in Ranks, NEW c \in Ranks
  PROVE  /\ ~Outranks(a, a)
         /\ ~Outranks(a, b) /\ ~Outranks(c, a) => ~Outranks(c, b)
         /\ Outranks(a, b) => ~Outranks(b, a)
         /\ ~Outranks(a, b) => a.lsn <= b.lsn
  BY DEF Ranks, Outranks

\* The best by successive elimination is the one that nobody outranks.
LEMMA BestIsUnmatched ==
  ASSUME NEW C \in SUBSET Ranks, NEW best \in C, \A c \in C : ~Outranks(c, best)
  PROVE  Best(C) = best
  <1> DEFINE furthest == {c \in C : \A d \in C : d.lsn <= c.lsn}
             preferred == {c \in furthest : \A d \in furthest : d.priority <= c.priority}
             Lowest(c) == c \in preferred /\ \A d \in preferred : c.id <= d.id
  <1>1. best \in furthest
    BY DEF Ranks, Outranks
  <1>2. best \in preferred
    <2> SUFFICES ASSUME NEW d \in furthest PROVE d.priority <= best.priority
      BY <1>1
    <2>1. d.lsn = best.lsn /\ d \in Ranks /\ best \in Ranks /\ ~Outranks(d, best)
      BY <1>1 DEF Ranks
    <2> QED BY <2>1 DEF Ranks, Outranks
  <1>3. \A d \in preferred :
          d \in Ranks /\ d.lsn = best.lsn /\ d.priority = best.priority /\ best.id <= d.id
    <2> SUFFICES ASSUME NEW d \in preferred
                 PROVE  d \in Ranks /\ d.lsn = best.lsn /\ d.priority = best.priority /\ best.id <= d.id
      OBVIOUS
    <2>1. d \in Ranks /\ best \in Ranks /\ ~Outranks(d, best)
      OBVIOUS
    <2>2. d.lsn = best.lsn /\ d.priority = best.priority
      BY <1>1, <1>2 DEF Ranks
    <2> QED BY <2>1, <2>2 DEF Ranks, Outranks
  <1>4. Lowest(best)
    BY <1>2, <1>3
  <1>5. \A c : Lowest(c) => c = best
    <2> SUFFICES ASSUME NEW c, Lowest(c) PROVE c = best
      OBVIOUS
    <2>1. /\ c \in Ranks /\ best \in Ranks
          /\ c.lsn = best.lsn /\ c.priority = best.priority /\ c.id = best.id
      BY <1>2, <1>3 DEF Ranks
    <2> QED BY <2>1 DEF Ranks
  <1>6. Best(C) = CHOOSE c : Lowest(c)
    BY DEF Best
  <1> HIDE DEF Lowest
  <1> QED BY <1>4, <1>5, <1>6

\* The sibling with the lowest id is one of them.
LEMMA MinIsMember ==
  ASSUME NEW S \in SUBSET Nat, S # {}
  PROVE  Min(S) \in S
  <1> DEFINE R == OpToRel(<, Nat)
  <1>1. \A x, y \in Nat : <<x, y>> \in R <=> x < y
    BY DEF OpToRel
  <1>2. IsWellFoundedOn(R, Nat)
    BY NatLessThanWellFounded
  <1> HIDE DEF R
  <1>3. PICK m \in S : \A k \in S : ~(<<k, m>> \in R)
    BY <1>2, WFMin
  <1>4. \A k \in S : m <= k
    <2> SUFFICES ASSUME NEW k \in S PROVE m <= k
      OBVIOUS
    <2>1. k \in Nat /\ m \in Nat /\ ~(k < m)
      BY <1>1, <1>3
    <2> QED BY <2>1
  <1> QED BY <1>4 DEF Min

\* A candidate is one of those that may be.
LEMMA CandidatesAreRanks ==
  ASSUME SelfIsKnown, ReportsAreOfSiblings
  PROVE  Candidates \in SUBSET Ranks
  <1> SUFFICES ASSUME NEW r \in reports PROVE Standing(r) \in Ranks
    BY DEF Candidates, SelfIsKnown
  <1>1. r.id \in Nat /\ r \in Reports(r.id)
    BY IdsAssumption DEF ReportsAreOfSiblings
  <1>2. r.lsn \in Int /\ r.priority \in Int
    BY <1>1, ValuesAssumption DEF Reports
  <1> QED BY <1>1, <1>2 DEF Standing, Ranks

\* Each node that is reached counts once.
LEMMA VisibleAreReached ==
  ASSUME ReportsAreOfSiblings, TallyIsRight
  PROVE  /\ Cardinality(tally.visible) \in Nat /\ Cardinality(Reached) \in Nat
         /\ Cardinality(tally.visible) <= Cardinality(Reached) + 1
  <1> DEFINE ids == {r.id : r \in Reached}
             f == [r \in Reached |-> r.id]
  <1>1. IsFiniteSet(Reached)
    BY FS_Subset DEF Reached, ReportsAreOfSiblings
  <1>2. f \in Surjection(Reached, ids)
    BY DEF Surjection
  <1> HIDE DEF f
  <1>3. IsFiniteSet(ids) /\ Cardinality(ids) <= Cardinality(Reached)
    BY <1>1, <1>2, FS_Surjection
  <1>4. tally.visible = ids \cup {Me}
    BY DEF TallyIsRight
  <1> HIDE DEF ids
  <1>5. Cardinality(ids) \in Nat /\ Cardinality(Reached) \in Nat
    BY <1>1, <1>3, FS_CardinalityType
  <1>6. /\ IsFiniteSet(tally.visible)
        /\ Cardinality(tally.visible) = IF Me \in ids THEN Cardinality(ids) ELSE Cardinality(ids) + 1
    BY <1>3, <1>4, FS_AddElement
  <1> QED BY <1>3, <1>5, <1>6

-----------------------------------------------------------------------------
(* The loop. *)

LEMMA LoopStarts == ASSUME ElectionInit PROVE LoopInv
  <1>1. /\ self.id = Me /\ self.lsn \in Int /\ self.priority \in Int
        /\ tally = EmptyTally(self, PrimaryLocation)
        /\ reports = {} /\ remaining = {} /\ pc = "start"
    BY ValuesAssumption DEF ElectionInit, Selves
  <1>2. Standing(self) \in Ranks
    BY <1>1, IdsAssumption DEF Standing, Ranks
  <1>3. SelfIsKnown /\ ReportsAreOfSiblings
    BY <1>1, <1>2, FS_EmptySet DEF SelfIsKnown, ReportsAreOfSiblings
  <1>4. Candidates = {Standing(self)} /\ Reached = {}
    BY <1>1 DEF Candidates, Reached
  <1>5. ~Outranks(Standing(self), Standing(self))
    BY <1>2, OutranksIsAnOrder
  <1> QED BY <1>1, <1>3, <1>4, <1>5 DEF LoopInv, TallyIsRight, EmptyTally

\* One more sibling is interrogated.
LEMMA LoopGoesOn ==
  ASSUME LoopInv, Interrogate
  PROVE  LoopInv'
  <1> USE DEF LoopInv
  <1>1. Min(remaining) \in Siblings
    BY IdsAssumption, MinIsMember DEF Interrogate, ReportsAreOfSiblings
  <1>2. PICK r \in Reports(Min(remaining)) :
          tally' = Examine(tally, r, PrimaryLocation) /\ reports' = reports \cup {r}
    BY DEF Interrogate
  <1>3. r.id = Min(remaining)
    BY <1>2 DEF Reports
  <1>4. SelfIsKnown'
    BY DEF SelfIsKnown, Interrogate, Standing
  <1>5. ReportsAreOfSiblings'
    <2>1. remaining' \subseteq Siblings
      BY DEF Interrogate, ReportsAreOfSiblings
    <2>2. IsFiniteSet(reports')
      BY <1>2, FS_AddElement DEF ReportsAreOfSiblings
    <2> QED BY <1>1, <1>2, <1>3, <2>1, <2>2 DEF ReportsAreOfSiblings
  <1>6. TallyIsRight'
    <2>1. Reached' = Reached \cup (IF r.conn THEN {r} ELSE {})
      BY <1>2 DEF Reached
    <2>2. tally'.visible = {Me} \cup {q.id : q \in Reached'}
      BY <1>2, <2>1 DEF TallyIsRight, Examine
    <2>3. tally'.located <=> PrimaryLocation \in {self'.location} \cup {q.location : q \in Reached'}
      BY <1>2, <2>1 DEF TallyIsRight, Examine, Interrogate
    <2>4. tally'.seers = {} => \A q \in reports' : Answers(q) /\ q.recovery => ~SawPrimary(q)
      BY <1>2 DEF TallyIsRight, Examine
    <2>5. tally'.newPrimary = UNKNOWN_NODE_ID => \A q \in reports' : Answers(q) => q.recovery \/ ~q.canFollow
      BY <1>1, <1>2, <1>3, IdsAssumption DEF TallyIsRight, Examine, UNKNOWN_NODE_ID
    <2>6. Candidates' = Candidates \cup (IF Contends(r) THEN {Standing(r)} ELSE {})
      BY <1>2 DEF Candidates, Interrogate
    <2>a. Standing(r) \in Ranks
      <3>1. r.id \in Nat /\ r.lsn \in Int /\ r.priority \in Int
        BY <1>1, <1>2, <1>3, IdsAssumption, ValuesAssumption DEF Reports
      <3> QED BY <3>1 DEF Standing, Ranks
    <2>b. tally.candidate \in Candidates /\ \A c \in Candidates : ~Outranks(c, tally.candidate)
      BY DEF TallyIsRight
    <2>7. \A c \in Candidates' : c \in Ranks
      BY <2>6, <2>a, CandidatesAreRanks
    <2>c. tally.candidate \in Ranks
      BY <2>b, CandidatesAreRanks
    <2>8. tally'.candidate \in Candidates' /\ \A c \in Candidates' : ~Outranks(c, tally'.candidate)
      <3>1. CASE Contends(r) /\ Outranks(r, tally.candidate)
        <4>1. tally'.candidate = Standing(r) /\ Standing(r) \in Candidates'
          BY <1>2, <2>6, <3>1 DEF Examine
        <4>2. Outranks(Standing(r), tally.candidate)
          BY <3>1 DEF Outranks, Standing
        <4>3. ASSUME NEW c \in Candidates' PROVE ~Outranks(c, Standing(r))
          <5>1. c \in Ranks /\ Standing(r) \in Ranks /\ tally.candidate \in Ranks
            BY <2>7, <2>a, <2>c
          <5>2. CASE c \in Candidates
            BY <2>b, <4>2, <5>1, <5>2, OutranksIsAnOrder
          <5>3. CASE c = Standing(r)
            BY <5>1, <5>3, OutranksIsAnOrder
          <5> QED BY <2>6, <5>2, <5>3
        <4> QED BY <4>1, <4>3
      <3>2. CASE ~(Contends(r) /\ Outranks(r, tally.candidate))
        <4>1. tally'.candidate = tally.candidate
          BY <1>2, <3>2 DEF Examine
        <4>2. Contends(r) => ~Outranks(Standing(r), tally.candidate)
          BY <3>2 DEF Outranks, Standing
        <4> QED BY <2>6, <2>b, <4>1, <4>2
      <3> QED BY <3>1, <3>2
    <2> QED BY <2>2, <2>3, <2>4, <2>5, <2>8 DEF TallyIsRight
  <1> QED BY <1>4, <1>5, <1>6

\* The loop is entered with an automatic failover and a priority.
LEMMA LoopIsEntered ==
  ASSUME LoopInv, Start \/ Conclude \/ UNCHANGED electionVars
  PROVE  LoopInv'
  <1>1. UNCHANGED <<self, tally, reports>> /\ pc' \in {pc, "interrogate", "done"}
    BY DEF Start, Conclude, electionVars
  <1>2. pc' = "interrogate" => ~self.manual /\ self.priority > 0
    <2>1. CASE Start
      <3> SUFFICES ASSUME pc' = "interrogate" PROVE ~self.manual /\ self.priority > 0
        BY <1>1
      <3>1. Prelude(self, Siblings, PrimaryLocation) = "continue" /\ self.priority \in Int
        BY <2>1 DEF Start, LoopInv, SelfIsKnown, Standing, Ranks
      <3>2. CASE ~self.termKnown \/ self.manual
        BY <3>1, <3>2 DEF Prelude
      <3>3. CASE ~(~self.termKnown \/ self.manual) /\ self.priority <= 0
        BY <3>1, <3>3 DEF Prelude
      <3> QED BY <3>1, <3>2, <3>3
    <2>2. CASE Conclude \/ UNCHANGED electionVars
      BY <2>2 DEF Conclude, electionVars, LoopInv, SelfIsKnown
    <2> QED BY <2>1, <2>2
  <1>3. remaining' \subseteq Siblings
    BY DEF Start, Conclude, electionVars, LoopInv, ReportsAreOfSiblings
  <1>4. pc' = "start" => pc = "start"
    BY <1>1
  <1>5. SelfIsKnown'
    BY <1>1, <1>2, <1>4 DEF LoopInv, SelfIsKnown, Standing
  <1>6. ReportsAreOfSiblings'
    BY <1>1, <1>3 DEF LoopInv, ReportsAreOfSiblings
  <1>7. TallyIsRight'
    BY <1>1 DEF LoopInv, TallyIsRight, Candidates, Reached
  <1> QED BY <1>5, <1>6, <1>7 DEF LoopInv

-----------------------------------------------------------------------------
(* The result. *)

\* The local node is the candidate: nobody has more WAL.
LEMMA OwnCandidate ==
  ASSUME LoopInv, tally.candidate.id = self.id
  PROVE  \A r \in reports : Contends(r) => r.lsn <= self.lsn
  <1>1. tally.candidate = Standing(self)
    <2> SUFFICES ASSUME NEW r \in reports, tally.candidate = Standing(r) PROVE FALSE
      BY DEF LoopInv, TallyIsRight, Candidates
    <2> QED BY IdsAssumption DEF Standing, LoopInv, SelfIsKnown, ReportsAreOfSiblings
  <1> SUFFICES ASSUME NEW r \in reports, Contends(r) PROVE r.lsn <= self.lsn
    OBVIOUS
  <1>2. Standing(r) \in Candidates /\ ~Outranks(Standing(r), Standing(self))
    BY <1>1 DEF Candidates, LoopInv, TallyIsRight
  <1>3. Standing(r) \in Ranks /\ Standing(self) \in Ranks
    BY <1>2, CandidatesAreRanks DEF LoopInv, SelfIsKnown
  <1>4. Standing(r).lsn <= Standing(self).lsn
    BY <1>2, <1>3, OutranksIsAnOrder
  <1> QED BY <1>4 DEF Standing

\* The loop has ended with a victory.
LEMMA VictoryIsJustified ==
  ASSUME LoopInv, Conclude, result' = "won"
  PROVE  WinIsJustified'
  <1>1. /\ UNCHANGED <<self, reports>> /\ pc = "interrogate"
        /\ "won" \in Verdicts(tally, self, Cardinality(Siblings) + 1, Consensus, Validation)
    BY DEF Conclude
  <1>2. /\ tally.newPrimary = UNKNOWN_NODE_ID /\ tally.candidate.id = self.id
        /\ ~CalledOff(tally, Cardinality(Siblings) + 1, Consensus)
    BY <1>1 DEF Verdicts
  <1>3. /\ tally.located /\ (Consensus => tally.seers = {})
        /\ ~(2 * Cardinality(tally.visible) <= Cardinality(Siblings) + 1)
    BY <1>2 DEF CalledOff, NoMajority
  <1>4. ~self.manual /\ self.priority > 0
    BY <1>1 DEF LoopInv, SelfIsKnown
  <1>5. 2 * (Cardinality(Reached) + 1) > Cardinality(Siblings) + 1
    <2>1. /\ Cardinality(tally.visible) \in Nat /\ Cardinality(Reached) \in Nat
          /\ Cardinality(tally.visible) <= Cardinality(Reached) + 1
      BY VisibleAreReached DEF LoopInv
    <2>2. Cardinality(Siblings) \in Nat
      BY IdsAssumption, FS_CardinalityType
    <2> QED BY <1>3, <2>1, <2>2
  <1>6. PrimaryLocation \in {self.location} \cup {r.location : r \in Reached}
    BY <1>3 DEF LoopInv, TallyIsRight
  <1>7. ASSUME NEW r \in reports, Answers(r)
        PROVE  /\ ~r.canFollow
               /\ Contends(r) => r.lsn <= self.lsn
               /\ Consensus /\ r.type = "standby" => r.lastSeen \notin 0 .. (2 * MonitorInterval - 1)
    <2>1. /\ (r.id \in Witnesses \/ r.recovery) => ~r.canFollow
          /\ (r.id \notin Witnesses /\ ~r.recovery) => r.lastSeen = -1
          /\ r.type = (IF r.id \in Witnesses THEN "witness" ELSE "standby")
      BY DEF LoopInv, ReportsAreOfSiblings, Reports
    <2>2. ~r.canFollow
      BY <1>2, <1>7, <2>1 DEF LoopInv, TallyIsRight
    <2>3. Contends(r) => r.lsn <= self.lsn
      BY <1>2, OwnCandidate
    <2>4. ASSUME Consensus, r.type = "standby" PROVE r.lastSeen \notin 0 .. (2 * MonitorInterval - 1)
      <3>1. CASE r.recovery
        BY <1>3, <1>7, <2>4, <3>1 DEF LoopInv, TallyIsRight, SawPrimary
      <3>2. CASE ~r.recovery
        BY <2>1, <2>4, <3>2
      <3> QED BY <3>1, <3>2
    <2> QED BY <2>2, <2>3, <2>4
  <1> QED BY <1>1, <1>4, <1>5, <1>6, <1>7 DEF WinIsJustified, Reached

\* Or with a defeat.
LEMMA DefeatHasWinner ==
  ASSUME LoopInv, Conclude, result' = "lost"
  PROVE  LoserHasWinner'
  <1>1. /\ UNCHANGED <<self, reports>>
        /\ "lost" \in Verdicts(tally, self, Cardinality(Siblings) + 1, Consensus, Validation)
    BY DEF Conclude
  <1>2. tally.candidate.id # self.id
    BY <1>1 DEF Verdicts, Validated
  <1>3. tally.candidate \in Candidates /\ \A c \in Candidates : ~Outranks(c, tally.candidate)
    BY DEF LoopInv, TallyIsRight
  <1>4. PICK r \in reports : Contends(r) /\ tally.candidate = Standing(r)
    BY <1>2, <1>3 DEF Candidates, Standing
  <1>5. r.id \in Standbys
    <2>1. r.id \in Siblings /\ r.type = (IF r.id \in Witnesses THEN "witness" ELSE "standby")
      BY DEF LoopInv, ReportsAreOfSiblings, Reports
    <2> QED BY <1>4, <2>1 DEF Contends, Siblings
  <1>6. r.lsn >= self.lsn
    <2>1. /\ Standing(self) \in Ranks /\ Standing(r) \in Ranks
          /\ ~Outranks(Standing(self), Standing(r))
      BY <1>3, <1>4, CandidatesAreRanks DEF Candidates, LoopInv
    <2>2. Standing(self).lsn <= Standing(r).lsn
      BY <2>1, OutranksIsAnOrder
    <2> QED BY <2>1, <2>2 DEF Standing, Ranks
  <1>7. r.conn /\ r.repmgrd /\ r.recovery /\ r.priority > 0
    BY <1>4 DEF Contends, Answers
  <1> QED BY <1>1, <1>5, <1>6, <1>7 DEF LoserHasWinner

\* A standby without siblings wins alone, or the election does not start.
LEMMA StartIsJustified ==
  ASSUME LoopInv, Start
  PROVE  WinIsJustified' /\ LoserHasWinner'
  <1>1. UNCHANGED <<self, reports>> /\ reports = {}
    BY DEF Start, LoopInv, SelfIsKnown
  <1>2. LoserHasWinner'
    BY <1>1 DEF LoserHasWinner
  <1>3. ASSUME pc' = "done", result' = "won" PROVE WinIsJustified'
    <2> DEFINE early == Prelude(self, Siblings, PrimaryLocation)
    <2>1. early \in {"not_candidate", "lost", "alone", "continue"}
      BY DEF Prelude
    <2>2. early = "alone"
      BY <1>3, <2>1 DEF Start
    <2>3. self.priority \in Int
      BY DEF LoopInv, SelfIsKnown, Standing, Ranks
    <2>4. ~self.manual /\ self.priority > 0 /\ Siblings = {} /\ self.location = PrimaryLocation
      <3>1. CASE ~self.termKnown \/ self.manual
        BY <2>2, <3>1 DEF Prelude
      <3>2. CASE ~(~self.termKnown \/ self.manual) /\ self.priority <= 0
        BY <2>2, <3>2 DEF Prelude
      <3>3. CASE self.termKnown /\ ~self.manual /\ self.priority > 0
        BY <2>2, <2>3, <3>3 DEF Prelude
      <3> QED BY <2>3, <3>1, <3>2, <3>3
    <2>5. Cardinality({r \in reports : r.conn}) = 0 /\ Cardinality(Siblings) = 0
      BY <1>1, <2>4, FS_EmptySet
    <2> QED BY <1>1, <2>4, <2>5 DEF WinIsJustified
  <1> QED BY <1>2, <1>3 DEF WinIsJustified

THEOREM ElectionHolds == ElectionSpec => []ElectionInv
  <1>1. ElectionInit => ElectionInv
    BY LoopStarts DEF ElectionInit, ElectionInv, WinIsJustified, LoserHasWinner
  <1>2. ElectionInv /\ [ElectionNext]_electionVars => ElectionInv'
    <2> SUFFICES ASSUME ElectionInv, [ElectionNext]_electionVars PROVE ElectionInv'
      OBVIOUS
    <2>1. LoopInv'
      BY LoopGoesOn, LoopIsEntered DEF ElectionInv, ElectionNext
    <2>2. CASE Start
      BY <2>1, <2>2, StartIsJustified DEF ElectionInv
    <2>3. CASE Interrogate
      BY <2>1, <2>3 DEF ElectionInv, Interrogate, WinIsJustified, LoserHasWinner
    <2>4. CASE Conclude
      <3>1. WinIsJustified'
        BY <2>4, VictoryIsJustified DEF ElectionInv, WinIsJustified
      <3>2. LoserHasWinner'
        BY <2>4, DefeatHasWinner DEF ElectionInv, LoserHasWinner
      <3> QED BY <2>1, <3>1, <3>2 DEF ElectionInv
    <2>5. CASE UNCHANGED electionVars
      BY <2>1, <2>5 DEF ElectionInv, electionVars, WinIsJustified, LoserHasWinner
    <2> QED BY <2>2, <2>3, <2>4, <2>5 DEF ElectionNext
  <1> QED BY <1>1, <1>2, PTL DEF ElectionSpec

\* Whatever the siblings report, and in whatever order they are interrogated, the
\* loop of do_election() is left with the best of all that contend: the most WAL,
\* then the highest priority, then the lowest id.
THEOREM CandidateIsTheBest == ElectionSpec => []CandidateIsBest
  <1>1. ElectionInv => CandidateIsBest
    <2> SUFFICES ASSUME ElectionInv PROVE tally.candidate = Best(Candidates)
      BY DEF CandidateIsBest, Candidates
    <2> QED BY CandidatesAreRanks, BestIsUnmatched DEF ElectionInv, LoopInv, TallyIsRight
  <1> QED BY <1>1, ElectionHolds, PTL

\* do_election() returns ELECTION_WON to nobody who has not a majority of the
\* primary's nodes and its location in reach, or whom a contender surpasses.
THEOREM VictoriesAreJustified == ElectionSpec => []WinIsJustified
  <1>1. ElectionInv => WinIsJustified
    BY DEF ElectionInv
  <1> QED BY <1>1, ElectionHolds, PTL

\* Who has lost after the interrogation waits for a sibling that can be promoted.
THEOREM DefeatsHaveWinners == ElectionSpec => []LoserHasWinner
  <1>1. ElectionInv => LoserHasWinner
    BY DEF ElectionInv
  <1> QED BY <1>1, ElectionHolds, PTL

-----------------------------------------------------------------------------
(***************************************************************************)
(* The check of a primary for other primaries.                             *)
(***************************************************************************)

USE DEF cluster

\* check_timeline(), where pg_control is up to date.
Above(m, n) ==
  \/ tl[m] > tl[n]
  \/ /\ tl[m] = tl[n]
     /\ Priority[m] > Priority[n] \/ (Priority[m] = Priority[n] /\ m < n)

\* Timelines only grow: a standby is not ahead of the node it follows.
TimelineInv == TypeOK /\ \A n \in Node : pg[n] = "standby" => tl[n] <= tl[up[n]]

NoneCleaned == spent["crash"] = 0 /\ spent["late"] = 0

\* What a repmgrd takes its server to be, where none is started to be cleaned.
Known ==
  \A n \in Node :
    /\ pg[n] \in {"primary", "down"} => ctl[n] = tl[n]
    /\ daemon[n] \in {"primary", "scan", "stopping", "yielding"} => pg[n] = "primary"
    /\ daemon[n] = "ended" => pg[n] = "down"
    /\ daemon[n] = "gone" <=> pg[n] = "crashed"
    /\ daemon[n] # "cleaning"

\* Who gives way does so to a node above it, which is a primary still unless it
\* had to stop or its host has failed.
Beaten(n) ==
  \E m \in Node : Above(m, n) /\ (pg[m] = "primary" \/ daemon[m] \in {"ended", "gone"})

BeatenInv ==
  NoneCleaned => Known /\ \A n \in Node : daemon[n] = "yielding" => Beaten(n)

SplitInv == TimelineInv /\ BeatenInv

-----------------------------------------------------------------------------
(* The types. *)

LEMMA SpendType ==
  ASSUME spent \in [Event -> Nat], NEW events, Spend(events)
  PROVE  /\ spent' \in [Event -> Nat]
         /\ \A event \in Event : spent[event] <= spent'[event] /\ (event \in events => spent'[event] # spent[event])
BY DEF Spend

LEMMA ShutDownType ==
  ASSUME TypeOK, NEW n \in Node, ShutDown(n), UNCHANGED tl
  PROVE  /\ pg' \in [Node -> {"primary", "standby", "down", "crashed"}]
         /\ ctl' \in [Node -> 1 .. MaxTimeline] /\ \A m \in Node : ctl'[m] <= tl'[m]
         /\ \A m \in Node : pg'[m] = IF m = n /\ pg[n] = "primary" THEN "down" ELSE pg[m]
         /\ \A m \in Node : pg'[m] = "primary" => ctl'[m] = ctl[m]
BY SettingAssumption DEF TypeOK, ShutDown

LEMMA EnvironmentTimelines ==
  ASSUME TimelineInv, Environment
  PROVE  TimelineInv'
<1> USE DEF Become
<1>a. tl \in [Node -> 1 .. MaxTimeline] /\ \A n \in Node : ctl[n] <= tl[n]
  BY DEF TimelineInv, TypeOK
<1>1. CASE Splits
  <2>1. spent' \in [Event -> Nat]
    BY <1>1, SpendType DEF TimelineInv, TypeOK, Splits
  <2> QED BY <1>1, <2>1 DEF TimelineInv, TypeOK, Splits
<1>2. CASE Heals
  BY <1>2 DEF TimelineInv, TypeOK, Heals
<1>3. ASSUME NEW n \in Node, Write(n) PROVE TimelineInv'
  <2>1. <<tl[n], n>> \in Records
    BY <1>a DEF Records
  <2> QED BY <1>3, <2>1 DEF TimelineInv, TypeOK, Write
<1>4. ASSUME NEW n \in Node, Stream(n) PROVE TimelineInv'
  <2>1. up[n] \in Node /\ tl[n] <= tl[up[n]]
    BY <1>4 DEF TimelineInv, TypeOK, Stream
  <2>2. /\ tl' = [tl EXCEPT ![n] = tl[up[n]]] /\ wal' = [wal EXCEPT ![n] = @ \cup wal[up[n]]]
        /\ UNCHANGED <<pg, ctl, up, island, daemon, todo, rivals, spent>>
    BY <1>4 DEF Stream
  <2>3. \A m \in Node : tl'[m] \in 1 .. MaxTimeline /\ tl[m] <= tl'[m]
    BY <1>a, <2>1, <2>2, SettingAssumption
  <2>4. tl' \in [Node -> 1 .. MaxTimeline] /\ wal' \in [Node -> SUBSET Records]
    BY <2>1, <2>2 DEF TimelineInv, TypeOK
  <2>5. \A m \in Node : ctl'[m] <= tl'[m]
    BY <1>a, <2>2, <2>3, SettingAssumption DEF TimelineInv, TypeOK
  <2>6. \A m \in Node : pg'[m] = "standby" => tl'[m] <= tl'[up'[m]]
    <3> SUFFICES ASSUME NEW m \in Node, pg[m] = "standby" PROVE tl'[m] <= tl'[up[m]]
      BY <2>2
    <3>1. up[m] \in Node /\ tl[m] <= tl[up[m]]
      BY DEF TimelineInv, TypeOK
    <3>2. CASE m = n
      BY <1>a, <2>1, <2>2, <2>3, <3>2
    <3>3. CASE m # n
      <4>1. tl'[m] = tl[m] /\ tl[up[m]] <= tl'[up[m]]
        BY <1>a, <2>2, <2>3, <3>1, <3>3
      <4> QED BY <1>a, <2>3, <3>1, <4>1, SettingAssumption
    <3> QED BY <3>2, <3>3
  <2> QED BY <2>2, <2>4, <2>5, <2>6 DEF TimelineInv, TypeOK
<1>5. ASSUME NEW n \in Node, Promotes(n) PROVE TimelineInv'
  <2>1. spent' \in [Event -> Nat]
    BY <1>5, SpendType DEF TimelineInv, TypeOK, Promotes
  <2>2. /\ pg[n] = "standby" /\ tl[n] < MaxTimeline /\ pg' = [pg EXCEPT ![n] = "primary"]
        /\ tl' = [tl EXCEPT ![n] = tl[n] + 1] /\ up' = [up EXCEPT ![n] = n]
        /\ daemon' = [daemon EXCEPT ![n] = "primary"] /\ UNCHANGED <<wal, island, todo, rivals>>
        /\ ctl' = ctl \/ ctl' = [ctl EXCEPT ![n] = tl[n] + 1]
    BY <1>5 DEF Promotes
  <2>3. \A m \in Node : tl'[m] \in 1 .. MaxTimeline /\ tl[m] <= tl'[m]
    BY <1>a, <2>2, SettingAssumption
  <2>4. /\ tl' \in [Node -> 1 .. MaxTimeline]
        /\ ctl' \in [Node -> 1 .. MaxTimeline] /\ \A m \in Node : ctl'[m] <= tl'[m]
    BY <1>a, <2>2, <2>3, SettingAssumption DEF TimelineInv, TypeOK
  <2>5. /\ pg' \in [Node -> {"primary", "standby", "down", "crashed"}] /\ up' \in [Node -> Node]
        /\ daemon' \in [Node -> Stage]
    BY <2>2 DEF TimelineInv, TypeOK, Stage
  <2>6. \A m \in Node : pg'[m] = "standby" => tl'[m] <= tl'[up'[m]]
    <3> SUFFICES ASSUME NEW m \in Node, pg'[m] = "standby" PROVE tl'[m] <= tl'[up'[m]]
      OBVIOUS
    <3>1. m # n /\ pg[m] = "standby" /\ up'[m] = up[m] /\ tl'[m] = tl[m]
      BY <2>2 DEF TimelineInv, TypeOK
    <3>2. up[m] \in Node /\ tl[m] <= tl[up[m]]
      BY <3>1 DEF TimelineInv, TypeOK
    <3>3. tl[up[m]] <= tl'[up[m]]
      BY <2>3, <3>2
    <3> QED BY <1>a, <2>3, <3>1, <3>2, <3>3, SettingAssumption
  <2> QED BY <2>1, <2>2, <2>4, <2>5, <2>6 DEF TimelineInv, TypeOK
<1>6. ASSUME NEW n \in Node, Checkpoint(n) PROVE TimelineInv'
  <2>1. ctl' \in [Node -> 1 .. MaxTimeline] /\ \A m \in Node : ctl'[m] <= tl'[m]
    BY <1>6, <1>a, SettingAssumption DEF TimelineInv, TypeOK, Checkpoint
  <2> QED BY <1>6, <2>1 DEF TimelineInv, TypeOK, Checkpoint
<1>7. ASSUME NEW n \in Node, Crashes(n) PROVE TimelineInv'
  <2>1. spent' \in [Event -> Nat]
    BY <1>7, SpendType DEF TimelineInv, TypeOK, Crashes
  <2>2. /\ pg' = [pg EXCEPT ![n] = "crashed"]
        /\ daemon' = daemon \/ daemon' = [daemon EXCEPT ![n] = "gone"]
        /\ UNCHANGED <<tl, ctl, wal, up, island, todo, rivals>>
    BY <1>7 DEF Crashes
  <2> QED BY <2>1, <2>2 DEF TimelineInv, TypeOK, Stage
<1>8. ASSUME NEW n \in Node, Starts(n) PROVE TimelineInv'
  <2>1. spent' \in [Event -> Nat]
    BY <1>8, SpendType DEF TimelineInv, TypeOK, Starts
  <2>2. /\ pg' = [pg EXCEPT ![n] = "primary"]
        /\ daemon' = daemon \/ daemon' = [daemon EXCEPT ![n] = "primary"]
        /\ UNCHANGED <<tl, ctl, wal, up, island, todo, rivals>>
    BY <1>8 DEF Starts
  <2> QED BY <2>1, <2>2 DEF TimelineInv, TypeOK, Stage
<1> QED BY <1>1, <1>2, <1>3, <1>4, <1>5, <1>6, <1>7, <1>8 DEF Environment

LEMMA RepmgrdTimelines ==
  ASSUME TimelineInv, NEW n \in Node, RepmgrdStep(n)
  PROVE  TimelineInv'
<1> USE DEF Become
<1>a. tl \in [Node -> 1 .. MaxTimeline] /\ \A m \in Node : ctl[m] <= tl[m]
  BY DEF TimelineInv, TypeOK
<1>1. CASE LocalLost(n) \/ StartScan(n) \/ Ask(n) \/ Resumes(n)
  <2>1. \/ UNCHANGED daemon
        \/ \E stage \in {"yielding", "scan", "primary"} : daemon' = [daemon EXCEPT ![n] = stage]
    BY <1>1 DEF LocalLost, StartScan, Ask, Resumes
  <2>2. daemon' \in [Node -> Stage]
    BY <2>1 DEF TimelineInv, TypeOK, Stage
  <2>3. todo' \in [Node -> SUBSET Node] /\ rivals' \in [Node -> SUBSET Node]
    <3>1. CASE LocalLost(n) \/ Resumes(n)
      BY <3>1 DEF TimelineInv, TypeOK, LocalLost, Resumes
    <3>2. CASE StartScan(n)
      BY <3>2 DEF TimelineInv, TypeOK, StartScan
    <3>3. CASE Ask(n)
      BY <3>3 DEF TimelineInv, TypeOK, Ask
    <3> QED BY <1>1, <3>1, <3>2, <3>3
  <2>4. UNCHANGED <<cluster, island, spent>>
    BY <1>1 DEF LocalLost, StartScan, Ask, Resumes
  <2> QED BY <2>2, <2>3, <2>4 DEF TimelineInv, TypeOK, cluster
<1>2. CASE Judge(n) \/ JudgeFails(n)
  <2>1. /\ \E verdict \in {"stopping", "yielding", "primary"} : daemon' = [daemon EXCEPT ![n] = verdict]
        /\ rivals' = [rivals EXCEPT ![n] = {}] /\ UNCHANGED <<cluster, island, todo>>
    BY <1>2 DEF Judge, JudgeFails
  <2>2. spent' \in [Event -> Nat]
    BY <1>2, SpendType DEF TimelineInv, TypeOK, Judge, JudgeFails
  <2> QED BY <2>1, <2>2 DEF TimelineInv, TypeOK, Stage, cluster
<1>3. CASE Stops(n) \/ GivesWay(n) \/ IsCleaned(n)
  <2>1. /\ ShutDown(n) /\ UNCHANGED <<tl, wal, up, island, todo, rivals, spent>>
        /\ \E stage \in {"ended", "rejoining"} : daemon' = [daemon EXCEPT ![n] = stage]
    BY <1>3 DEF Stops, GivesWay, IsCleaned
  <2>2. daemon' \in [Node -> Stage]
    BY <2>1 DEF TimelineInv, TypeOK, Stage
  <2> QED BY <2>1, <2>2, ShutDownType DEF TimelineInv, TypeOK
<1>4. CASE Recovers(n)
  BY <1>4 DEF TimelineInv, TypeOK, Recovers, Stage
<1>5. CASE Rejoins(n)
  <2>1. PICK m \in Node :
          /\ CanRejoin(n, m) /\ pg' = [pg EXCEPT ![n] = "standby"]
          /\ wal' = [wal EXCEPT ![n] = Rewound(n, up[m])] /\ up' = [up EXCEPT ![n] = up[m]]
          /\ ctl' = [ctl EXCEPT ![n] = tl[up[m]]] /\ tl' = [tl EXCEPT ![n] = tl[up[m]]]
    BY <1>5 DEF Rejoins, Adopt
  <2>2. daemon' = [daemon EXCEPT ![n] = "standby"] /\ UNCHANGED <<island, todo, rivals, spent>>
    BY <1>5 DEF Rejoins
  <2>3. up[m] \in Node /\ tl[n] <= tl[up[m]]
    BY <1>a, <2>1, SettingAssumption DEF TimelineInv, TypeOK, CanRejoin
  <2>4. Rewound(n, up[m]) \in SUBSET Records
    BY <2>3 DEF TimelineInv, TypeOK, Rewound
  <2>5. \A k \in Node : tl'[k] \in 1 .. MaxTimeline /\ tl[k] <= tl'[k]
    BY <1>a, <2>1, <2>3, SettingAssumption
  <2>6. /\ tl' \in [Node -> 1 .. MaxTimeline] /\ wal' \in [Node -> SUBSET Records]
        /\ ctl' \in [Node -> 1 .. MaxTimeline] /\ up' \in [Node -> Node]
        /\ pg' \in [Node -> {"primary", "standby", "down", "crashed"}] /\ daemon' \in [Node -> Stage]
    BY <2>1, <2>2, <2>3, <2>4 DEF TimelineInv, TypeOK, Stage
  <2>7. \A k \in Node : ctl'[k] <= tl'[k]
    BY <1>a, <2>1, <2>3, SettingAssumption DEF TimelineInv, TypeOK
  <2>8. \A k \in Node : pg'[k] = "standby" => tl'[k] <= tl'[up'[k]]
    <3> SUFFICES ASSUME NEW k \in Node, pg'[k] = "standby" PROVE tl'[k] <= tl'[up'[k]]
      OBVIOUS
    <3>1. CASE k = n
      BY <1>a, <2>1, <2>3, <2>5, <3>1, SettingAssumption DEF TimelineInv, TypeOK
    <3>2. CASE k # n
      <4>1. pg[k] = "standby" /\ up'[k] = up[k] /\ tl'[k] = tl[k]
        BY <2>1, <3>2 DEF TimelineInv, TypeOK
      <4>2. up[k] \in Node /\ tl[k] <= tl[up[k]]
        BY <4>1 DEF TimelineInv, TypeOK
      <4>3. tl[up[k]] <= tl'[up[k]]
        BY <2>5, <4>2
      <4> QED BY <1>a, <2>5, <4>1, <4>2, <4>3, SettingAssumption
    <3> QED BY <3>1, <3>2
  <2> QED BY <2>2, <2>6, <2>7, <2>8 DEF TimelineInv, TypeOK
<1> QED BY <1>1, <1>2, <1>3, <1>4, <1>5 DEF RepmgrdStep

LEMMA TimelinesKept ==
  ASSUME TimelineInv, [Next]_vars
  PROVE  TimelineInv'
<1>1. CASE UNCHANGED vars
  BY <1>1 DEF vars, TimelineInv, TypeOK
<1> QED BY <1>1, EnvironmentTimelines, RepmgrdTimelines DEF Next

(***************************************************************************)
(* The type invariant, for every network of nodes: a checkpoint is never   *)
(* on a later timeline than its server.                                    *)
(***************************************************************************)
THEOREM TypeCorrect == Spec => []TypeOK
<1>1. Init => TimelineInv
  BY NodeAssumption, SettingAssumption DEF Init, TimelineInv, TypeOK, Stage
<1>2. TimelineInv /\ [Next]_vars => TimelineInv'
  BY TimelinesKept
<1>3. TimelineInv => TypeOK
  BY DEF TimelineInv
<1> QED BY <1>1, <1>2, <1>3, PTL DEF Spec

-----------------------------------------------------------------------------
(* Giving way. *)

\* check_timeline() is a strict order, so that the last of those that give way
\* in turn has another one above it.
LEMMA AboveIsAnOrder ==
  ASSUME TypeOK, NEW a \in Node, NEW b \in Node
  PROVE  /\ ~Above(a, a)
         /\ a # b => Above(a, b) \/ Above(b, a)
         /\ \A c \in Node : Above(a, b) /\ Above(b, c) => Above(a, c)
<1>1. a \in Nat /\ b \in Nat /\ tl[a] \in Int /\ tl[b] \in Int /\ Priority[a] \in Nat /\ Priority[b] \in Nat
  BY NodeAssumption, SettingAssumption DEF TypeOK
<1>2. ASSUME NEW c \in Node, Above(a, b), Above(b, c) PROVE Above(a, c)
  <2>1. c \in Nat /\ tl[c] \in Int /\ Priority[c] \in Nat
    BY NodeAssumption, SettingAssumption DEF TypeOK
  <2> QED BY <1>1, <1>2, <2>1 DEF Above
<1> QED BY <1>1, <1>2 DEF Above

\* Where pg_control is up to date, it is what check_timeline() goes by.
LEMMA YieldsToAbove ==
  ASSUME TypeOK, NEW n \in Node, NEW m \in Node, ctl[n] = tl[n], Yields(n, m)
  PROVE  Above(m, n)
<1>1. tl[n] \in Int /\ tl[m] \in Int /\ Priority[n] \in Nat /\ Priority[m] \in Nat /\ n \in Nat /\ m \in Nat
  BY NodeAssumption, SettingAssumption DEF TypeOK
<1> QED BY <1>1 DEF Yields, Above

\* A step of anybody leaves a node beaten, as long as the one above it goes on
\* as a primary, has to stop or is lost with its host.
LEMMA StaysBeaten ==
  ASSUME TypeOK, NEW n \in Node, tl'[n] = tl[n], NEW m \in Node, Above(m, n), tl'[m] = tl[m],
         pg'[m] = "primary" \/ daemon'[m] \in {"ended", "gone"}
  PROVE  Beaten(n)'
<1>1. Above(m, n)'
  BY DEF Above
<1> QED BY <1>1 DEF Beaten

\* The timelines of those concerned do not change.
LEMMA TimelineStays ==
  ASSUME TypeOK, Known, [Next]_vars, NEW m \in Node,
         pg[m] = "primary" \/ daemon[m] \in {"ended", "gone"}
  PROVE  tl'[m] = tl[m]
<1>a. pg[m] \in {"primary", "down", "crashed"} /\ (pg[m] # "primary" => daemon[m] # "rejoining")
  BY DEF Known
<1>b. tl \in [Node -> 1 .. MaxTimeline]
  BY DEF TypeOK
<1>1. CASE Environment
  <2>1. ASSUME NEW n \in Node, Stream(n) \/ Promotes(n) PROVE tl'[m] = tl[m]
    BY <2>1, <1>a, <1>b DEF Stream, Promotes
  <2> QED BY <1>1, <2>1 DEF Environment, Splits, Heals, Write, Checkpoint, Crashes, Starts
<1>2. ASSUME NEW n \in Node, RepmgrdStep(n) PROVE tl'[m] = tl[m]
  <2>1. CASE Rejoins(n)
    BY <2>1, <1>a, <1>b DEF Rejoins, Adopt
  <2> QED
    BY <1>2, <2>1 DEF RepmgrdStep, LocalLost, StartScan, Ask, Judge, JudgeFails, Stops, GivesWay, Recovers, IsCleaned,
       Resumes
<1>3. CASE UNCHANGED vars
  BY <1>3 DEF vars
<1> QED BY <1>1, <1>2, <1>3 DEF Next

LEMMA NoneCleanedSoFar ==
  ASSUME TypeOK, [Next]_vars, NoneCleaned'
  PROVE  NoneCleaned
<1>1. \A event \in Event : spent[event] <= spent'[event]
  <2>1. spent \in [Event -> Nat]
    BY DEF TypeOK
  <2>2. CASE spent' = spent
    BY <2>1, <2>2
  <2>3. CASE \E events : Spend(events)
    BY <2>1, <2>3, SpendType
  <2>4. CASE Environment
    BY <2>2, <2>3, <2>4 DEF Environment, Splits, Heals, Write, Stream, Promotes, Checkpoint, Crashes, Starts
  <2>5. ASSUME NEW n \in Node, RepmgrdStep(n) PROVE spent' = spent \/ \E events : Spend(events)
    <3>1. JudgeFails(n) => \E events : Spend(events)
      BY DEF JudgeFails
    <3>2. ~JudgeFails(n) => spent' = spent
      BY <2>5 DEF RepmgrdStep, LocalLost, StartScan, Ask, Judge, Stops, GivesWay, Recovers, IsCleaned,
         Rejoins, Resumes
    <3> QED BY <3>1, <3>2
  <2>6. CASE UNCHANGED vars
    BY <2>2, <2>6 DEF vars
  <2> QED BY <2>2, <2>3, <2>4, <2>5, <2>6 DEF Next
<1>2. "crash" \in Event /\ "late" \in Event
  BY DEF Event
<1> QED BY <1>1, <1>2 DEF NoneCleaned, TypeOK

\* A fault that is not counted here has not happened.
LEMMA NotSpent ==
  ASSUME TypeOK, NoneCleaned, NEW events, Spend(events), "crash" \in events \/ "late" \in events
  PROVE  ~NoneCleaned'
<1>1. "crash" \in Event /\ "late" \in Event
  BY DEF Event
<1> QED BY <1>1, SpendType DEF NoneCleaned, TypeOK

LEMMA KnownIsKept ==
  ASSUME TypeOK, Known, NoneCleaned, [Next]_vars, NoneCleaned'
  PROVE  Known'
<1> USE DEF Become
<1>a. /\ pg \in [Node -> {"primary", "standby", "down", "crashed"}] /\ daemon \in [Node -> Stage]
      /\ tl \in [Node -> 1 .. MaxTimeline] /\ ctl \in [Node -> 1 .. MaxTimeline]
  BY DEF TypeOK
<1>b. ASSUME UNCHANGED <<pg, tl, ctl, daemon>> PROVE Known'
  BY <1>b DEF Known
<1>1. CASE Splits \/ Heals
  BY <1>1, <1>b DEF Splits, Heals
<1>2. ASSUME NEW n \in Node, Write(n) \/ Checkpoint(n) PROVE Known'
  BY <1>2, <1>a, <1>b DEF Write, Checkpoint, Known
<1>3. ASSUME NEW n \in Node, Stream(n) PROVE Known'
  BY <1>3, <1>a DEF Stream, Known
<1>4. ASSUME NEW n \in Node, Promotes(n) PROVE Known'
  <2>1. /\ ctl' = [ctl EXCEPT ![n] = tl[n] + 1] /\ tl' = [tl EXCEPT ![n] = tl[n] + 1]
        /\ pg[n] = "standby" /\ pg' = [pg EXCEPT ![n] = "primary"]
        /\ daemon' = [daemon EXCEPT ![n] = "primary"]
    BY <1>4, NotSpent DEF Promotes
  <2> QED BY <1>a, <2>1 DEF Known
<1>5. ASSUME NEW n \in Node, Crashes(n) PROVE Known'
  <2>1. /\ pg[n] = "primary" /\ pg' = [pg EXCEPT ![n] = "crashed"]
        /\ daemon' = [daemon EXCEPT ![n] = "gone"] /\ UNCHANGED <<tl, ctl>>
    BY <1>5, NotSpent DEF Crashes
  <2> QED BY <1>a, <2>1 DEF Known
<1>6. ASSUME NEW n \in Node, Starts(n) PROVE Known'
  <2>1. /\ pg[n] \in {"down", "crashed"} /\ daemon[n] # "gone" /\ pg' = [pg EXCEPT ![n] = "primary"]
        /\ daemon' = IF daemon[n] = "ended" THEN [daemon EXCEPT ![n] = "primary"] ELSE daemon
        /\ UNCHANGED <<tl, ctl>>
    BY <1>6 DEF Starts
  <2> QED BY <1>a, <2>1 DEF Known
<1>7. ASSUME NEW n \in Node, LocalLost(n) \/ Recovers(n) \/ IsCleaned(n) PROVE FALSE
  BY <1>7 DEF LocalLost, Recovers, IsCleaned, Known
<1>8. ASSUME NEW n \in Node, StartScan(n) \/ Ask(n) \/ Resumes(n) PROVE Known'
  BY <1>8, <1>a, <1>b DEF StartScan, Ask, Resumes, Known
<1>9. ASSUME NEW n \in Node, Judge(n) \/ JudgeFails(n) PROVE Known'
  <2>1. /\ daemon[n] = "scan" /\ UNCHANGED <<pg, tl, ctl>>
        /\ \E verdict \in {"stopping", "yielding", "primary"} : daemon' = [daemon EXCEPT ![n] = verdict]
    BY <1>9 DEF Judge, JudgeFails
  <2> QED BY <1>a, <2>1 DEF Known
<1>10. ASSUME NEW n \in Node, Stops(n) \/ GivesWay(n) PROVE Known'
  <2>1. /\ pg[n] = "primary" /\ UNCHANGED tl
        /\ daemon' = [daemon EXCEPT ![n] = "ended"] \/ daemon' = [daemon EXCEPT ![n] = "rejoining"]
    BY <1>10 DEF Stops, GivesWay, Known
  <2>2. pg' = [pg EXCEPT ![n] = "down"] /\ ctl' = [ctl EXCEPT ![n] = tl[n]]
    BY <1>10, <2>1 DEF Stops, GivesWay, ShutDown
  <2> QED BY <1>a, <2>1, <2>2 DEF Known
<1>11. ASSUME NEW n \in Node, Rejoins(n) PROVE Known'
  <2>1. PICK m \in Node : /\ pg' = [pg EXCEPT ![n] = "standby"]
                          /\ ctl' = [ctl EXCEPT ![n] = tl[up[m]]] /\ tl' = [tl EXCEPT ![n] = tl[up[m]]]
    BY <1>11 DEF Rejoins, Adopt
  <2>2. daemon' = [daemon EXCEPT ![n] = "standby"]
    BY <1>11 DEF Rejoins
  <2> QED BY <1>a, <2>1, <2>2 DEF Known
<1>12. CASE UNCHANGED vars
  BY <1>12, <1>b DEF vars
<1> QED
  BY <1>1, <1>2, <1>3, <1>4, <1>5, <1>6, <1>7, <1>8, <1>9, <1>10, <1>11, <1>12
     DEF Next, Environment, RepmgrdStep

\* Who is a primary, or has ended as one, goes on, has to stop, is lost, or gives
\* way itself.
LEMMA PrimaryGoesOn ==
  ASSUME TypeOK, Known, NoneCleaned, [Next]_vars, NoneCleaned', NEW m \in Node,
         pg[m] = "primary" \/ daemon[m] \in {"ended", "gone"}
  PROVE  \/ pg'[m] = "primary" \/ daemon'[m] \in {"ended", "gone"}
         \/ GivesWay(m) /\ daemon[m] = "yielding"
<1> USE DEF Become
<1>a. pg \in [Node -> {"primary", "standby", "down", "crashed"}] /\ daemon \in [Node -> Stage]
  BY DEF TypeOK
<1>b. ASSUME UNCHANGED <<pg, daemon>> PROVE pg'[m] = "primary" \/ daemon'[m] \in {"ended", "gone"}
  BY <1>b
<1>1. CASE Environment
  <2>1. ASSUME NEW n \in Node, Promotes(n) PROVE pg'[m] = "primary" \/ daemon'[m] \in {"ended", "gone"}
    BY <2>1, <1>a DEF Promotes
  <2>2. ASSUME NEW n \in Node, Crashes(n) PROVE pg'[m] = "primary" \/ daemon'[m] \in {"ended", "gone"}
    <3>1. pg' = [pg EXCEPT ![n] = "crashed"] /\ daemon' = [daemon EXCEPT ![n] = "gone"]
      BY <2>2, NotSpent DEF Crashes
    <3> QED BY <1>a, <3>1
  <2>3. ASSUME NEW n \in Node, Starts(n) PROVE pg'[m] = "primary" \/ daemon'[m] \in {"ended", "gone"}
    BY <2>3, <1>a DEF Starts
  <2> QED BY <1>1, <1>b, <2>1, <2>2, <2>3 DEF Environment, Splits, Heals, Write, Stream, Checkpoint
<1>2. ASSUME NEW n \in Node, RepmgrdStep(n)
      PROVE  \/ pg'[m] = "primary" \/ daemon'[m] \in {"ended", "gone"}
             \/ GivesWay(m) /\ daemon[m] = "yielding"
  <2>1. CASE LocalLost(n) \/ Recovers(n) \/ IsCleaned(n)
    BY <2>1 DEF LocalLost, Recovers, IsCleaned, Known
  <2>2. CASE StartScan(n) \/ Ask(n) \/ Resumes(n)
    BY <2>2, <1>a DEF StartScan, Ask, Resumes
  <2>3. CASE Judge(n) \/ JudgeFails(n)
    BY <2>3, <1>a DEF Judge, JudgeFails
  <2>4. CASE Stops(n)
    BY <2>4, <1>a DEF Stops, ShutDown
  <2>5. CASE GivesWay(n)
    BY <2>5, <1>a DEF GivesWay, ShutDown
  <2>6. CASE Rejoins(n)
    <3>1. /\ daemon[n] = "rejoining" /\ pg[n] = "down" /\ pg' = [pg EXCEPT ![n] = "standby"]
          /\ daemon' = [daemon EXCEPT ![n] = "standby"]
      BY <2>6 DEF Rejoins
    <3> QED BY <1>a, <3>1
  <2> QED BY <1>2, <2>1, <2>2, <2>3, <2>4, <2>5, <2>6 DEF RepmgrdStep
<1>3. CASE UNCHANGED vars
  BY <1>3, <1>b DEF vars
<1> QED BY <1>1, <1>2, <1>3 DEF Next

\* Who is found to be above, when a scan ends.
LEMMA JudgedIsBeaten ==
  ASSUME TypeOK, Known, NEW n \in Node, Judge(n), daemon'[n] = "yielding"
  PROVE  Beaten(n)'
<1>1. daemon[n] = "scan" /\ UNCHANGED cluster
  BY DEF Judge
<1>2. \E m \in Node : pg[m] = "primary" /\ Yields(n, m)
  BY DEF Judge, Become, TypeOK, IsPrimary
<1>3. PICK m \in Node : pg[m] = "primary" /\ Yields(n, m)
  BY <1>2
<1>4. Above(m, n)
  BY <1>1, <1>3, YieldsToAbove DEF Known
<1> QED BY <1>1, <1>3, <1>4, StaysBeaten

LEMMA BeatenIsKept ==
  ASSUME TypeOK, BeatenInv, [Next]_vars
  PROVE  BeatenInv'
<1> SUFFICES ASSUME NoneCleaned' PROVE Known' /\ \A n \in Node : daemon'[n] = "yielding" => Beaten(n)'
  BY DEF BeatenInv
<1>1. NoneCleaned /\ Known /\ \A n \in Node : daemon[n] = "yielding" => Beaten(n)
  BY NoneCleanedSoFar DEF BeatenInv
<1>2. Known'
  BY <1>1, KnownIsKept
<1>3. ASSUME NEW n \in Node, daemon'[n] = "yielding" PROVE Beaten(n)'
  <2>1. CASE daemon[n] = "yielding"
    <3>1. PICK m \in Node : Above(m, n) /\ (pg[m] = "primary" \/ daemon[m] \in {"ended", "gone"})
      BY <1>1, <2>1 DEF Beaten
    <3>2. tl'[n] = tl[n] /\ tl'[m] = tl[m]
      BY <1>1, <2>1, <3>1, TimelineStays DEF Known
    <3>3. CASE pg'[m] = "primary" \/ daemon'[m] \in {"ended", "gone"}
      BY <3>1, <3>2, <3>3, StaysBeaten
    <3>4. CASE GivesWay(m) /\ daemon[m] = "yielding"
      <4>1. PICK k \in Node : Above(k, m) /\ (pg[k] = "primary" \/ daemon[k] \in {"ended", "gone"})
        BY <1>1, <3>4 DEF Beaten
      <4>2. Above(k, n) /\ k # m
        BY <3>1, <4>1, AboveIsAnOrder
      <4>3. tl'[k] = tl[k]
        BY <3>4 DEF GivesWay
      <4>4. pg'[k] = pg[k] /\ daemon'[k] = daemon[k]
        BY <3>4, <4>2 DEF GivesWay, ShutDown, Become, TypeOK
      <4> QED BY <3>2, <4>1, <4>2, <4>3, <4>4, StaysBeaten
    <3> QED BY <1>1, <3>1, <3>3, <3>4, PrimaryGoesOn
  <2>2. CASE daemon[n] # "yielding"
    <3>1. Judge(n)
      <4>a. daemon \in [Node -> Stage]
        BY DEF TypeOK
      <4>1. CASE Environment
        BY <1>3, <2>2, <4>1, <4>a DEF Environment, Splits, Heals, Write, Stream, Promotes, Checkpoint,
           Crashes, Starts, Become
      <4>2. ASSUME NEW m \in Node, RepmgrdStep(m) PROVE Judge(n)
        <5>1. ~LocalLost(m)
          BY <1>1 DEF LocalLost, Known
        <5>2. daemon'[n] # daemon[n]
          BY <1>3, <2>2
        <5> QED BY <1>3, <4>2, <4>a, <5>1, <5>2 DEF RepmgrdStep, StartScan, Ask, Judge, JudgeFails, Stops, GivesWay,
               Recovers, IsCleaned, Rejoins, Resumes, Become
      <4>3. CASE UNCHANGED vars
        BY <1>3, <2>2, <4>3 DEF vars
      <4> QED BY <4>1, <4>2, <4>3 DEF Next
    <3> QED BY <1>1, <1>3, <3>1, JudgedIsBeaten
  <2> QED BY <2>1, <2>2
<1> QED BY <1>2, <1>3

(***************************************************************************)
(* The inductive invariant of the checks.                                  *)
(***************************************************************************)
THEOREM SplitHolds == Spec => []SplitInv
<1>1. Init => SplitInv
  <2>1. Init => TimelineInv
    BY NodeAssumption, SettingAssumption DEF Init, TimelineInv, TypeOK, Stage
  <2>2. Init => Known /\ \A n \in Node : daemon[n] # "yielding"
    BY DEF Init, Known
  <2> QED BY <2>1, <2>2 DEF SplitInv, BeatenInv
<1>2. SplitInv /\ [Next]_vars => SplitInv'
  BY TimelinesKept, BeatenIsKept DEF SplitInv, TimelineInv
<1> QED BY <1>1, <1>2, PTL DEF Spec

(***************************************************************************)
(* For any number of nodes that find each other to be primaries, in any    *)
(* interleaving of their checks and their stops: the last primary does not *)
(* give way, as each of those that do has a primary above it, and above    *)
(* that one another if it gives way as well.  LastGoesOn says so whatever  *)
(* the primaries have written: check_BS() does not look at their WAL.      *)
(***************************************************************************)
LastGoesOn == [][Undisturbed /\ Primaries # {} => Primaries' # {}]_vars

THEOREM OneGoesOn == Spec => LastGoesOn /\ OnlyOneIsStopped
<1> DEFINE Apart == Undisturbed /\ Primaries # {}
<1> USE DEF Undisturbed
<1>1. ASSUME SplitInv, [Next]_vars, Apart PROVE Primaries' # {}
  <2>1. TypeOK /\ NoneCleaned /\ NoneCleaned'
    BY <1>1, NoneCleanedSoFar DEF SplitInv, TimelineInv, NoneCleaned
  <2>2. Known /\ \A n \in Node : daemon[n] = "yielding" => Beaten(n)
    BY <1>1, <2>1 DEF SplitInv, BeatenInv
  <2>3. PICK p \in Node : pg[p] = "primary"
    BY <1>1 DEF Primaries
  <2>4. CASE pg'[p] = "primary"
    BY <2>4 DEF Primaries
  <2>5. CASE GivesWay(p) /\ daemon[p] = "yielding"
    <3>1. PICK m \in Node : Above(m, p) /\ (pg[m] = "primary" \/ daemon[m] \in {"ended", "gone"})
      BY <2>2, <2>5 DEF Beaten
    <3>2. m # p
      BY <2>1, <3>1, AboveIsAnOrder
    <3>3. daemon[m] # "gone"
      <4>1. tl[m] >= tl[p] /\ tl[m] \in Int /\ tl[p] \in Int
        BY <2>1, <3>1, SettingAssumption DEF Above, TypeOK
      <4>2. daemon[m] = "gone" => tl[m] < tl[p]
        BY <1>1, <2>3 DEF Primaries
      <4> QED BY <4>1, <4>2
    <3>4. pg[m] = "primary"
      BY <1>1, <3>1, <3>3
    <3>5. pg'[m] = "primary"
      BY <2>1, <2>5, <3>2, <3>4 DEF GivesWay, ShutDown, TypeOK
    <3> QED BY <3>5 DEF Primaries
  <2>6. CASE pg'[p] # "primary" /\ daemon'[p] \in {"ended", "gone"}
    <3>a. pg \in [Node -> {"primary", "standby", "down", "crashed"}] /\ daemon \in [Node -> Stage]
      BY <2>1 DEF TypeOK
    <3>1. CASE Environment
      <4>1. ASSUME NEW n \in Node, Crashes(n) PROVE FALSE
        <5>1. PICK events : Spend(events) /\ "failure" \in events
          BY <4>1 DEF Crashes
        <5>2. "failure" \in Event
          BY DEF Event
        <5> QED BY <1>1, <2>1, <5>1, <5>2, SpendType DEF TypeOK
      <4> QED BY <2>3, <2>6, <3>1, <3>a, <4>1 DEF Environment, Splits, Heals, Write, Stream, Promotes,
             Checkpoint, Starts
    <3>2. ASSUME NEW n \in Node, RepmgrdStep(n) PROVE pg'[p] = "primary" \/ daemon'[p] \notin {"ended", "gone"}
      <4>1. ~Stops(n)
        BY <1>1 DEF Stops
      <4>2. CASE GivesWay(n)
        BY <2>3, <3>a, <4>2 DEF GivesWay, ShutDown, Become
      <4>3. CASE Rejoins(n)
        <5>1. pg[n] = "down" /\ pg' = [pg EXCEPT ![n] = "standby"]
          BY <4>3 DEF Rejoins
        <5> QED BY <2>3, <3>a, <5>1
      <4>4. ~IsCleaned(n) /\ ~LocalLost(n) /\ ~Recovers(n)
        BY <2>2 DEF IsCleaned, LocalLost, Recovers, Known
      <4>5. CASE StartScan(n) \/ Ask(n) \/ Judge(n) \/ JudgeFails(n) \/ Resumes(n)
        BY <2>3, <4>5 DEF StartScan, Ask, Judge, JudgeFails, Resumes
      <4> QED BY <3>2, <4>1, <4>2, <4>3, <4>4, <4>5 DEF RepmgrdStep
    <3>3. CASE UNCHANGED vars
      BY <2>3, <2>6, <3>3 DEF vars
    <3> QED BY <1>1, <2>6, <3>1, <3>2, <3>3 DEF Next
  <2> QED BY <1>1, <2>1, <2>2, <2>3, <2>4, <2>5, <2>6, PrimaryGoesOn
<1>2. SplitInv /\ [Next]_vars => [Apart => Primaries' # {}]_vars
  BY <1>1
<1>3. SplitInv /\ [Next]_vars => [Undisturbed /\ ~WalHasSplit /\ Primaries # {} => Primaries' # {}]_vars
  BY <1>1
<1> QED BY <1>2, <1>3, SplitHolds, PTL DEF Spec, LastGoesOn, OnlyOneIsStopped

-----------------------------------------------------------------------------
(***************************************************************************)
(* The handler of a BDR failover.                                          *)
(***************************************************************************)

\* What a daemon does.
Task == [at : Place, node : BdrNode, link : {"open", "broken", "freed"}]

\* The handlers and what the daemons do.
BdrTypes ==
  /\ handler \in [BdrNode -> BdrNode \cup {Nobody}]
  /\ task \in [BdrNode -> Task]

\* By itself an inductive invariant.
BdrInv == BdrTypes /\ HandlerIsReleased

\* The stages in which a daemon may be the handler.
Entitled == {"recheck", "update", "unset"}

\* No node has the id that stands for none.
LEMMA MarksNobody == Nobody \notin BdrNode
BY BdrNodeAssumption DEF Nobody

LEMMA TaskType == \A stage \in Place, m \in BdrNode : At(stage, m) \in Task
BY DEF At, Task

LEMMA InitBdr == BdrInit => BdrInv
<1> SUFFICES ASSUME BdrInit PROVE BdrInv
  OBVIOUS
<1>1. \A d \in BdrNode : task[d] = At("loop", d)
  BY DEF BdrInit
<1>2. task \in [BdrNode -> Task]
  BY TaskType DEF BdrInit, Place
<1>3. handler \in [BdrNode -> {Nobody}]
  BY MarksNobody DEF BdrInit
<1>4. BdrTypes
  BY <1>2, <1>3 DEF BdrTypes
<1>5. HandlerIsReleased
  BY <1>3, MarksNobody DEF HandlerIsReleased
<1> QED BY <1>4, <1>5 DEF BdrInv

\* A step of one daemon, d, that does not write a handler, and leaves d's at work
\* on the same node if it had one.
LEMMA OneDaemon ==
  ASSUME BdrInv, NEW d \in BdrNode, NEW next \in Task,
         task' = [task EXCEPT ![d] = next], handler' = handler, left \subseteq left',
         \/ task[d].at \notin Entitled
         \/ task[d].at \in Entitled /\ next.at \in Entitled /\ next.node = task[d].node
         \/ {n \in BdrNode : handler[n] = d} \subseteq left'
  PROVE  BdrInv'
<1>1. BdrTypes'
  BY DEF BdrInv, BdrTypes
<1>2. ASSUME NEW n \in BdrNode \ left', NEW e \in BdrNode, handler'[n] = e
      PROVE  task'[e].at \in Entitled /\ Peer(e)' = n
  <2>1. task[e].at \in Entitled /\ Peer(e) = n
    BY <1>2 DEF BdrInv, HandlerIsReleased, Entitled
  <2>2. CASE e # d
    BY <2>1, <2>2 DEF BdrInv, BdrTypes, Peer
  <2>3. CASE e = d
    <3>1. next.at \in Entitled /\ next.node = task[d].node /\ task'[d] = next
      BY <1>2, <2>1, <2>3 DEF BdrInv, BdrTypes
    <3> QED BY <2>1, <2>3, <3>1 DEF Peer, Entitled
  <2> QED BY <2>2, <2>3
<1>3. HandlerIsReleased'
  BY <1>2 DEF HandlerIsReleased, Entitled
<1> QED BY <1>1, <1>3 DEF BdrInv

\* The ways in which a daemon goes on.
LEMMA DaemonGoes ==
  ASSUME BdrTypes, NEW d \in BdrNode
  PROVE  /\ \A stage \in Place : Goes(d, stage) =>
              \E next \in Task : /\ task' = [task EXCEPT ![d] = next]
                                 /\ next.at = stage /\ next.node = task[d].node
         /\ Returns(d) =>
              \E next \in Task : task' = [task EXCEPT ![d] = next]
         /\ Dies(d) =>
              /\ \E next \in Task : task' = [task EXCEPT ![d] = next]
              /\ left \subseteq left' /\ {n \in BdrNode : handler[n] = d} \subseteq left'
<1>1. ASSUME NEW stage \in Place, Goes(d, stage)
      PROVE  \E next \in Task : /\ task' = [task EXCEPT ![d] = next]
                                /\ next.at = stage /\ next.node = task[d].node
  <2>1. [task[d] EXCEPT !.at = stage] \in Task
    BY DEF BdrTypes, Task
  <2>2. task' = [task EXCEPT ![d] = [task[d] EXCEPT !.at = stage]]
    BY <1>1 DEF Goes
  <2>3. [task[d] EXCEPT !.at = stage].at = stage /\ [task[d] EXCEPT !.at = stage].node = task[d].node
    BY DEF BdrTypes, Task
  <2> QED BY <2>1, <2>2, <2>3
<1>2. At("loop", d) \in Task /\ At("stopped", d) \in Task
  BY TaskType DEF Place
<1> QED BY <1>1, <1>2 DEF Returns, Dies

\* What a daemon does: only a claim makes it the handler, and only in the stages
\* that end with the release.
LEMMA DaemonWorks ==
  ASSUME BdrInv, NEW d \in BdrNode, Repmgrd(d)
  PROVE  BdrInv'
<1> USE DEF Entitled
<1>a. BdrTypes
  BY DEF BdrInv
<1>b. {"loop", "reconnect", "failover", "claim", "claiming", "recheck", "update", "unset",
       "recover", "activate"} \subseteq Place
  BY DEF Place
<1>1. ASSUME NEW m \in BdrNode, Check(d, m) PROVE BdrInv'
  <2>1. \E next \in Task : task' = [task EXCEPT ![d] = next]
    BY <1>1, <1>b, TaskType DEF Check
  <2> QED BY <1>1, <2>1, OneDaemon DEF Check
<1>2. CASE Reconnect(d)
  <2>1. \E next \in Task : task' = [task EXCEPT ![d] = next]
    BY <1>2, <1>a, <1>b, DaemonGoes DEF Reconnect
  <2> QED BY <1>2, <2>1, OneDaemon DEF Reconnect
<1>3. CASE NextNode(d)
  <2>1. \E next \in Task : task' = [task EXCEPT ![d] = next]
    BY <1>3, <1>a, <1>b, DaemonGoes DEF NextNode
  <2> QED BY <1>3, <2>1, OneDaemon DEF NextNode
<1>4. CASE PeekHandler(d)
  <2>1. \E next \in Task : task' = [task EXCEPT ![d] = next]
    BY <1>4, <1>a, <1>b, DaemonGoes DEF PeekHandler
  <2> QED BY <1>4, <2>1, OneDaemon DEF PeekHandler
<1>5. CASE ClaimHandler(d)
  <2>1. CASE task[d].link = "open"
    <3> DEFINE o == Other(task[d].node)
    <3>1. /\ handler' = [handler EXCEPT ![o] = d] /\ left' = left /\ Goes(d, "recheck")
          /\ task[d].at = "claiming"
      BY <1>5, <2>1 DEF ClaimHandler
    <3>2. PICK next \in Task : /\ task' = [task EXCEPT ![d] = next]
                               /\ next.at = "recheck" /\ next.node = task[d].node
      BY <1>a, <1>b, <3>1, DaemonGoes
    <3> HIDE DEF o
    <3>3. BdrTypes'
      BY <1>a, <3>1, <3>2 DEF BdrTypes
    <3>4. ASSUME NEW n \in BdrNode \ left', NEW e \in BdrNode, handler'[n] = e
          PROVE  task'[e].at \in Entitled /\ Peer(e)' = n
      <4>1. task'[d] = next /\ \A x \in BdrNode : x # d => task'[x] = task[x]
        BY <1>a, <3>2 DEF BdrTypes
      <4>2. CASE n = o
        <5>1. e = d
          BY <1>a, <3>1, <3>4, <4>2 DEF BdrTypes
        <5> QED BY <3>2, <4>1, <4>2, <5>1 DEF Peer, o
      <4>3. CASE n # o
        <5>1. handler[n] = e
          BY <1>a, <3>1, <3>4, <4>3 DEF BdrTypes
        <5>2. task[e].at \in Entitled /\ Peer(e) = n
          BY <3>1, <3>4, <5>1 DEF BdrInv, HandlerIsReleased
        <5>3. e # d
          BY <3>1, <5>2
        <5> QED BY <4>1, <5>2, <5>3 DEF Peer
      <4> QED BY <4>2, <4>3
    <3>5. HandlerIsReleased'
      BY <3>4 DEF HandlerIsReleased
    <3> QED BY <3>3, <3>5 DEF BdrInv
  <2>2. CASE task[d].link # "open"
    <3>1. \E next \in Task : task' = [task EXCEPT ![d] = next]
      BY <1>5, <2>2, <1>a, DaemonGoes DEF ClaimHandler
    <3> QED BY <1>5, <2>2, <3>1, OneDaemon DEF ClaimHandler
  <2> QED BY <2>1, <2>2
<1>6. CASE Recheck(d)
  <2>1. \E next \in Task : /\ task' = [task EXCEPT ![d] = next]
                           /\ next.at = "update" /\ next.node = task[d].node
    <3>1. CASE Goes(d, "update")
      BY <1>a, <1>b, <3>1, DaemonGoes
    <3>2. CASE task' = [task EXCEPT ![d].at = "update", ![d].link = "freed"]
      <4> DEFINE found == [task[d] EXCEPT !.at = "update"]
                 next == [found EXCEPT !.link = "freed"]
      <4>1. found \in Task /\ found.at = "update" /\ found.node = task[d].node
        BY <1>a, <1>b DEF BdrTypes, Task
      <4>2. task' = [task EXCEPT ![d] = next]
        BY <3>2
      <4> HIDE DEF found
      <4>3. next \in Task
        BY <4>1 DEF Task
      <4>4. next.at = "update" /\ next.node = task[d].node
        BY <4>1 DEF Task
      <4> HIDE DEF next
      <4> QED BY <4>2, <4>3, <4>4
    <3> QED BY <1>6, <3>1, <3>2 DEF Recheck
  <2>2. task[d].at = "recheck" /\ handler' = handler /\ left' = left
    BY <1>6 DEF Recheck
  <2> QED BY <2>1, <2>2, OneDaemon
<1>7. CASE Update(d)
  <2>1. task[d].at = "update" /\ handler' = handler
    BY <1>7 DEF Update
  <2>2. CASE Goes(d, "unset") /\ left' = left
    <3>1. \E next \in Task : /\ task' = [task EXCEPT ![d] = next]
                             /\ next.at = "unset" /\ next.node = task[d].node
      BY <1>a, <1>b, <2>2, DaemonGoes
    <3> QED BY <2>1, <2>2, <3>1, OneDaemon
  <2>3. CASE Dies(d)
    BY <1>a, <2>1, <2>3, DaemonGoes, OneDaemon
  <2> QED BY <1>7, <2>2, <2>3 DEF Update
<1>8. CASE Unset(d)
  <2>1. CASE Dies(d) /\ handler' = handler
    BY <1>a, <2>1, DaemonGoes, OneDaemon
  <2>2. CASE /\ \/ handler' = handler
                \/ handler' = [handler EXCEPT ![Other(task[d].node)] = Nobody]
             /\ left' = left \cup {n \in BdrNode : handler'[n] = d}
             /\ Returns(d)
    <3>1. PICK next \in Task : task' = [task EXCEPT ![d] = next]
      BY <1>a, <2>2, DaemonGoes
    <3>2. BdrTypes'
      BY <1>a, <2>2, <3>1 DEF BdrTypes
    <3>3. ASSUME NEW n \in BdrNode \ left', NEW e \in BdrNode, handler'[n] = e
          PROVE  task'[e].at \in Entitled /\ Peer(e)' = n
      <4>1. e # d /\ n \notin left
        BY <2>2, <3>3
      <4>2. handler[n] = e
        BY <1>a, <2>2, <3>3, MarksNobody DEF BdrTypes
      <4>3. task[e].at \in Entitled /\ Peer(e) = n
        BY <3>3, <4>1, <4>2 DEF BdrInv, HandlerIsReleased
      <4>4. task'[e] = task[e]
        BY <1>a, <3>1, <4>1 DEF BdrTypes
      <4> QED BY <4>3, <4>4 DEF Peer
    <3>4. HandlerIsReleased'
      BY <3>3 DEF HandlerIsReleased
    <3> QED BY <3>2, <3>4 DEF BdrInv
  <2> QED BY <1>8, <2>1, <2>2, MarksNobody DEF Unset
<1>9. CASE RecoverAlone(d) \/ NotRecovered(d) \/ Activate(d)
  <2>1. Returns(d) /\ handler' = handler /\ left' = left /\ task[d].at \in {"recover", "activate"}
    BY <1>9 DEF RecoverAlone, NotRecovered, Activate
  <2> QED BY <1>a, <2>1, DaemonGoes, OneDaemon
<1>10. CASE Recovered(d)
  <2>1. task[d].node \in BdrNode
    BY <1>a DEF BdrTypes, Task
  <2>2. \E next \in Task : task' = [task EXCEPT ![d] = next]
    BY <1>10, <1>a, <1>b, <2>1, TaskType, DaemonGoes DEF Recovered
  <2> QED BY <1>10, <2>2, OneDaemon DEF Recovered
<1> QED BY <1>1, <1>2, <1>3, <1>4, <1>5, <1>6, <1>7, <1>8, <1>9, <1>10 DEF Repmgrd

\* A server that fails forgets its handler; a daemon that dies leaves it behind.
LEMMA ServersWork ==
  ASSUME BdrInv, NEW n \in BdrNode,
         \/ ServerFails(n) \/ ServerStarts(n) \/ DaemonDies(n) \/ DaemonStarts(n)
  PROVE  BdrInv'
<1>a. BdrTypes
  BY DEF BdrInv
<1>1. CASE ServerFails(n)
  <2>1. /\ handler' = [handler EXCEPT ![n] = Nobody] /\ left' = left \ {n}
        /\ task' = [d \in BdrNode |->
             IF Busy(d) /\ Peer(d) = n /\ task[d].link = "open"
             THEN [task[d] EXCEPT !.link = "broken"] ELSE task[d]]
    BY <1>1, MarksNobody DEF ServerFails
  <2>2. \A d \in BdrNode : /\ task'[d] \in Task
                           /\ task'[d].at = task[d].at /\ task'[d].node = task[d].node
    BY <1>a, <2>1 DEF BdrTypes, Task
  <2>3. BdrTypes'
    BY <1>a, <2>1, <2>2 DEF BdrTypes
  <2>4. ASSUME NEW m \in BdrNode \ left', NEW d \in BdrNode, handler'[m] = d
        PROVE  task'[d].at \in Entitled /\ Peer(d)' = m
    <3>1. m # n /\ handler[m] = d /\ m \notin left
      BY <1>a, <2>1, <2>4, MarksNobody DEF BdrTypes
    <3>2. task[d].at \in Entitled /\ Peer(d) = m
      BY <2>4, <3>1 DEF BdrInv, HandlerIsReleased, Entitled
    <3> QED BY <2>2, <3>2 DEF Peer
  <2>5. HandlerIsReleased'
    BY <2>4 DEF HandlerIsReleased, Entitled
  <2> QED BY <2>3, <2>5 DEF BdrInv
<1>2. CASE ServerStarts(n)
  BY <1>2 DEF ServerStarts, BdrInv, BdrTypes, HandlerIsReleased, Peer
<1>3. CASE DaemonDies(n)
  BY <1>a, <1>3, DaemonGoes, OneDaemon DEF DaemonDies
<1>4. CASE DaemonStarts(n)
  BY <1>a, <1>4, DaemonGoes, OneDaemon DEF DaemonStarts, Entitled
<1> QED BY <1>1, <1>2, <1>3, <1>4

LEMMA NextBdr == BdrInv /\ [BdrNext]_bdrVars => BdrInv'
<1> SUFFICES ASSUME BdrInv, [BdrNext]_bdrVars PROVE BdrInv'
  OBVIOUS
<1>1. CASE UNCHANGED bdrVars
  BY <1>1 DEF bdrVars, BdrInv, BdrTypes, HandlerIsReleased, Peer
<1>2. ASSUME NEW n \in BdrNode, NEW m \in BdrNode, Replicate(n, m) PROVE BdrInv'
  BY <1>2 DEF Replicate, BdrInv, BdrTypes, HandlerIsReleased, Peer
<1> QED BY <1>1, <1>2, DaemonWorks, ServersWork DEF BdrNext

\* HandlerIsReleased, for any number of faults.
THEOREM HandlersAreReleased == BdrSpec => []HandlerIsReleased
<1>1. BdrInv => HandlerIsReleased
  BY DEF BdrInv
<1> QED BY InitBdr, NextBdr, <1>1, PTL DEF BdrSpec
=============================================================================
