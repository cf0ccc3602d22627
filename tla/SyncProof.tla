----------------------------- MODULE SyncProof -----------------------------
(***************************************************************************)
(* Proofs about SyncSwitch: the types, and that the file and what repmgrd  *)
(* remembers agree as long as it has not ended.                            *)
(***************************************************************************)
EXTENDS SyncSwitch, TLAPS

\* A fault that happens only counts.
LEMMA SpendType ==
  ASSUME TypeOK, NEW fault \in Fault, Spend(fault)
  PROVE  spent' \in [Fault -> Nat]
BY DEF TypeOK, Spend, Fault

\* Nothing that PostgreSQL does leaves the types.
LEMMA ServerKeepsTypes ==
  ASSUME TypeOK, Commit \/ Acknowledge \/ \E s \in Standby : Receive(s) \/ Leaves(s) \/ Returns(s)
  PROVE  TypeOK'
<1> USE StandbyAssumption, BoundAssumption
<1>1. CASE Commit
  BY <1>1 DEF Commit, TypeOK, statics, locals
<1>2. CASE Acknowledge
  BY <1>2 DEF Acknowledge, TypeOK, statics, locals
<1>3. ASSUME NEW s \in Standby, Receive(s) PROVE TypeOK'
  BY <1>3 DEF Receive, TypeOK, statics, locals
<1>4. ASSUME NEW s \in Standby, Leaves(s) PROVE TypeOK'
  <2>1. spent' \in [Fault -> Nat]
    BY <1>4, SpendType DEF Leaves, Fault
  <2>2. state' \in [Standby -> {"attached", "detached", "down"}]
    BY <1>4 DEF Leaves, TypeOK
  <2> QED BY <1>4, <2>1, <2>2 DEF Leaves, TypeOK, statics, locals
<1>5. ASSUME NEW s \in Standby, Returns(s) PROVE TypeOK'
  BY <1>5 DEF Returns, TypeOK, statics, locals
<1> QED BY <1>1, <1>2, <1>3, <1>4, <1>5

\* Nor does anything that repmgrd does.
LEMMA RepmgrdKeepsTypes ==
  ASSUME TypeOK, Repmgrd
  PROVE  TypeOK'
<1> USE StandbyAssumption, BoundAssumption
<1>1. CASE NobodyAttached
  <2>1. missed' \in 0 .. Patience /\ pc' \in Place
    BY <1>1 DEF NobodyAttached, TypeOK, Place
  <2> QED BY <1>1, <2>1 DEF NobodyAttached, TypeOK, server, locals
<1>2. CASE SomebodyAttached
  <2>1. pc' \in Place /\ current' \in 0 .. MaxWal /\ todo' \in SUBSET Standby
    BY <1>2 DEF SomebodyAttached, TypeOK, locals, Place
  <2> QED BY <1>2, <2>1 DEF SomebodyAttached, TypeOK, server
<1>3. CASE CommentOut
  BY <1>3 DEF CommentOut, TypeOK, Place, server, statics, locals
<1>4. ASSUME Reload PROVE enforced' \in BOOLEAN /\ spent' \in [Fault -> Nat]
  BY <1>4, SpendType DEF Reload, TypeOK, Fault
<1>5. CASE SwitchToAsync
  BY <1>4, <1>5 DEF SwitchToAsync, TypeOK, Place, server, locals
<1>6. ASSUME NEW s \in Standby, LookAt(s) PROVE TypeOK'
  BY <1>6 DEF LookAt, TypeOK, Place, server, statics
<1>7. CASE ScanEnds
  BY <1>7 DEF ScanEnds, TypeOK, Place, server, statics, locals
<1>8. CASE Uncomment
  BY <1>8 DEF Uncomment, TypeOK, Place, server, statics, locals
<1>9. CASE SwitchToSync
  BY <1>4, <1>9 DEF SwitchToSync, TypeOK, Place, server, locals
<1> QED BY <1>1, <1>2, <1>3, <1>5, <1>6, <1>7, <1>8, <1>9 DEF Repmgrd

\* The types of the variables of check_sync_async(), of postgresql.conf and of
\* the servers, in every behaviour.
THEOREM TypeCorrect == Spec => []TypeOK
<1> USE StandbyAssumption, BoundAssumption
<1>1. Init => TypeOK
  <2>1. 0 \in 0 .. MaxWal /\ 0 \in 0 .. Patience
    BY BoundAssumption
  <2>2. Init => received \in [Standby -> 0 .. MaxWal] /\ spent \in [Fault -> Nat]
    BY <2>1 DEF Init
  <2>3. Init => state \in [Standby -> {"attached", "detached", "down"}]
    BY DEF Init
  <2>4. Init => waiting \in BOOLEAN /\ enforced \in BOOLEAN /\ switched \in BOOLEAN
    BY Zenon DEF Init
  <2>5. Init => marks \in Nat
    BY DEF Init
  <2>6. Init => pc \in Place /\ todo \in SUBSET Standby
    BY DEF Init, Place
  <2>7. Init => wal \in 0 .. MaxWal /\ current \in 0 .. MaxWal /\ missed \in 0 .. Patience
    BY <2>1 DEF Init
  <2> QED BY <2>2, <2>3, <2>4, <2>5, <2>6, <2>7 DEF TypeOK
<1>2. TypeOK /\ [Next]_vars => TypeOK'
  <2> SUFFICES ASSUME TypeOK, [Next]_vars PROVE TypeOK'
    OBVIOUS
  <2>1. CASE Dies
    <3>1. spent' \in [Fault -> Nat]
      BY <2>1, SpendType DEF Dies, Fault
    <3>2. 0 \in 0 .. MaxWal /\ 0 \in 0 .. Patience
      OBVIOUS
    <3> QED BY <2>1, <3>1, <3>2 DEF Dies, TypeOK, Place, server
  <2>2. CASE Starts
    BY <2>2 DEF Starts, TypeOK, Place, server, statics, locals
  <2>3. CASE UNCHANGED vars
    BY <2>3 DEF vars, TypeOK, server, statics, locals
  <2> QED BY <2>1, <2>2, <2>3, ServerKeepsTypes, RepmgrdKeepsTypes DEF Next
<1> QED BY <1>1, <1>2, PTL DEF Spec
-----------------------------------------------------------------------------
\* MarkIsKnown with what it rests on: where repmgrd is tells what it remembers.
\* It edits the file to switch to asynchronous replication only when it has not
\* switched; in a scan it may edit it back more than once, which changes nothing.
Known ==
  spent["restart"] = 0 =>
    /\ pc # "off"
    /\ pc \in {"comment", "reload_async"} => ~switched
    /\ marks = IF pc = "reload_async" \/ (switched /\ pc # "reload_sync") THEN 1 ELSE 0

\* A count of deaths that is 0 after a step was 0 before it.
LEMMA DeathsStay ==
  ASSUME TypeOK, NEW fault \in Fault, Spend(fault), spent'["restart"] = 0
  PROVE  spent["restart"] = 0 /\ fault # "restart"
BY DEF TypeOK, Spend, Fault

\* Neither PostgreSQL nor a reload touches the file or the memory of repmgrd.
LEMMA ServerKeepsMark ==
  ASSUME TypeOK, Known, Commit \/ Acknowledge \/ \E s \in Standby : Receive(s) \/ Leaves(s) \/ Returns(s)
  PROVE  Known'
<1>1. marks' = marks /\ pc' = pc /\ switched' = switched
  BY DEF Commit, Acknowledge, Receive, Leaves, Returns, statics
<1>2. spent'["restart"] = 0 => spent["restart"] = 0
  <2>1. ASSUME NEW s \in Standby, Leaves(s), spent'["restart"] = 0 PROVE spent["restart"] = 0
    BY <2>1, DeathsStay DEF Leaves, Fault
  <2> QED BY <2>1 DEF Commit, Acknowledge, Receive, Returns
<1> QED BY <1>1, <1>2 DEF Known

LEMMA RepmgrdKeepsMark ==
  ASSUME TypeOK, Known, Repmgrd
  PROVE  Known'
<1>1. ASSUME Reload, spent'["restart"] = 0 PROVE spent["restart"] = 0
  BY <1>1, DeathsStay DEF Reload, Fault
<1>2. CASE NobodyAttached
  BY <1>2 DEF NobodyAttached, Known
<1>3. CASE SomebodyAttached
  BY <1>3 DEF SomebodyAttached, Known
<1>4. CASE CommentOut
  BY <1>4 DEF CommentOut, Known, statics
<1>5. CASE SwitchToAsync
  BY <1>1, <1>5 DEF SwitchToAsync, Known
<1>6. ASSUME NEW s \in Standby, LookAt(s) PROVE Known'
  BY <1>6 DEF LookAt, Known, statics
<1>7. CASE ScanEnds
  BY <1>7 DEF ScanEnds, Known, statics
<1>8. CASE Uncomment
  BY <1>8 DEF Uncomment, Known, statics
<1>9. CASE SwitchToSync
  BY <1>1, <1>9 DEF SwitchToSync, Known
<1> QED BY <1>2, <1>3, <1>4, <1>5, <1>6, <1>7, <1>8, <1>9 DEF Repmgrd

\* As long as repmgrd has not ended the setting is commented out exactly when
\* check_sync_async() remembers that it has switched, whatever the standbys do,
\* however many there are and whether or not the reloads succeed.
THEOREM MarkIsRemembered == Spec => []MarkIsKnown
<1>1. Init => Known
  BY DEF Init, Known
<1>2. TypeOK /\ Known /\ [Next]_vars => Known'
  <2> SUFFICES ASSUME TypeOK, Known, [Next]_vars PROVE Known'
    OBVIOUS
  <2>1. CASE Dies
    BY <2>1, DeathsStay DEF Dies, Fault, Known
  <2>2. CASE Starts
    BY <2>2 DEF Starts, Known
  <2>3. CASE UNCHANGED vars
    BY <2>3 DEF vars, Known, statics
  <2> QED BY <2>1, <2>2, <2>3, ServerKeepsMark, RepmgrdKeepsMark DEF Next
<1>3. Known => MarkIsKnown
  BY DEF Known, MarkIsKnown
<1> QED BY <1>1, <1>2, <1>3, TypeCorrect, PTL DEF Spec
=============================================================================
