---------------------------- MODULE RecordsProof ----------------------------
(***************************************************************************)
(* Proofs about NodeRecords, for any number of nodes and any number of     *)
(* commands, promotions and faults: the types and the foreign key of       *)
(* repmgr.nodes, that no copy of the records has two active primaries, and *)
(* that a running primary keeps its record.                                *)
(***************************************************************************)
EXTENDS NodeRecords, FiniteSetTheorems, TLAPS

\* The foreign key of repmgr.nodes.
Referenced(t) ==
  \A n \in Server : t[n].upstream # None => t[n].type # "none" /\ t[t[n].upstream].type # "none"

Unique(t) == \A a, b \in PrimaryIds(t) : a = b

\* A copy of the records as it may be.
Sound(t) ==
  /\ t \in [Server -> Record]
  /\ Referenced(t)
  /\ Unique(t)
  /\ t[Witness].type # "primary"

Tables == table \in [Server -> [Server -> Record]] /\ \A s \in Server : Sound(table[s])

\* What is read over a connection, or from a node that is followed, has one.
Connected ==
  /\ repmgrd.link = "ok" => repmgrd.conn # None
  /\ repmgrd.stage \in {"follow", "degraded follow"} => repmgrd.follow # None
  /\ cmd[Witness].step = "copy" => cmd[Witness].conn # None

Processes ==
  /\ server \in [Server -> [up : BOOLEAN, primary : BOOLEAN]]
  /\ streams \in [Data -> Data \cup {None}]
  /\ cmd \in [Server -> Command]
  /\ repmgrd \in [stage : Stage, link : Link, conn : Data \cup {None}, upstream : Data \cup {None},
                  follow : Data \cup {None}, siblingsOf : Server \cup {None}, active : BOOLEAN]
  /\ notice \in Data \cup {None}
  /\ spent \in [commands : 0..MaxCommands, promotions : 0..MaxPromotions, faults : 0..MaxFaults]

RecordsInv == Tables /\ Connected /\ Processes

LEMMA InvIsTypeOK == RecordsInv => TypeOK
BY DEF RecordsInv, Tables, Processes, Sound, Referenced, TypeOK

LEMMA NoneIsNoNode == None \notin Server /\ Witness \notin Data /\ Data \subseteq Server
BY NodeAssumption DEF Server
-----------------------------------------------------------------------------
(* What the changes of the records preserve. *)

\* A change that makes nobody a primary.
LEMMA FewerPrimaries ==
  ASSUME NEW t, Sound(t), NEW r \in [Server -> Record], Referenced(r),
         \A n \in Server : r[n].type = "primary" => t[n].type = "primary",
         PrimaryIds(r) \subseteq PrimaryIds(t)
  PROVE  Sound(r)
BY NoneIsNoNode DEF Sound, Unique, Server

LEMMA EmptyIsSound == Sound(Empty) /\ PrimaryIds(Empty) = {} /\ NoRecord \in Record
BY NoneIsNoNode DEF Sound, Unique, Referenced, PrimaryIds, Empty, NoRecord, Record, Type, Server

\* create_node_record() and update_node_record() of a standby or a witness.
LEMMA StoredIsSound ==
  ASSUME NEW t, Sound(t), NEW n, NEW record \in Record, record.type \in {"standby", "witness"},
         NEW r \in Stored(t, n, record)
  PROVE  Sound(r)
<1> USE NoneIsNoNode
<1>1. PICK u \in Server \cup {None} :
         /\ r = [t EXCEPT ![n] = [record EXCEPT !.upstream = u]]
         /\ u = None \/ Registered(t, u)
  BY DEF Stored, UpstreamOf, PrimaryIds, Record
<1>2. [record EXCEPT !.upstream = u] \in Record /\ [record EXCEPT !.upstream = u].type = record.type
  BY DEF Record
<1>3. r \in [Server -> Record]
  BY <1>1, <1>2 DEF Sound
<1>4. Referenced(r)
  BY <1>1 DEF Sound, Referenced, Registered, Record
<1>5. \A m \in Server : r[m].type = "primary" => r[m] = t[m]
  BY <1>1, <1>2 DEF Sound
<1> QED BY <1>3, <1>4, <1>5, FewerPrimaries DEF PrimaryIds

LEMMA WrittenIsSound ==
  ASSUME NEW t, Sound(t), NEW n, NEW record \in Record, record.type \in {"standby", "witness"},
         NEW r \in Created(t, n, record) \cup Updated(t, n, record)
  PROVE  Sound(r)
BY StoredIsSound DEF Created, Updated

LEMMA DeletedIsSound ==
  ASSUME NEW t, Sound(t), NEW n, NEW r \in Deleted(t, n)
  PROVE  Sound(r)
<1> USE NoneIsNoNode
<1>1. r = [t EXCEPT ![n] = NoRecord] /\ Downstream(t, n) = {}
  BY DEF Deleted
<1>2. r \in [Server -> Record]
  BY <1>1, EmptyIsSound DEF Sound
<1>3. Referenced(r)
  BY <1>1 DEF Sound, Referenced, Downstream, Registered, NoRecord, Record
<1> QED BY <1>1, <1>2, <1>3, FewerPrimaries DEF PrimaryIds, NoRecord, Sound

LEMMA SetActiveIsSound ==
  ASSUME NEW t, Sound(t), NEW n, NEW active \in BOOLEAN,
         Registered(t, n) => t[n].type # "primary"
  PROVE  Sound(SetActive(t, n, active))
<1> DEFINE r == SetActive(t, n, active)
<1>1. r \in [Server -> Record] /\ \A m \in Server : r[m].type = t[m].type /\ r[m].upstream = t[m].upstream
  BY DEF SetActive, Sound, Record
<1>2. \A m \in Server : r[m].type = "primary" => r[m] = t[m]
  BY DEF SetActive, Sound, Record, Registered
<1>3. Referenced(r)
  BY <1>1 DEF Sound, Referenced, Record
<1> QED BY <1>1, <1>2, <1>3, FewerPrimaries DEF PrimaryIds

LEMMA SetPrimaryIsSound ==
  ASSUME NEW t, Sound(t), NEW n \in Data
  PROVE  Sound(SetPrimary(t, n))
<1> DEFINE r == SetPrimary(t, n)
<1> USE NoneIsNoNode
<1>1. r \in [Server -> Record]
  BY DEF SetPrimary, Sound, Record, Type
<1>2. \A m \in Server : /\ t[m].type # "none" => r[m].type # "none"
                        /\ r[m].upstream # None => r[m].upstream = t[m].upstream
  BY DEF SetPrimary, Sound, Record
<1>3. Referenced(r)
  BY <1>1, <1>2 DEF Sound, Referenced, Record
<1>4. Unique(r)
  BY DEF SetPrimary, Unique, PrimaryIds, Sound, Record
<1>5. r[Witness].type # "primary"
  BY DEF SetPrimary, Sound, Record, Server
<1> QED BY <1>1, <1>3, <1>4, <1>5 DEF Sound

LEMMA RegisteredPrimaryIsSound ==
  ASSUME NEW t, Sound(t), NEW n \in Data, RecordsAllowPrimary(t, n)
  PROVE  Sound([t EXCEPT ![n] = [type |-> "primary", active |-> TRUE, upstream |-> None]])
<1> DEFINE record == [type |-> "primary", active |-> TRUE, upstream |-> None]
           r == [t EXCEPT ![n] = record]
<1> USE NoneIsNoNode
<1>1. r \in [Server -> Record]
  BY DEF Sound, Record, Type
<1>2. Referenced(r)
  BY DEF Sound, Referenced, Record
<1>3. PrimaryIds(r) \subseteq {n}
  BY DEF RecordsAllowPrimary, PrimaryIds, Sound
<1>4. r[Witness].type # "primary"
  BY DEF Sound, Server
<1> QED BY <1>1, <1>2, <1>3, <1>4 DEF Sound, Unique

LEMMA FollowIsSound ==
  ASSUME NEW t, Sound(t), NEW n, NEW u \in Server
  PROVE  Sound(SetStandby(t, n, u)) /\ Sound(SetUpstream(t, n, u))
<1> USE NoneIsNoNode
<1> DEFINE standby == [type |-> "standby", active |-> TRUE, upstream |-> u]
<1>1. CASE ~(Registered(t, n) /\ Registered(t, u))
  BY <1>1 DEF SetStandby, SetUpstream
<1>2. CASE Registered(t, n) /\ Registered(t, u)
  <2>1. SetStandby(t, n, u) = [t EXCEPT ![n] = standby] /\ SetUpstream(t, n, u) = [t EXCEPT ![n].upstream = u]
    BY <1>2 DEF SetStandby, SetUpstream
  <2>2. ASSUME NEW r, r = [t EXCEPT ![n] = standby] \/ r = [t EXCEPT ![n].upstream = u]
        PROVE  Sound(r)
    <3>1. r \in [Server -> Record]
      <4>1. standby \in Record
        BY DEF Record, Type
      <4>2. n \in Server => [t[n] EXCEPT !.upstream = u] \in Record
        BY DEF Sound, Record
      <4>3. [t EXCEPT ![n].upstream = u] = [t EXCEPT ![n] = [t[n] EXCEPT !.upstream = u]]
        BY DEF Sound
      <4> QED BY <2>2, <4>1, <4>2, <4>3 DEF Sound
    <3>2. \A m \in Server : /\ t[m].type # "none" => r[m].type # "none"
                            /\ r[m].upstream = t[m].upstream \/ (m = n /\ r[m].upstream = u)
                            /\ r[m].type = "primary" => t[m].type = "primary" /\ r[m].active = t[m].active
      BY <1>2, <2>2 DEF Sound, Record, Registered
    <3>3. Referenced(r)
      BY <1>2, <3>1, <3>2 DEF Sound, Referenced, Registered, Record
    <3> QED BY <3>1, <3>2, <3>3, FewerPrimaries DEF PrimaryIds
  <2> QED BY <2>1, <2>2
<1> QED BY <1>1, <1>2

LEMMA SetActiveStandbyIsSound ==
  ASSUME NEW t, Sound(t), NEW n, n \in Server => Registered(t, n)
  PROVE  Sound(SetActiveStandby(t, n))
<1> DEFINE r == SetActiveStandby(t, n)
<1>1. r \in [Server -> Record]
  BY DEF SetActiveStandby, Sound, Record, Type
<1>2. \A m \in Server : /\ t[m].type # "none" => r[m].type # "none"
                        /\ r[m].upstream = t[m].upstream
                        /\ r[m].type = "primary" => r[m] = t[m]
  BY DEF SetActiveStandby, Sound, Record
<1>3. Referenced(r)
  BY <1>1, <1>2 DEF Sound, Referenced, Record
<1> QED BY <1>1, <1>2, <1>3, FewerPrimaries DEF PrimaryIds

\* witness_copy_node_records(): if it has not failed, the primary that an orphan
\* is given is one of the records, registered before it.
LEMMA CopyIsSound ==
  ASSUME NEW w, Sound(w), NEW t, Sound(t)
  PROVE  Sound(CopyOf(w, t))
<1> DEFINE r == CopyOf(w, t)
<1>1. CASE CopyFails(t)
  BY <1>1 DEF CopyOf
<1>2. CASE ~CopyFails(t)
  <2> DEFINE primary(n) == CHOOSE m \in PrimaryIds(t) : m < n
  <2>1. ASSUME NEW n \in Orphans(t) PROVE primary(n) \in PrimaryIds(t)
    <3>1. PICK m \in PrimaryIds(t) : ~(m > n)
      BY <1>2 DEF CopyFails
    <3>2. m # n /\ m \in Nat /\ n \in Nat
      BY NodeAssumption DEF Orphans, PrimaryIds, Server
    <3>3. \E k \in PrimaryIds(t) : k < n
      BY <3>1, <3>2
    <3> QED BY <3>3
  <2>2. \A n \in Server : r[n] = IF n \in Orphans(t) THEN [t[n] EXCEPT !.upstream = primary(n)] ELSE t[n]
    BY <1>2 DEF CopyOf
  <2>3. r \in [Server -> Record]
    <3>1. ASSUME NEW n \in Orphans(t) PROVE [t[n] EXCEPT !.upstream = primary(n)] \in Record
      <4> HIDE DEF primary
      <4>1. primary(n) \in Server /\ t[n] \in Record
        BY <2>1 DEF Sound, PrimaryIds, Orphans
      <4> QED BY <4>1 DEF Record
    <3>2. r = [n \in Server |-> IF n \in Orphans(t) THEN [t[n] EXCEPT !.upstream = primary(n)] ELSE t[n]]
      BY <1>2 DEF CopyOf
    <3> QED BY <3>1, <3>2 DEF Sound
  <2> HIDE DEF r, primary
  <2>4. \A n \in Server : /\ r[n].type = t[n].type /\ r[n].active = t[n].active
                          /\ \/ r[n].upstream = t[n].upstream
                             \/ t[n].type = "standby" /\ r[n].upstream \in PrimaryIds(t)
    BY <2>1, <2>2 DEF Sound, Record, Orphans
  <2>5. Referenced(r)
    BY <2>3, <2>4 DEF Sound, Referenced, PrimaryIds, Record
  <2> QED BY <2>3, <2>4, <2>5, FewerPrimaries DEF PrimaryIds, r
<1> QED BY <1>1, <1>2
-----------------------------------------------------------------------------
(* Every step leaves every copy of the records sound. *)

LEMMA ChangeOfOne ==
  ASSUME Tables, NEW s, NEW r, Sound(r), table' = [table EXCEPT ![s] = r]
  PROVE  Tables'
BY DEF Tables, Sound

LEMMA ChangeIsSound ==
  ASSUME Tables, NEW s, NEW results, \A r \in results : Sound(r), Change(s, results)
  PROVE  Tables'
<1>1. CASE results = {}
  BY <1>1 DEF Change, Tables
<1>2. CASE results # {}
  <2>1. PICK r \in results : table' = [table EXCEPT ![s] = r]
    BY <1>2 DEF Change
  <2> QED BY <2>1, ChangeOfOne
<1> QED BY <1>1, <1>2

\* A copy to the witness, from p or, when nothing answers, of no records.
LEMMA CopyHereIsSound ==
  ASSUME Tables, NEW p, NEW answers \in BOOLEAN, answers => p \in Server, CopyHere(p, answers)
  PROVE  Tables'
<1>1. Witness \in Server /\ Sound(table[Witness])
  BY DEF Tables, Server
<1>2. Sound(IF answers THEN table[p] ELSE Empty)
  BY EmptyIsSound DEF Tables
<1>3. Sound(CopyRecords(table[Witness], p, answers))
  BY <1>1, <1>2, CopyIsSound DEF CopyRecords
<1>4. Sound(IF server[Witness].up THEN CopyRecords(table[Witness], p, answers) ELSE table[Witness])
  BY <1>1, <1>3
<1>5. table' = [table EXCEPT ![Witness] = IF server[Witness].up
                  THEN CopyRecords(table[Witness], p, answers) ELSE table[Witness]]
  BY DEF CopyHere
<1> QED BY <1>4, <1>5, ChangeOfOne

\* What a command writes, where there is a connection.
LEMMA CommandWritesSound ==
  ASSUME RecordsInv, NEW n \in Server, NEW record \in Record, record.type \in {"standby", "witness"},
         NEW r \in Written(cmd[n], record)
  PROVE  Sound(r)
<1>1. cmd[n].conn \in Server
  BY DEF Written, Writable, RecordsInv, Processes, Command
<1>2. Sound(table[cmd[n].conn])
  BY <1>1 DEF RecordsInv, Tables
<1>3. r \in Created(table[cmd[n].conn], cmd[n].target, record) \cup
           Updated(table[cmd[n].conn], cmd[n].target, record)
  BY DEF Written
<1> QED BY <1>2, <1>3, WrittenIsSound

LEMMA PrimaryCommandIsSound ==
  ASSUME RecordsInv, PrimaryCommand
  PROVE  Tables'
<1>1. ASSUME NEW n \in Data, NEW force \in BOOLEAN, RegisterPrimary(n, force) PROVE Tables'
  <2>1. Sound(table[n])
    BY NoneIsNoNode DEF RecordsInv, Tables
  <2>2. CASE table' = table
    BY <2>2 DEF RecordsInv, Tables
  <2>3. CASE /\ RecordsAllowPrimary(table[n], n)
             /\ table' = [table EXCEPT ![n] = [table[n] EXCEPT ![n] =
                           [type |-> "primary", active |-> TRUE, upstream |-> None]]]
    BY <2>1, <2>3, RegisteredPrimaryIsSound, ChangeOfOne DEF RecordsInv
  <2> QED BY <1>1, <2>2, <2>3 DEF RegisterPrimary
<1>2. CASE UNCHANGED table
  BY <1>2 DEF RecordsInv, Tables
<1> QED BY <1>1, <1>2 DEF PrimaryCommand, PrimaryRegister, PrimaryUnregister

LEMMA StandbyCommandIsSound ==
  ASSUME RecordsInv, StandbyCommand
  PROVE  Tables'
<1> USE NoneIsNoNode
<1>0. CASE UNCHANGED table
  BY <1>0 DEF RecordsInv, Tables
<1>1. ASSUME NEW n \in Data, NEW host \in Data, NEW upstream \in Server \cup {None},
             NEW force \in BOOLEAN, StandbyRegister(n, upstream, host, force)
      PROVE  Tables'
  <2>1. PICK p \in RegisterConnection(n, host) :
          \E t \in Placeholder(p, upstream) : table' = [table EXCEPT ![p] = t]
    BY <1>1 DEF StandbyRegister
  <2>2. p \in Server /\ Sound(table[p])
    BY <2>1 DEF RegisterConnection, PrimaryConnection, RecordsInv, Tables
  <2>3. PICK t \in Placeholder(p, upstream) : table' = [table EXCEPT ![p] = t]
    BY <2>1
  <2>4. Sound(t)
    <3> DEFINE record == [type |-> "standby", active |-> FALSE, upstream |-> None]
    <3>1. record \in Record /\ record.type = "standby"
      BY DEF Record, Type
    <3>2. t = table[p] \/ t \in Created(table[p], upstream, record)
      BY DEF Placeholder
    <3> QED BY <2>2, <3>1, <3>2, WrittenIsSound
  <2> QED BY <2>3, <2>4, ChangeOfOne DEF RecordsInv
<1>2. ASSUME NEW n \in Data, RegisterStandby(n) PROVE Tables'
  <2> DEFINE record == [type |-> "standby", active |-> TRUE, upstream |-> cmd[n].upstream]
  <2>1. record \in Record /\ record.type = "standby"
    BY DEF RecordsInv, Processes, Command, Record, Type
  <2>2. \A r \in Written(cmd[n], record) : Sound(r)
    BY <2>1, CommandWritesSound
  <2>3. Change(cmd[n].conn, Written(cmd[n], record))
    BY <1>2 DEF RegisterStandby
  <2> QED BY <2>2, <2>3, ChangeIsSound DEF RecordsInv
<1>3. ASSUME NEW s \in Server, NEW target \in Data, StandbyUnregister(s, target) PROVE Tables'
  BY <1>0, <1>3 DEF StandbyUnregister, Unregister
<1>4. ASSUME NEW s \in Server, DeleteRecord(s) PROVE Tables'
  <2> DEFINE conn == cmd[s].conn
             results == IF Writable(conn) THEN Deleted(table[conn], cmd[s].target) ELSE {}
  <2>1. Writable(conn) => conn \in Server
    BY DEF Writable, RecordsInv, Processes, Command
  <2>2. \A r \in results : Sound(r)
    BY <2>1, DeletedIsSound DEF RecordsInv, Tables
  <2>3. Change(conn, results)
    BY <1>4 DEF DeleteRecord
  <2> HIDE DEF results
  <2> QED BY <2>2, <2>3, ChangeIsSound DEF RecordsInv
<1> QED BY <1>1, <1>2, <1>3, <1>4 DEF StandbyCommand

LEMMA WitnessCommandIsSound ==
  ASSUME RecordsInv, WitnessCommand
  PROVE  Tables'
<1> USE NoneIsNoNode
<1>a. Witness \in Server /\ Sound(table[Witness])
  BY DEF RecordsInv, Tables, Server
<1>0. CASE UNCHANGED table
  BY <1>0 DEF RecordsInv, Tables
<1>1. CASE RegisterWitness
  <2> DEFINE record == [type |-> "witness", active |-> TRUE, upstream |-> cmd[Witness].upstream]
  <2>1. record \in Record /\ record.type = "witness"
    BY <1>a DEF RecordsInv, Processes, Command, Record, Type
  <2>2. \A r \in Written(cmd[Witness], record) : Sound(r)
    BY <1>a, <2>1, CommandWritesSound
  <2>3. Change(cmd[Witness].conn, Written(cmd[Witness], record))
    BY <1>1 DEF RegisterWitness
  <2> QED BY <2>2, <2>3, ChangeIsSound DEF RecordsInv
<1>2. CASE CopyToNewWitness
  <2> DEFINE conn == cmd[Witness].conn
             copied == CopyRecords(table[Witness], conn, server[conn].up)
  <2>1. conn \in Server
    BY <1>2, <1>a DEF CopyToNewWitness, RecordsInv, Connected, Processes, Command
  <2>2. Sound(IF server[conn].up THEN table[conn] ELSE Empty)
    BY <2>1, EmptyIsSound DEF RecordsInv, Tables
  <2>3. Sound(copied)
    BY <1>a, <2>2, CopyIsSound DEF CopyRecords
  <2>4. table' = [table EXCEPT ![Witness] = IF server[Witness].up THEN copied ELSE table[Witness]]
    BY <1>2 DEF CopyToNewWitness
  <2> HIDE DEF copied
  <2>5. Sound(IF server[Witness].up THEN copied ELSE table[Witness])
    BY <1>a, <2>3
  <2> QED BY <2>4, <2>5, ChangeOfOne DEF RecordsInv
<1> QED
  BY <1>0, <1>1, <1>2 DEF WitnessCommand, WitnessRegister, WitnessUnregister, Unregister

LEMMA WitnessRepmgrdIsSound ==
  ASSUME RecordsInv, WitnessRepmgrd
  PROVE  Tables'
<1> USE NoneIsNoNode
<1>a. Witness \in Server /\ \A s \in Server : Sound(table[s])
  BY DEF RecordsInv, Tables, Server
<1>0. CASE UNCHANGED table
  BY <1>0 DEF RecordsInv, Tables
<1>b. Answers => repmgrd.conn \in Server
  BY DEF Answers, RecordsInv, Connected, Processes
<1>1. CASE CopyAtStart \/ SyncRecords
  <2>1. CopyHere(repmgrd.conn, Answers)
    BY <1>1 DEF CopyAtStart, SyncRecords
  <2> QED BY <1>b, <2>1, CopyHereIsSound DEF RecordsInv, Answers
<1>c. ASSUME NEW p \in Data, NEW stage, Follow(p, stage) PROVE Tables'
  <2>1. table' = [table EXCEPT ![p] = SetUpstream(table[p], Witness, p)]
    BY <1>c DEF Follow
  <2> QED BY <1>a, <2>1, FollowIsSound, ChangeOfOne DEF RecordsInv
<1>2. CASE WitnessFailover
  BY <1>0, <1>c, <1>2 DEF WitnessFailover, Degrade, RecordsInv, Processes
<1>3. CASE FindSibling
  BY <1>c, <1>3 DEF FindSibling, PromotedSiblings
<1>4. CASE FollowPrimary
  <2>1. repmgrd.follow \in Data /\ server[repmgrd.follow].up \in BOOLEAN
    BY <1>4 DEF FollowPrimary, At, RecordsInv, Connected, Processes
  <2>2. CopyHere(repmgrd.follow, server[repmgrd.follow].up)
    BY <1>4 DEF FollowPrimary
  <2> QED BY <2>1, <2>2, CopyHereIsSound DEF RecordsInv
<1>5. CASE NoteLocalServer
  <2>1. CASE Answers /\ table' = [table EXCEPT ![repmgrd.conn] =
                                    SetActive(table[repmgrd.conn], Witness, server[Witness].up)]
    <3>1. repmgrd.conn \in Server /\ server[Witness].up \in BOOLEAN
      BY <1>a, <1>b, <2>1 DEF RecordsInv, Processes
    <3>2. Sound(SetActive(table[repmgrd.conn], Witness, server[Witness].up))
      BY <1>a, <3>1, SetActiveIsSound DEF Sound
    <3> QED BY <2>1, <3>2, ChangeOfOne DEF RecordsInv
  <2> QED BY <1>0, <1>5, <2>1 DEF NoteLocalServer
<1> QED
  BY <1>0, <1>1, <1>2, <1>3, <1>4, <1>5
  DEF WitnessRepmgrd, FindPrimary, LosePrimary, UpstreamReturns, GiveUp, SyncIsDue

LEMMA EnvironmentIsSound ==
  ASSUME RecordsInv, Environment
  PROVE  Tables'
<1> USE NoneIsNoNode
<1>a. \A s \in Server : Sound(table[s])
  BY DEF RecordsInv, Tables
<1>0. CASE UNCHANGED table
  BY <1>0 DEF RecordsInv, Tables
<1>1. ASSUME NEW n \in Data, Replicate(n) PROVE Tables'
  <2>1. streams[n] \in Server /\ table' = [table EXCEPT ![n] = table[streams[n]]]
    BY <1>1 DEF Replicate, RecordsInv, Processes
  <2> QED BY <1>a, <2>1, ChangeOfOne DEF RecordsInv
<1>2. ASSUME NEW n \in Data, RestoredAsStandby(n) PROVE Tables'
  <2>1. PICK p \in Data : /\ table[p][n].type = "primary"
                          /\ table' = [table EXCEPT ![p] = SetActiveStandby(table[p], n)]
    BY <1>2 DEF RestoredAsStandby, PrimaryConnection
  <2> QED BY <1>a, <2>1, SetActiveStandbyIsSound, ChangeOfOne DEF RecordsInv, Registered
<1>3. ASSUME NEW n \in Data, NEW p \in Data, MarkStandby(n, p) PROVE Tables'
  <2>1. /\ table[p][n].type = "standby" /\ server[n].up \in BOOLEAN
        /\ table' = [table EXCEPT ![p] = SetActive(table[p], n, server[n].up)]
    BY <1>3 DEF MarkStandby, RecordsInv, Processes
  <2>2. Sound(SetActive(table[p], n, server[n].up))
    BY <1>a, <2>1, SetActiveIsSound
  <2> QED BY <2>1, <2>2, ChangeOfOne DEF RecordsInv
<1>4. ASSUME NEW n \in Data, NEW recorded \in BOOLEAN, Promote(n, recorded) PROVE Tables'
  <2>1. \/ table' = table
        \/ table' = [table EXCEPT ![n] = SetPrimary(table[n], n)]
    BY <1>4 DEF Promote
  <2> QED BY <1>0, <1>a, <2>1, SetPrimaryIsSound, ChangeOfOne DEF RecordsInv
<1>5. ASSUME NEW n \in Data, NEW p \in Data, NEW recorded \in BOOLEAN, FollowNew(n, p, recorded)
      PROVE  Tables'
  <2>1. \/ table' = table
        \/ table' = [table EXCEPT ![p] = SetStandby(table[p], n, p)]
    BY <1>5 DEF FollowNew
  <2> QED BY <1>0, <1>a, <2>1, FollowIsSound, ChangeOfOne DEF RecordsInv
<1> QED
  BY <1>0, <1>1, <1>2, <1>3, <1>4, <1>5
  DEF Environment, RepmgrdStarts, RepmgrdEnds, ServerDown, ServerUp, Notify
-----------------------------------------------------------------------------
(* Every step keeps the types of the rest of the state. *)

Bounds == [commands : 0..MaxCommands, promotions : 0..MaxPromotions, faults : 0..MaxFaults]

LEMMA SpendType ==
  ASSUME Processes,
         \/ Spend("commands", MaxCommands)
         \/ Spend("promotions", MaxPromotions)
         \/ Spend("faults", MaxFaults)
  PROVE  spent' \in Bounds
BY BoundAssumption DEF Processes, Spend, Bounds

LEMMA IdleType == Idle \in Command /\ Idle.step = "idle"
BY DEF Idle, Command, Step, Type

\* A command begins with what it will change.
LEMMA BeginType ==
  ASSUME Processes, NEW s \in Server, NEW c \in Command, Begin(s, c)
  PROVE  cmd' \in [Server -> Command] /\ spent' \in Bounds
BY SpendType DEF Begin, Processes

LEMMA EndType ==
  ASSUME Processes, NEW s, End(s)
  PROVE  cmd' \in [Server -> Command] /\ (s = Witness => cmd'[Witness].step = "idle")
BY IdleType DEF End, Processes, Server

LEMMA CommandKeepsTypes ==
  ASSUME RecordsInv, PrimaryCommand \/ StandbyCommand \/ WitnessCommand
  PROVE  Processes' /\ Connected'
<1> USE NoneIsNoNode
<1>a. \A s \in Server : table[s] \in [Server -> Record]
  BY DEF RecordsInv, Tables
<1>b. Processes
  BY DEF RecordsInv
<1>c. ASSUME UNCHANGED <<server, streams, repmgrd, notice>>, cmd' \in [Server -> Command], spent' \in Bounds,
             cmd'[Witness].step = "copy" => cmd'[Witness].conn # None
      PROVE  Processes' /\ Connected'
  BY <1>c DEF RecordsInv, Processes, Connected, Bounds
<1>d. ASSUME NEW s \in Server, NEW c \in Command, c.step # "copy", Begin(s, c),
             UNCHANGED <<server, streams, repmgrd, notice>>
      PROVE  Processes' /\ Connected'
  <2>1. cmd'[Witness].step = "copy" => cmd'[Witness].conn # None
    BY <1>d DEF Begin, RecordsInv, Processes, Connected, Server
  <2> QED BY <1>b, <1>c, <1>d, <2>1, BeginType
<1>e. ASSUME NEW s \in Server, End(s), UNCHANGED <<server, streams, repmgrd, notice, spent>>
      PROVE  Processes' /\ Connected'
  <2>1. cmd'[Witness].step = "copy" => cmd'[Witness].conn # None
    BY <1>e, IdleType DEF End, RecordsInv, Processes, Connected, Server
  <2> QED BY <1>b, <1>c, <1>e, <2>1, EndType DEF Processes, Bounds
<1>1. ASSUME NEW n \in Data, PrimaryRegister(n) PROVE Processes' /\ Connected'
  <2>1. [Idle EXCEPT !.step = "primary", !.conn = n] \in Command
    BY IdleType DEF Command, Step
  <2> QED BY <1>1, <1>d, <2>1 DEF PrimaryRegister, Idle
<1>2. ASSUME NEW s \in Server, NEW p \in Server, NEW target \in Server, NEW found \in Type,
             Begin(s, [Idle EXCEPT !.step = "delete", !.conn = p, !.target = target, !.found = found,
                                   !.current = RunningPrimary(target)]),
             UNCHANGED <<server, streams, repmgrd, notice>>
      PROVE  Processes' /\ Connected'
  <2> DEFINE c == [Idle EXCEPT !.step = "delete", !.conn = p, !.target = target,
                               !.found = found, !.current = RunningPrimary(target)]
  <2>1. RunningPrimary(target) \in BOOLEAN
    BY DEF RunningPrimary
  <2>2. c \in Command /\ c.step # "copy"
    BY <2>1, IdleType DEF Command, Step
  <2>3. Begin(s, c)
    BY <1>2
  <2> HIDE DEF c
  <2> QED BY <1>2, <1>d, <2>2, <2>3
<1>4. ASSUME NEW s \in Server, NEW option \in Server \cup {None}, NEW force \in BOOLEAN,
             PrimaryUnregister(s, option, force)
      PROVE  Processes' /\ Connected'
  <2>1. PICK p \in PrimaryIds(table[s]) : \E current \in PrimaryIds(table[p]) :
          LET target == IF option = None THEN current ELSE option
              record == IF option = None THEN table[p][current] ELSE table[s][option]
          IN  Begin(s, [Idle EXCEPT !.step = "delete", !.conn = p, !.target = target,
                                    !.found = record.type, !.current = RunningPrimary(target)])
    BY <1>4 DEF PrimaryUnregister
  <2>2. PICK current \in PrimaryIds(table[p]) :
          LET target == IF option = None THEN current ELSE option
              record == IF option = None THEN table[p][current] ELSE table[s][option]
          IN  Begin(s, [Idle EXCEPT !.step = "delete", !.conn = p, !.target = target,
                                    !.found = record.type, !.current = RunningPrimary(target)])
    BY <2>1
  <2> DEFINE target == IF option = None THEN current ELSE option
             record == IF option = None THEN table[p][current] ELSE table[s][option]
  <2>3. p \in Server /\ target \in Server /\ record.type \in Type
    BY <1>a DEF PrimaryIds, Record
  <2> HIDE DEF target, record
  <2>4. Begin(s, [Idle EXCEPT !.step = "delete", !.conn = p, !.target = target,
                              !.found = record.type, !.current = RunningPrimary(target)])
    BY <2>2 DEF target, record
  <2> QED BY <1>2, <1>4, <2>3, <2>4 DEF PrimaryUnregister
<1>5. ASSUME NEW n \in Data, NEW host \in Data, NEW upstream \in Server \cup {None},
             NEW force \in BOOLEAN, StandbyRegister(n, upstream, host, force)
      PROVE  Processes' /\ Connected'
  <2>1. PICK p \in RegisterConnection(n, host) :
          Begin(n, [Idle EXCEPT !.step = "standby", !.conn = p, !.target = n,
            !.upstream = IF upstream = None /\ server[n].up THEN p ELSE upstream,
            !.found = table[p][n].type])
    BY <1>5 DEF StandbyRegister
  <2>2. p \in Server /\ table[p][n].type \in Type
    <3>1. p \in Server
      BY DEF RegisterConnection, PrimaryConnection
    <3> QED BY <1>a, <3>1 DEF Record
  <2>3. ASSUME NEW u \in Server \cup {None}, NEW found \in Type
        PROVE  LET c == [Idle EXCEPT !.step = "standby", !.conn = p, !.target = n,
                           !.upstream = u, !.found = found]
               IN  c \in Command /\ c.step = "standby"
    BY <2>2, IdleType DEF Command, Step
  <2>4. (IF upstream = None /\ server[n].up THEN p ELSE upstream) \in Server \cup {None}
    BY <2>2
  <2> DEFINE c == [Idle EXCEPT !.step = "standby", !.conn = p, !.target = n,
                     !.upstream = IF upstream = None /\ server[n].up THEN p ELSE upstream,
                     !.found = table[p][n].type]
  <2>5. c \in Command /\ c.step # "copy"
    BY <2>2, <2>3, <2>4
  <2>6. Begin(n, c)
    BY <2>1
  <2> HIDE DEF c
  <2> QED BY <1>5, <1>d, <2>5, <2>6 DEF StandbyRegister
<1>6. ASSUME NEW s \in Server, NEW target \in Server, NEW type, Unregister(s, target, type)
      PROVE  Processes' /\ Connected'
  <2>1. PICK p \in PrimaryConnection(table[s]) :
          /\ table[p][target].type = type
          /\ Begin(s, [Idle EXCEPT !.step = "delete", !.conn = p, !.target = target, !.found = type,
                                   !.current = RunningPrimary(target)])
    BY <1>6 DEF Unregister
  <2>2. p \in Server
    BY DEF PrimaryConnection
  <2>3. type \in Type
    BY <1>a, <2>1, <2>2 DEF Record
  <2> QED BY <1>2, <1>6, <2>1, <2>2, <2>3 DEF Unregister
<1>7. ASSUME NEW host \in Data, NEW force \in BOOLEAN, WitnessUnregister(host, force)
      PROVE  Processes' /\ Connected'
  <2>1. CASE Unregister(Witness, Witness, "witness")
    BY <1>6, <2>1 DEF Server
  <2>2. CASE /\ Begin(Witness, [Idle EXCEPT !.step = "delete", !.conn = host, !.target = Witness,
                                            !.found = "witness"])
             /\ UNCHANGED <<server, streams, repmgrd, notice>>
    <3>1. LET c == [Idle EXCEPT !.step = "delete", !.conn = host, !.target = Witness, !.found = "witness"]
          IN  c \in Command /\ c.step = "delete"
      BY IdleType DEF Command, Step, Type, Server
    <3> QED BY <1>d, <2>2, <3>1 DEF Server
  <2> QED BY <1>7, <2>1, <2>2 DEF WitnessUnregister
<1>8. ASSUME NEW host \in Data, NEW force \in BOOLEAN, WitnessRegister(host, force)
      PROVE  Processes' /\ Connected'
  <2>1. PICK p \in PrimaryIds(table[host]) :
          Begin(Witness, [Idle EXCEPT !.step = "witness", !.conn = p, !.target = Witness,
                                      !.upstream = p, !.found = table[p][Witness].type])
    BY <1>8 DEF WitnessRegister
  <2>2. p \in Server /\ table[p][Witness].type \in Type
    BY <1>a DEF PrimaryIds, Record, Server
  <2> DEFINE c == [Idle EXCEPT !.step = "witness", !.conn = p, !.target = Witness,
                               !.upstream = p, !.found = table[p][Witness].type]
  <2>3. c \in Command /\ c.step # "copy"
    BY <2>2, IdleType DEF Command, Step, Server
  <2>4. Begin(Witness, c)
    BY <2>1
  <2> HIDE DEF c
  <2> QED BY <1>8, <1>d, <2>3, <2>4 DEF WitnessRegister, Server
<1>9. CASE RegisterWitness
  <2>1. CASE End(Witness)
    BY <1>9, <1>e, <2>1 DEF RegisterWitness, Server
  <2>2. CASE cmd' = [cmd EXCEPT ![Witness].step = "copy"] /\ cmd[Witness].conn # None
    <3>1. cmd' \in [Server -> Command] /\ cmd'[Witness].conn = cmd[Witness].conn
      BY <2>2 DEF RecordsInv, Processes, Command, Step, Server
    <3> QED BY <1>9, <1>c, <2>2, <3>1 DEF RegisterWitness, RecordsInv, Processes, Bounds
  <2> QED BY <1>9, <2>1, <2>2 DEF RegisterWitness, Written, Writable
<1>10. ASSUME NEW s \in Server, End(s), UNCHANGED <<server, streams, repmgrd, notice, spent>>
       PROVE  Processes' /\ Connected'
  BY <1>10, <1>e
<1>11. CASE PrimaryCommand
  BY <1>1, <1>4, <1>10, <1>11 DEF PrimaryCommand, RegisterPrimary
<1>12. CASE StandbyCommand
  BY <1>5, <1>6, <1>10, <1>12 DEF StandbyCommand, RegisterStandby, StandbyUnregister, DeleteRecord
<1>13. CASE WitnessCommand
  BY <1>7, <1>8, <1>9, <1>10, <1>13 DEF WitnessCommand, CopyToNewWitness, Server
<1> QED BY <1>11, <1>12, <1>13

Daemon ==
  [stage : Stage, link : Link, conn : Data \cup {None}, upstream : Data \cup {None},
   follow : Data \cup {None}, siblingsOf : Server \cup {None}, active : BOOLEAN]

LEMMA WitnessRepmgrdKeepsTypes ==
  ASSUME RecordsInv, WitnessRepmgrd
  PROVE  Processes' /\ Connected'
<1> USE NoneIsNoNode
<1>a. /\ \A s \in Server : table[s] \in [Server -> Record]
      /\ repmgrd \in Daemon /\ notice \in Data \cup {None}
      /\ server \in [Server -> [up : BOOLEAN, primary : BOOLEAN]]
      /\ Witness \in Server
  BY DEF RecordsInv, Tables, Processes, Daemon, Server
<1>b. ASSUME UNCHANGED <<server, streams, cmd, spent>>, notice' \in Data \cup {None},
             repmgrd' \in Daemon,
             repmgrd'.link = "ok" => repmgrd'.conn # None,
             repmgrd'.stage \in {"follow", "degraded follow"} => repmgrd'.follow # None
      PROVE  Processes' /\ Connected'
  BY <1>b DEF RecordsInv, Processes, Connected, Daemon
<1>c. /\ repmgrd.link = "ok" => repmgrd.conn # None
      /\ repmgrd.stage \in {"follow", "degraded follow"} => repmgrd.follow # None
  BY DEF RecordsInv, Connected
<1>s. /\ {"stopped", "start", "copy at start", "monitor", "sync", "retry", "wait",
          "degraded", "degraded sync"} \subseteq Stage
      /\ "ok" \in Link /\ "bad" \in Link
  BY DEF Stage, Link
<1>1. CASE FindPrimary
  <2> DEFINE known == IF server[Witness].up THEN table[Witness] ELSE Empty
  <2>1. PrimaryConnection(known) \subseteq Data /\ PrimaryIds(known) \subseteq Data
    <3>1. Sound(known)
      BY EmptyIsSound DEF RecordsInv, Tables, Server
    <3> QED BY <3>1 DEF PrimaryConnection, PrimaryIds, Sound, Server
  <2>2. notice' \in Data \cup {None}
    BY <1>1, <1>a DEF FindPrimary
  <2>3. \/ \E p \in Data :
             repmgrd' = [repmgrd EXCEPT !.stage = "copy at start", !.conn = p, !.link = "ok"]
        \/ \E m \in Data :
             repmgrd' = [repmgrd EXCEPT !.stage = "degraded", !.link = "bad", !.upstream = m]
        \/ repmgrd' = [repmgrd EXCEPT !.stage = "stopped"]
    BY <1>1, <2>1 DEF FindPrimary
  <2>4. /\ repmgrd' \in Daemon
        /\ repmgrd'.link = "ok" => repmgrd'.conn # None
        /\ repmgrd'.stage \notin {"follow", "degraded follow"}
    <3>1. ASSUME NEW p \in Data,
                 repmgrd' = [repmgrd EXCEPT !.stage = "copy at start", !.conn = p, !.link = "ok"]
          PROVE  repmgrd' \in Daemon /\ repmgrd'.conn # None /\ repmgrd'.stage = "copy at start"
      BY <1>a, <1>s, <3>1 DEF Daemon
    <3>2. ASSUME NEW m \in Data,
                 repmgrd' = [repmgrd EXCEPT !.stage = "degraded", !.link = "bad", !.upstream = m]
          PROVE  repmgrd' \in Daemon /\ repmgrd'.link = "bad" /\ repmgrd'.stage = "degraded"
      BY <1>a, <1>s, <3>2 DEF Daemon
    <3>3. CASE repmgrd' = [repmgrd EXCEPT !.stage = "stopped"]
      BY <1>a, <1>c, <1>s, <3>3 DEF Daemon
    <3> QED BY <2>3, <3>1, <3>2, <3>3
  <2> QED BY <1>1, <1>b, <2>2, <2>4 DEF FindPrimary
<1>2. CASE CopyAtStart
  <2>1. /\ repmgrd' \in Daemon
        /\ repmgrd'.link = "ok" => repmgrd'.conn # None
        /\ repmgrd'.stage \notin {"follow", "degraded follow"}
    BY <1>2, <1>a, <1>c DEF CopyAtStart, Noticed, Answers, Daemon, Stage, Link
  <2> QED BY <1>2, <1>a, <1>b, <2>1 DEF CopyAtStart
<1>3. CASE LosePrimary \/ GiveUp
  <2>1. /\ repmgrd' \in Daemon
        /\ repmgrd'.link = "ok" => repmgrd'.conn # None
        /\ repmgrd'.stage \notin {"follow", "degraded follow"}
    BY <1>3, <1>a, <1>c DEF LosePrimary, GiveUp, Daemon, Stage
  <2> QED BY <1>3, <1>a, <1>b, <2>1 DEF LosePrimary, GiveUp
<1>4. CASE UpstreamReturns
  <2>1. /\ repmgrd' \in Daemon
        /\ repmgrd'.link = "ok" => repmgrd'.conn # None
        /\ repmgrd'.stage \notin {"follow", "degraded follow"}
    BY <1>4, <1>a, <1>c DEF UpstreamReturns, UpstreamAnswers, Daemon, Stage, Link
  <2> QED BY <1>4, <1>a, <1>b, <2>1 DEF UpstreamReturns
<1>d. ASSUME NEW p \in Data, NEW stage \in Stage, Follow(p, stage), UNCHANGED <<server, streams, cmd, notice, spent>>
      PROVE  Processes' /\ Connected'
  <2>1. /\ repmgrd' \in Daemon
        /\ repmgrd'.link = "ok" => repmgrd'.conn # None
        /\ repmgrd'.follow # None
    BY <1>d, <1>a, <1>c DEF Follow, Daemon
  <2> QED BY <1>d, <1>a, <1>b, <2>1
<1>5. CASE WitnessFailover
  <2>1. CASE repmgrd' = [repmgrd EXCEPT !.stage = "start"] \/ repmgrd' = [repmgrd EXCEPT !.stage = "degraded"]
    <3>1. /\ repmgrd' \in Daemon
          /\ repmgrd'.link = "ok" => repmgrd'.conn # None
          /\ repmgrd'.stage \notin {"follow", "degraded follow"}
      <4>1. CASE repmgrd' = [repmgrd EXCEPT !.stage = "start"]
        BY <4>1, <1>a, <1>c, <1>s DEF Daemon
      <4>2. CASE repmgrd' = [repmgrd EXCEPT !.stage = "degraded"]
        BY <4>2, <1>a, <1>c, <1>s DEF Daemon
      <4> QED BY <2>1, <4>1, <4>2
    <3> QED BY <1>5, <1>a, <1>b, <3>1 DEF WitnessFailover
  <2>2. CASE notice # None /\ Follow(notice, "follow")
    BY <1>5, <1>a, <1>d, <2>2 DEF WitnessFailover, Stage
  <2> QED BY <1>5, <2>1, <2>2 DEF WitnessFailover, Degrade
<1>6. CASE FollowPrimary
  <2> DEFINE p == repmgrd.follow
             ok == server[p].up /\ Registered(table[p], p)
             own == ok /\ Registered(table[p], Witness)
  <2>1. p \in Data /\ table[p][Witness].upstream \in Server \cup {None} /\ table[p][Witness].active \in BOOLEAN
    <3>1. p \in Data
      BY <1>6, <1>a, <1>c DEF FollowPrimary, At, Daemon
    <3>2. table[p][Witness] \in Record
      BY <1>a, <3>1 DEF Server
    <3> QED BY <3>1, <3>2 DEF Record
  <2>2. repmgrd' = [repmgrd EXCEPT
          !.stage = IF own /\ At("follow") THEN "start" ELSE "degraded",
          !.follow = None,
          !.upstream = IF ok THEN p ELSE @,
          !.siblingsOf = IF own THEN table[p][Witness].upstream ELSE @,
          !.active = IF own THEN table[p][Witness].active ELSE @]
    BY <1>6 DEF FollowPrimary
  <2> HIDE DEF ok, own
  <2>3. /\ repmgrd' \in Daemon
        /\ repmgrd'.link = repmgrd.link /\ repmgrd'.conn = repmgrd.conn
        /\ repmgrd'.stage \notin {"follow", "degraded follow"}
    <3> DEFINE stage == IF own /\ At("follow") THEN "start" ELSE "degraded"
               upstream == IF ok THEN p ELSE repmgrd.upstream
               siblingsOf == IF own THEN table[p][Witness].upstream ELSE repmgrd.siblingsOf
               active == IF own THEN table[p][Witness].active ELSE repmgrd.active
    <3>1. /\ stage \in {"start", "degraded"} /\ upstream \in Data \cup {None}
          /\ siblingsOf \in Server \cup {None} /\ active \in BOOLEAN
      BY <1>a, <2>1 DEF Daemon
    <3>2. repmgrd' = [repmgrd EXCEPT !.stage = stage, !.follow = None, !.upstream = upstream,
                                     !.siblingsOf = siblingsOf, !.active = active]
      BY <2>2
    <3> HIDE DEF stage, upstream, siblingsOf, active
    <3>3. repmgrd' \in Daemon
      BY <1>a, <1>s, <3>1, <3>2 DEF Daemon
    <3> QED BY <1>a, <3>1, <3>2, <3>3 DEF Daemon
  <2> QED BY <1>6, <1>a, <1>b, <1>c, <2>3 DEF FollowPrimary
<1>7. CASE FindSibling
  <2>1. PICK m \in PromotedSiblings : Follow(m, "degraded follow")
    BY <1>7 DEF FindSibling
  <2>2. m \in Data
    BY DEF PromotedSiblings
  <2> QED BY <1>7, <1>d, <2>1, <2>2 DEF FindSibling, Stage
<1>8. CASE SyncIsDue \/ SyncRecords
  <2>1. /\ repmgrd' \in Daemon
        /\ repmgrd'.link = "ok" => repmgrd'.conn # None
        /\ repmgrd'.stage \notin {"follow", "degraded follow"}
    <3>1. CASE SyncIsDue
      <4>1. \/ \E stage \in {"sync", "degraded sync"} : repmgrd' = [repmgrd EXCEPT !.stage = stage]
            \/ repmgrd' = [repmgrd EXCEPT !.stage = "start", !.link = "bad"]
        BY <3>1 DEF SyncIsDue
      <4>2. ASSUME NEW stage \in {"sync", "degraded sync"}, repmgrd' = [repmgrd EXCEPT !.stage = stage]
            PROVE  /\ repmgrd' \in Daemon /\ repmgrd'.stage = stage
                   /\ repmgrd'.link = repmgrd.link /\ repmgrd'.conn = repmgrd.conn
        BY <1>a, <1>s, <4>2 DEF Daemon
      <4>3. CASE repmgrd' = [repmgrd EXCEPT !.stage = "start", !.link = "bad"]
        BY <1>a, <1>s, <4>3 DEF Daemon
      <4> QED BY <1>c, <4>1, <4>2, <4>3
    <3>2. CASE SyncRecords
      <4>1. PICK stage \in {"monitor", "degraded"}, link \in {"ok", "bad"} :
              /\ repmgrd' = [repmgrd EXCEPT !.stage = stage, !.link = link]
              /\ link = "ok" => repmgrd.link = "ok"
        BY <3>2 DEF SyncRecords, Noticed, Answers
      <4>2. /\ repmgrd' \in Daemon /\ repmgrd'.stage = stage
            /\ repmgrd'.link = link /\ repmgrd'.conn = repmgrd.conn
        BY <1>a, <1>s, <4>1 DEF Daemon
      <4> QED BY <1>c, <4>1, <4>2
    <3> QED BY <1>8, <3>1, <3>2
  <2> QED BY <1>8, <1>a, <1>b, <2>1 DEF SyncIsDue, SyncRecords
<1>9. CASE NoteLocalServer
  <2>1. /\ repmgrd' \in Daemon
        /\ repmgrd'.link = "ok" => repmgrd'.conn # None
        /\ repmgrd'.stage = repmgrd.stage /\ repmgrd'.follow = repmgrd.follow
    BY <1>9, <1>a, <1>c DEF NoteLocalServer, Noticed, Answers, Daemon, Link
  <2> QED BY <1>9, <1>a, <1>b, <1>c, <2>1 DEF NoteLocalServer
<1> QED BY <1>1, <1>2, <1>3, <1>4, <1>5, <1>6, <1>7, <1>8, <1>9 DEF WitnessRepmgrd

LEMMA EnvironmentKeepsTypes ==
  ASSUME RecordsInv, Environment
  PROVE  Processes' /\ Connected'
<1> USE NoneIsNoNode
<1>a. /\ table[Witness] \in [Server -> Record] /\ Witness \in Server
      /\ repmgrd \in Daemon
      /\ Processes /\ Connected
  BY DEF RecordsInv, Tables, Processes, Daemon, Server
<1>b. ASSUME UNCHANGED <<cmd>>, server' \in [Server -> [up : BOOLEAN, primary : BOOLEAN]],
             streams' \in [Data -> Data \cup {None}], notice' \in Data \cup {None},
             spent' \in Bounds, repmgrd' \in Daemon,
             repmgrd'.link = "ok" => repmgrd'.conn # None,
             repmgrd'.stage \in {"follow", "degraded follow"} => repmgrd'.follow # None
      PROVE  Processes' /\ Connected'
  BY <1>a, <1>b DEF Processes, Connected, Daemon, Bounds
<1>1. CASE RepmgrdStarts
  <2>1. /\ repmgrd' \in Daemon /\ repmgrd'.link = "bad" /\ repmgrd'.stage = "start"
    BY <1>1, <1>a DEF RepmgrdStarts, Daemon, Stage, Link, Record
  <2> QED BY <1>1, <1>a, <1>b, <2>1 DEF RepmgrdStarts, Processes, Bounds
<1>2. CASE RepmgrdEnds
  <2>1. /\ repmgrd' \in Daemon /\ repmgrd'.stage = "stopped"
        /\ repmgrd'.link = repmgrd.link /\ repmgrd'.conn = repmgrd.conn
    BY <1>2, <1>a DEF RepmgrdEnds, Daemon, Stage
  <2>2. spent' \in Bounds
    BY <1>2, <1>a, SpendType DEF RepmgrdEnds
  <2> QED BY <1>2, <1>a, <1>b, <2>1, <2>2 DEF RepmgrdEnds, Processes, Connected
<1>3. ASSUME NEW s \in Server, ServerDown(s) PROVE Processes' /\ Connected'
  <2>1. server' \in [Server -> [up : BOOLEAN, primary : BOOLEAN]]
    <3>1. server \in [Server -> [up : BOOLEAN, primary : BOOLEAN]]
      BY <1>a DEF Processes
    <3>2. server' = [server EXCEPT ![s].up = FALSE]
      BY <1>3 DEF ServerDown
    <3> QED BY <3>1, <3>2
  <2>2. /\ repmgrd' \in Daemon /\ repmgrd'.stage = repmgrd.stage /\ repmgrd'.follow = repmgrd.follow
        /\ repmgrd'.link = "ok" => repmgrd.link = "ok" /\ repmgrd'.conn = repmgrd.conn
    BY <1>3, <1>a DEF ServerDown, Daemon, Link
  <2>3. spent' \in Bounds
    BY <1>3, <1>a, SpendType DEF ServerDown
  <2> QED BY <1>3, <1>a, <1>b, <2>1, <2>2, <2>3 DEF ServerDown, Processes, Connected
<1>4. ASSUME UNCHANGED <<cmd, repmgrd>>, server' \in [Server -> [up : BOOLEAN, primary : BOOLEAN]],
             streams' \in [Data -> Data \cup {None}], notice' \in Data \cup {None},
             spent' \in Bounds
      PROVE  Processes' /\ Connected'
  BY <1>4, <1>a, <1>b DEF Connected
<1>5. ASSUME NEW s \in Server, ServerUp(s) PROVE Processes' /\ Connected'
  <2>1. server' \in [Server -> [up : BOOLEAN, primary : BOOLEAN]]
    <3>1. server \in [Server -> [up : BOOLEAN, primary : BOOLEAN]]
      BY <1>a DEF Processes
    <3>2. server' = [server EXCEPT ![s].up = TRUE]
      BY <1>5 DEF ServerUp
    <3> QED BY <3>1, <3>2
  <2>2. UNCHANGED <<streams, cmd, repmgrd, notice, spent>>
    BY <1>5 DEF ServerUp
  <2> QED BY <1>a, <1>4, <2>1, <2>2 DEF Processes, Bounds
<1>6. ASSUME NEW n \in Data, Replicate(n) \/ Notify(n) \/ RestoredAsStandby(n) PROVE Processes' /\ Connected'
  <2>1. /\ server' \in [Server -> [up : BOOLEAN, primary : BOOLEAN]]
        /\ streams' \in [Data -> Data \cup {None}] /\ spent' \in Bounds
    BY <1>6, <1>a DEF Replicate, Notify, RestoredAsStandby, Processes, Bounds
  <2>2. UNCHANGED <<cmd, repmgrd>>
    BY <1>6 DEF Replicate, Notify, RestoredAsStandby
  <2>3. notice' \in Data \cup {None}
    <3>1. notice \in Data \cup {None}
      BY <1>a DEF Processes
    <3> QED BY <1>6, <3>1 DEF Replicate, Notify, RestoredAsStandby
  <2> QED BY <1>4, <2>1, <2>2, <2>3
<1>7. ASSUME NEW n \in Data, NEW p \in Data, MarkStandby(n, p) PROVE Processes' /\ Connected'
  BY <1>7, <1>a, <1>4 DEF MarkStandby, Processes, Bounds
<1>8. ASSUME NEW n \in Data, NEW recorded \in BOOLEAN, Promote(n, recorded) PROVE Processes' /\ Connected'
  <2>1. spent' \in Bounds
    BY <1>8, <1>a, SpendType DEF Promote
  <2>2. server' = [server EXCEPT ![n].primary = TRUE] /\ streams' = [streams EXCEPT ![n] = None]
    BY <1>8 DEF Promote
  <2>3. /\ server' \in [Server -> [up : BOOLEAN, primary : BOOLEAN]]
        /\ streams' \in [Data -> Data \cup {None}]
    <3>1. server \in [Server -> [up : BOOLEAN, primary : BOOLEAN]] /\ streams \in [Data -> Data \cup {None}]
      BY <1>a DEF Processes
    <3>2. server' \in [Server -> [up : BOOLEAN, primary : BOOLEAN]]
      BY <2>2, <3>1
    <3> QED BY <2>2, <3>1, <3>2
  <2>4. UNCHANGED <<cmd, repmgrd, notice>> /\ notice \in Data \cup {None}
    BY <1>8, <1>a DEF Promote, Processes
  <2> QED BY <1>4, <2>1, <2>3, <2>4
<1>9. ASSUME NEW n \in Data, NEW p \in Data, NEW recorded \in BOOLEAN, FollowNew(n, p, recorded)
      PROVE  Processes' /\ Connected'
  BY <1>9, <1>a, <1>4 DEF FollowNew, Processes, Bounds
<1> QED BY <1>1, <1>2, <1>3, <1>5, <1>6, <1>7, <1>8, <1>9 DEF Environment
-----------------------------------------------------------------------------
(* The theorems. *)

LEMMA StartIsSound == Init => RecordsInv
<1> USE NoneIsNoNode
<1> SUFFICES ASSUME Init PROVE RecordsInv
  OBVIOUS
<1>1. Processes
  <2>1. cmd \in [Server -> Command]
    BY IdleType DEF Init
  <2>2. /\ server \in [Server -> [up : BOOLEAN, primary : BOOLEAN]]
        /\ streams \in [Data -> Data \cup {None}]
        /\ notice \in Data \cup {None}
    BY NodeAssumption DEF Init
  <2>3. repmgrd \in Daemon
    BY DEF Init, Daemon, Stage, Link
  <2>4. spent \in Bounds
    BY BoundAssumption DEF Init, Bounds
  <2> QED BY <2>1, <2>2, <2>3, <2>4 DEF Processes, Daemon, Bounds
<1>2. Connected
  BY IdleType DEF Init, Connected, Server
<1>3. Tables
  <2>1. PICK known \in {{}, {Initial}, Server} :
          table = [s \in Server |->
            [n \in Server |->
               IF n \notin known \/ (s = Witness /\ Witness \notin known) THEN NoRecord
               ELSE IF n = Initial THEN [type |-> "primary", active |-> TRUE, upstream |-> None]
               ELSE [type |-> IF n = Witness THEN "witness" ELSE "standby",
                     active |-> TRUE, upstream |-> Initial]]]
    BY DEF Init
  <2>2. Initial \in Server /\ Initial # Witness
    BY NodeAssumption
  <2>3. ASSUME NEW s \in Server PROVE Sound(table[s])
    <3> DEFINE t == table[s]
    <3>1. \A n \in Server :
            t[n] = IF n \notin known \/ (s = Witness /\ Witness \notin known) THEN NoRecord
                   ELSE IF n = Initial THEN [type |-> "primary", active |-> TRUE, upstream |-> None]
                   ELSE [type |-> IF n = Witness THEN "witness" ELSE "standby",
                         active |-> TRUE, upstream |-> Initial]
      BY <2>1
    <3>2. t \in [Server -> Record]
      BY <2>1, <2>2, EmptyIsSound DEF Record, Type
    <3>a. \A n \in known : Initial \in known
      BY <2>2
    <3> HIDE DEF t
    <3>b. ASSUME NEW n \in Server
          PROVE  \/ t[n].type = "none" /\ t[n].upstream = None
                 \/ n = Initial /\ t[n].type = "primary" /\ t[n].upstream = None
                 \/ /\ n # Initial /\ t[n].type \in {"witness", "standby"} /\ t[n].upstream = Initial
                    /\ t[Initial].type = "primary"
      <4>1. CASE n \notin known \/ (s = Witness /\ Witness \notin known)
        <5>1. t[n] = NoRecord
          BY <3>1, <4>1
        <5> QED BY <5>1 DEF NoRecord
      <4>2. CASE n \in known /\ ~(s = Witness /\ Witness \notin known)
        <5>1. t[Initial] = [type |-> "primary", active |-> TRUE, upstream |-> None]
          <6>1. Initial \in known /\ Initial \in Server
            BY <2>2, <3>a, <4>2
          <6>2. ~(Initial \notin known \/ (s = Witness /\ Witness \notin known))
            BY <4>2, <6>1
          <6> QED BY <3>1, <6>1, <6>2
        <5>2. CASE n = Initial
          BY <5>1, <5>2
        <5>3. CASE n # Initial
          <6>1. t[n] = [type |-> IF n = Witness THEN "witness" ELSE "standby",
                        active |-> TRUE, upstream |-> Initial]
            BY <3>1, <4>2, <5>3
          <6> QED BY <5>1, <5>3, <6>1
        <5> QED BY <5>2, <5>3
      <4> QED BY <4>1, <4>2
    <3>3. \A n \in Server : t[n].upstream # None => t[n].type # "none" /\ t[n].upstream = Initial
                                                /\ t[Initial].type # "none"
      BY <3>b
    <3>4. PrimaryIds(t) \subseteq {Initial} /\ t[Witness].type # "primary"
      BY <2>2, <3>b DEF PrimaryIds, Server
    <3> QED BY <3>2, <3>3, <3>4 DEF Sound, Referenced, Unique, t
  <2>4. table \in [Server -> [Server -> Record]]
    BY <2>1, <2>3 DEF Sound
  <2> QED BY <2>3, <2>4 DEF Tables
<1> QED BY <1>1, <1>2, <1>3 DEF RecordsInv

LEMMA StepIsSound == RecordsInv /\ [Next]_vars => RecordsInv'
<1> SUFFICES ASSUME RecordsInv, [Next]_vars PROVE RecordsInv'
  OBVIOUS
<1>1. CASE PrimaryCommand \/ StandbyCommand \/ WitnessCommand
  BY <1>1, PrimaryCommandIsSound, StandbyCommandIsSound, WitnessCommandIsSound, CommandKeepsTypes
  DEF RecordsInv
<1>2. CASE WitnessRepmgrd
  BY <1>2, WitnessRepmgrdIsSound, WitnessRepmgrdKeepsTypes DEF RecordsInv
<1>3. CASE Environment
  BY <1>3, EnvironmentIsSound, EnvironmentKeepsTypes DEF RecordsInv
<1>4. CASE UNCHANGED vars
  BY <1>4 DEF vars, RecordsInv, Tables, Connected, Processes
<1> QED BY <1>1, <1>2, <1>3, <1>4 DEF Next

\* The types, and the foreign key of repmgr.nodes in every copy of the records.
THEOREM TypeCorrect == Spec => []TypeOK
BY StartIsSound, StepIsSound, InvIsTypeOK, PTL DEF Spec

\* No copy of the records ever has two active primaries: every change of them
\* either makes no primary, or takes the place of the one there was.
THEOREM OnePrimaryIsActive == Spec => []OneActivePrimary
<1>1. RecordsInv => OneActivePrimary
  <2> SUFFICES ASSUME RecordsInv, NEW s \in Server PROVE Cardinality(PrimaryIds(table[s])) <= 1
    BY DEF OneActivePrimary
  <2> DEFINE ids == PrimaryIds(table[s])
  <2>1. \A a, b \in ids : a = b
    BY DEF RecordsInv, Tables, Sound, Unique
  <2>2. CASE ids = {}
    BY <2>2, FS_EmptySet
  <2>3. CASE ids # {}
    <3>1. PICK n : ids = {n}
      BY <2>1, <2>3
    <3>2. Cardinality({n}) = 1
      BY FS_Singleton
    <3> QED BY <3>1, <3>2
  <2> QED BY <2>2, <2>3
<1> QED BY <1>1, StartIsSound, StepIsSound, PTL DEF Spec
-----------------------------------------------------------------------------
(* A running primary keeps its record. *)

\* A command that will delete a node's record in that node's own copy has not
\* found it to be a primary that runs; and a primary streams from nobody.
KeepInv ==
  /\ \A s \in Server : cmd[s].step = "delete" /\ cmd[s].conn = cmd[s].target => ~cmd[s].current
  /\ \A n \in Data : server[n].primary => streams[n] = None

LEMMA BeginKeeps ==
  ASSUME RecordsInv, KeepInv, NEW s \in Server, NEW c \in Command, Begin(s, c),
         UNCHANGED <<server, streams>>,
         c.step = "delete" /\ c.conn = c.target => ~c.current
  PROVE  KeepInv'
BY DEF Begin, KeepInv, RecordsInv, Processes

\* Nothing but the beginning of a command, and what servers do, matters.
LEMMA OthersKeep ==
  ASSUME RecordsInv, KeepInv, UNCHANGED <<server, streams>>,
         \A s \in Server : cmd'[s] = cmd[s] \/ cmd'[s].step # "delete"
  PROVE  KeepInv'
BY DEF KeepInv

LEMMA EndKeeps ==
  ASSUME RecordsInv, KeepInv, UNCHANGED <<server, streams>>, NEW s \in Server, End(s)
  PROVE  KeepInv'
BY OthersKeep DEF End, Idle, RecordsInv, Processes

LEMMA PrimaryUnregisterKeeps ==
  ASSUME RecordsInv, KeepInv, NEW s \in Server, NEW option \in Server \cup {None},
         NEW force \in BOOLEAN, PrimaryUnregister(s, option, force)
  PROVE  KeepInv'
<1> USE NoneIsNoNode
<1>1. PICK p \in PrimaryIds(table[s]) : \E current \in PrimaryIds(table[p]) :
        LET target == IF option = None THEN current ELSE option
            record == IF option = None THEN table[p][current] ELSE table[s][option]
        IN  /\ server[target].up /\ server[target].primary => ~IsCurrentPrimary(p, target)
            /\ Begin(s, [Idle EXCEPT !.step = "delete", !.conn = p, !.target = target,
                                     !.found = record.type, !.current = RunningPrimary(target)])
  BY DEF PrimaryUnregister
<1>2. PICK current \in PrimaryIds(table[p]) :
        LET target == IF option = None THEN current ELSE option
            record == IF option = None THEN table[p][current] ELSE table[s][option]
        IN  /\ server[target].up /\ server[target].primary => ~IsCurrentPrimary(p, target)
            /\ Begin(s, [Idle EXCEPT !.step = "delete", !.conn = p, !.target = target,
                                     !.found = record.type, !.current = RunningPrimary(target)])
  BY <1>1
<1> DEFINE target == IF option = None THEN current ELSE option
           record == IF option = None THEN table[p][current] ELSE table[s][option]
           c == [Idle EXCEPT !.step = "delete", !.conn = p, !.target = target,
                             !.found = record.type, !.current = RunningPrimary(target)]
<1>3. p \in Server /\ target \in Server /\ record.type \in Type
  BY DEF RecordsInv, Tables, PrimaryIds, Record
<1>4. /\ server[target].up /\ server[target].primary => ~IsCurrentPrimary(p, target)
      /\ Begin(s, c)
  BY <1>2
<1> HIDE DEF target, record
<1>5. RunningPrimary(target) \in BOOLEAN
  BY DEF RunningPrimary
<1>6. c \in Command /\ c.conn = p /\ c.target = target /\ c.current = RunningPrimary(target)
  BY <1>3, <1>5, IdleType DEF Command, Step
<1> HIDE DEF c
<1>7. p = target => ~RunningPrimary(target)
  BY <1>4 DEF RunningPrimary, Writable, IsCurrentPrimary
<1> QED BY <1>4, <1>6, <1>7, BeginKeeps DEF PrimaryUnregister

LEMMA UnregisterKeeps ==
  ASSUME RecordsInv, KeepInv, NEW s \in Server, NEW target \in Server, NEW type \in {"standby", "witness"},
         Unregister(s, target, type)
  PROVE  KeepInv'
<1>1. PICK p \in PrimaryConnection(table[s]) :
        /\ table[p][target].type = type
        /\ Begin(s, [Idle EXCEPT !.step = "delete", !.conn = p, !.target = target, !.found = type,
                                 !.current = RunningPrimary(target)])
  BY DEF Unregister
<1> DEFINE c == [Idle EXCEPT !.step = "delete", !.conn = p, !.target = target, !.found = type,
                             !.current = RunningPrimary(target)]
<1>2. p \in Server
  BY NoneIsNoNode DEF PrimaryConnection
<1>3. RunningPrimary(target) \in BOOLEAN
  BY DEF RunningPrimary
<1>4. c \in Command /\ c.conn = p /\ c.target = target /\ c.current = RunningPrimary(target)
  BY <1>2, <1>3, IdleType DEF Command, Step, Type
<1>5. Begin(s, c)
  BY <1>1
<1> HIDE DEF c
<1>6. p = target => ~RunningPrimary(target)
  BY <1>1 DEF RunningPrimary, PrimaryIds
<1> QED BY <1>4, <1>5, <1>6, BeginKeeps DEF Unregister

LEMMA StepKeepsInv ==
  ASSUME RecordsInv, KeepInv, [Next]_vars
  PROVE  KeepInv'
<1> USE NoneIsNoNode
<1>a. Witness \in Server /\ Processes /\ cmd \in [Server -> Command]
  BY DEF Server, RecordsInv, Processes
<1>1. CASE PrimaryCommand
  <2>1. ASSUME NEW n \in Data, PrimaryRegister(n) PROVE KeepInv'
    BY <2>1, <1>a, OthersKeep DEF PrimaryRegister, Begin, Idle
  <2>2. ASSUME NEW n \in Data, NEW force \in BOOLEAN, RegisterPrimary(n, force) PROVE KeepInv'
    BY <2>2, EndKeeps DEF RegisterPrimary
  <2> QED BY <1>1, <2>1, <2>2, PrimaryUnregisterKeeps DEF PrimaryCommand
<1>2. CASE StandbyCommand
  <2>1. ASSUME NEW n \in Data, NEW host \in Data, NEW upstream \in Server \cup {None},
               NEW force \in BOOLEAN, StandbyRegister(n, upstream, host, force)
        PROVE  KeepInv'
    <3>1. PICK p : Begin(n, [Idle EXCEPT !.step = "standby", !.conn = p, !.target = n,
                     !.upstream = IF upstream = None /\ server[n].up THEN p ELSE upstream,
                     !.found = table[p][n].type])
      BY <2>1 DEF StandbyRegister
    <3> QED BY <1>a, <2>1, <3>1, OthersKeep DEF Begin, Idle, StandbyRegister
  <2>2. ASSUME NEW n \in Data, RegisterStandby(n) PROVE KeepInv'
    BY <2>2, EndKeeps DEF RegisterStandby
  <2>3. ASSUME NEW s \in Server, NEW target \in Data, StandbyUnregister(s, target) PROVE KeepInv'
    BY <2>3, UnregisterKeeps DEF StandbyUnregister
  <2>4. ASSUME NEW s \in Server, DeleteRecord(s) PROVE KeepInv'
    BY <2>4, EndKeeps DEF DeleteRecord
  <2> QED BY <1>2, <2>1, <2>2, <2>3, <2>4 DEF StandbyCommand
<1>3. CASE WitnessCommand
  <2>1. ASSUME NEW host \in Data, NEW force \in BOOLEAN, WitnessRegister(host, force) PROVE KeepInv'
    <3>1. PICK p : Begin(Witness, [Idle EXCEPT !.step = "witness", !.conn = p, !.target = Witness,
                                     !.upstream = p, !.found = table[p][Witness].type])
      BY <2>1 DEF WitnessRegister
    <3> QED BY <1>a, <2>1, <3>1, OthersKeep DEF Begin, Idle, WitnessRegister
  <2>2. ASSUME NEW host \in Data, NEW force \in BOOLEAN, WitnessUnregister(host, force) PROVE KeepInv'
    <3>1. CASE Unregister(Witness, Witness, "witness")
      BY <1>a, <3>1, UnregisterKeeps
    <3>2. CASE /\ Begin(Witness, [Idle EXCEPT !.step = "delete", !.conn = host, !.target = Witness,
                                              !.found = "witness"])
               /\ UNCHANGED <<server, streams>>
      <4> DEFINE c == [Idle EXCEPT !.step = "delete", !.conn = host, !.target = Witness,
                                   !.found = "witness"]
      <4>1. c \in Command /\ ~c.current
        BY <1>a, IdleType DEF Command, Step, Type, Idle
      <4>2. Begin(Witness, c)
        BY <3>2
      <4> HIDE DEF c
      <4> QED BY <1>a, <3>2, <4>1, <4>2, BeginKeeps
    <3> QED BY <2>2, <3>1, <3>2 DEF WitnessUnregister
  <2>3. CASE RegisterWitness
    <3>1. CASE End(Witness)
      BY <1>a, <2>3, <3>1, EndKeeps DEF RegisterWitness
    <3>2. CASE cmd' = [cmd EXCEPT ![Witness].step = "copy"]
      <4>1. \A s \in Server : cmd'[s] = cmd[s] \/ cmd'[s].step # "delete"
        BY <1>a, <3>2 DEF Command
      <4> QED BY <2>3, <4>1, OthersKeep DEF RegisterWitness
    <3> QED BY <2>3, <3>1, <3>2 DEF RegisterWitness
  <2>4. CASE CopyToNewWitness
    BY <1>a, <2>4, EndKeeps DEF CopyToNewWitness
  <2> QED BY <1>3, <2>1, <2>2, <2>3, <2>4 DEF WitnessCommand
<1>4. CASE UNCHANGED <<server, streams, cmd>>
  BY <1>4, OthersKeep
<1>5. CASE WitnessRepmgrd
  BY <1>4, <1>5
  DEF WitnessRepmgrd, FindPrimary, CopyAtStart, LosePrimary, UpstreamReturns, GiveUp,
      WitnessFailover, FollowPrimary, FindSibling, SyncIsDue, SyncRecords, NoteLocalServer
<1>6. CASE Environment
  <2>1. ASSUME NEW s \in Server, ServerDown(s) \/ ServerUp(s) PROVE KeepInv'
    <3>1. \A n \in Data : server'[n].primary = server[n].primary
      <4>1. server \in [Server -> [up : BOOLEAN, primary : BOOLEAN]]
        BY <1>a DEF Processes
      <4>2. PICK up \in BOOLEAN : server' = [server EXCEPT ![s].up = up]
        BY <2>1 DEF ServerDown, ServerUp
      <4> QED BY <4>1, <4>2 DEF Server
    <3> QED BY <2>1, <3>1 DEF ServerDown, ServerUp, KeepInv
  <2>2. ASSUME NEW n \in Data, NEW recorded \in BOOLEAN, Promote(n, recorded) PROVE KeepInv'
    BY <1>a, <2>2 DEF Promote, Processes, KeepInv
  <2>3. ASSUME NEW n \in Data, NEW p \in Data, NEW recorded \in BOOLEAN, FollowNew(n, p, recorded)
        PROVE  KeepInv'
    BY <1>a, <2>3 DEF FollowNew, Processes, KeepInv
  <2>4. CASE \/ RepmgrdStarts \/ RepmgrdEnds
             \/ \E n \in Data : Replicate(n) \/ Notify(n) \/ RestoredAsStandby(n)
             \/ \E n, p \in Data : MarkStandby(n, p)
    BY <1>4, <2>4 DEF RepmgrdStarts, RepmgrdEnds, Replicate, Notify, RestoredAsStandby, MarkStandby
  <2> QED BY <1>6, <2>1, <2>2, <2>3, <2>4 DEF Environment
<1>7. CASE UNCHANGED vars
  BY <1>4, <1>7 DEF vars
<1> QED BY <1>1, <1>2, <1>3, <1>5, <1>6, <1>7 DEF Next

\* The changes of a copy of the records that remove nobody.
Keeps(t, r) == \A n \in Server : t[n].type # "none" => r[n].type # "none"

LEMMA StoredKeeps ==
  ASSUME NEW t, Sound(t), NEW n, NEW record \in Record, record.type # "none",
         NEW r \in Created(t, n, record) \cup Updated(t, n, record)
  PROVE  Keeps(t, r)
<1>1. CASE r = t
  BY <1>1 DEF Keeps
<1>2. ASSUME NEW u, r = [t EXCEPT ![n] = [record EXCEPT !.upstream = u]] PROVE Keeps(t, r)
  <2>1. [record EXCEPT !.upstream = u].type = record.type
    BY DEF Record
  <2> QED BY <1>2, <2>1 DEF Keeps, Sound
<1>3. r \in Stored(t, n, record) \/ r = t
  BY DEF Created, Updated
<1> QED BY <1>1, <1>2, <1>3 DEF Stored

LEMMA UpdatesKeep ==
  ASSUME NEW t, Sound(t), NEW n, NEW u, NEW active
  PROVE  /\ Keeps(t, SetActive(t, n, active))
         /\ Keeps(t, SetPrimary(t, n))
         /\ Keeps(t, SetActiveStandby(t, n))
         /\ Keeps(t, SetUpstream(t, n, u))
         /\ Keeps(t, SetStandby(t, n, u))
<1>1. Keeps(t, SetActive(t, n, active)) /\ Keeps(t, SetUpstream(t, n, u))
  BY DEF Sound, Record, Keeps, SetActive, SetUpstream
<1>2. Keeps(t, SetPrimary(t, n))
  BY DEF Sound, Record, Keeps, SetPrimary
<1>3. Keeps(t, SetActiveStandby(t, n))
  BY DEF Sound, Record, Keeps, SetActiveStandby
<1>4. Keeps(t, SetStandby(t, n, u))
  BY DEF Sound, Keeps, SetStandby
<1> QED BY <1>1, <1>2, <1>3, <1>4

LEMMA CommandKeepsPrimary ==
  ASSUME RecordsInv, KeepInv, NEW p \in Data, RunningPrimary(p),
         PrimaryCommand \/ StandbyCommand \/ WitnessCommand
  PROVE  \/ Registered(table'[p], p)
         \/ \E s \in Server : cmd[s].step = "delete" /\ cmd[s].target = p /\ ~cmd[s].current
<1> USE NoneIsNoNode
<1>a. /\ table \in [Server -> [Server -> Record]] /\ p \in Server /\ p # None /\ p # Witness
      /\ \A s \in Server : Sound(table[s])
  BY DEF RecordsInv, Tables
<1>b. table[p][p].type # "none"
  BY DEF RunningPrimary, PrimaryIds
<1>c. ASSUME UNCHANGED table PROVE Registered(table'[p], p)
  BY <1>a, <1>b, <1>c DEF Registered
<1>d. ASSUME NEW s, NEW r, table' = [table EXCEPT ![s] = r], s = p => Keeps(table[s], r)
      PROVE  Registered(table'[p], p)
  BY <1>a, <1>b, <1>d DEF Registered, Keeps
<1>e. ASSUME NEW s \in Server, NEW record \in Record, record.type \in {"standby", "witness"},
             Change(cmd[s].conn, Written(cmd[s], record))
      PROVE  Registered(table'[p], p)
  <2> DEFINE conn == cmd[s].conn
  <2>1. CASE Written(cmd[s], record) = {}
    BY <1>c, <1>e, <2>1 DEF Change
  <2>2. CASE Written(cmd[s], record) # {}
    <3>1. PICK r \in Written(cmd[s], record) : table' = [table EXCEPT ![conn] = r]
      BY <1>e, <2>2 DEF Change
    <3>2. conn \in Server
      BY <2>2 DEF Written, Writable, RecordsInv, Processes, Command
    <3>3. Keeps(table[conn], r)
      BY <1>a, <1>e, <3>2, StoredKeeps DEF Written
    <3> QED BY <1>d, <3>1, <3>3
  <2> QED BY <2>1, <2>2
<1>1. ASSUME NEW n \in Data, NEW force \in BOOLEAN, RegisterPrimary(n, force)
      PROVE  Registered(table'[p], p)
  <2> DEFINE record == [type |-> "primary", active |-> TRUE, upstream |-> None]
  <2>1. Keeps(table[n], [table[n] EXCEPT ![n] = record])
    BY <1>a DEF Keeps
  <2>2. UNCHANGED table \/ table' = [table EXCEPT ![n] = [table[n] EXCEPT ![n] = record]]
    BY <1>1 DEF RegisterPrimary
  <2> QED BY <1>c, <1>d, <2>1, <2>2
<1>2. ASSUME NEW n \in Data, NEW host \in Data, NEW upstream \in Server \cup {None},
             NEW force \in BOOLEAN, StandbyRegister(n, upstream, host, force)
      PROVE  Registered(table'[p], p)
  <2> DEFINE record == [type |-> "standby", active |-> FALSE, upstream |-> None]
  <2>0. PICK q \in RegisterConnection(n, host) :
          \E t \in Placeholder(q, upstream) : table' = [table EXCEPT ![q] = t]
    BY <1>2 DEF StandbyRegister
  <2>1. PICK t \in Placeholder(q, upstream) : table' = [table EXCEPT ![q] = t]
    BY <2>0
  <2>2. q \in Server
    BY DEF RegisterConnection, PrimaryConnection
  <2>3. record \in Record /\ record.type # "none"
    BY DEF Record, Type
  <2>4. Keeps(table[q], t)
    <3>1. t = table[q] \/ t \in Created(table[q], upstream, record)
      BY DEF Placeholder
    <3>2. CASE t = table[q]
      BY <3>2 DEF Keeps
    <3>3. CASE t \in Created(table[q], upstream, record)
      BY <1>a, <2>2, <2>3, <3>3, StoredKeeps
    <3> QED BY <3>1, <3>2, <3>3
  <2> QED BY <1>d, <2>1, <2>4
<1>3. ASSUME NEW n \in Data, RegisterStandby(n) PROVE Registered(table'[p], p)
  <2> DEFINE record == [type |-> "standby", active |-> TRUE, upstream |-> cmd[n].upstream]
  <2>1. record \in Record /\ record.type = "standby"
    BY DEF RecordsInv, Processes, Command, Record, Type
  <2> QED BY <1>3, <1>e, <2>1 DEF RegisterStandby
<1>4. CASE RegisterWitness
  <2> DEFINE record == [type |-> "witness", active |-> TRUE, upstream |-> cmd[Witness].upstream]
  <2>1. record \in Record /\ record.type = "witness" /\ Witness \in Server
    BY DEF RecordsInv, Processes, Command, Record, Type, Server
  <2> QED BY <1>4, <1>e, <2>1 DEF RegisterWitness
<1>5. CASE CopyToNewWitness
  BY <1>5, <1>a, <1>d DEF CopyToNewWitness
<1>6. ASSUME NEW s \in Server, DeleteRecord(s)
      PROVE  \/ Registered(table'[p], p)
             \/ cmd[s].step = "delete" /\ cmd[s].target = p /\ ~cmd[s].current
  <2> DEFINE conn == cmd[s].conn
             target == cmd[s].target
             results == IF Writable(conn) THEN Deleted(table[conn], target) ELSE {}
  <2>1. cmd[s].step = "delete" /\ Change(conn, results)
    BY <1>6 DEF DeleteRecord
  <2>2. CASE conn = target
    <3>1. CASE target = p
      BY <2>1, <2>2, <3>1 DEF KeepInv
    <3>2. CASE target # p
      <4>1. UNCHANGED table \/ \E r : table' = [table EXCEPT ![conn] = r]
        BY <2>1 DEF Change
      <4> QED BY <1>c, <1>d, <2>2, <3>2, <4>1
    <3> QED BY <3>1, <3>2
  <2>3. CASE conn # target
    <3>1. UNCHANGED table \/ \E r \in results : table' = [table EXCEPT ![conn] = r]
      BY <2>1 DEF Change
    <3>2. ASSUME NEW r \in results, table' = [table EXCEPT ![conn] = r] PROVE Registered(table'[p], p)
      <4>1. r = [table[conn] EXCEPT ![target] = NoRecord]
        BY DEF Deleted
      <4>2. conn = p => r[p] = table[p][p]
        BY <1>a, <2>3, <4>1
      <4>3. conn # p => table'[p] = table[p]
        BY <1>a, <3>2
      <4>4. conn = p => table'[p] = r
        BY <1>a, <3>2
      <4> QED BY <1>a, <1>b, <4>2, <4>3, <4>4 DEF Registered
    <3> QED BY <1>c, <3>1, <3>2
  <2> QED BY <2>2, <2>3
<1>7. CASE PrimaryCommand
  BY <1>1, <1>7, <1>c DEF PrimaryCommand, PrimaryRegister, PrimaryUnregister
<1>8. CASE StandbyCommand
  BY <1>2, <1>3, <1>6, <1>8, <1>c DEF StandbyCommand, StandbyUnregister, Unregister
<1>9. CASE WitnessCommand
  BY <1>4, <1>5, <1>9, <1>c DEF WitnessCommand, WitnessRegister, WitnessUnregister, Unregister
<1> QED BY <1>7, <1>8, <1>9

LEMMA OthersKeepPrimary ==
  ASSUME RecordsInv, KeepInv, NEW p \in Data, RunningPrimary(p), WitnessRepmgrd \/ Environment
  PROVE  Registered(table'[p], p)
<1> USE NoneIsNoNode
<1>a. /\ table \in [Server -> [Server -> Record]] /\ p \in Server /\ p # None /\ p # Witness
      /\ \A s \in Server : Sound(table[s])
  BY DEF RecordsInv, Tables
<1>b. table[p][p].type # "none"
  BY DEF RunningPrimary, PrimaryIds
<1>c. ASSUME UNCHANGED table PROVE Registered(table'[p], p)
  BY <1>a, <1>b, <1>c DEF Registered
<1>d. ASSUME NEW s, NEW r, table' = [table EXCEPT ![s] = r], s = p => Keeps(table[s], r)
      PROVE  Registered(table'[p], p)
  BY <1>a, <1>b, <1>d DEF Registered, Keeps
<1>e. ASSUME NEW q, NEW answers, CopyHere(q, answers) PROVE Registered(table'[p], p)
  BY <1>a, <1>d, <1>e DEF CopyHere
<1>f. ASSUME NEW q \in Data, NEW stage, Follow(q, stage) PROVE Registered(table'[p], p)
  <2>1. Keeps(table[q], SetUpstream(table[q], Witness, q))
    BY <1>a, UpdatesKeep
  <2> QED BY <1>d, <1>f, <2>1 DEF Follow
<1>1. CASE WitnessRepmgrd
  <2>1. CASE CopyAtStart \/ SyncRecords \/ FollowPrimary
    BY <1>e, <2>1 DEF CopyAtStart, SyncRecords, FollowPrimary
  <2>2. CASE WitnessFailover
    BY <1>c, <1>f, <2>2 DEF WitnessFailover, Degrade, RecordsInv, Processes
  <2>3. CASE FindSibling
    BY <1>f, <2>3 DEF FindSibling, PromotedSiblings
  <2>4. CASE NoteLocalServer
    <3>1. \/ UNCHANGED table
          \/ /\ repmgrd.conn \in Server
             /\ table' = [table EXCEPT ![repmgrd.conn] =
                            SetActive(table[repmgrd.conn], Witness, server[Witness].up)]
      BY <2>4 DEF NoteLocalServer, Writable, RecordsInv, Processes
    <3> QED BY <1>a, <1>c, <1>d, <3>1, UpdatesKeep
  <2> QED
    BY <1>1, <1>c, <2>1, <2>2, <2>3, <2>4
    DEF WitnessRepmgrd, FindPrimary, LosePrimary, UpstreamReturns, GiveUp, SyncIsDue
<1>2. CASE Environment
  <2>1. ASSUME NEW n \in Data, Replicate(n) PROVE Registered(table'[p], p)
    <3>1. n # p
      BY <2>1 DEF Replicate, KeepInv, RunningPrimary, Writable
    <3> QED BY <2>1, <3>1, <1>d DEF Replicate
  <2>2. ASSUME NEW n \in Data, RestoredAsStandby(n) PROVE Registered(table'[p], p)
    <3>1. PICK q \in Data : table' = [table EXCEPT ![q] = SetActiveStandby(table[q], n)]
      BY <2>2 DEF RestoredAsStandby, PrimaryConnection
    <3> QED BY <1>a, <1>d, <3>1, UpdatesKeep
  <2>3. ASSUME NEW n \in Data, NEW q \in Data, MarkStandby(n, q) PROVE Registered(table'[p], p)
    BY <1>a, <1>d, <2>3, UpdatesKeep DEF MarkStandby
  <2>4. ASSUME NEW n \in Data, NEW recorded \in BOOLEAN, Promote(n, recorded) PROVE Registered(table'[p], p)
    BY <1>a, <1>c, <1>d, <2>4, UpdatesKeep DEF Promote
  <2>5. ASSUME NEW n \in Data, NEW q \in Data, NEW recorded \in BOOLEAN, FollowNew(n, q, recorded)
        PROVE  Registered(table'[p], p)
    BY <1>a, <1>c, <1>d, <2>5, UpdatesKeep DEF FollowNew
  <2> QED
    BY <1>2, <1>c, <2>1, <2>2, <2>3, <2>4, <2>5
    DEF Environment, RepmgrdStarts, RepmgrdEnds, ServerDown, ServerUp, Notify
<1> QED BY <1>1, <1>2

\* The record of a running primary is only deleted by a command that looked at
\* it before it was promoted or registered as the primary: whatever commands run
\* at the same time, and whatever copies of the records they look at.
THEOREM RunningPrimaryIsKept == Spec => PrimaryKeepsItsRecord
<1> DEFINE Kept == \A p \in Data : RunningPrimary(p)
                     => \/ Registered(table'[p], p)
                        \/ \E s \in Server :
                             cmd[s].step = "delete" /\ cmd[s].target = p /\ ~cmd[s].current
<1>1. Init => KeepInv
  <2> SUFFICES ASSUME Init PROVE KeepInv
    OBVIOUS
  <2>1. \A s \in Server : cmd[s].step = "idle"
    BY IdleType DEF Init
  <2>2. \A n \in Data : server[n].primary => n = Initial
    BY NoneIsNoNode DEF Init
  <2>3. streams[Initial] = None
    BY NodeAssumption DEF Init
  <2> QED BY <2>1, <2>2, <2>3 DEF KeepInv
<1>2. RecordsInv /\ KeepInv /\ [Next]_vars => KeepInv'
  BY StepKeepsInv
<1>3. RecordsInv /\ KeepInv /\ [Next]_vars => [Kept]_vars
  <2> SUFFICES ASSUME RecordsInv, KeepInv, Next, NEW p \in Data, RunningPrimary(p)
               PROVE  \/ Registered(table'[p], p)
                      \/ \E s \in Server :
                           cmd[s].step = "delete" /\ cmd[s].target = p /\ ~cmd[s].current
    OBVIOUS
  <2> QED BY CommandKeepsPrimary, OthersKeepPrimary DEF Next
<1> QED BY <1>1, <1>2, <1>3, StartIsSound, StepIsSound, PTL DEF Spec, PrimaryKeepsItsRecord
=============================================================================
