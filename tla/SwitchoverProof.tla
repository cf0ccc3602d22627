--------------------------- MODULE SwitchoverProof ---------------------------
(***************************************************************************)
(* Proofs about Switchover, for any number of nodes, all options and any   *)
(* number of events: a switchover that is not forced has one primary at a  *)
(* time, loses no WAL, moves the virtual IP, and leaves the pauses as it   *)
(* has found them.                                                         *)
(***************************************************************************)
EXTENDS Switchover, FiniteSetTheorems, TLAPS

USE DEF server, command

\* From the shutdown of the old primary to the promotion.
Between == {"unbind", "receive", "promote"}
HandedOver == {"bind", "rejoin", "follow", "reach", "unpause", "done", "incomplete"}
Unpausing == {"unpause", "done", "incomplete"}

\* Nothing has been forced, as far as that matters yet.
Careful == cmd = "checks" \/ Guarded

\* What holds of the servers in any case.
ServersInv ==
  /\ \A n \in Standby : pg[n] = "up"
  /\ \A n \in Node : wal[n] \subseteq 1 .. written
  /\ "cut" \notin spent => cut = {}

\* Nothing happens until the checks are over.
ChecksInv ==
  cmd = "checks" =>
    /\ pg[Old] = "up" /\ daemon[Old] \in {"off", "primary"} /\ ~pending
    /\ role = [n \in Node |-> IF n = Old THEN "primary" ELSE "standby"]
    /\ upstream = [n \in Node |-> Old]
    /\ \A n \in Node : daemon[n] \notin {"electing", "promoting"}
    /\ info = [reached |-> {}, running |-> {}, paused |-> {}]

\* The old primary does not run as a primary any more from the moment it was
\* found shut down, unless the command has given up without promoting.
RolesInv ==
  /\ \A n \in Sibling : role[n] = "standby"
  /\ role[Candidate] = "primary" \/ pending \/ cmd \in Between =>
       (role[Old] = "primary" => pg[Old] = "down")
  /\ cmd \in HandedOver => role[Candidate] = "primary"
  /\ role[Candidate] = "primary" => cmd \in HandedOver \cup {"aborted"}
  /\ pending => cmd = "aborted"
  /\ role[Old] = "standby" => role[Candidate] = "primary" /\ upstream[Old] = Candidate
  /\ \A r \in Rejoiner : rejoin[r].stage # "idle" =>
       rejoin[r].to = Candidate /\ role[Candidate] = "primary"
  /\ \A n \in Node : known[n] \in {Old, Candidate}

\* Until they are unpaused, the repmgrds of the standbys are paused or do not run.
PausedInv ==
  /\ \A n \in Node : daemon[n] # "promoting"
  /\ \A n \in Node : daemon[n] = "electing" => n \in Sibling /\ cmd \in Unpausing
  /\ cmd = "record" => \A n \in info.reached : daemon[n] = "off" \/ n \in info.running
  /\ cmd = "pause" => \A n \in Standby : daemon[n] = "off" \/ n \in paused \cup todo
  /\ cmd \notin {"checks", "record", "pause"} \cup Unpausing =>
       \A n \in Standby : daemon[n] = "off" \/ n \in paused

WalInv ==
  /\ role[Candidate] = "standby" => 1 .. written \subseteq wal[Old]
  /\ cmd \in {"unbind", "receive"} => ckpt = written
  /\ cmd \in {"promote"} \cup HandedOver /\ ~opt.always => 1 .. written \subseteq wal[Candidate]

VipInv ==
  /\ cmd \in {"checks", "record", "pause", "stop", "confirm", "unbind"} => vip \subseteq {Old}
  /\ cmd \in {"receive", "promote", "bind"} => vip = {}
  /\ cmd \in HandedOver \ {"bind"} => vip = {Candidate}
  /\ cmd = "aborted" => vip \subseteq {Old} \/ vip \subseteq {Candidate}

CarefulInv == Careful => RolesInv /\ PausedInv /\ WalInv /\ VipInv

Remembered(S) == \A n \in S : n \in paused => n \in info.paused

PausesInv ==
  /\ info.paused \subseteq paused
  /\ cmd = "unpause" => todo \cap info.paused = {}
  /\ cmd = "pause" => todo \subseteq info.running /\ (opt.dry => todo = {})
  /\ "cut" \notin spent /\ ~opt.nopause =>
       /\ cmd = "record" => Remembered(Standby \ todo)
       /\ cmd \notin {"checks", "refused", "record"} /\ (opt.dry \/ info.running = {}) => Remembered(Standby)
       /\ cmd = "unpause" => Remembered(Standby \ todo)
       /\ cmd \in {"done", "incomplete"} => Remembered(Standby)

SwitchInv == TypeOK /\ ServersInv /\ ChecksInv /\ CarefulInv /\ PausesInv

-----------------------------------------------------------------------------
(* The types. *)

LEMMA PositionType ==
  ASSUME NEW S \in SUBSET (1 .. MaxWal)
  PROVE  /\ IsFiniteSet(S) /\ Cardinality(S) \in 0 .. MaxWal
<1>1. IsFiniteSet(1 .. MaxWal) /\ Cardinality(1 .. MaxWal) = MaxWal
  BY FS_Interval, SettingAssumption
<1>2. IsFiniteSet(S) /\ Cardinality(S) <= MaxWal
  BY <1>1, FS_Subset
<1> QED BY <1>2, FS_CardinalityType, SettingAssumption

LEMMA NodeParts ==
  /\ Old \in Node /\ Candidate \in Standby /\ Candidate \in Node /\ Old # Candidate
  /\ Node = {Old, Candidate} \cup Sibling /\ Standby = {Candidate} \cup Sibling
  /\ Old \notin Standby /\ Old \notin Sibling /\ Candidate \notin Sibling /\ Sibling \subseteq Standby
BY NodeAssumption DEF Standby, Sibling

LEMMA SpendType ==
  ASSUME TypeOK, NEW event \in Event, Spend(event)
  PROVE  spent' \subseteq Event /\ spent' = spent \cup {event}
BY DEF TypeOK, Spend

LEMMA EnvironmentTypes ==
  ASSUME TypeOK,
         \/ ShutsDown \/ Crash \/ PromotionCompletes \/ Heals
         \/ \E n \in Node : Write(n) \/ Stream(n) \/ Checkpoint(n) \/ Cuts(n)
  PROVE  TypeOK'
<1> USE NodeParts
<1>1. CASE ShutsDown
  BY <1>1 DEF TypeOK, ShutsDown
<1>2. CASE Crash
  BY <1>2, SpendType DEF TypeOK, Crash, Event
<1>3. CASE PromotionCompletes
  BY <1>3 DEF TypeOK, PromotionCompletes
<1>4. CASE Heals
  BY <1>4 DEF TypeOK, Heals
<1>5. ASSUME NEW n \in Node, Write(n) PROVE TypeOK'
  <2>1. written' \in 0 .. MaxWal /\ wal' \in [Node -> SUBSET (1 .. MaxWal)]
    BY <1>5, SettingAssumption DEF TypeOK, Write
  <2> QED BY <1>5, <2>1 DEF TypeOK, Write
<1>6. ASSUME NEW n \in Node, Stream(n) PROVE TypeOK'
  <2>1. upstream[n] \in Node
    BY DEF TypeOK
  <2> QED BY <1>6, <2>1 DEF TypeOK, Stream
<1>7. ASSUME NEW n \in Node, Checkpoint(n) PROVE TypeOK'
  BY <1>7 DEF TypeOK, Checkpoint
<1>8. ASSUME NEW n \in Node, Cuts(n) PROVE TypeOK'
  BY <1>8, SpendType DEF TypeOK, Cuts, Event
<1> QED BY <1>1, <1>2, <1>3, <1>4, <1>5, <1>6, <1>7, <1>8

LEMMA FollowType ==
  ASSUME TypeOK, NEW n \in Node, NEW m \in Node, Follow(n, m)
  PROVE  /\ upstream' \in [Node -> Node] /\ daemon' \in [Node -> Stage]
         /\ UNCHANGED <<pg, role, wal, written, known, settled, vip>>
BY DEF TypeOK, Follow, Become, Stage

LEMMA DaemonTypes ==
  ASSUME TypeOK, PrimaryDaemon \/ \E n \in Node : StandbyDaemon(n)
  PROVE  TypeOK'
<1> USE NodeParts
<1>a. ASSUME NEW n \in Node, NEW stage \in Stage, Become(n, stage) PROVE daemon' \in [Node -> Stage]
  BY <1>a DEF TypeOK, Become
<1>1. ASSUME NEW n \in Node, StandbyDaemon(n) PROVE TypeOK'
  <2>1. CASE UpstreamLost(n)
    <3>1. daemon' \in [Node -> Stage]
      BY <1>a, <2>1 DEF UpstreamLost, Stage
    <3> QED BY <2>1, <3>1 DEF TypeOK, UpstreamLost
  <2>2. ASSUME NEW m \in Node, Follow(n, m), UNCHANGED <<paused, rejoin, cut, command, spent>> PROVE TypeOK'
    BY <2>2, FollowType DEF TypeOK
  <2>3. ASSUME NEW stage \in Stage, Become(n, stage), UNCHANGED server,
               UNCHANGED <<paused, rejoin, cut, command, spent>>
        PROVE  TypeOK'
    BY <1>a, <2>3 DEF TypeOK
  <2>4. CASE Elect(n)
    BY <2>2, <2>3, <2>4 DEF Elect, OthersPrimary, Stage
  <2>5. CASE PromoteSelf(n)
    <3>1. CASE role[n] = "standby" /\ OthersPrimary(n) = {}
      <4>1. daemon' \in [Node -> Stage]
        BY <1>a, <2>5, <3>1 DEF PromoteSelf, Stage
      <4>2. /\ role' \in [Node -> {"primary", "standby"}] /\ known' \in [Node -> Node]
            /\ settled' \in [Node -> BOOLEAN] /\ vip' \subseteq Node
            /\ UNCHANGED <<pg, wal, written, upstream, paused, rejoin, cut, command, spent>>
        <5>1. /\ role' = [role EXCEPT ![n] = "primary"] /\ known' = [known EXCEPT ![n] = n]
              /\ settled' = [settled EXCEPT ![n] = FALSE] /\ vip' = vip \cup {n}
              /\ UNCHANGED <<pg, wal, written, upstream, paused, rejoin, cut, command, spent>>
          BY <2>5, <3>1 DEF PromoteSelf
        <5> QED BY <5>1 DEF TypeOK
      <4> QED BY <4>1, <4>2 DEF TypeOK
    <3>2. CASE ~(role[n] = "standby" /\ OthersPrimary(n) = {})
      BY <2>3, <2>5, <3>2 DEF PromoteSelf, Stage
    <3> QED BY <3>1, <3>2
  <2>6. CASE Recover(n)
    BY <2>2, <2>3, <2>6 DEF Recover, OthersPrimary, Stage
  <2>7. CASE BecomeLeader(n)
    BY <2>3, <2>7 DEF BecomeLeader, Stage
  <2> QED BY <1>1, <2>1, <2>4, <2>5, <2>6, <2>7 DEF StandbyDaemon
<1>2. CASE LocalLost \/ CheckPrimaryStatus
  <2>1. daemon' \in [Node -> Stage]
    BY <1>2, <1>a DEF LocalLost, CheckPrimaryStatus, Stage
  <2> QED BY <1>2, <2>1 DEF TypeOK, LocalLost, CheckPrimaryStatus
<1>3. CASE Reconnect
  <2>1. daemon' \in [Node -> Stage]
    BY <1>3, <1>a DEF Reconnect, Stage
  <2> QED BY <1>3, <2>1 DEF TypeOK, Reconnect
<1>4. CASE StopOwn
  <2>1. daemon' \in [Node -> Stage]
    BY <1>4, <1>a DEF StopOwn, Stage
  <2> QED BY <1>4, <2>1 DEF TypeOK, StopOwn
<1>5. CASE Clean
  <2>1. daemon' \in [Node -> Stage]
    BY <1>5, <1>a DEF Clean, Stage
  <2> QED BY <1>5, <2>1 DEF TypeOK, Clean
<1>6. CASE StartRejoin
  BY <1>6 DEF TypeOK, StartRejoin, Rejoiner
<1>7. CASE EndRejoin
  BY <1>7 DEF TypeOK, EndRejoin, Rejoiner, Idle
<1> QED BY <1>1, <1>2, <1>3, <1>4, <1>5, <1>6, <1>7 DEF PrimaryDaemon

LEMMA RejoinTypes ==
  ASSUME TypeOK, NEW r \in Rejoiner, NodeRejoin(r)
  PROVE  TypeOK'
<1> USE NodeParts
<1>a. ASSUME NEW stage \in {"idle", "rewind", "start", "wait", "ok", "failed"}, Step(r, stage)
      PROVE  rejoin' \in [Rejoiner ->
               [stage : {"idle", "rewind", "start", "wait", "ok", "failed"}, to : Node]]
  BY <1>a DEF TypeOK, Step
<1>1. CASE Rewind(r)
  <2>1. rejoin[r].to \in Node
    BY DEF TypeOK
  <2>2. rejoin' \in [Rejoiner -> [stage : {"idle", "rewind", "start", "wait", "ok", "failed"}, to : Node]]
    BY <1>1, <1>a DEF Rewind
  <2>3. wal' \in [Node -> SUBSET (1 .. MaxWal)]
    BY <1>1, <2>1 DEF TypeOK, Rewind
  <2> QED BY <1>1, <2>2, <2>3 DEF TypeOK, Rewind
<1>2. CASE StartStandby(r)
  <2>1. rejoin' \in [Rejoiner -> [stage : {"idle", "rewind", "start", "wait", "ok", "failed"}, to : Node]]
    BY <1>2, <1>a DEF StartStandby
  <2>2. /\ role' \in [Node -> {"primary", "standby"}] /\ upstream' \in [Node -> Node]
        /\ pg' \in [Node -> {"up", "stopping", "down", "crashed"}]
    BY <1>2 DEF TypeOK, StartStandby
  <2>3. spent' \subseteq Event
    BY <1>2, SpendType DEF TypeOK, StartStandby, Event
  <2> QED BY <1>2, <2>1, <2>2, <2>3 DEF TypeOK, StartStandby
<1>3. CASE AwaitStandby(r)
  BY <1>3, <1>a DEF TypeOK, AwaitStandby
<1> QED BY <1>1, <1>2, <1>3 DEF NodeRejoin

LEMMA CommandTypes ==
  ASSUME TypeOK, Switchover
  PROVE  TypeOK'
<1> USE NodeParts DEF Go, Place
<1>1. CASE Checks
  BY <1>1 DEF TypeOK, Checks
<1>2. CASE Recorded
  BY <1>2 DEF TypeOK, Recorded, ToPause
<1>3. CASE Paused \/ SiblingsFollowed \/ End
  BY <1>3 DEF TypeOK, Paused, SiblingsFollowed, End
<1>4. CASE StopOld
  <2>1. spent' \subseteq Event
    BY <1>4, SpendType DEF TypeOK, StopOld, Event
  <2> QED BY <1>4, <2>1 DEF TypeOK, StopOld
<1>5. CASE ConfirmStop
  <2>1. Position(Old) \in 0 .. MaxWal
    BY PositionType DEF TypeOK, Position
  <2> QED BY <1>5, <2>1 DEF TypeOK, ConfirmStop
<1>6. CASE UnbindVip
  BY <1>6 DEF TypeOK, UnbindVip
<1>7. CASE AwaitWal
  BY <1>7 DEF TypeOK, AwaitWal
<1>8. CASE Promote
  <2>1. spent' \subseteq Event
    BY <1>8, SpendType DEF TypeOK, Promote, Event
  <2> QED BY <1>8, <2>1 DEF TypeOK, Promote
<1>9. CASE BindVip
  BY <1>9 DEF TypeOK, BindVip
<1>10. CASE RejoinOld
  BY <1>10 DEF TypeOK, RejoinOld, Rejoiner
<1>11. CASE Rejoined
  BY <1>11 DEF TypeOK, Rejoined
<1>12. CASE ReachOld
  BY <1>12 DEF TypeOK, ReachOld, ToUnpause
<1>13. ASSUME NEW n \in Node, Record(n) PROVE TypeOK'
  BY <1>13 DEF TypeOK, Record
<1>14. ASSUME NEW n \in Node, Pause(n) \/ Unpause(n) PROVE TypeOK'
  BY <1>14 DEF TypeOK, Pause, Unpause
<1>15. ASSUME NEW n \in Node, SiblingFollows(n) PROVE TypeOK'
  BY <1>15 DEF TypeOK, SiblingFollows, OthersPrimary
<1> QED
  BY <1>1, <1>2, <1>3, <1>4, <1>5, <1>6, <1>7, <1>8, <1>9, <1>10, <1>11, <1>12, <1>13,
     <1>14, <1>15 DEF Switchover

LEMMA TypesAreKept ==
  ASSUME TypeOK, [Next]_vars
  PROVE  TypeOK'
<1>1. CASE UNCHANGED vars
  BY <1>1 DEF vars, TypeOK
<1> QED BY <1>1, EnvironmentTypes, DaemonTypes, RejoinTypes, CommandTypes DEF Next

-----------------------------------------------------------------------------
(* What holds in any case. *)

\* Beside the command: only the events, the options and the place are not its own.
LEMMA Beside ==
  ASSUME \/ PrimaryDaemon \/ \E n \in Node : StandbyDaemon(n)
         \/ \E r \in Rejoiner : NodeRejoin(r)
         \/ ShutsDown \/ Crash \/ PromotionCompletes \/ Heals
         \/ \E n \in Node : Write(n) \/ Stream(n) \/ Checkpoint(n) \/ Cuts(n)
  PROVE  UNCHANGED <<cmd, opt, todo, info, lost, ckpt, paused>> /\ spent \subseteq spent'
<1>1. CASE PrimaryDaemon
  BY <1>1 DEF PrimaryDaemon, LocalLost, Reconnect, StopOwn, Clean, StartRejoin, EndRejoin, CheckPrimaryStatus
<1>2. ASSUME NEW n \in Node, StandbyDaemon(n)
      PROVE  UNCHANGED <<cmd, opt, todo, info, lost, ckpt, paused>> /\ spent \subseteq spent'
  BY <1>2 DEF StandbyDaemon, UpstreamLost, Elect, PromoteSelf, Recover, BecomeLeader
<1>3. ASSUME NEW r \in Rejoiner, NodeRejoin(r)
      PROVE  UNCHANGED <<cmd, opt, todo, info, lost, ckpt, paused>> /\ spent \subseteq spent'
  BY <1>3 DEF NodeRejoin, Rewind, StartStandby, AwaitStandby, Spend
<1>4. CASE ShutsDown \/ Crash \/ PromotionCompletes \/ Heals
  BY <1>4 DEF ShutsDown, Crash, PromotionCompletes, Heals, Spend
<1>5. ASSUME NEW n \in Node, Write(n) \/ Stream(n) \/ Checkpoint(n) \/ Cuts(n)
      PROVE  UNCHANGED <<cmd, opt, todo, info, lost, ckpt, paused>> /\ spent \subseteq spent'
  BY <1>5 DEF Write, Stream, Checkpoint, Cuts, Spend
<1> QED BY <1>1, <1>2, <1>3, <1>4, <1>5

\* The command goes forward, and none of its ends is left.
LEMMA Forward ==
  ASSUME TypeOK, [Next]_vars
  PROVE  /\ opt' = opt /\ spent \subseteq spent'
         /\ cmd' = "checks" => cmd = "checks"
         /\ cmd = "refused" => cmd' = "refused"
         /\ cmd \in Unpausing => cmd' \in Unpausing
<1>1. CASE Switchover
  <2>1. CASE Checks \/ Recorded \/ Paused \/ ConfirmStop \/ UnbindVip \/ AwaitWal
    BY <2>1 DEF Checks, Recorded, Paused, ConfirmStop, UnbindVip, AwaitWal, Go, Unpausing
  <2>2. CASE StopOld \/ Promote
    BY <2>2 DEF StopOld, Promote, Spend, Go, Unpausing
  <2>3. CASE BindVip \/ RejoinOld \/ Rejoined \/ SiblingsFollowed \/ ReachOld \/ End
    BY <2>3 DEF BindVip, RejoinOld, Rejoined, SiblingsFollowed, ReachOld, End, Go, Unpausing
  <2>4. ASSUME NEW n \in Node, Record(n) \/ Pause(n) \/ SiblingFollows(n) \/ Unpause(n)
        PROVE  UNCHANGED <<opt, spent, cmd>>
    BY <2>4 DEF Record, Pause, SiblingFollows, Unpause
  <2> QED BY <1>1, <2>1, <2>2, <2>3, <2>4 DEF Switchover
<1>2. CASE UNCHANGED vars
  BY <1>2 DEF vars
<1> QED BY <1>1, <1>2, Beside DEF Next

LEMMA CarefulSoFar ==
  ASSUME TypeOK, [Next]_vars, Careful'
  PROVE  Careful
BY Forward DEF Careful, Guarded, Divided, Unpausing

LEMMA ServersKept ==
  ASSUME TypeOK, ServersInv, [Next]_vars
  PROVE  ServersInv'
<1> USE NodeParts
<1>a. pg \in [Node -> {"up", "stopping", "down", "crashed"}] /\ wal \in [Node -> SUBSET (1 .. MaxWal)]
  BY DEF TypeOK
<1>1. \A n \in Standby : pg'[n] = "up"
  <2>1. pg' = pg \/ \E value : pg' = [pg EXCEPT ![Old] = value]
    <3>1. CASE Switchover
      BY <3>1 DEF Switchover, Checks, Recorded, Paused, StopOld, ConfirmStop, UnbindVip, AwaitWal,
         Promote, BindVip, RejoinOld, Rejoined, SiblingsFollowed, ReachOld, End,
         Record, Pause, SiblingFollows, Unpause
    <3>2. CASE PrimaryDaemon
      BY <3>2 DEF PrimaryDaemon, LocalLost, Reconnect, StopOwn, Clean, StartRejoin, EndRejoin,
         CheckPrimaryStatus
    <3>3. ASSUME NEW n \in Node, StandbyDaemon(n) PROVE pg' = pg
      BY <3>3 DEF StandbyDaemon, UpstreamLost, Elect, PromoteSelf, Recover, BecomeLeader, Follow
    <3>4. ASSUME NEW r \in Rejoiner, NodeRejoin(r) PROVE pg' = pg \/ pg' = [pg EXCEPT ![Old] = "up"]
      BY <3>4 DEF NodeRejoin, Rewind, StartStandby, AwaitStandby
    <3>5. CASE ShutsDown \/ Crash \/ PromotionCompletes \/ Heals
      BY <3>5 DEF ShutsDown, Crash, PromotionCompletes, Heals
    <3>6. ASSUME NEW n \in Node, Write(n) \/ Stream(n) \/ Checkpoint(n) \/ Cuts(n) PROVE pg' = pg
      BY <3>6 DEF Write, Stream, Checkpoint, Cuts
    <3>7. CASE UNCHANGED vars
      BY <3>7 DEF vars
    <3> QED BY <3>1, <3>2, <3>3, <3>4, <3>5, <3>6, <3>7 DEF Next
  <2> QED BY <1>a, <2>1 DEF ServersInv
<1>2. \A n \in Node : wal'[n] \subseteq 1 .. written'
  <2>1. ASSUME UNCHANGED <<wal, written>> PROVE \A n \in Node : wal'[n] \subseteq 1 .. written'
    BY <2>1 DEF ServersInv
  <2>2. CASE Switchover
    BY <2>1, <2>2 DEF Switchover, Checks, Recorded, Paused, StopOld, ConfirmStop, UnbindVip, AwaitWal,
       Promote, BindVip, RejoinOld, Rejoined, SiblingsFollowed, ReachOld, End,
       Record, Pause, SiblingFollows, Unpause
  <2>3. CASE PrimaryDaemon
    BY <2>1, <2>3 DEF PrimaryDaemon, LocalLost, Reconnect, StopOwn, Clean, StartRejoin, EndRejoin,
       CheckPrimaryStatus
  <2>4. ASSUME NEW n \in Node, StandbyDaemon(n) PROVE UNCHANGED <<wal, written>>
    BY <2>4 DEF StandbyDaemon, UpstreamLost, Elect, PromoteSelf, Recover, BecomeLeader, Follow
  <2>5. ASSUME NEW r \in Rejoiner, NodeRejoin(r) PROVE \A n \in Node : wal'[n] \subseteq 1 .. written'
    <3>1. CASE Rewind(r)
      <4>1. rejoin[r].to \in Node
        BY DEF TypeOK
      <4>2. written' = written /\ \A n \in Node : wal'[n] \in {wal[n], wal[rejoin[r].to]}
        BY <1>a, <3>1 DEF Rewind
      <4> QED BY <4>1, <4>2 DEF ServersInv
    <3>2. CASE StartStandby(r) \/ AwaitStandby(r)
      BY <2>1, <3>2 DEF StartStandby, AwaitStandby
    <3> QED BY <2>5, <3>1, <3>2 DEF NodeRejoin
  <2>6. CASE ShutsDown \/ Crash \/ PromotionCompletes \/ Heals
    BY <2>1, <2>6 DEF ShutsDown, Crash, PromotionCompletes, Heals
  <2>7. ASSUME NEW n \in Node, Write(n) PROVE \A m \in Node : wal'[m] \subseteq 1 .. written'
    <3>1. written \in Nat /\ written' = written + 1 /\ 1 .. written \subseteq 1 .. written'
      BY <2>7, SettingAssumption DEF TypeOK, Write
    <3>2. written' \in 1 .. written' /\ \A m \in Node : wal'[m] \subseteq wal[m] \cup {written'}
      BY <1>a, <2>7, <3>1 DEF Write
    <3> QED BY <3>1, <3>2 DEF ServersInv
  <2>8. ASSUME NEW n \in Node, Stream(n) PROVE \A m \in Node : wal'[m] \subseteq 1 .. written'
    <3>1. upstream[n] \in Node
      BY DEF TypeOK
    <3>2. written' = written /\ \A m \in Node : wal'[m] \in {wal[m], wal[upstream[n]]}
      BY <1>a, <2>8 DEF Stream
    <3> QED BY <3>1, <3>2 DEF ServersInv
  <2>9. ASSUME NEW n \in Node, Checkpoint(n) \/ Cuts(n) PROVE UNCHANGED <<wal, written>>
    BY <2>9 DEF Checkpoint, Cuts
  <2>10. CASE UNCHANGED vars
    BY <2>1, <2>10 DEF vars
  <2> QED BY <2>1, <2>2, <2>3, <2>4, <2>5, <2>6, <2>7, <2>8, <2>9, <2>10 DEF Next
<1>3. "cut" \notin spent' => cut' = {}
  <2>1. spent \subseteq spent'
    BY Forward
  <2>2. cut' = cut \/ cut' = {} \/ "cut" \in spent'
    <3>1. CASE Switchover
      BY <3>1 DEF Switchover, Checks, Recorded, Paused, StopOld, ConfirmStop, UnbindVip, AwaitWal,
         Promote, BindVip, RejoinOld, Rejoined, SiblingsFollowed, ReachOld, End,
         Record, Pause, SiblingFollows, Unpause
    <3>2. CASE PrimaryDaemon
      BY <3>2 DEF PrimaryDaemon, LocalLost, Reconnect, StopOwn, Clean, StartRejoin, EndRejoin,
         CheckPrimaryStatus
    <3>3. ASSUME NEW n \in Node, StandbyDaemon(n) PROVE cut' = cut
      BY <3>3 DEF StandbyDaemon, UpstreamLost, Elect, PromoteSelf, Recover, BecomeLeader
    <3>4. ASSUME NEW r \in Rejoiner, NodeRejoin(r) PROVE cut' = cut
      BY <3>4 DEF NodeRejoin, Rewind, StartStandby, AwaitStandby
    <3>5. CASE ShutsDown \/ Crash \/ PromotionCompletes \/ Heals
      BY <3>5 DEF ShutsDown, Crash, PromotionCompletes, Heals
    <3>6. ASSUME NEW n \in Node, Write(n) \/ Stream(n) \/ Checkpoint(n) \/ Cuts(n)
          PROVE  cut' = cut \/ "cut" \in spent'
      BY <3>6 DEF Write, Stream, Checkpoint, Cuts, Spend
    <3>7. CASE UNCHANGED vars
      BY <3>7 DEF vars
    <3> QED BY <3>1, <3>2, <3>3, <3>4, <3>5, <3>6, <3>7 DEF Next
  <2> QED BY <2>1, <2>2 DEF ServersInv
<1> QED BY <1>1, <1>2, <1>3 DEF ServersInv

-----------------------------------------------------------------------------
(* Nothing happens until the checks are over. *)

LEMMA ChecksKept ==
  ASSUME TypeOK, ServersInv, ChecksInv, RolesInv, [Next]_vars, cmd' = "checks"
  PROVE  ChecksInv'
<1> USE NodeParts
<1>0. cmd = "checks"
  BY Forward
<1>a. /\ pg[Old] = "up" /\ daemon[Old] \in {"off", "primary"} /\ ~pending
      /\ role = [n \in Node |-> IF n = Old THEN "primary" ELSE "standby"]
      /\ upstream = [n \in Node |-> Old]
      /\ \A n \in Node : daemon[n] \notin {"electing", "promoting"}
      /\ info = [reached |-> {}, running |-> {}, paused |-> {}]
      /\ \A n \in Node : pg[n] = "up"
      /\ pg \in [Node -> {"up", "stopping", "down", "crashed"}] /\ daemon \in [Node -> Stage]
      /\ \A r \in Rejoiner : rejoin[r].stage = "idle"
  BY <1>0 DEF ChecksInv, ServersInv, RolesInv, TypeOK, HandedOver
<1>b. ASSUME UNCHANGED <<pg, role, upstream, daemon, pending, info>> PROVE ChecksInv'
  BY <1>a, <1>b DEF ChecksInv
<1>1. CASE Switchover
  BY <1>0, <1>1 DEF Switchover, Checks, Recorded, Paused, StopOld, ConfirmStop, UnbindVip, AwaitWal,
     Promote, BindVip, RejoinOld, Rejoined, SiblingsFollowed, ReachOld, End, Go,
     Record, Pause, SiblingFollows, Unpause
<1>2. CASE PrimaryDaemon
  <2>1. role[Old] = "primary" /\ rejoin["daemon"].stage = "idle"
    BY <1>a DEF Rejoiner
  <2> QED BY <1>2, <1>a, <2>1 DEF PrimaryDaemon, LocalLost, Reconnect, StopOwn, Clean, StartRejoin, EndRejoin,
     CheckPrimaryStatus
<1>3. ASSUME NEW n \in Node, StandbyDaemon(n) PROVE ChecksInv'
  <2>1. pg[upstream[n]] = "up" /\ upstream[n] = Old
    BY <1>a
  <2>2. Recover(n) \/ BecomeLeader(n)
    BY <1>3, <1>a, <2>1 DEF StandbyDaemon, UpstreamLost, Elect, PromoteSelf
  <2>3. daemon[n] \in {"standby", "degraded"}
    BY <2>2 DEF Recover, BecomeLeader
  <2>4. n # Old /\ role[n] = "standby"
    BY <1>a, <2>3
  <2>5. Become(n, "standby") /\ UNCHANGED <<server, command>>
    BY <2>1, <2>2, <2>4 DEF Recover, BecomeLeader, IsPrimary
  <2>6. daemon'[Old] = daemon[Old] /\ \A m \in Node : daemon'[m] \notin {"electing", "promoting"}
    BY <1>a, <2>4, <2>5 DEF Become
  <2> QED BY <1>a, <2>5, <2>6 DEF ChecksInv
<1>4. ASSUME NEW r \in Rejoiner, NodeRejoin(r) PROVE ChecksInv'
  BY <1>4, <1>a DEF NodeRejoin, Rewind, StartStandby, AwaitStandby
<1>5. CASE ShutsDown \/ Crash \/ PromotionCompletes \/ Heals
  BY <1>0, <1>5, <1>a, <1>b DEF ShutsDown, Crash, PromotionCompletes, Heals
<1>6. ASSUME NEW n \in Node, Write(n) \/ Stream(n) \/ Checkpoint(n) \/ Cuts(n) PROVE ChecksInv'
  BY <1>6, <1>b DEF Write, Stream, Checkpoint, Cuts
<1>7. CASE UNCHANGED vars
  BY <1>7, <1>b DEF vars
<1> QED BY <1>1, <1>2, <1>3, <1>4, <1>5, <1>6, <1>7 DEF Next

-----------------------------------------------------------------------------
(* Who is a primary. *)

\* Only these matter to RolesInv.
LEMMA RolesStay ==
  ASSUME TypeOK, RolesInv, UNCHANGED <<role, pending, upstream, rejoin, known>>, pg'[Old] = pg[Old],
         cmd' = cmd
  PROVE  RolesInv'
BY DEF RolesInv

\* A step of the command that goes on by one place.
LEMMA CommandRoles ==
  ASSUME TypeOK, ServersInv, ChecksInv, Careful, RolesInv, Switchover, Careful'
  PROVE  RolesInv'
<1> USE NodeParts DEF Go
<1>a. /\ role \in [Node -> {"primary", "standby"}] /\ upstream \in [Node -> Node]
      /\ known \in [Node -> Node]
  BY DEF TypeOK
<1>1. CASE Checks \/ Recorded \/ Paused
  BY <1>1 DEF RolesInv, Checks, Recorded, Paused, Between, HandedOver
<1>2. CASE StopOld
  <2>1. cmd = "stop" /\ cmd' = "confirm" /\ UNCHANGED <<role, upstream, known, pending, rejoin>>
    BY <1>2 DEF StopOld, Careful, Guarded
  <2> QED BY <2>1 DEF RolesInv, Between, HandedOver
<1>3. CASE ConfirmStop
  <2>1. /\ cmd = "confirm" /\ cmd' \in {"unbind", "aborted"}
        /\ cmd' = "unbind" => pg[Old] = "down"
        /\ UNCHANGED <<server, pending, rejoin>>
    BY <1>3 DEF ConfirmStop, Careful, Guarded
  <2> QED BY <2>1 DEF RolesInv, Between, HandedOver
<1>4. CASE UnbindVip \/ AwaitWal
  BY <1>4 DEF RolesInv, UnbindVip, AwaitWal, Between, HandedOver
<1>5. CASE Promote
  <2>1. /\ cmd = "promote"
        /\ role[Old] = "primary" => pg[Old] = "down"
        /\ role[Candidate] = "standby" /\ ~pending
    BY <1>5, <1>a DEF RolesInv, Promote, Between, HandedOver
  <2>2. /\ role[Old] = "primary" /\ UNCHANGED <<pg, upstream, rejoin>>
        /\ \A r \in Rejoiner : rejoin[r].stage = "idle"
    BY <1>5, <1>a, <2>1 DEF RolesInv, Promote
  <2>3. CASE /\ role' = [role EXCEPT ![Candidate] = "primary"]
             /\ known' = [known EXCEPT ![Candidate] = Candidate]
             /\ cmd' = "bind" /\ UNCHANGED pending
    <3>1. role'[Candidate] = "primary" /\ \A n \in Standby \ {Candidate} : role'[n] = role[n]
      BY <1>a, <2>3
    <3>2. role'[Old] = "primary" /\ pg'[Old] = "down"
      BY <1>a, <2>1, <2>2, <2>3
    <3>3. \A n \in Node : known'[n] \in {Old, Candidate}
      BY <1>a, <2>3 DEF RolesInv
    <3>4. \A n \in Sibling : role'[n] = "standby"
      BY <3>1 DEF RolesInv
    <3> QED BY <2>1, <2>2, <2>3, <3>1, <3>2, <3>3, <3>4 DEF RolesInv, Between, HandedOver
  <2>4. CASE pending' = TRUE /\ cmd' = "aborted" /\ UNCHANGED <<role, known>>
    <3>1. role'[Old] = "primary" /\ pg'[Old] = "down" /\ role'[Candidate] = "standby"
      BY <2>1, <2>2, <2>4
    <3>2. \A r \in Rejoiner : rejoin'[r].stage = "idle"
      BY <2>2
    <3>3. (\A n \in Sibling : role'[n] = "standby") /\ \A n \in Node : known'[n] \in {Old, Candidate}
      BY <2>4 DEF RolesInv
    <3> QED BY <2>4, <3>1, <3>2, <3>3 DEF RolesInv, Between, HandedOver
  <2> QED BY <1>5, <2>1, <2>3, <2>4 DEF Promote
<1>6. CASE BindVip \/ Rejoined \/ SiblingsFollowed \/ ReachOld \/ End
  BY <1>6 DEF RolesInv, BindVip, Rejoined, SiblingsFollowed, ReachOld, End, Between, HandedOver
<1>7. CASE RejoinOld
  <2>1. /\ role[Candidate] = "primary" /\ UNCHANGED <<server, pending, cmd>>
        /\ \E stage : rejoin' = [rejoin EXCEPT !["command"] = [stage |-> stage, to |-> Candidate]]
    BY <1>7 DEF RejoinOld, RolesInv, HandedOver
  <2>2. \A r \in Rejoiner : rejoin'[r] = rejoin[r] \/ rejoin'[r].to = Candidate
    BY <2>1 DEF TypeOK
  <2> QED BY <2>1, <2>2 DEF RolesInv
<1>8. ASSUME NEW n \in Node, Record(n) \/ Pause(n) \/ Unpause(n) PROVE RolesInv'
  BY <1>8, RolesStay DEF Record, Pause, Unpause
<1>9. ASSUME NEW n \in Node, SiblingFollows(n) PROVE RolesInv'
  <2>1. UNCHANGED <<pg, role, known, rejoin, pending, cmd>>
    BY <1>9 DEF SiblingFollows
  <2>2. role'[Old] = "standby" => upstream'[Old] = Candidate
    <3> SUFFICES ASSUME role[Old] = "standby" PROVE upstream'[Old] = Candidate
      BY <2>1
    <3>1. upstream[Old] = Candidate
      BY DEF RolesInv
    <3>2. CASE UNCHANGED upstream
      BY <3>1, <3>2
    <3>3. CASE \E m \in OthersPrimary(n) : upstream' = [upstream EXCEPT ![n] = m]
      <4>1. PICK m \in OthersPrimary(n) : upstream' = [upstream EXCEPT ![n] = m]
        BY <3>3
      <4>2. m = Candidate
        BY <1>a DEF OthersPrimary, RolesInv
      <4> QED BY <1>a, <3>1, <4>1, <4>2
    <3> QED BY <1>9, <3>2, <3>3 DEF SiblingFollows
  <2> QED BY <2>1, <2>2 DEF RolesInv
<1> QED BY <1>1, <1>2, <1>3, <1>4, <1>5, <1>6, <1>7, <1>8, <1>9 DEF Switchover

\* Everybody whom a node finds to be another primary is the candidate.
LEMMA OthersAre ==
  ASSUME TypeOK, ServersInv, RolesInv, NEW n \in Node, NEW m \in OthersPrimary(n),
         n = Old \/ m # Old \/ role[Old] = "standby"
  PROVE  m = Candidate
BY NodeParts DEF OthersPrimary, RolesInv

\* A standby follows, or changes its mind; it does not become a primary.
LEMMA StandbyDaemonRoles ==
  ASSUME TypeOK, ServersInv, ChecksInv, RolesInv, PausedInv, Careful, NEW n \in Node, StandbyDaemon(n)
  PROVE  RolesInv'
<1> USE NodeParts
<1>1. ASSUME NEW m \in OthersPrimary(n), Follow(n, m), UNCHANGED <<rejoin, pending, cmd>> PROVE RolesInv'
  <2>1. UNCHANGED <<pg, role, known>> /\ upstream' = [upstream EXCEPT ![n] = m]
    BY <1>1 DEF Follow
  <2>2. role[Old] = "standby" => upstream'[Old] = Candidate
    <3> SUFFICES ASSUME role[Old] = "standby" PROVE upstream'[Old] = Candidate
      OBVIOUS
    <3>1. upstream[Old] = Candidate /\ m = Candidate /\ upstream \in [Node -> Node]
      BY OthersAre DEF RolesInv, TypeOK
    <3> QED BY <2>1, <3>1
  <2> QED BY <1>1, <2>1, <2>2 DEF RolesInv
<1>2. CASE UpstreamLost(n) \/ BecomeLeader(n)
  BY <1>2, RolesStay DEF UpstreamLost, BecomeLeader
<1>3. CASE Elect(n)
  BY <1>1, <1>3, RolesStay DEF Elect
<1>4. CASE PromoteSelf(n)
  BY <1>4 DEF PromoteSelf, PausedInv
<1>5. CASE Recover(n)
  BY <1>1, <1>5, RolesStay DEF Recover
<1> QED BY <1>2, <1>3, <1>4, <1>5 DEF StandbyDaemon

\* The old primary is started as a primary only if it has crashed before it was
\* found shut down.
LEMMA PrimaryDaemonRoles ==
  ASSUME TypeOK, ServersInv, RolesInv, PrimaryDaemon
  PROVE  RolesInv'
<1> USE NodeParts
<1>a. pg \in [Node -> {"up", "stopping", "down", "crashed"}] /\ role \in [Node -> {"primary", "standby"}]
  BY DEF TypeOK
<1>1. CASE LocalLost \/ CheckPrimaryStatus
  BY <1>1, RolesStay DEF LocalLost, CheckPrimaryStatus
<1>2. CASE Reconnect
  BY <1>2, RolesStay DEF Reconnect
<1>3. CASE StopOwn \/ Clean
  <2>1. UNCHANGED <<role, upstream, known, rejoin, pending, cmd>>
    BY <1>3 DEF StopOwn, Clean
  <2>2. pg'[Old] = "down" \/ pg[Old] = "crashed"
    BY <1>a, <1>3 DEF StopOwn, Clean
  <2> QED BY <2>1, <2>2 DEF RolesInv
<1>4. CASE StartRejoin
  <2>1. PICK n \in Node :
          /\ pg[Old] = "down" /\ IsPrimary(known[n])
          /\ rejoin' = [rejoin EXCEPT !["daemon"] = [stage |-> "rewind", to |-> known[n]]]
    BY <1>4 DEF StartRejoin
  <2>2. known[n] = Candidate /\ role[Candidate] = "primary"
    BY <2>1 DEF RolesInv, IsPrimary
  <2>3. \A r \in Rejoiner : rejoin'[r] = rejoin[r] \/ rejoin'[r].to = Candidate
    BY <2>1, <2>2 DEF TypeOK
  <2> QED BY <1>4, <2>2, <2>3 DEF RolesInv, StartRejoin
<1>5. CASE EndRejoin
  <2>1. \A r \in Rejoiner : rejoin'[r] = rejoin[r] \/ rejoin'[r].stage = "idle"
    BY <1>5 DEF EndRejoin, Idle, TypeOK
  <2> QED BY <1>5, <2>1 DEF RolesInv, EndRejoin
<1> QED BY <1>1, <1>2, <1>3, <1>4, <1>5 DEF PrimaryDaemon

LEMMA RejoinRoles ==
  ASSUME TypeOK, ServersInv, RolesInv, NEW r \in Rejoiner, NodeRejoin(r)
  PROVE  RolesInv'
<1> USE NodeParts
<1>a. ASSUME NEW stage, Step(r, stage), rejoin[r].stage # "idle"
      PROVE  \A q \in Rejoiner : rejoin'[q].stage # "idle" =>
               rejoin'[q].to = Candidate /\ role[Candidate] = "primary"
  <2>1. \A q \in Rejoiner : rejoin'[q].to = rejoin[q].to /\ (q # r => rejoin'[q] = rejoin[q])
    BY <1>a DEF Step, TypeOK
  <2> QED BY <1>a, <2>1 DEF RolesInv
<1>1. CASE Rewind(r)
  <2>1. Step(r, "start") \/ Step(r, "failed")
    BY <1>1 DEF Rewind
  <2>2. rejoin[r].stage # "idle" /\ UNCHANGED <<pg, role, upstream, known, pending, cmd>>
    BY <1>1 DEF Rewind
  <2> QED BY <1>a, <2>1, <2>2 DEF RolesInv
<1>2. CASE StartStandby(r)
  <2>1. /\ rejoin[r].stage = "start" /\ role' = [role EXCEPT ![Old] = "standby"]
        /\ upstream' = [upstream EXCEPT ![Old] = rejoin[r].to]
        /\ UNCHANGED <<known, pending, cmd>>
        /\ Step(r, "wait") \/ Step(r, "failed")
    BY <1>2 DEF StartStandby
  <2>2. rejoin[r].to = Candidate /\ role[Candidate] = "primary"
    BY <2>1 DEF RolesInv
  <2>3. /\ role'[Old] = "standby" /\ upstream'[Old] = Candidate
        /\ \A n \in Standby : role'[n] = role[n]
    BY <2>1, <2>2 DEF TypeOK
  <2>4. \A q \in Rejoiner : rejoin'[q].stage # "idle" =>
          rejoin'[q].to = Candidate /\ role[Candidate] = "primary"
    BY <1>a, <2>1
  <2> QED BY <2>1, <2>2, <2>3, <2>4 DEF RolesInv
<1>3. CASE AwaitStandby(r)
  <2>1. Step(r, "ok") \/ Step(r, "failed")
    BY <1>3 DEF AwaitStandby
  <2>2. rejoin[r].stage # "idle" /\ UNCHANGED <<pg, role, upstream, known, pending, cmd>>
    BY <1>3 DEF AwaitStandby
  <2> QED BY <1>a, <2>1, <2>2 DEF RolesInv
<1> QED BY <1>1, <1>2, <1>3 DEF NodeRejoin

LEMMA EnvironmentRoles ==
  ASSUME TypeOK, ServersInv, RolesInv,
         \/ ShutsDown \/ Crash \/ PromotionCompletes \/ Heals
         \/ \E n \in Node : Write(n) \/ Stream(n) \/ Checkpoint(n) \/ Cuts(n)
  PROVE  RolesInv'
<1> USE NodeParts
<1>a. pg \in [Node -> {"up", "stopping", "down", "crashed"}] /\ role \in [Node -> {"primary", "standby"}]
  BY DEF TypeOK
<1>1. CASE ShutsDown \/ Crash
  <2>1. pg[Old] # "down" /\ UNCHANGED <<role, upstream, known, rejoin, pending, cmd>>
    BY <1>1 DEF ShutsDown, Crash
  <2> QED BY <2>1 DEF RolesInv
<1>2. CASE PromotionCompletes
  <2>1. /\ pending /\ ~pending' /\ role' = [role EXCEPT ![Candidate] = "primary"]
        /\ UNCHANGED <<pg, upstream, known, rejoin, cmd>>
    BY <1>2 DEF PromotionCompletes
  <2>2. role'[Candidate] = "primary" /\ \A n \in Node \ {Candidate} : role'[n] = role[n]
    BY <1>a, <2>1
  <2> QED BY <2>1, <2>2 DEF RolesInv
<1>3. CASE Heals
  BY <1>3, RolesStay DEF Heals
<1>4. ASSUME NEW n \in Node, Write(n) \/ Checkpoint(n) \/ Cuts(n) PROVE RolesInv'
  BY <1>4, RolesStay DEF Write, Checkpoint, Cuts
<1>5. ASSUME NEW n \in Node, Stream(n) PROVE RolesInv'
  <2>1. upstream[n] \in Node
    BY DEF TypeOK
  <2>2. \A m \in Node : known'[m] \in {Old, Candidate}
    BY <1>5, <2>1 DEF Stream, RolesInv, TypeOK
  <2> QED BY <1>5, <2>2 DEF Stream, RolesInv
<1> QED BY <1>1, <1>2, <1>3, <1>4, <1>5

LEMMA RolesKept ==
  ASSUME TypeOK, ServersInv, ChecksInv, CarefulInv, [Next]_vars, Careful'
  PROVE  RolesInv'
<1>1. Careful /\ RolesInv /\ PausedInv
  BY CarefulSoFar DEF CarefulInv
<1>2. CASE UNCHANGED vars
  BY <1>1, <1>2, RolesStay DEF vars
<1> QED BY <1>1, <1>2, CommandRoles, StandbyDaemonRoles, PrimaryDaemonRoles, RejoinRoles, EnvironmentRoles
    DEF Next

-----------------------------------------------------------------------------
(* Who is paused. *)

\* A repmgrd that runs may change its stage, except to promote its node.
LEMMA StageKeepsPauses ==
  ASSUME TypeOK, PausedInv, NEW n \in Node, NEW stage \in Stage, Become(n, stage),
         daemon[n] # "off", stage # "promoting",
         stage = "electing" => n \in Sibling /\ cmd \in Unpausing,
         UNCHANGED <<cmd, info, paused, todo>>
  PROVE  PausedInv'
<1>1. \A m \in Node : daemon'[m] = IF m = n THEN stage ELSE daemon[m]
  BY DEF TypeOK, Become
<1>2. \A m \in Node : daemon'[m] # "promoting"
  BY <1>1 DEF PausedInv
<1>3. \A m \in Node : daemon'[m] = "electing" => m \in Sibling /\ cmd' \in Unpausing
  BY <1>1 DEF PausedInv
<1>4. \A m \in Node : daemon[m] = "off" => daemon'[m] = "off"
  BY <1>1
<1>5. cmd' = "record" => \A m \in info'.reached : daemon'[m] = "off" \/ m \in info'.running
  BY <1>4 DEF PausedInv, TypeOK
<1>6. cmd' = "pause" => \A m \in Standby : daemon'[m] = "off" \/ m \in paused' \cup todo'
  BY <1>4, NodeParts DEF PausedInv
<1>7. cmd' \notin {"checks", "record", "pause"} \cup Unpausing =>
        \A m \in Standby : daemon'[m] = "off" \/ m \in paused'
  BY <1>4, NodeParts DEF PausedInv
<1> QED BY <1>2, <1>3, <1>5, <1>6, <1>7 DEF PausedInv

LEMMA PrimaryDaemonPauses ==
  ASSUME TypeOK, PausedInv, PrimaryDaemon
  PROVE  PausedInv'
<1>1. UNCHANGED <<cmd, info, paused, todo>>
  BY Beside
<1>2. CASE UNCHANGED daemon
  BY <1>1, <1>2 DEF PausedInv
<1>3. CASE \E stage \in {"lost", "rejoining", "primary", "yielding", "cleaning", "standby"} :
             Become(Old, stage) /\ daemon[Old] # "off"
  <2>1. PICK stage \in {"lost", "rejoining", "primary", "yielding", "cleaning", "standby"} :
          Become(Old, stage) /\ daemon[Old] # "off"
    BY <1>3
  <2>2. stage \in Stage /\ stage # "promoting" /\ stage # "electing"
    BY <2>1 DEF Stage
  <2> QED BY <1>1, <2>1, <2>2, NodeParts, StageKeepsPauses
<1> QED
  BY <1>2, <1>3 DEF PrimaryDaemon, LocalLost, Reconnect, StopOwn, Clean, StartRejoin, EndRejoin,
     CheckPrimaryStatus

\* A sibling that has been unpaused finds the candidate, and does not win.
LEMMA StandbyDaemonPauses ==
  ASSUME TypeOK, ServersInv, ChecksInv, RolesInv, PausedInv, Careful, NEW n \in Node, StandbyDaemon(n)
  PROVE  PausedInv'
<1> USE NodeParts
<1>1. UNCHANGED <<cmd, info, paused, todo>>
  BY Beside
<1>2. CASE UpstreamLost(n)
  <2>1. /\ daemon[n] = "standby" /\ role[n] = "standby" /\ pg[upstream[n]] # "up"
        /\ cmd \notin {"record", "pause"}
        /\ Become(n, IF n \in paused THEN "degraded" ELSE "electing")
    BY <1>2 DEF UpstreamLost
  <2>2. cmd # "checks" /\ cmd # "refused"
    BY <2>1 DEF ChecksInv, Careful, Guarded
  <2>3. n # Old
    BY <2>1 DEF RolesInv, ServersInv
  <2>4. n \notin paused => cmd \in Unpausing
    BY <2>1, <2>2, <2>3 DEF PausedInv, Standby
  <2>5. n \notin paused => n \in Sibling
    BY <2>1, <2>3, <2>4 DEF RolesInv, HandedOver, Unpausing
  <2>6. (IF n \in paused THEN "degraded" ELSE "electing") \in Stage
    BY DEF Stage
  <2> QED BY <1>1, <2>1, <2>4, <2>5, <2>6, StageKeepsPauses
<1>3. CASE Elect(n)
  <2>1. daemon[n] = "electing" /\ n \in Sibling /\ cmd \in Unpausing
    BY <1>3 DEF Elect, PausedInv
  <2>2. cut = {} /\ role[Candidate] = "primary" /\ pg[Candidate] = "up"
    BY <2>1 DEF Careful, Guarded, Divided, ServersInv, RolesInv, HandedOver, Unpausing
  <2>3. Candidate \in OthersPrimary(n)
    BY <2>1, <2>2 DEF OthersPrimary, Connects
  <2>4. Become(n, "standby") \/ Become(n, "degraded")
    BY <1>3, <2>3 DEF Elect, Follow
  <2>5. "standby" \in Stage /\ "degraded" \in Stage
    BY DEF Stage
  <2> QED BY <1>1, <2>1, <2>4, <2>5, StageKeepsPauses
<1>4. CASE PromoteSelf(n)
  BY <1>4 DEF PromoteSelf, PausedInv
<1>5. CASE Recover(n)
  <2>1. Become(n, "standby") /\ daemon[n] = "degraded"
    BY <1>5 DEF Recover, Follow
  <2>2. "standby" \in Stage
    BY DEF Stage
  <2> QED BY <1>1, <2>1, <2>2, StageKeepsPauses
<1>6. CASE BecomeLeader(n)
  <2>1. Become(n, "primary") /\ daemon[n] # "off"
    BY <1>6 DEF BecomeLeader
  <2>2. "primary" \in Stage
    BY DEF Stage
  <2> QED BY <1>1, <2>1, <2>2, StageKeepsPauses
<1> QED BY <1>2, <1>3, <1>4, <1>5, <1>6 DEF StandbyDaemon

LEMMA CommandPauses ==
  ASSUME TypeOK, ServersInv, ChecksInv, PausedInv, PausesInv, Careful, Switchover, Careful'
  PROVE  PausedInv'
<1> USE NodeParts DEF Go
<1>a. daemon' = daemon
  BY DEF Switchover, Checks, Recorded, Paused, StopOld, ConfirmStop, UnbindVip, AwaitWal,
     Promote, BindVip, RejoinOld, Rejoined, SiblingsFollowed, ReachOld, End,
     Record, Pause, SiblingFollows, Unpause
<1>b. (\A n \in Node : daemon'[n] # "promoting")
  BY <1>a DEF PausedInv
<1>c. \A n \in Node : daemon'[n] = "electing" => n \in Sibling /\ cmd' \in Unpausing
  BY <1>a, Forward DEF PausedInv, Next
<1>d. ASSUME cmd' \notin {"record", "pause"},
             cmd' \in Unpausing \/ \A n \in Standby : daemon[n] = "off" \/ n \in paused'
      PROVE  PausedInv'
  BY <1>a, <1>b, <1>c, <1>d DEF PausedInv
<1>1. CASE Checks
  <2>1. cmd' = "record" /\ info'.reached = {}
    BY <1>1 DEF Checks, ChecksInv, Careful, Guarded
  <2> QED BY <1>b, <1>c, <2>1 DEF PausedInv
<1>2. CASE Recorded
  <2>1. /\ cmd = "record" /\ cmd' = "pause" /\ info.reached = Node /\ todo' = ToPause
        /\ UNCHANGED <<paused, info>>
    BY <1>2 DEF Recorded, Careful, Guarded
  <2>2. \A n \in Node : daemon[n] = "off" \/ n \in info.paused \/ n \in ToPause
    BY <2>1 DEF PausedInv, ToPause
  <2>3. \A n \in Standby : daemon'[n] = "off" \/ n \in paused' \cup todo'
    BY <1>a, <2>1, <2>2 DEF PausesInv
  <2> QED BY <1>b, <1>c, <2>1, <2>3 DEF PausedInv, Unpausing
<1>3. CASE Paused
  <2>1. cmd = "pause" /\ cmd' = "stop" /\ todo = {} /\ paused' = paused
    BY <1>3 DEF Paused
  <2> QED BY <1>d, <2>1 DEF PausedInv
<1>4. CASE StopOld \/ Promote
  <2>1. cmd \in {"stop", "promote"} /\ cmd' \in {"confirm", "bind", "aborted", "done"} /\ paused' = paused
    BY <1>4 DEF StopOld, Promote
  <2> QED BY <1>d, <2>1 DEF PausedInv, Unpausing
<1>5. CASE ConfirmStop \/ UnbindVip \/ AwaitWal
  <2>1. /\ cmd \in {"confirm", "unbind", "receive"}
        /\ cmd' \in {"unbind", "receive", "promote", "aborted"} /\ paused' = paused
    BY <1>5 DEF ConfirmStop, UnbindVip, AwaitWal
  <2> QED BY <1>d, <2>1 DEF PausedInv, Unpausing
<1>6. CASE BindVip \/ RejoinOld \/ Rejoined \/ SiblingsFollowed \/ ReachOld
  <2>1. /\ cmd \in {"bind", "rejoin", "follow", "reach"}
        /\ cmd' \in {"rejoin", "follow", "reach", "unpause", "aborted"} /\ paused' = paused
    BY <1>6 DEF BindVip, RejoinOld, Rejoined, SiblingsFollowed, ReachOld
  <2> QED BY <1>d, <2>1 DEF PausedInv, Unpausing
<1>7. CASE End
  BY <1>7, <1>d DEF End, Unpausing
<1>8. ASSUME NEW n \in Node, Record(n) PROVE PausedInv'
  <2>1. cmd = "record" /\ cmd' = "record"
    BY <1>8 DEF Record
  <2>2. /\ info'.reached \subseteq info.reached \cup {n}
        /\ info.running \subseteq info'.running
        /\ n \in info'.reached \ info.reached => daemon[n] = "off" \/ n \in info'.running
    BY <1>8 DEF Record
  <2>3. \A m \in info'.reached : daemon'[m] = "off" \/ m \in info'.running
    BY <1>a, <2>1, <2>2 DEF PausedInv
  <2> QED BY <1>b, <1>c, <2>1, <2>3 DEF PausedInv
<1>9. ASSUME NEW n \in Node, Pause(n) PROVE PausedInv'
  <2>1. cmd = "pause" /\ cmd' = "pause" /\ todo' = todo \ {n}
    BY <1>9 DEF Pause
  <2>2. paused \subseteq paused' /\ (n \in Standby => n \in paused')
    BY <1>9 DEF Pause, ServersInv
  <2>3. \A m \in Standby : daemon'[m] = "off" \/ m \in paused' \cup todo'
    BY <1>a, <2>1, <2>2 DEF PausedInv
  <2> QED BY <1>b, <1>c, <2>1, <2>3 DEF PausedInv
<1>10. ASSUME NEW n \in Node, SiblingFollows(n) PROVE PausedInv'
  BY <1>10, <1>d DEF SiblingFollows, PausedInv
<1>11. ASSUME NEW n \in Node, Unpause(n) PROVE PausedInv'
  BY <1>11, <1>d DEF Unpause, Unpausing
<1> QED
  BY <1>1, <1>2, <1>3, <1>4, <1>5, <1>6, <1>7, <1>8, <1>9, <1>10, <1>11 DEF Switchover

LEMMA PausedKept ==
  ASSUME TypeOK, ServersInv, ChecksInv, CarefulInv, PausesInv, [Next]_vars, Careful'
  PROVE  PausedInv'
<1>1. Careful /\ RolesInv /\ PausedInv
  BY CarefulSoFar DEF CarefulInv
<1>2. ASSUME UNCHANGED <<daemon, cmd, info, paused, todo>> PROVE PausedInv'
  BY <1>1, <1>2 DEF PausedInv
<1>3. ASSUME NEW r \in Rejoiner, NodeRejoin(r) PROVE UNCHANGED <<daemon, cmd, info, paused, todo>>
  BY <1>3 DEF NodeRejoin, Rewind, StartStandby, AwaitStandby
<1>4. CASE ShutsDown \/ Crash \/ PromotionCompletes \/ Heals
  BY <1>2, <1>4 DEF ShutsDown, Crash, PromotionCompletes, Heals
<1>5. ASSUME NEW n \in Node, Write(n) \/ Stream(n) \/ Checkpoint(n) \/ Cuts(n)
      PROVE  UNCHANGED <<daemon, cmd, info, paused, todo>>
  BY <1>5 DEF Write, Stream, Checkpoint, Cuts
<1>6. CASE UNCHANGED vars
  BY <1>2, <1>6 DEF vars
<1> QED
  BY <1>1, <1>2, <1>3, <1>4, <1>5, <1>6, CommandPauses, PrimaryDaemonPauses, StandbyDaemonPauses DEF Next

-----------------------------------------------------------------------------
(* Who has the WAL. *)

\* A server that has as many records as have been written has all of them.
LEMMA AllReceived ==
  ASSUME TypeOK, ServersInv, NEW n \in Node, Position(n) >= written
  PROVE  wal[n] = 1 .. written
<1>1. written \in Nat /\ IsFiniteSet(1 .. written) /\ Cardinality(1 .. written) = written
  BY FS_Interval, SettingAssumption DEF TypeOK
<1>2. wal[n] \subseteq 1 .. written
  BY DEF ServersInv
<1>3. Cardinality(wal[n]) <= written /\ (Cardinality(wal[n]) = written => wal[n] = 1 .. written)
  BY <1>1, <1>2, FS_Subset
<1>4. Cardinality(wal[n]) \in Nat
  BY PositionType DEF TypeOK
<1> QED BY <1>1, <1>3, <1>4 DEF Position

\* Records are only added, and nothing else that matters to WalInv changes.
LEMMA WalStays ==
  ASSUME TypeOK, WalInv, UNCHANGED <<written, cmd, ckpt, opt>>,
         wal[Candidate] \subseteq wal'[Candidate],
         role'[Candidate] = "standby" => role[Candidate] = "standby" /\ wal[Old] \subseteq wal'[Old]
  PROVE  WalInv'
BY DEF WalInv

LEMMA CommandWal ==
  ASSUME TypeOK, ServersInv, ChecksInv, RolesInv, WalInv, Careful, Switchover, Careful'
  PROVE  WalInv'
<1> USE NodeParts DEF Go
<1>a. UNCHANGED <<wal, written, opt>>
  BY DEF Switchover, Checks, Recorded, Paused, StopOld, ConfirmStop, UnbindVip, AwaitWal,
     Promote, BindVip, RejoinOld, Rejoined, SiblingsFollowed, ReachOld, End,
     Record, Pause, SiblingFollows, Unpause
<1>b. ASSUME UNCHANGED <<role, ckpt>>, cmd' \in {"unbind", "receive"} => cmd \in {"unbind", "receive"},
             cmd' \in {"promote"} \cup HandedOver => cmd \in {"promote"} \cup HandedOver
      PROVE  WalInv'
  BY <1>a, <1>b DEF WalInv
<1>1. CASE Checks \/ Recorded \/ Paused
  BY <1>1, <1>b DEF Checks, Recorded, Paused, HandedOver
<1>2. CASE StopOld
  <2>1. cmd' = "confirm" /\ UNCHANGED <<role, ckpt>>
    BY <1>2 DEF StopOld, Careful, Guarded
  <2> QED BY <1>b, <2>1 DEF HandedOver
<1>3. CASE ConfirmStop
  <2>1. CASE cmd' = "aborted"
    BY <1>3, <1>b, <2>1 DEF ConfirmStop, HandedOver
  <2>2. CASE cmd' = "unbind"
    <3>1. cmd = "confirm" /\ ckpt' = Position(Old) /\ role' = role
      BY <1>3, <2>2 DEF ConfirmStop, Careful, Guarded
    <3>2. role[Candidate] = "standby"
      BY <3>1 DEF RolesInv, HandedOver, TypeOK
    <3>3. 1 .. written \subseteq wal[Old] /\ wal[Old] \subseteq 1 .. written
      BY <3>2 DEF WalInv, ServersInv
    <3>4. Cardinality(1 .. written) = written
      BY FS_Interval, SettingAssumption DEF TypeOK
    <3>5. ckpt' = written'
      BY <1>a, <3>1, <3>3, <3>4 DEF Position
    <3> QED BY <1>a, <2>2, <3>1, <3>3, <3>5 DEF WalInv, HandedOver
  <2> QED BY <1>3, <2>1, <2>2 DEF ConfirmStop
<1>4. CASE UnbindVip
  BY <1>4, <1>b DEF UnbindVip, HandedOver
<1>5. CASE AwaitWal
  <2>1. cmd = "receive" /\ ckpt = written /\ role' = role /\ cmd' \in {"aborted", "promote"}
    BY <1>5 DEF AwaitWal, WalInv
  <2>2. cmd' = "promote" /\ ~opt.always => ~(Position(Candidate) < ckpt)
    BY <1>5 DEF AwaitWal
  <2>3. Position(Candidate) \in Nat /\ written \in Nat
    BY PositionType, SettingAssumption DEF Position, TypeOK
  <2>4. cmd' = "promote" /\ ~opt.always => wal[Candidate] = 1 .. written
    BY <2>1, <2>2, <2>3, AllReceived
  <2> QED BY <1>a, <2>1, <2>4 DEF WalInv, HandedOver
<1>6. CASE Promote
  <2>1. /\ cmd = "promote" /\ cmd' \in {"bind", "aborted"} /\ ckpt' = ckpt
        /\ role' = role \/ role' = [role EXCEPT ![Candidate] = "primary"]
    BY <1>6 DEF Promote
  <2>2. role'[Candidate] = "standby" => role[Candidate] = "standby"
    BY <2>1 DEF TypeOK
  <2> QED BY <1>a, <2>1, <2>2 DEF WalInv, HandedOver
<1>7. CASE BindVip \/ RejoinOld \/ Rejoined \/ SiblingsFollowed \/ ReachOld \/ End
  BY <1>7, <1>b DEF BindVip, RejoinOld, Rejoined, SiblingsFollowed, ReachOld, End, HandedOver
<1>8. ASSUME NEW n \in Node, Record(n) \/ Pause(n) \/ SiblingFollows(n) \/ Unpause(n) PROVE WalInv'
  BY <1>8, <1>b DEF Record, Pause, SiblingFollows, Unpause
<1> QED BY <1>1, <1>2, <1>3, <1>4, <1>5, <1>6, <1>7, <1>8 DEF Switchover

\* The old primary writes until it is shut down, and the candidate afterwards.
LEMMA WriteWal ==
  ASSUME TypeOK, ServersInv, RolesInv, WalInv, NEW n \in Node, Write(n)
  PROVE  WalInv'
<1> USE NodeParts
<1>1. /\ IsPrimary(n) /\ written' = written + 1 /\ wal' = [wal EXCEPT ![n] = @ \cup {written'}]
      /\ UNCHANGED <<role, cmd, ckpt, opt>>
  BY DEF Write
<1>2. 1 .. written' = (1 .. written) \cup {written'}
  BY <1>1, SettingAssumption DEF TypeOK
<1>3. wal'[n] = wal[n] \cup {written'}
  BY <1>1 DEF TypeOK
<1>4. CASE n = Old
  <2>1. role[Candidate] # "primary" /\ cmd \notin Between
    BY <1>1, <1>4 DEF RolesInv, IsPrimary
  <2>2. cmd \notin HandedOver
    BY <2>1 DEF RolesInv
  <2>3. role[Candidate] = "standby"
    BY <2>1 DEF TypeOK
  <2> QED BY <1>1, <1>2, <1>3, <1>4, <2>1, <2>2, <2>3 DEF WalInv, Between
<1>5. CASE n = Candidate
  <2>1. role[Candidate] = "primary" /\ cmd \in HandedOver \cup {"aborted"}
    BY <1>1, <1>5 DEF RolesInv, IsPrimary
  <2> QED BY <1>1, <1>2, <1>3, <1>5, <2>1 DEF WalInv, HandedOver
<1>6. CASE n \in Sibling
  BY <1>1, <1>6 DEF RolesInv, IsPrimary
<1> QED BY <1>4, <1>5, <1>6

LEMMA WalKept ==
  ASSUME TypeOK, ServersInv, ChecksInv, CarefulInv, [Next]_vars, Careful'
  PROVE  WalInv'
<1> USE NodeParts
<1>a. Careful /\ RolesInv /\ PausedInv /\ WalInv
  BY CarefulSoFar DEF CarefulInv
<1>b. wal \in [Node -> SUBSET (1 .. MaxWal)] /\ role \in [Node -> {"primary", "standby"}]
  BY DEF TypeOK
<1>c. ASSUME UNCHANGED <<role, wal, written, cmd, ckpt, opt>> PROVE WalInv'
  BY <1>a, <1>c, WalStays
<1>1. CASE PrimaryDaemon
  BY <1>1, <1>c DEF PrimaryDaemon, LocalLost, Reconnect, StopOwn, Clean, StartRejoin, EndRejoin,
     CheckPrimaryStatus
<1>2. ASSUME NEW n \in Node, StandbyDaemon(n) PROVE WalInv'
  <2>1. ~PromoteSelf(n)
    BY <1>a DEF PromoteSelf, PausedInv
  <2> QED BY <1>2, <1>c, <2>1 DEF StandbyDaemon, UpstreamLost, Elect, Recover, BecomeLeader, Follow
<1>3. ASSUME NEW r \in Rejoiner, NodeRejoin(r) PROVE WalInv'
  <2>1. UNCHANGED <<written, cmd, ckpt, opt>>
    BY <1>3 DEF NodeRejoin, Rewind, StartStandby, AwaitStandby
  <2>2. rejoin[r].stage # "idle"
    BY <1>3 DEF NodeRejoin, Rewind, StartStandby, AwaitStandby
  <2>3. role[Candidate] = "primary"
    BY <1>a, <2>2 DEF RolesInv
  <2>4. role'[Candidate] = role[Candidate]
    <3>1. role' = role \/ role' = [role EXCEPT ![Old] = "standby"]
      BY <1>3 DEF NodeRejoin, Rewind, StartStandby, AwaitStandby
    <3> QED BY <1>b, <3>1
  <2>5. wal'[Candidate] = wal[Candidate]
    <3>1. wal' = wal \/ \E S : wal' = [wal EXCEPT ![Old] = S]
      BY <1>3 DEF NodeRejoin, Rewind, StartStandby, AwaitStandby
    <3> QED BY <1>b, <3>1
  <2> QED BY <1>a, <2>1, <2>3, <2>4, <2>5, WalStays
<1>4. CASE ShutsDown \/ Crash \/ Heals
  BY <1>4, <1>c DEF ShutsDown, Crash, Heals
<1>5. CASE PromotionCompletes
  <2>1. role' = [role EXCEPT ![Candidate] = "primary"] /\ UNCHANGED <<wal, written, cmd, ckpt, opt>>
    BY <1>5 DEF PromotionCompletes
  <2>2. role'[Candidate] = "primary"
    BY <1>b, <2>1
  <2> QED BY <1>a, <2>1, <2>2, WalStays
<1>6. ASSUME NEW n \in Node, Checkpoint(n) \/ Cuts(n) PROVE WalInv'
  BY <1>6, <1>c DEF Checkpoint, Cuts
<1>7. ASSUME NEW n \in Node, Stream(n) PROVE WalInv'
  <2>1. /\ wal' = [wal EXCEPT ![n] = wal[upstream[n]]] /\ wal[n] \subseteq wal[upstream[n]]
        /\ UNCHANGED <<role, written, cmd, ckpt, opt>>
    BY <1>7 DEF Stream, CanAttach
  <2>2. \A m \in Node : wal[m] \subseteq wal'[m]
    BY <1>b, <2>1
  <2> QED BY <1>a, <2>1, <2>2, WalStays
<1>8. CASE UNCHANGED vars
  BY <1>8, <1>c DEF vars
<1> QED
  BY <1>a, <1>1, <1>2, <1>3, <1>4, <1>5, <1>6, <1>7, <1>8, CommandWal, WriteWal DEF Next

-----------------------------------------------------------------------------
(* Who holds the virtual IP. *)

LEMMA CommandVip ==
  ASSUME TypeOK, VipInv, Careful, Switchover, Careful'
  PROVE  VipInv'
<1> USE NodeParts DEF Go
<1>1. CASE Checks \/ Recorded \/ Paused \/ ConfirmStop \/ UnbindVip \/ AwaitWal
  BY <1>1 DEF VipInv, HandedOver, Checks, Recorded, Paused, ConfirmStop, UnbindVip, AwaitWal
<1>2. CASE StopOld
  <2>1. cmd = "stop" /\ cmd' = "confirm" /\ vip' = vip
    BY <1>2 DEF StopOld, Careful, Guarded
  <2> QED BY <2>1 DEF VipInv, HandedOver
<1>3. CASE Promote
  <2>1. cmd = "promote" /\ cmd' \in {"bind", "aborted"} /\ vip' = vip
    BY <1>3 DEF Promote
  <2> QED BY <2>1 DEF VipInv, HandedOver
<1>4. CASE BindVip \/ RejoinOld \/ Rejoined \/ SiblingsFollowed \/ ReachOld \/ End
  BY <1>4 DEF VipInv, HandedOver, BindVip, RejoinOld, Rejoined, SiblingsFollowed, ReachOld, End
<1>5. ASSUME NEW n \in Node, Record(n) \/ Pause(n) \/ SiblingFollows(n) \/ Unpause(n) PROVE VipInv'
  BY <1>5 DEF VipInv, Record, Pause, SiblingFollows, Unpause
<1> QED BY <1>1, <1>2, <1>3, <1>4, <1>5 DEF Switchover

LEMMA VipKept ==
  ASSUME TypeOK, CarefulInv, [Next]_vars, Careful'
  PROVE  VipInv'
<1> USE NodeParts
<1>a. Careful /\ PausedInv /\ VipInv
  BY CarefulSoFar DEF CarefulInv
<1>b. ASSUME UNCHANGED <<cmd, vip>> PROVE VipInv'
  BY <1>a, <1>b DEF VipInv
<1>1. CASE PrimaryDaemon
  <2>1. cmd' = cmd /\ (vip' = vip \/ vip' = vip \ {Old})
    BY <1>1 DEF PrimaryDaemon, LocalLost, Reconnect, StopOwn, Clean, StartRejoin, EndRejoin,
       CheckPrimaryStatus
  <2> QED BY <1>a, <2>1 DEF VipInv
<1>2. ASSUME NEW n \in Node, StandbyDaemon(n) PROVE VipInv'
  <2>1. ~PromoteSelf(n)
    BY <1>a DEF PromoteSelf, PausedInv
  <2> QED BY <1>2, <1>b, <2>1 DEF StandbyDaemon, UpstreamLost, Elect, Recover, BecomeLeader, Follow
<1>3. ASSUME NEW r \in Rejoiner, NodeRejoin(r) PROVE VipInv'
  BY <1>3, <1>b DEF NodeRejoin, Rewind, StartStandby, AwaitStandby
<1>4. CASE ShutsDown \/ Crash \/ PromotionCompletes \/ Heals
  BY <1>4, <1>b DEF ShutsDown, Crash, PromotionCompletes, Heals
<1>5. ASSUME NEW n \in Node, Write(n) \/ Stream(n) \/ Checkpoint(n) \/ Cuts(n) PROVE VipInv'
  BY <1>5, <1>b DEF Write, Stream, Checkpoint, Cuts
<1>6. CASE UNCHANGED vars
  BY <1>6, <1>b DEF vars
<1> QED BY <1>a, <1>1, <1>2, <1>3, <1>4, <1>5, <1>6, CommandVip DEF Next

-----------------------------------------------------------------------------
(* Which pauses are remembered. *)

LEMMA PausesStay ==
  ASSUME PausesInv, UNCHANGED <<cmd, opt, todo, info, paused>>, spent \subseteq spent'
  PROVE  PausesInv'
BY DEF PausesInv, Remembered

\* From one place where nothing is recorded, paused or unpaused to another.
LEMMA PausesCarried ==
  ASSUME PausesInv, UNCHANGED <<opt, info, paused>>, spent \subseteq spent',
         cmd \notin {"checks", "refused", "record"},
         cmd' \notin {"checks", "refused", "record", "pause", "unpause", "done", "incomplete"}
  PROVE  PausesInv'
BY DEF PausesInv, Remembered

LEMMA PausesKept ==
  ASSUME TypeOK, ServersInv, PausesInv, [Next]_vars
  PROVE  PausesInv'
<1> USE NodeParts DEF Go
<1>a. opt' = opt /\ spent \subseteq spent'
  BY Forward
<1>b. Standby \subseteq Node /\ todo \subseteq Node
  BY DEF Standby, TypeOK
<1>1. CASE Checks
  <2>1. /\ cmd = "checks" /\ UNCHANGED <<opt, info, paused, spent>>
        /\ cmd' \in {"refused", "stop"} \/ (cmd' = "record" /\ todo' = Node)
        /\ cmd' = "stop" => opt.nopause
    BY <1>1 DEF Checks
  <2>2. cmd' = "record" => Standby \ todo' = {}
    BY <1>b, <2>1
  <2> QED BY <2>1, <2>2 DEF PausesInv, Remembered
<1>2. ASSUME NEW n \in Node, Record(n) PROVE PausesInv'
  <2>1. /\ cmd = "record" /\ cmd' = "record" /\ todo' = todo \ {n}
        /\ UNCHANGED <<opt, paused, spent>>
        /\ info.paused \subseteq info'.paused /\ info'.paused \subseteq info.paused \cup ({n} \cap paused)
        /\ Connects(Candidate, n) /\ n \in paused => n \in info'.paused
    BY <1>2 DEF Record
  <2>2. n \in Standby /\ "cut" \notin spent => Connects(Candidate, n)
    BY DEF ServersInv, Connects
  <2>3. "cut" \notin spent /\ ~opt.nopause => \A m \in Standby \ todo' : m \in paused => m \in info'.paused
    BY <2>1, <2>2 DEF PausesInv, Remembered
  <2>4. info'.paused \subseteq paused'
    BY <2>1 DEF PausesInv
  <2> QED BY <2>1, <2>3, <2>4 DEF PausesInv, Remembered
<1>3. CASE Recorded
  <2>1. /\ cmd = "record" /\ todo = {} /\ UNCHANGED <<opt, info, paused, spent>>
        /\ cmd' = "refused" \/ (cmd' = "pause" /\ todo' = IF opt.dry THEN {} ELSE ToPause)
    BY <1>3 DEF Recorded
  <2>2. Standby \ todo = Standby /\ ToPause \subseteq info.running
    BY <2>1 DEF ToPause
  <2> QED BY <2>1, <2>2 DEF PausesInv, Remembered
<1>4. ASSUME NEW n \in Node, Pause(n) PROVE PausesInv'
  <2>1. /\ cmd = "pause" /\ cmd' = "pause" /\ n \in todo /\ todo' = todo \ {n}
        /\ UNCHANGED <<opt, info, spent>> /\ paused \subseteq paused'
    BY <1>4 DEF Pause, Turn
  <2>2. info.running # {} /\ ~opt.dry
    BY <2>1 DEF PausesInv
  <2>3. opt.dry \in BOOLEAN
    BY SettingAssumption DEF TypeOK, Option
  <2> QED BY <2>1, <2>2, <2>3 DEF PausesInv
<1>5. CASE Paused \/ ConfirmStop \/ UnbindVip \/ AwaitWal
  <2>1. /\ cmd \in {"pause", "confirm", "unbind", "receive"}
        /\ cmd' \in {"stop", "unbind", "receive", "promote", "aborted"} /\ UNCHANGED <<info, paused>>
    BY <1>5 DEF Paused, ConfirmStop, UnbindVip, AwaitWal
  <2> QED BY <1>a, <2>1, PausesCarried
<1>6. CASE StopOld
  <2>1. CASE opt.dry
    <3>1. cmd = "stop" /\ cmd' = "done" /\ UNCHANGED <<opt, info, paused, spent>>
      BY <1>6, <2>1 DEF StopOld
    <3> QED BY <2>1, <3>1 DEF PausesInv, Remembered
  <2>2. CASE ~opt.dry
    BY <1>6, <1>a, <2>2, PausesCarried DEF StopOld
  <2> QED BY <2>1, <2>2
<1>7. CASE Promote \/ BindVip \/ RejoinOld \/ Rejoined \/ SiblingsFollowed
  <2>1. /\ cmd \in {"promote", "bind", "rejoin", "follow"}
        /\ cmd' \in {"bind", "rejoin", "follow", "reach", "aborted"} /\ UNCHANGED <<info, paused>>
    BY <1>7 DEF Promote, BindVip, RejoinOld, Rejoined, SiblingsFollowed
  <2> QED BY <1>a, <2>1, PausesCarried
<1>8. ASSUME NEW n \in Node, SiblingFollows(n) PROVE PausesInv'
  BY <1>8, <1>a, PausesCarried DEF SiblingFollows
<1>9. CASE ReachOld
  <2>1. /\ cmd = "reach" /\ cmd' = "unpause" /\ todo' = ToUnpause /\ UNCHANGED <<opt, info, paused, spent>>
    BY <1>9 DEF ReachOld
  <2>2. ToUnpause \cap info.paused = {}
    BY DEF ToUnpause
  <2>3. ~opt.nopause /\ info.running # {} => Standby \ todo' \subseteq info.paused
    BY <1>b, <2>1 DEF ToUnpause
  <2> QED BY <2>1, <2>2, <2>3 DEF PausesInv, Remembered
<1>10. ASSUME NEW n \in Node, Unpause(n) PROVE PausesInv'
  <2>1. /\ cmd = "unpause" /\ cmd' = "unpause" /\ n \in todo /\ todo' = todo \ {n}
        /\ UNCHANGED <<opt, info, spent>>
        /\ paused' = IF Connects(Candidate, n) THEN paused \ {n} ELSE paused
    BY <1>10 DEF Unpause, Turn
  <2>2. n \notin info.paused
    BY <2>1 DEF PausesInv
  <2>3. info'.paused \subseteq paused' /\ todo' \cap info'.paused = {}
    BY <2>1, <2>2 DEF PausesInv
  <2>4. n \in Standby /\ "cut" \notin spent => n \notin paused'
    BY <2>1 DEF ServersInv, Connects
  <2>5. "cut" \notin spent /\ ~opt.nopause => \A m \in Standby \ todo' : m \in paused' => m \in info.paused
    BY <2>1, <2>4 DEF PausesInv, Remembered
  <2> QED BY <2>1, <2>3, <2>5 DEF PausesInv, Remembered
<1>11. CASE End
  <2>1. /\ cmd = "unpause" /\ todo = {} /\ cmd' \in {"done", "incomplete"}
        /\ UNCHANGED <<opt, info, paused, spent>>
    BY <1>11 DEF End
  <2> QED BY <2>1 DEF PausesInv, Remembered
<1>12. CASE UNCHANGED vars
  BY <1>12, PausesStay DEF vars
<1>13. CASE \/ PrimaryDaemon \/ \E n \in Node : StandbyDaemon(n)
            \/ \E r \in Rejoiner : NodeRejoin(r)
            \/ ShutsDown \/ Crash \/ PromotionCompletes \/ Heals
            \/ \E n \in Node : Write(n) \/ Stream(n) \/ Checkpoint(n) \/ Cuts(n)
  BY <1>13, Beside, PausesStay
<1> QED
  BY <1>1, <1>2, <1>3, <1>4, <1>5, <1>6, <1>7, <1>8, <1>9, <1>10, <1>11, <1>12, <1>13
     DEF Next, Switchover

-----------------------------------------------------------------------------
(* The specification. *)

LEMMA SwitchStarts ==
  ASSUME Init
  PROVE  SwitchInv
<1> USE NodeParts
<1>1. TypeOK
  <2>1. PICK start \in Starts :
          /\ paused = start.paused
          /\ daemon = [n \in Node |-> CASE n \in start.off -> "off"
                                       [] n \notin start.off /\ n = Old -> "primary"
                                       [] n \notin start.off /\ n # Old -> "standby"]
    BY DEF Init
  <2>2. paused \subseteq Node
    BY <2>1, SettingAssumption
  <2>3. daemon \in [Node -> Stage]
    BY <2>1 DEF Stage
  <2>4. /\ pg \in [Node -> {"up", "stopping", "down", "crashed"}]
        /\ role \in [Node -> {"primary", "standby"}]
        /\ wal \in [Node -> SUBSET (1 .. MaxWal)] /\ written \in 0 .. MaxWal
        /\ upstream \in [Node -> Node] /\ known \in [Node -> Node]
        /\ settled \in [Node -> BOOLEAN]
    BY SettingAssumption DEF Init
  <2>5. /\ rejoin \in [Rejoiner ->
             [stage : {"idle", "rewind", "start", "wait", "ok", "failed"}, to : Node]]
        /\ cmd \in Place /\ opt \in Options
        /\ info \in [reached : SUBSET Node, running : SUBSET Node, paused : SUBSET Node]
        /\ ckpt \in 0 .. MaxWal
    BY SettingAssumption DEF Init, Idle, Place
  <2> QED BY <2>2, <2>3, <2>4, <2>5 DEF Init, TypeOK
<1>2. ServersInv
  BY DEF Init, ServersInv
<1>3. \A n \in Node : daemon[n] \in {"off", "primary", "standby"} /\ (daemon[n] = "standby" => n # Old)
  BY DEF Init
<1>4. ChecksInv
  BY <1>3 DEF Init, ChecksInv
<1>5. RolesInv
  BY DEF Init, RolesInv, Between, HandedOver, Idle
<1>6. PausedInv
  BY <1>3 DEF Init, PausedInv
<1>7. WalInv
  <2>1. 1 .. written = {}
    BY DEF Init
  <2> QED BY <2>1 DEF Init, WalInv, HandedOver
<1>8. VipInv
  BY DEF Init, VipInv, HandedOver
<1>9. PausesInv
  BY DEF Init, PausesInv
<1> QED BY <1>1, <1>2, <1>4, <1>5, <1>6, <1>7, <1>8, <1>9 DEF SwitchInv, CarefulInv

LEMMA SwitchKept ==
  ASSUME SwitchInv, [Next]_vars
  PROVE  SwitchInv'
<1>1. TypeOK' /\ ServersInv' /\ PausesInv'
  BY TypesAreKept, ServersKept, PausesKept DEF SwitchInv
<1>2. CarefulInv'
  BY RolesKept, PausedKept, WalKept, VipKept DEF SwitchInv, CarefulInv
<1>3. ChecksInv'
  <2>1. CASE cmd' = "checks"
    <3>1. cmd = "checks"
      BY <2>1, Forward DEF SwitchInv
    <3>2. RolesInv
      BY <3>1 DEF SwitchInv, CarefulInv, Careful
    <3> QED BY <2>1, <3>2, ChecksKept DEF SwitchInv
  <2>2. CASE cmd' # "checks"
    BY <2>2 DEF ChecksInv
  <2> QED BY <2>1, <2>2
<1> QED BY <1>1, <1>2, <1>3 DEF SwitchInv

(***************************************************************************)
(* The types of the state, whatever the options.                           *)
(***************************************************************************)
THEOREM TypeCorrect == Spec => []TypeOK
<1>1. Init => TypeOK
  BY SwitchStarts DEF SwitchInv
<1>2. TypeOK /\ [Next]_vars => TypeOK'
  BY TypesAreKept
<1> QED BY <1>1, <1>2, PTL DEF Spec

(***************************************************************************)
(* The inductive invariant of the switchover.                              *)
(***************************************************************************)
THEOREM SwitchHolds == Spec => []SwitchInv
<1>1. Init => SwitchInv
  BY SwitchStarts
<1>2. SwitchInv /\ [Next]_vars => SwitchInv'
  BY SwitchKept
<1> QED BY <1>1, <1>2, PTL DEF Spec

(***************************************************************************)
(* With the repmgrds paused and nothing forced there is never more than    *)
(* one primary, whatever crashes, is cut off or comes late meanwhile: the  *)
(* siblings stay standbys, and the old primary runs as a primary only as   *)
(* long as the candidate is a standby that has not been asked to promote.  *)
(***************************************************************************)
THEOREM OneAtATime == Spec => []OnePrimary
<1>1. SwitchInv => OnePrimary
  <2> SUFFICES ASSUME SwitchInv, Guarded PROVE Cardinality(Primaries) <= 1
    BY DEF OnePrimary
  <2> USE NodeParts
  <2>1. RolesInv
    BY DEF SwitchInv, CarefulInv, Careful
  <2>2. Primaries \subseteq {Old} \/ Primaries \subseteq {Candidate}
    BY <2>1 DEF RolesInv, Primaries, IsPrimary
  <2>3. \A n : IsFiniteSet({n}) /\ Cardinality({n}) = 1
    BY FS_Singleton
  <2>4. Cardinality(Primaries) <= Cardinality({Old}) \/ Cardinality(Primaries) <= Cardinality({Candidate})
    BY <2>2, <2>3, FS_Subset
  <2> QED BY <2>3, <2>4
<1> QED BY <1>1, SwitchHolds, PTL

(***************************************************************************)
(* Unless forced, or told to promote always, the candidate is promoted     *)
(* with all that has been written: the number of records at the shutdown   *)
(* is all of them, as nobody has written since.                            *)
(***************************************************************************)
THEOREM NoWalIsLost == Spec => []NothingIsLost
<1>1. SwitchInv => NothingIsLost
  BY DEF SwitchInv, CarefulInv, Careful, WalInv, NothingIsLost, Handed, HandedOver
<1> QED BY <1>1, SwitchHolds, PTL

(***************************************************************************)
(* The virtual IP is never on two nodes, and on the candidate in the end.  *)
(***************************************************************************)
THEOREM VipIsMoved == Spec => []VipMoves
<1>1. SwitchInv => VipMoves
  <2> SUFFICES ASSUME SwitchInv, Guarded
               PROVE  /\ Cardinality(vip) <= 1
                      /\ cmd \in {"done", "incomplete"} => vip = {Candidate}
    BY DEF VipMoves
  <2>1. VipInv
    BY DEF SwitchInv, CarefulInv, Careful
  <2>2. vip \subseteq {Old} \/ vip \subseteq {Candidate}
    BY <2>1 DEF VipInv, SwitchInv, TypeOK, Place, HandedOver, Guarded
  <2>3. \A n : IsFiniteSet({n}) /\ Cardinality({n}) = 1
    BY FS_Singleton
  <2>4. Cardinality(vip) <= Cardinality({Old}) \/ Cardinality(vip) <= Cardinality({Candidate})
    BY <2>2, <2>3, FS_Subset
  <2>5. cmd \in {"done", "incomplete"} => vip = {Candidate}
    BY <2>1 DEF VipInv, HandedOver
  <2> QED BY <2>3, <2>4, <2>5
<1> QED BY <1>1, SwitchHolds, PTL

(***************************************************************************)
(* A repmgrd that was found paused stays so, and in the end no other one   *)
(* is left paused, apart from the old primary's, that could be reached     *)
(* throughout; with any options, --force and --dry-run included.           *)
(***************************************************************************)
THEOREM PausesComeBack == Spec => []PausesAreRestored
<1>1. SwitchInv => PausesAreRestored
  <2> SUFFICES ASSUME SwitchInv PROVE PausesAreRestored
    OBVIOUS
  <2>1. info.paused \subseteq paused
    BY DEF SwitchInv, PausesInv
  <2>2. ASSUME cmd \in {"done", "incomplete"}, ~opt.nopause, "cut" \notin spent
        PROVE  paused \subseteq info.paused \cup {Old}
    <3>1. Remembered(Standby) /\ paused \subseteq Node
      BY <2>2 DEF SwitchInv, PausesInv, TypeOK
    <3> QED BY <3>1 DEF Remembered, Standby
  <2> QED BY <2>1, <2>2 DEF PausesAreRestored
<1> QED BY <1>1, SwitchHolds, PTL
=============================================================================
