----------------------------- MODULE SlotsProof -----------------------------
(***************************************************************************)
(* Proofs about ReplicationSlots, for any number of servers, slots,        *)
(* commands and faults: the types; that a command which reports success    *)
(* leaves the slots it should; and that a rejoin points the node at a      *)
(* history it shares.                                                      *)
(***************************************************************************)
EXTENDS ReplicationSlots, FiniteSetTheorems, TLAPS

Running(n) == cmd[n].step # "idle"

\* The steps of each command.
Following == {"target slot", "write conf", "restart", "drop old slot", "update record", "wait"}
StepsOf(op) ==
  CASE op = "clone"  -> {"source slot", "backup", "upstream slot", "drop source slot", "write file"}
    [] op = "barman" -> {"backup", "upstream slot", "write file"}
    [] op = "conf"   -> {"write file only", "write file, then slot"}
    [] op = "follow" -> Following
    [] op = "rejoin" -> Following \cup {"rewind", "copied slots"}
    [] op = "none"   -> {}

\* Where a command is tells which one it is, and what it rests on.
Sound(n) ==
  /\ cmd[n].step \in StepsOf(cmd[n].op) /\ cmd[n].target \in Node /\ ~cmd[n].done
  /\ cmd[n].op \in {"clone", "barman"} => ~server[n].up
  /\ cmd[n].op = "clone" => cmd[n].source \in Node
  /\ cmd[n].op = "follow" => cmd[n].step = "target slot" \/ cmd[n].old \in Node
  /\ cmd[n].op = "rejoin" => /\ cmd[n].target # n
                             /\ cmd[n].step \in {"rewind", "copied slots", "target slot",
                                                 "write conf", "restart"} => ~server[n].up

\* What follow and rejoin have done to the node: nobody else undoes it.
Configured(n) ==
  /\ cmd[n].step \in {"restart", "drop old slot", "update record", "wait"} => conninfo[n] = cmd[n].target
  /\ cmd[n].step \in {"drop old slot", "update record", "wait"} => receiver[n] \in {None, cmd[n].target}
  /\ cmd[n].step = "wait" => registry[n].upstream = cmd[n].target

\* n has a slot on u, or all those of u have been dropped under its command.
Has(n, u) == n \in slots[u] \/ <<u, n>> \in purged

Slotted(n) ==
  LET source == cmd[n].source
      target == cmd[n].target
      old == cmd[n].old
  IN /\ cmd[n].op = "clone" /\ cmd[n].step \in {"backup", "upstream slot"} => Has(n, source)
     /\ cmd[n].step = "drop source slot" /\ ~cmd[n].warned =>
          Has(n, target) /\ (source = target => <<target, n>> \in purged)
     /\ cmd[n].step \in {"write file", "write file only"} /\ ~cmd[n].warned => Has(n, target)
     /\ cmd[n].step \in {"write conf", "restart", "drop old slot"} => Has(n, target)
     /\ cmd[n].step \in {"update record", "wait"} =>
          Has(n, target) \/ (old = target /\ receiver[n] # target)
     /\ cmd[n].op = "follow" /\ cmd[n].step \in {"update record", "wait"} /\ ~cmd[n].warned =>
          old = target \/ n \notin slots[old] \/ <<old, n>> \in purged

CommandInv == \A n \in Node : Running(n) => Sound(n) /\ Configured(n) /\ Slotted(n)

\* The WAL of n is part of that of m.
Below(n, m) ==
  \/ wal[n].tli = wal[m].tli /\ wal[n].lsn <= wal[m].lsn
  \/ wal[n].tli < wal[m].tli /\ wal[n].lsn <= fork

\* A WAL receiver runs on a standby that is up, and has WAL of its upstream.
Attachments ==
  \A n \in Node : receiver[n] # None =>
    /\ server[n].up /\ server[n].data = "standby" /\ server[receiver[n]].up
    /\ Below(n, receiver[n])

\* A rejoin to m that has compared the histories, and has not yet relied on it.
Rejoining(n, m) ==
  /\ cmd[n].op = "rejoin" /\ cmd[n].step \in {"rewind", "copied slots", "target slot", "write conf"}
  /\ cmd[n].target = m /\ <<m, n>> \notin purged /\ server[n].ended # "shutting down"

\* The data directory of m is being replaced.
Replacing(m) == cmd[m].op \in {"clone", "barman"} /\ cmd[m].step = "backup"

\* What it has compared still holds, or will by the rewind.
Agreed(n, m) ==
  /\ wal[n].tli <= wal[m].tli
  /\ wal[m].tli = 1 => wal[n].lsn <= wal[m].lsn
  /\ cmd[n].step # "rewind" /\ wal[n].tli < wal[m].tli => wal[n].lsn <= fork
  /\ ~Replacing(m)

Compared == \A n, m \in Node : Rejoining(n, m) => Agreed(n, m)

HistoryInv == Attachments /\ Compared
-----------------------------------------------------------------------------
(* The types. *)

Machine == [up : BOOLEAN, ended : Ending, data : Data]
Wal == [tli : 1..2, lsn : 0..MaxLsn]
NodeRecord == [type : {"none", "primary", "standby"}, active : BOOLEAN, upstream : Node \cup {None}]
Process == [step : Step, op : Command, source : Node \cup {None}, target : Node \cup {None},
            old : Node \cup {None}, rewind : BOOLEAN, warned : BOOLEAN, exit : Exit, done : BOOLEAN]
Bounds == [commands : 0..MaxCommands, faults : 0..MaxFaults]
Upstreams == [Node -> Node \cup {None}]
Held == {held \in [Node -> SUBSET Node] : \A n \in Node : Cardinality(held[n]) <= MaxSlots}

LEMMA TypeParts ==
  TypeOK <=> /\ server \in [Node -> Machine] /\ wal \in [Node -> Wal] /\ fork \in 0..MaxLsn
             /\ slots \in Held /\ receiver \in Upstreams /\ conninfo \in Upstreams
             /\ registry \in [Node -> NodeRecord]
             /\ cmd \in [Node -> Process] /\ purged \subseteq Node \X Node /\ spent \in Bounds
BY DEF TypeOK, Machine, Wal, Held, Upstreams, NodeRecord, Process, Bounds

LEMMA TypesAfter ==
  ASSUME server' \in [Node -> Machine], wal' \in [Node -> Wal], fork' \in 0..MaxLsn,
         slots' \in Held, receiver' \in Upstreams, conninfo' \in Upstreams,
         registry' \in [Node -> NodeRecord],
         cmd' \in [Node -> Process], purged' \subseteq Node \X Node, spent' \in Bounds
  PROVE  TypeOK'
<1>1. /\ server' \in [Node -> [up : BOOLEAN, ended : Ending, data : Data]]
      /\ wal' \in [Node -> [tli : 1..2, lsn : 0..MaxLsn]]
  BY DEF Machine, Wal
<1>2. /\ slots' \in [Node -> SUBSET Node] /\ \A n \in Node : Cardinality(slots'[n]) <= MaxSlots
      /\ receiver' \in [Node -> Node \cup {None}] /\ conninfo' \in [Node -> Node \cup {None}]
  BY DEF Held, Upstreams
<1>3. /\ registry' \in [Node -> [type : {"none", "primary", "standby"},
                                 active : BOOLEAN, upstream : Node \cup {None}]]
      /\ spent' \in [commands : 0..MaxCommands, faults : 0..MaxFaults]
  BY DEF NodeRecord, Bounds
<1>4. cmd' \in [Node -> [step : Step, op : Command, source : Node \cup {None},
                         target : Node \cup {None}, old : Node \cup {None},
                         rewind : BOOLEAN, warned : BOOLEAN, exit : Exit, done : BOOLEAN]]
  BY DEF Process
<1> QED BY <1>1, <1>2, <1>3, <1>4 DEF TypeOK

\* A slot more where there is room, a slot less, no slots.
LEMMA SlotCounts ==
  ASSUME slots \in Held, NEW n, NEW m \in Node
  PROVE  /\ IsFiniteSet(slots[m]) /\ Cardinality(slots[m]) \in Nat
         /\ Cardinality(slots[m] \ {n}) <= MaxSlots
         /\ CanCreateSlot(n, m) => Cardinality(slots[m] \cup {n}) <= MaxSlots
<1>1. slots[m] \subseteq Node /\ Cardinality(slots[m]) <= MaxSlots /\ MaxSlots \in Nat
  BY SlotsAssumption DEF Held
<1>2. IsFiniteSet(slots[m]) /\ Cardinality(slots[m]) \in Nat
  BY <1>1, SlotsAssumption, FS_Subset, FS_CardinalityType
<1>3. Cardinality(slots[m] \ {n}) <= Cardinality(slots[m]) /\ Cardinality(slots[m] \ {n}) \in Nat
  <2>1. slots[m] \ {n} \in SUBSET slots[m]
    OBVIOUS
  <2>2. IsFiniteSet(slots[m] \ {n})
    BY <1>2, <2>1, FS_Subset
  <2> QED BY <1>2, <2>1, <2>2, FS_Subset, FS_CardinalityType
<1>4. Cardinality(slots[m] \cup {n}) =
        IF n \in slots[m] THEN Cardinality(slots[m]) ELSE Cardinality(slots[m]) + 1
  BY <1>2, FS_AddElement
<1>5. CanCreateSlot(n, m) => n \in slots[m] \/ MaxSlots - Cardinality(slots[m]) > 0
  BY DEF CanCreateSlot, FreeSlots, SlotFound
<1> QED BY <1>1, <1>2, <1>3, <1>4, <1>5

LEMMA NoSlots == Cardinality({}) <= MaxSlots
BY FS_EmptySet, SlotsAssumption

\* What is left after DropSlot, and what there is after CreateSlot.
LEMMA DropSlotIs ==
  ASSUME slots \in Held, NEW n, NEW m \in Node \cup {None}
  PROVE  /\ DropSlot(n, m) \in Held
         /\ \A u \in Node \ {m} : DropSlot(n, m)[u] = slots[u]
         /\ \A u \in Node : DropSlot(n, m)[u] = slots[u] \/ DropSlot(n, m)[u] = slots[u] \ {n}
         /\ m \in Node /\ SlotActive(n, m) => DropSlot(n, m)[m] = slots[m]
         /\ m \in Node /\ Reachable(m) /\ ~SlotActive(n, m) => n \notin DropSlot(n, m)[m]
<1>1. CASE m \in Node /\ DropSlot(n, m) = [slots EXCEPT ![m] = @ \ {n}] /\ Reachable(m) /\ ~SlotActive(n, m)
  <2>1. \A u \in Node : DropSlot(n, m)[u] = IF u = m THEN slots[u] \ {n} ELSE slots[u]
    BY <1>1 DEF Held
  <2>2. DropSlot(n, m) \in [Node -> SUBSET Node]
    BY <1>1 DEF Held
  <2>3. \A u \in Node : Cardinality(DropSlot(n, m)[u]) <= MaxSlots
    BY <1>1, <2>1, SlotCounts DEF Held
  <2> HIDE DEF DropSlot
  <2> QED BY <1>1, <2>1, <2>2, <2>3 DEF Held
<1>2. CASE DropSlot(n, m) = slots /\ ~(Reachable(m) /\ ~SlotActive(n, m))
  BY <1>2
<1> QED BY <1>1, <1>2 DEF DropSlot, Reachable

LEMMA CreateSlotIs ==
  ASSUME slots \in Held, NEW n \in Node, NEW m \in Node \cup {None}, CanCreateSlot(n, m)
  PROVE  /\ m \in Node /\ CreateSlot(n, m) \in Held
         /\ \A u \in Node \ {m} : CreateSlot(n, m)[u] = slots[u]
         /\ CreateSlot(n, m)[m] = slots[m] \cup {n}
<1>1. m \in Node
  BY DEF CanCreateSlot, Reachable
<1>2. \A u \in Node : CreateSlot(n, m)[u] = IF u = m THEN slots[u] \cup {n} ELSE slots[u]
  BY DEF CreateSlot, Held
<1>3. CreateSlot(n, m) \in [Node -> SUBSET Node]
  BY DEF CreateSlot, Held
<1>4. \A u \in Node : Cardinality(CreateSlot(n, m)[u]) <= MaxSlots
  BY <1>1, <1>2, SlotCounts DEF Held
<1> HIDE DEF CreateSlot
<1> QED BY <1>1, <1>2, <1>3, <1>4 DEF Held

\* The slots of n are replaced by others.
LEMMA ReplacedIs ==
  ASSUME slots \in Held, NEW n \in Node, NEW S \in SUBSET Node, Cardinality(S) <= MaxSlots
  PROVE  /\ [slots EXCEPT ![n] = S] \in Held
         /\ \A u \in Node : [slots EXCEPT ![n] = S][u] = IF u = n THEN S ELSE slots[u]
<1> DEFINE replaced == [slots EXCEPT ![n] = S]
<1>1. /\ \A u \in Node : replaced[u] = IF u = n THEN S ELSE slots[u]
      /\ replaced \in [Node -> SUBSET Node]
  BY DEF Held
<1> HIDE DEF replaced
<1>2. \A u \in Node : Cardinality(replaced[u]) <= MaxSlots
  BY <1>1 DEF Held
<1>3. replaced \in Held
  BY <1>1, <1>2 DEF Held
<1> QED BY <1>1, <1>3 DEF replaced

\* All the slots of n are dropped.
LEMMA EmptiedIs ==
  ASSUME slots \in Held, NEW n \in Node
  PROVE  /\ [slots EXCEPT ![n] = {}] \in Held
         /\ \A u \in Node : [slots EXCEPT ![n] = {}][u] = IF u = n THEN {} ELSE slots[u]
BY NoSlots, ReplacedIs

\* Some of them are kept.
LEMMA KeptIs ==
  ASSUME slots \in Held, NEW n \in Node, NEW kept \in SUBSET slots[n]
  PROVE  /\ [slots EXCEPT ![n] = kept] \in Held
         /\ \A u \in Node : [slots EXCEPT ![n] = kept][u] = IF u = n THEN kept ELSE slots[u]
<1>1. IsFiniteSet(slots[n]) /\ slots[n] \subseteq Node
  BY SlotCounts DEF Held
<1>2. /\ Cardinality(kept) <= Cardinality(slots[n]) /\ Cardinality(kept) \in Nat
      /\ Cardinality(slots[n]) \in Nat /\ Cardinality(slots[n]) <= MaxSlots /\ MaxSlots \in Nat
  BY <1>1, FS_Subset, FS_CardinalityType, SlotsAssumption DEF Held
<1> QED BY <1>1, <1>2, ReplacedIs
-----------------------------------------------------------------------------
(* What the outcome of a step does to the commands. *)

Others(n) == \A m \in Node \ {n} : cmd'[m] = cmd[m]

\* The command of n goes on: only its step, its warnings and its old upstream change.
GoesOn(n, step) ==
  /\ cmd' \in [Node -> Process] /\ Others(n)
  /\ cmd'[n].step = step /\ cmd'[n].op = cmd[n].op /\ cmd'[n].source = cmd[n].source
  /\ cmd'[n].target = cmd[n].target /\ cmd'[n].rewind = cmd[n].rewind /\ cmd'[n].done = cmd[n].done

\* It is over.
Ends(n) == cmd' \in [Node -> Process] /\ Others(n) /\ cmd'[n].step = "idle"

LEMMA ContinueIs ==
  ASSUME cmd \in [Node -> Process], NEW n \in Node, NEW step \in Step, Continue(n, step)
  PROVE  GoesOn(n, step) /\ cmd'[n].warned = cmd[n].warned /\ cmd'[n].old = cmd[n].old
<1>1. cmd' = [cmd EXCEPT ![n] = [cmd[n] EXCEPT !.step = step]]
  BY DEF Continue
<1>2. cmd[n] \in Process
  OBVIOUS
<1> DEFINE changed == [cmd[n] EXCEPT !.step = step]
<1>3. changed \in Process
  BY <1>2 DEF Process
<1>4. /\ changed.step = step /\ changed.op = cmd[n].op /\ changed.source = cmd[n].source
      /\ changed.target = cmd[n].target /\ changed.rewind = cmd[n].rewind
      /\ changed.done = cmd[n].done /\ changed.warned = cmd[n].warned /\ changed.old = cmd[n].old
  BY <1>2 DEF Process
<1> HIDE DEF changed
<1>5. cmd' \in [Node -> Process] /\ cmd'[n] = changed /\ Others(n)
  BY <1>1, <1>3 DEF Others, changed
<1> QED BY <1>4, <1>5 DEF GoesOn

LEMMA WarnIs ==
  ASSUME cmd \in [Node -> Process], NEW n \in Node, NEW step \in Step, Warn(n, step)
  PROVE  GoesOn(n, step) /\ cmd'[n].warned /\ cmd'[n].old = cmd[n].old
<1> DEFINE changed == [cmd[n] EXCEPT !.step = step, !.warned = TRUE]
<1>1. cmd' = [cmd EXCEPT ![n] = changed]
  BY DEF Warn
<1>2. cmd[n] \in Process
  OBVIOUS
<1>3. changed \in Process
  BY <1>2 DEF Process
<1>4. /\ changed.step = step /\ changed.op = cmd[n].op /\ changed.source = cmd[n].source
      /\ changed.target = cmd[n].target /\ changed.rewind = cmd[n].rewind
      /\ changed.done = cmd[n].done /\ changed.warned /\ changed.old = cmd[n].old
  BY <1>2 DEF Process
<1> HIDE DEF changed
<1>5. cmd' \in [Node -> Process] /\ cmd'[n] = changed /\ Others(n)
  BY <1>1, <1>3 DEF Others
<1> QED BY <1>4, <1>5 DEF GoesOn

LEMMA AbortIs ==
  ASSUME cmd \in [Node -> Process], NEW n \in Node, NEW code \in Exit, Abort(n, code)
  PROVE  Ends(n) /\ ~cmd'[n].done
<1> DEFINE changed == [NoCommand EXCEPT !.op = cmd[n].op, !.exit = code]
<1>1. cmd' = [cmd EXCEPT ![n] = changed]
  BY DEF Abort
<1>2. changed \in Process /\ changed.step = "idle" /\ ~changed.done
  BY DEF Process, NoCommand, Step, Command
<1> HIDE DEF changed
<1> QED BY <1>1, <1>2 DEF Ends, Others

LEMMA SucceedIs ==
  ASSUME cmd \in [Node -> Process], NEW n \in Node, Succeed(n)
  PROVE  Ends(n)
<1> DEFINE changed == [NoCommand EXCEPT !.op = cmd[n].op, !.exit = "SUCCESS", !.done = TRUE]
<1>1. cmd' = [cmd EXCEPT ![n] = changed]
  BY DEF Succeed
<1>2. changed \in Process /\ changed.step = "idle"
  BY DEF Process, NoCommand, Step, Command, Exit
<1> HIDE DEF changed
<1> QED BY <1>1, <1>2 DEF Ends, Others

\* What a command has when it starts.
Starts(n, op, step, source, target) ==
  /\ cmd' \in [Node -> Process] /\ Others(n)
  /\ cmd'[n].op = op /\ cmd'[n].step = step /\ cmd'[n].source = source
  /\ cmd'[n].target = target /\ ~cmd'[n].done

LEMMA RunIs ==
  ASSUME cmd \in [Node -> Process], NEW n \in Node, NEW op \in Command, NEW step \in Step,
         NEW source \in Node \cup {None}, NEW target \in Node \cup {None}, NEW rewind \in BOOLEAN,
         Run(n, op, step, source, target, rewind)
  PROVE  Starts(n, op, step, source, target)
<1> DEFINE changed == [NoCommand EXCEPT !.op = op, !.step = step, !.source = source,
                                        !.target = target, !.rewind = rewind]
<1>1. cmd' = [cmd EXCEPT ![n] = changed]
  BY DEF Run
<1>2. /\ changed \in Process /\ changed.op = op /\ changed.step = step
      /\ changed.source = source /\ changed.target = target /\ ~changed.done
  BY DEF Process, NoCommand, Exit
<1> HIDE DEF changed
<1> QED BY <1>1, <1>2 DEF Starts, Others

\* A command starts on a node where none runs, with nothing purged under it.
LEMMA BeginIs ==
  ASSUME spent \in Bounds, purged \subseteq Node \X Node, NEW n \in Node,
         NEW emptied \in SUBSET Node, Begin(n, emptied)
  PROVE  /\ spent' \in Bounds /\ purged' \subseteq Node \X Node /\ ~Running(n)
         /\ \A u, m \in Node : m # n =>
              (<<u, m>> \in purged' <=> <<u, m>> \in purged \/ (u \in emptied /\ Running(m)))
<1>1. spent' \in Bounds
  BY SlotsAssumption DEF Begin, Bounds
<1>2. purged' = {pair \in purged : pair[2] # n} \cup (emptied \X {m \in Node : Running(m)})
  BY DEF Begin, Lost, Running
<1>3. ~Running(n)
  BY DEF Begin, Running
<1> QED BY <1>1, <1>2, <1>3

LEMMA PurgeIs ==
  ASSUME purged \subseteq Node \X Node, NEW n \in Node, Purge(n)
  PROVE  /\ purged' \subseteq Node \X Node
         /\ \A u, m \in Node : <<u, m>> \in purged' <=> <<u, m>> \in purged \/ (u = n /\ Running(m))
<1>1. purged' = purged \cup ({n} \X {m \in Node : Running(m)})
  BY DEF Purge, Lost, Running
<1> QED BY <1>1

\* The receivers that are left.
LEMMA DetachedIs ==
  ASSUME receiver \in Upstreams, NEW S
  PROVE  /\ Detached(S) \in Upstreams
         /\ \A n \in Node : Detached(S)[n] = IF n \in S THEN None ELSE receiver[n]
BY DEF Detached, Upstreams

LEMMA CutIs ==
  ASSUME receiver \in Upstreams, NEW m \in Node
  PROVE  /\ Cut(m) \in Upstreams
         /\ \A n \in Node : Cut(m)[n] = IF n = m \/ receiver[n] = m THEN None ELSE receiver[n]
BY DetachedIs DEF Cut

\* The file is written: a node that is down becomes a standby.
LEMMA WrittenIs ==
  ASSUME server \in [Node -> Machine], conninfo \in Upstreams, cmd \in [Node -> Process],
         NEW n \in Node, RecoveryFileWritten(n)
  PROVE  /\ server' \in [Node -> Machine] /\ conninfo' \in Upstreams
         /\ conninfo'[n] = cmd[n].target
         /\ \A m \in Node \ {n} : conninfo'[m] = conninfo[m] /\ server'[m] = server[m]
         /\ server'[n].up = server[n].up
         /\ server[n].up => server'[n] = server[n]
<1>1. cmd[n].target \in Node \cup {None}
  BY DEF Process
<1>2. conninfo' = [conninfo EXCEPT ![n] = cmd[n].target]
  BY DEF RecoveryFileWritten, PrimaryConninfo
<1>3. /\ conninfo' \in Upstreams /\ conninfo'[n] = cmd[n].target
      /\ \A m \in Node \ {n} : conninfo'[m] = conninfo[m]
  BY <1>1, <1>2 DEF Upstreams
<1> DEFINE written == [server[n] EXCEPT !.data = IF server[n].up THEN @ ELSE "standby"]
<1>4. server' = [server EXCEPT ![n] = written]
  BY DEF RecoveryFileWritten
<1>5. written \in Machine /\ written.up = server[n].up /\ (server[n].up => written = server[n])
  BY DEF Machine, Data
<1> HIDE DEF written
<1>6. /\ server' \in [Node -> Machine] /\ server'[n] = written
      /\ \A m \in Node \ {n} : server'[m] = server[m]
  BY <1>4, <1>5
<1> QED BY <1>3, <1>5, <1>6

\* A member of a type set given by its fields.
LEMMA SomeSteps ==
  /\ {"source slot", "backup", "upstream slot", "drop source slot", "write file"} \subseteq Step
  /\ {"write file only", "write file, then slot", "rewind", "copied slots"} \subseteq Step
  /\ {"target slot", "write conf", "restart", "drop old slot", "update record"} \subseteq Step
  /\ {"wait", "idle"} \subseteq Step
  /\ {"clone", "barman", "conf", "follow", "rejoin"} \subseteq Command
BY DEF Step, Command

LEMMA SomeExits ==
  /\ {"SUCCESS", "ERR_BAD_CONFIG", "ERR_DB_CONN", "ERR_DB_QUERY", "ERR_BAD_BASEBACKUP"} \subseteq Exit
  /\ {"ERR_BARMAN", "ERR_NO_RESTART", "ERR_FOLLOW_FAIL", "ERR_REJOIN_FAIL", "none"} \subseteq Exit
BY DEF Exit

\* The machine of n after some of its fields have changed.
LEMMA BackupIs ==
  ASSUME server \in [Node -> Machine], NEW n \in Node,
         server' = [server EXCEPT ![n].data = "backup", ![n].ended = "unclean"]
  PROVE  /\ server' \in [Node -> Machine] /\ server'[n].up = server[n].up
         /\ server'[n].ended = "unclean" /\ \A m \in Node \ {n} : server'[m] = server[m]
<1> DEFINE half == [server[n] EXCEPT !.data = "backup"]
           whole == [half EXCEPT !.ended = "unclean"]
<1>1. server' = [server EXCEPT ![n] = whole]
  OBVIOUS
<1>2. half \in Machine /\ half.up = server[n].up
  BY DEF Machine, Data
<1>3. whole \in Machine /\ whole.up = half.up /\ whole.ended = "unclean"
  BY <1>2 DEF Machine, Ending
<1> HIDE DEF half, whole
<1> QED BY <1>1, <1>2, <1>3

LEMMA DownIs ==
  ASSUME server \in [Node -> Machine], NEW n \in Node, NEW ended \in Ending, NEW up \in BOOLEAN,
         server' = [server EXCEPT ![n].up = up, ![n].ended = ended]
  PROVE  /\ server' \in [Node -> Machine] /\ server'[n].up = up /\ server'[n].ended = ended
         /\ server'[n].data = server[n].data /\ \A m \in Node \ {n} : server'[m] = server[m]
<1> DEFINE half == [server[n] EXCEPT !.up = up]
           whole == [half EXCEPT !.ended = ended]
<1>1. server' = [server EXCEPT ![n] = whole]
  OBVIOUS
<1>2. half \in Machine /\ half.up = up /\ half.data = server[n].data
  BY DEF Machine
<1>3. /\ whole \in Machine /\ whole.up = half.up /\ whole.ended = ended
      /\ whole.data = half.data
  BY <1>2 DEF Machine
<1> HIDE DEF half, whole
<1> QED BY <1>1, <1>2, <1>3

\* A restart of n touches no other server, and may leave n down or as it is.
LEMMA RestartedIs ==
  ASSUME server \in [Node -> Machine], NEW n \in Node, RestartServer(n)
  PROVE  /\ server' \in [Node -> Machine] /\ \A m \in Node \ {n} : server'[m] = server[m]
         /\ server'[n].data = server[n].data
         /\ receiver' = Cut(n) \/ (UNCHANGED <<server, receiver>> /\ Abort(n, "ERR_NO_RESTART"))
<1>1. \/ server' = [server EXCEPT ![n].up = TRUE, ![n].ended = "clean"]
      \/ server' = [server EXCEPT ![n].up = FALSE,
                                  ![n].ended = IF server[n].up THEN "clean" ELSE server[n].ended]
      \/ server' = server
  BY DEF RestartServer
<1>2. "clean" \in Ending /\ (IF server[n].up THEN "clean" ELSE server[n].ended) \in Ending
  BY DEF Machine, Ending
<1>3. /\ server' \in [Node -> Machine] /\ \A m \in Node \ {n} : server'[m] = server[m]
      /\ server'[n].data = server[n].data
  BY <1>1, <1>2, DownIs
<1> QED BY <1>3 DEF RestartServer

LEMMA FaultIs ==
  ASSUME spent \in Bounds, Fault
  PROVE  spent' \in Bounds
<1>1. spent.faults + 1 \in 0..MaxFaults
  BY SlotsAssumption DEF Fault, Bounds
<1> QED BY <1>1 DEF Fault, Bounds

LEMMA CloneTargetsAreNodes ==
  ASSUME NEW option \in Node \cup {None}, NEW u \in CloneTargets(option)
  PROVE  u \in Node
BY DEF CloneTargets, RecordedPrimary

\* The servers, slots and receivers after "standby clone" from Barman has
\* emptied the data directory.
LEMMA BarmanIs ==
  ASSUME TypeOK, NEW n \in Node, NEW source \in Node, NEW option \in Node \cup {None},
         NEW force \in BOOLEAN, BarmanClone(n, source, option, force)
  PROVE  /\ server' \in [Node -> Machine] /\ slots' \in Held /\ receiver' = Cut(n)
         /\ ~server'[n].up /\ server'[n].data = "none" /\ \A m \in Node \ {n} : server'[m] = server[m]
         /\ \A m \in Node : slots'[m] = IF m = n THEN {} ELSE slots[m]
         /\ \/ \E u \in Node : Starts(n, "barman", "backup", source, u)
            \/ Ends(n) /\ ~cmd'[n].done
<1>1. /\ server' = [server EXCEPT ![n] = [up |-> FALSE, ended |-> "clean", data |-> "none"]]
      /\ slots' = [slots EXCEPT ![n] = {}] /\ receiver' = Cut(n)
  BY DEF BarmanClone
<1>2. server \in [Node -> Machine] /\ slots \in Held /\ cmd \in [Node -> Process]
  BY TypeParts
<1>3. [up |-> FALSE, ended |-> "clean", data |-> "none"] \in Machine
  BY DEF Machine, Ending, Data
<1>4. /\ server' \in [Node -> Machine] /\ ~server'[n].up /\ server'[n].data = "none"
      /\ \A m \in Node \ {n} : server'[m] = server[m]
  BY <1>1, <1>2, <1>3
<1>5. slots' \in Held /\ \A m \in Node : slots'[m] = IF m = n THEN {} ELSE slots[m]
  BY <1>1, <1>2, EmptiedIs
<1>6. \/ \E u \in BarmanTarget(source, option) : Run(n, "barman", "backup", source, u, FALSE)
      \/ cmd' = [cmd EXCEPT ![n] = [NoCommand EXCEPT !.op = "barman", !.exit = "ERR_BAD_CONFIG"]]
  BY DEF BarmanClone
<1>7. \A u \in BarmanTarget(source, option) : u \in Node
  BY DEF BarmanTarget, RecordedPrimary
<1>8. CASE \E u \in BarmanTarget(source, option) : Run(n, "barman", "backup", source, u, FALSE)
  <2>1. PICK u \in Node : Run(n, "barman", "backup", source, u, FALSE)
    BY <1>7, <1>8
  <2>2. Starts(n, "barman", "backup", source, u)
    BY <1>2, <2>1, RunIs, SomeSteps
  <2> QED BY <1>1, <1>4, <1>5, <2>2
<1>9. CASE cmd' = [cmd EXCEPT ![n] = [NoCommand EXCEPT !.op = "barman", !.exit = "ERR_BAD_CONFIG"]]
  <2> DEFINE changed == [NoCommand EXCEPT !.op = "barman", !.exit = "ERR_BAD_CONFIG"]
  <2>1. changed \in Process /\ changed.step = "idle" /\ ~changed.done
    BY DEF Process, NoCommand, Step, Command, Exit
  <2>2. cmd' = [cmd EXCEPT ![n] = changed]
    BY <1>9
  <2> HIDE DEF changed
  <2>3. Ends(n) /\ ~cmd'[n].done
    BY <1>2, <2>1, <2>2 DEF Ends, Others
  <2> QED BY <1>1, <1>4, <1>5, <2>3
<1> QED BY <1>6, <1>8, <1>9

\* The servers, slots and WAL after pg_rewind: the slots of the target come along.
LEMMA RewindIs ==
  ASSUME TypeOK, NEW n \in Node, Rewind(n)
  PROVE  /\ server' \in [Node -> Machine] /\ wal' \in [Node -> Wal] /\ slots' \in Held
         /\ server'[n].up = server[n].up /\ \A m \in Node \ {n} : server'[m] = server[m]
         /\ \A m \in Node \ {n} : wal'[m] = wal[m] /\ slots'[m] = slots[m]
         /\ \/ /\ Continue(n, "copied slots") /\ Purge(n) /\ cmd[n].target \in Node
               /\ wal[n].tli < wal[cmd[n].target].tli /\ wal'[n] = Rewound(n)
               /\ server'[n].ended = "unclean" /\ server[n].ended = "clean"
            \/ /\ Continue(n, "copied slots") /\ UNCHANGED <<server, wal, slots, purged>>
               /\ SharesHistory(n, cmd[n].target)
            \/ Abort(n, "ERR_REJOIN_FAIL") /\ UNCHANGED <<wal, slots, purged>>
<1>1. /\ server \in [Node -> Machine] /\ wal \in [Node -> Wal] /\ fork \in 0..MaxLsn
      /\ slots \in Held /\ cmd[n] \in Process
  BY TypeParts
<1>2. CASE /\ server[n].ended = "clean"
           /\ Reachable(cmd[n].target) /\ wal[n].tli < wal[cmd[n].target].tli
           /\ wal' = [wal EXCEPT ![n] = Rewound(n)]
           /\ server' = [server EXCEPT ![n].data = "backup", ![n].ended = "unclean"]
           /\ slots' = [slots EXCEPT ![n] = slots[cmd[n].target]]
           /\ Purge(n)
           /\ Continue(n, "copied slots")
  <2>1. cmd[n].target \in Node
    BY <1>1, <1>2 DEF Process, Reachable
  <2>2. Rewound(n) \in Wal
    BY <1>1, <2>1 DEF Rewound, Wal
  <2>3. /\ wal' \in [Node -> Wal] /\ wal'[n] = Rewound(n)
        /\ \A m \in Node \ {n} : wal'[m] = wal[m]
    BY <1>1, <1>2, <2>2
  <2>4. /\ server' \in [Node -> Machine] /\ server'[n].up = server[n].up
        /\ server'[n].ended = "unclean" /\ \A m \in Node \ {n} : server'[m] = server[m]
    BY <1>1, <1>2, BackupIs
  <2>5. slots[cmd[n].target] \in SUBSET Node /\ Cardinality(slots[cmd[n].target]) <= MaxSlots
    BY <1>1, <2>1 DEF Held
  <2> DEFINE copied == slots[cmd[n].target]
  <2>6. slots' = [slots EXCEPT ![n] = copied]
    BY <1>2
  <2>7. copied \in SUBSET Node /\ Cardinality(copied) <= MaxSlots
    BY <2>5
  <2> HIDE DEF copied
  <2>8. /\ [slots EXCEPT ![n] = copied] \in Held
        /\ \A u \in Node : [slots EXCEPT ![n] = copied][u] = IF u = n THEN copied ELSE slots[u]
    BY <1>1, <2>7, ReplacedIs
  <2>9. slots' \in Held /\ \A m \in Node \ {n} : slots'[m] = slots[m]
    BY <2>6, <2>8
  <2> QED BY <1>2, <2>1, <2>3, <2>4, <2>9
<1>3. CASE /\ Continue(n, "copied slots") /\ UNCHANGED <<server, wal, slots, purged>>
           /\ SharesHistory(n, cmd[n].target)
  BY <1>1, <1>3
<1>4. CASE /\ Abort(n, "ERR_REJOIN_FAIL") /\ UNCHANGED <<wal, slots, purged>>
           /\ server' = server \/ server' = [server EXCEPT ![n].data = "backup"]
  <2> DEFINE torn == [server[n] EXCEPT !.data = "backup"]
  <2>1. torn \in Machine /\ torn.up = server[n].up
    BY <1>1 DEF Machine, Data
  <2>2. server' = server \/ server' = [server EXCEPT ![n] = torn]
    BY <1>4
  <2> HIDE DEF torn
  <2> QED BY <1>1, <1>4, <2>1, <2>2
<1> QED BY <1>2, <1>3, <1>4 DEF Rewind

\* "standby clone --recovery-conf-only": where it starts depends on the slot.
LEMMA ConfIs ==
  ASSUME TypeOK, NEW n \in Node, NEW source \in Node, NEW option \in Node \cup {None},
         NEW force \in BOOLEAN, CreateRecoveryConf(n, source, option, force)
  PROVE  \E u \in Node :
           \/ /\ Starts(n, "conf", "write file only", source, u)
              /\ SlotFound(n, u) \/ cmd'[n].warned
           \/ Starts(n, "conf", "write file, then slot", source, u)
<1> DEFINE started(u) == [NoCommand EXCEPT !.op = "conf",
             !.step = IF SlotFound(n, u) \/ SlotRefused(n, u)
                        THEN "write file only" ELSE "write file, then slot",
             !.source = source, !.target = u, !.warned = SlotRefused(n, u)]
<1>1. PICK u \in CloneTargets(option) : cmd' = [cmd EXCEPT ![n] = started(u)]
  BY DEF CreateRecoveryConf
<1>2. u \in Node /\ cmd \in [Node -> Process]
  BY CloneTargetsAreNodes, TypeParts
<1>3. SlotRefused(n, u) \in BOOLEAN
  BY DEF SlotRefused, SlotFound, SlotActive
<1>4. /\ started(u) \in Process /\ started(u).op = "conf" /\ started(u).source = source
      /\ started(u).target = u /\ ~started(u).done /\ started(u).warned = SlotRefused(n, u)
      /\ started(u).step = IF SlotFound(n, u) \/ SlotRefused(n, u)
                             THEN "write file only" ELSE "write file, then slot"
  BY <1>2, <1>3 DEF NoCommand, Process, Step, Command, Exit
<1> HIDE DEF started
<1>5. cmd' \in [Node -> Process] /\ cmd'[n] = started(u) /\ Others(n)
  BY <1>1, <1>2, <1>4 DEF Others
<1>6. CASE SlotFound(n, u) \/ SlotRefused(n, u)
  BY <1>2, <1>4, <1>5, <1>6 DEF Starts
<1>7. CASE ~(SlotFound(n, u) \/ SlotRefused(n, u))
  BY <1>2, <1>4, <1>5, <1>7 DEF Starts
<1> QED BY <1>6, <1>7
-----------------------------------------------------------------------------
(* Type correctness. *)

LEMMA InitTypes == Init => TypeOK
<1> SUFFICES ASSUME Init PROVE TypeOK
  OBVIOUS
<1>1. PICK cascaded \in BOOLEAN :
        LET Upstream(n) == IF n = Primary THEN None
                           ELSE IF n = Standby THEN Primary
                           ELSE IF cascaded THEN Standby ELSE None
            Type(n) == IF n = Primary THEN "primary"
                       ELSE IF Upstream(n) = None THEN "none" ELSE "standby"
        IN /\ server = [n \in Node |->
                         [up |-> Type(n) # "none", ended |-> "clean", data |-> Type(n)]]
           /\ conninfo = [n \in Node |-> Upstream(n)]
           /\ receiver = conninfo
           /\ slots = [m \in Node |-> {n \in Node : Upstream(n) = m}]
           /\ registry = [n \in Node |-> [type |-> Type(n), active |-> Type(n) # "none",
                                          upstream |-> Upstream(n)]]
  BY DEF Init
<1> DEFINE Upstream(n) == IF n = Primary THEN None
                          ELSE IF n = Standby THEN Primary
                          ELSE IF cascaded THEN Standby ELSE None
           Type(n) == IF n = Primary THEN "primary"
                      ELSE IF Upstream(n) = None THEN "none" ELSE "standby"
<1>2. \A n \in Node : Upstream(n) \in Node \cup {None} /\ Type(n) \in {"none", "primary", "standby"}
  BY SlotsAssumption
<1>3. \A m \in Node : {n \in Node : Upstream(n) = m} \subseteq
                        IF m = Primary THEN {Standby} ELSE IF m = Standby THEN Node \ {Primary, Standby} ELSE {}
  BY SlotsAssumption
<1>4. server \in [Node -> Machine]
  <2>1. \A n \in Node : [up |-> Type(n) # "none", ended |-> "clean", data |-> Type(n)] \in Machine
    BY <1>2 DEF Machine, Ending, Data
  <2> HIDE DEF Type
  <2> QED BY <1>1, <2>1 DEF Type
<1>5. conninfo \in Upstreams /\ receiver \in Upstreams
  BY <1>1, <1>2 DEF Upstreams
<1>6. registry \in [Node -> NodeRecord]
  <2>1. \A n \in Node : [type |-> Type(n), active |-> Type(n) # "none", upstream |-> Upstream(n)] \in NodeRecord
    BY <1>2 DEF NodeRecord
  <2> HIDE DEF Type, Upstream
  <2> QED BY <1>1, <2>1 DEF Type, Upstream
<1>7. slots \in Held
  <2>1. slots \in [Node -> SUBSET Node] /\ \A m \in Node : slots[m] = {n \in Node : Upstream(n) = m}
    BY <1>1
  <2>2. \A m \in Node : Cardinality(slots[m]) <= MaxSlots
    <3> SUFFICES ASSUME NEW m \in Node PROVE Cardinality(slots[m]) <= MaxSlots
      OBVIOUS
    <3>1. /\ \A S, T : IsFiniteSet(T) /\ S \in SUBSET T => Cardinality(S) <= Cardinality(T)
          /\ \A S, T : IsFiniteSet(T) /\ S \in SUBSET T => IsFiniteSet(S) /\ Cardinality(S) \in Nat
      BY FS_Subset, FS_CardinalityType
    <3>2. IsFiniteSet({Standby}) /\ Cardinality({Standby}) = 1
      BY FS_Singleton
    <3>3. IsFiniteSet(Node \ {Primary, Standby}) /\ Cardinality(Node \ {Primary, Standby}) \in Nat
      BY <3>1, SlotsAssumption
    <3> HIDE DEF Upstream
    <3>4. slots[m] \subseteq IF m = Primary THEN {Standby} ELSE IF m = Standby THEN Node \ {Primary, Standby} ELSE {}
      BY <1>3, <2>1
    <3>5. CASE m = Primary
      <4>1. slots[m] \in SUBSET {Standby}
        BY <3>4, <3>5
      <4>2. Cardinality(slots[m]) <= 1 /\ Cardinality(slots[m]) \in Nat
        BY <3>1, <3>2, <4>1
      <4> QED BY <4>2, RoomAssumption, SlotsAssumption
    <3>6. CASE m = Standby
      <4>1. slots[m] \in SUBSET (Node \ {Primary, Standby})
        BY <3>4, <3>6, SlotsAssumption
      <4>2. Cardinality(slots[m]) <= Cardinality(Node \ {Primary, Standby}) /\ Cardinality(slots[m]) \in Nat
        BY <3>1, <3>3, <4>1
      <4> QED BY <3>3, <4>2, RoomAssumption, SlotsAssumption
    <3>7. CASE m # Primary /\ m # Standby
      <4>1. slots[m] = {}
        BY <3>4, <3>7
      <4> QED BY <4>1, NoSlots
    <3> QED BY <3>5, <3>6, <3>7
  <2> QED BY <2>1, <2>2 DEF Held
<1>8. /\ wal = [n \in Node |-> [tli |-> 1, lsn |-> 0]] /\ fork = 0
      /\ cmd = [n \in Node |-> NoCommand] /\ purged = {}
      /\ spent = [commands |-> 0, faults |-> 0]
  BY DEF Init
<1>9. wal \in [Node -> Wal] /\ fork \in 0..MaxLsn
  BY <1>8, SlotsAssumption DEF Wal
<1>10. purged \subseteq Node \X Node /\ spent \in Bounds
  BY <1>8, SlotsAssumption DEF Bounds
<1>11. cmd \in [Node -> Process]
  <2>1. NoCommand \in Process
    BY DEF NoCommand, Process, Step, Command, Exit
  <2> QED BY <1>8, <2>1
<1> QED BY <1>4, <1>5, <1>6, <1>7, <1>9, <1>10, <1>11, TypeParts

LEMMA CommandTypes ==
  ASSUME TypeOK, NEW n \in Node, CommandOf(n)
  PROVE  TypeOK'
<1>1. /\ server \in [Node -> Machine] /\ wal \in [Node -> Wal] /\ fork \in 0..MaxLsn
      /\ slots \in Held /\ receiver \in Upstreams /\ conninfo \in Upstreams
      /\ registry \in [Node -> NodeRecord]
      /\ cmd \in [Node -> Process] /\ purged \subseteq Node \X Node /\ spent \in Bounds
  BY TypeParts
<1>2. ASSUME NEW source \in Node, NEW option \in Node \cup {None}, NEW force \in BOOLEAN,
             StandbyClone(n, source, option, force)
      PROVE  TypeOK'
  <2>1. PICK u \in CloneTargets(option) : Run(n, "clone", "source slot", source, u, FALSE)
    BY <1>2 DEF StandbyClone
  <2>2. cmd' \in [Node -> Process]
    BY <1>1, <2>1, RunIs, CloneTargetsAreNodes, SomeSteps DEF Starts
  <2>3. Begin(n, {}) /\ UNCHANGED <<server, wal, fork, slots, receiver, conninfo, registry>>
    BY <1>2 DEF StandbyClone
  <2>4. spent' \in Bounds /\ purged' \subseteq Node \X Node
    BY <1>1, <2>3, BeginIs
  <2> QED BY <1>1, <2>2, <2>3, <2>4, TypesAfter
<1>3. ASSUME NEW source \in Node, NEW option \in Node \cup {None}, NEW force \in BOOLEAN,
             BarmanClone(n, source, option, force)
      PROVE  TypeOK'
  <2>1. /\ server' \in [Node -> Machine] /\ slots' \in Held /\ receiver' = Cut(n)
        /\ cmd' \in [Node -> Process]
    BY <1>3, BarmanIs DEF Starts, Ends
  <2>2. Begin(n, {n}) /\ UNCHANGED <<wal, fork, conninfo, registry>>
    BY <1>3 DEF BarmanClone
  <2>3. spent' \in Bounds /\ purged' \subseteq Node \X Node
    BY <1>1, <2>2, BeginIs
  <2>4. receiver' \in Upstreams
    BY <1>1, <2>1, CutIs
  <2> QED BY <1>1, <2>1, <2>2, <2>3, <2>4, TypesAfter
<1>4. ASSUME NEW source \in Node, NEW option \in Node \cup {None}, NEW force \in BOOLEAN,
             CreateRecoveryConf(n, source, option, force)
      PROVE  TypeOK'
  <2>1. cmd' \in [Node -> Process]
    BY <1>4, ConfIs DEF Starts
  <2>2. Begin(n, {}) /\ UNCHANGED <<server, wal, fork, slots, receiver, conninfo, registry>>
    BY <1>4 DEF CreateRecoveryConf
  <2>3. spent' \in Bounds /\ purged' \subseteq Node \X Node
    BY <1>1, <2>2, BeginIs
  <2> QED BY <1>1, <2>1, <2>2, <2>3, TypesAfter
<1>5. ASSUME NEW option \in Node \cup {None}, StandbyFollow(n, option)
      PROVE  TypeOK'
  <2>1. PICK target \in FollowTargets(n, option) : Run(n, "follow", "target slot", None, target, FALSE)
    BY <1>5 DEF StandbyFollow
  <2>2. target \in Node
    BY <2>1 DEF FollowTargets, PrimaryConnections
  <2>3. cmd' \in [Node -> Process]
    BY <1>1, <2>1, <2>2, RunIs, SomeSteps DEF Starts
  <2>4. Begin(n, {}) /\ UNCHANGED <<server, wal, fork, slots, receiver, conninfo, registry>>
    BY <1>5 DEF StandbyFollow
  <2>5. spent' \in Bounds /\ purged' \subseteq Node \X Node
    BY <1>1, <2>4, BeginIs
  <2> QED BY <1>1, <2>3, <2>4, <2>5, TypesAfter
<1>6. ASSUME NEW upstream \in Node, NEW rewind \in BOOLEAN, NodeRejoin(n, upstream, rewind)
      PROVE  TypeOK'
  <2>1. PICK m \in RecordedPrimary :
          Run(n, "rejoin", IF rewind THEN "rewind" ELSE "target slot", None, m, rewind)
    BY <1>6 DEF NodeRejoin
  <2>2. m \in Node
    BY DEF RecordedPrimary
  <2> DEFINE first == IF rewind THEN "rewind" ELSE "target slot"
  <2>3. first \in Step /\ Run(n, "rejoin", first, None, m, rewind)
    BY <2>1, SomeSteps
  <2> HIDE DEF first
  <2>4. cmd' \in [Node -> Process]
    <3>1. rewind \in BOOLEAN /\ "rejoin" \in Command /\ None \in Node \cup {None} /\ m \in Node \cup {None}
      BY <2>2, SomeSteps
    <3>2. Starts(n, "rejoin", first, None, m)
      BY <1>1, <2>3, <3>1, RunIs
    <3> QED BY <3>2 DEF Starts
  <2>5. Begin(n, {}) /\ UNCHANGED <<server, wal, fork, slots, receiver, conninfo, registry>>
    BY <1>6 DEF NodeRejoin
  <2>6. spent' \in Bounds /\ purged' \subseteq Node \X Node
    BY <1>1, <2>5, BeginIs
  <2> QED BY <1>1, <2>4, <2>5, <2>6, TypesAfter
<1> QED BY <1>2, <1>3, <1>4, <1>5, <1>6 DEF CommandOf

LEMMA StepTypes ==
  ASSUME TypeOK, NEW n \in Node, StepOf(n)
  PROVE  TypeOK'
<1>1. /\ server \in [Node -> Machine] /\ wal \in [Node -> Wal] /\ fork \in 0..MaxLsn
      /\ slots \in Held /\ receiver \in Upstreams /\ conninfo \in Upstreams
      /\ registry \in [Node -> NodeRecord]
      /\ cmd \in [Node -> Process] /\ purged \subseteq Node \X Node /\ spent \in Bounds
  BY TypeParts
<1>2. cmd[n].source \in Node \cup {None} /\ cmd[n].target \in Node \cup {None} /\ cmd[n].old \in Node \cup {None}
  BY <1>1 DEF Process
<1>3. \A step \in Step : Continue(n, step) \/ Warn(n, step) => cmd' \in [Node -> Process]
  BY <1>1, ContinueIs, WarnIs DEF GoesOn
<1>4. (\E code \in Exit : Abort(n, code)) \/ Succeed(n) => cmd' \in [Node -> Process]
  BY <1>1, AbortIs, SucceedIs DEF Ends
<1>5. \A m \in Node \cup {None} : DropSlot(n, m) \in Held
  BY <1>1, DropSlotIs
<1>6. \A m \in Node \cup {None} : CanCreateSlot(n, m) => CreateSlot(n, m) \in Held
  BY <1>1, CreateSlotIs
<1>7. CASE InitialiseDirectClone(n)
  <2> DEFINE emptied == [slots EXCEPT ![n] = {}]
  <2>1. server' = [server EXCEPT ![n].data = "none"]
    BY <1>7 DEF InitialiseDirectClone
  <2>2. server' \in [Node -> Machine]
    BY <1>1, <2>1 DEF Machine, Data
  <2>3. purged' \subseteq Node \X Node
    BY <1>1, <1>7, PurgeIs DEF InitialiseDirectClone
  <2>4. cmd' \in [Node -> Process]
    BY <1>3, <1>4, <1>7, SomeSteps, SomeExits DEF InitialiseDirectClone
  <2>5. emptied \in Held /\ \A u \in Node : emptied[u] = IF u = n THEN {} ELSE slots[u]
    BY <1>1, EmptiedIs
  <2>6. \/ slots' = emptied
        \/ CanCreateSlot(n, cmd[n].source) /\ slots' = [emptied EXCEPT ![cmd[n].source] = @ \cup {n}]
    BY <1>7 DEF InitialiseDirectClone
  <2> HIDE DEF emptied
  <2>7. slots' \in Held
    <3>1. CASE slots' = emptied
      BY <2>5, <3>1
    <3>2. CASE CanCreateSlot(n, cmd[n].source) /\ slots' = [emptied EXCEPT ![cmd[n].source] = @ \cup {n}]
      <4>1. cmd[n].source \in Node
        BY <1>2, <3>2 DEF CanCreateSlot, Reachable
      <4>2. /\ slots' \in [Node -> SUBSET Node]
            /\ \A u \in Node : slots'[u] = IF u = cmd[n].source THEN emptied[u] \cup {n} ELSE emptied[u]
        BY <2>5, <3>2, <4>1 DEF Held
      <4>3. Cardinality({n}) <= MaxSlots \/ cmd[n].source # n
        <5>1. CASE cmd[n].source = n
          <6>1. CanCreateSlot(n, n) /\ Cardinality({n}) = 1
            BY <3>2, <5>1, FS_Singleton
          <6>2. MaxSlots >= 1
            BY RoomAssumption
          <6> QED BY <6>1, <6>2, SlotsAssumption
        <5> QED BY <5>1
      <4>4. Cardinality(slots[cmd[n].source] \cup {n}) <= MaxSlots
        BY <1>1, <3>2, <4>1, SlotCounts
      <4>5. \A u \in Node : Cardinality(slots'[u]) <= MaxSlots
        <5> SUFFICES ASSUME NEW u \in Node PROVE Cardinality(slots'[u]) <= MaxSlots
          OBVIOUS
        <5>1. CASE u # cmd[n].source
          BY <2>5, <4>2, <5>1 DEF Held
        <5>2. CASE u = cmd[n].source /\ u # n
          BY <2>5, <4>2, <4>4, <5>2
        <5>3. CASE u = cmd[n].source /\ u = n
          <6>1. slots'[u] = {n}
            BY <2>5, <4>2, <5>3
          <6> QED BY <4>3, <5>3, <6>1
        <5> QED BY <5>1, <5>2, <5>3
      <4> QED BY <4>2, <4>5 DEF Held
    <3> QED BY <2>6, <3>1, <3>2
  <2>8. UNCHANGED <<wal, fork, receiver, conninfo, registry, spent>>
    BY <1>7 DEF InitialiseDirectClone
  <2> QED BY <1>1, <2>2, <2>3, <2>4, <2>7, <2>8, TypesAfter
<1>8. CASE RunBasebackup(n)
  <2>1. cmd' \in [Node -> Process]
    BY <1>3, <1>4, <1>8, SomeSteps, SomeExits DEF RunBasebackup
  <2>2. slots' \in Held
    BY <1>1, <1>2, <1>5, <1>8 DEF RunBasebackup
  <2>3. \/ server' = server
        \/ server' = [server EXCEPT ![n].data = "backup", ![n].ended = "unclean"]
    BY <1>8 DEF RunBasebackup
  <2>4. server' \in [Node -> Machine]
    BY <1>1, <2>3, BackupIs
  <2>5. wal' = wal \/ (cmd[n].source \in Node /\ wal' = [wal EXCEPT ![n] = wal[cmd[n].source]])
    BY <1>2, <1>8 DEF RunBasebackup, Reachable
  <2>6. wal' \in [Node -> Wal]
    BY <1>1, <2>5
  <2>7. UNCHANGED <<fork, receiver, conninfo, registry, purged, spent>>
    BY <1>8 DEF RunBasebackup
  <2> QED BY <1>1, <2>1, <2>2, <2>4, <2>6, <2>7, TypesAfter
<1>9. CASE MoveSlotToUpstream(n)
  <2>1. \/ Warn(n, "drop source slot") \/ Continue(n, "write file")
        \/ Continue(n, "drop source slot") \/ Abort(n, "ERR_DB_QUERY")
    BY <1>9 DEF MoveSlotToUpstream, Continue
  <2>2. cmd' \in [Node -> Process]
    BY <1>3, <1>4, <2>1, SomeSteps, SomeExits
  <2>3. slots' = slots \/ (CanCreateSlot(n, cmd[n].target) /\ slots' = CreateSlot(n, cmd[n].target))
    BY <1>9 DEF MoveSlotToUpstream
  <2>4. slots' \in Held
    BY <1>1, <1>2, <1>6, <2>3
  <2>5. UNCHANGED <<server, wal, fork, receiver, conninfo, registry, purged, spent>>
    BY <1>9 DEF MoveSlotToUpstream
  <2> QED BY <1>1, <2>2, <2>4, <2>5, TypesAfter
<1>10. CASE DropSourceSlot(n)
  <2>1. cmd' \in [Node -> Process]
    BY <1>3, <1>10, SomeSteps DEF DropSourceSlot
  <2>2. slots' \in Held
    BY <1>2, <1>5, <1>10 DEF DropSourceSlot
  <2>3. UNCHANGED <<server, wal, fork, receiver, conninfo, registry, purged, spent>>
    BY <1>10 DEF DropSourceSlot
  <2> QED BY <1>1, <2>1, <2>2, <2>3, TypesAfter
<1>11. CASE FetchFileBackup(n)
  <2>1. cmd' \in [Node -> Process]
    BY <1>3, <1>4, <1>11, SomeSteps, SomeExits DEF FetchFileBackup
  <2>2. server' = server \/ server' = [server EXCEPT ![n].data = "backup", ![n].ended = "unclean"]
    BY <1>11 DEF FetchFileBackup
  <2>3. server' \in [Node -> Machine]
    BY <1>1, <2>2, BackupIs
  <2>4. wal' = wal \/ wal' = [wal EXCEPT ![n] = [tli |-> 1, lsn |-> 0]]
    BY <1>11 DEF FetchFileBackup
  <2>5. wal' \in [Node -> Wal]
    BY <1>1, <2>4, SlotsAssumption DEF Wal
  <2>6. UNCHANGED <<fork, slots, receiver, conninfo, registry, purged, spent>>
    BY <1>11 DEF FetchFileBackup
  <2> QED BY <1>1, <2>1, <2>3, <2>5, <2>6, TypesAfter
<1>12. CASE FileBackupFails(n)
  <2>1. cmd' \in [Node -> Process]
    BY <1>4, <1>12, SomeExits DEF FileBackupFails
  <2>2. slots' \in Held
    BY <1>2, <1>5, <1>12 DEF FileBackupFails
  <2>3. UNCHANGED <<server, wal, fork, receiver, conninfo, registry, purged, spent>>
    BY <1>12 DEF FileBackupFails
  <2> QED BY <1>1, <2>1, <2>2, <2>3, TypesAfter
<1>13. CASE BarmanUpstreamSlot(n)
  <2>1. Warn(n, "write file") \/ Continue(n, "write file")
    BY <1>13 DEF BarmanUpstreamSlot
  <2>2. cmd' \in [Node -> Process]
    BY <1>3, <2>1, SomeSteps
  <2>3. slots' = slots \/ (CanCreateSlot(n, cmd[n].target) /\ slots' = CreateSlot(n, cmd[n].target))
    BY <1>13 DEF BarmanUpstreamSlot
  <2>4. slots' \in Held
    BY <1>1, <1>2, <1>6, <2>3
  <2>5. UNCHANGED <<server, wal, fork, receiver, conninfo, registry, purged, spent>>
    BY <1>13 DEF BarmanUpstreamSlot
  <2> QED BY <1>1, <2>2, <2>4, <2>5, TypesAfter
<1>14. CASE FinishClone(n)
  <2>1. cmd' \in [Node -> Process]
    BY <1>4, <1>14, SomeExits DEF FinishClone
  <2>2. RecoveryFileWritten(n) \/ UNCHANGED <<conninfo, server>>
    BY <1>14 DEF FinishClone
  <2>3. server' \in [Node -> Machine] /\ conninfo' \in Upstreams
    BY <1>1, <2>2, WrittenIs
  <2>4. UNCHANGED <<wal, fork, slots, receiver, registry, purged, spent>>
    BY <1>14 DEF FinishClone
  <2> QED BY <1>1, <2>1, <2>3, <2>4, TypesAfter
<1>15. CASE WriteRecoveryConf(n)
  <2>1. cmd' \in [Node -> Process]
    BY <1>4, <1>15, SomeExits DEF WriteRecoveryConf
  <2>2. RecoveryFileWritten(n) \/ UNCHANGED <<conninfo, server>>
    BY <1>15 DEF WriteRecoveryConf
  <2>3. server' \in [Node -> Machine] /\ conninfo' \in Upstreams
    BY <1>1, <2>2, WrittenIs
  <2>4. slots' = slots \/ (CanCreateSlot(n, cmd[n].target) /\ slots' = CreateSlot(n, cmd[n].target))
    BY <1>15 DEF WriteRecoveryConf
  <2>5. slots' \in Held
    BY <1>1, <1>2, <1>6, <2>4
  <2>6. UNCHANGED <<wal, fork, receiver, registry, purged, spent>>
    BY <1>15 DEF WriteRecoveryConf
  <2> QED BY <1>1, <2>1, <2>3, <2>5, <2>6, TypesAfter
<1>16. ASSUME NEW hostGiven \in BOOLEAN, CreateTargetSlot(n, hostGiven)
       PROVE  TypeOK'
  <2> DEFINE old == IF registry[n].upstream # None THEN registry[n].upstream ELSE cmd[n].target
  <2>1. \/ \E code \in Exit : Abort(n, code)
        \/ Continue(n, "write conf")
        \/ cmd' = [cmd EXCEPT ![n].step = "write conf", ![n].old = old]
    BY <1>16, SomeExits DEF CreateTargetSlot
  <2>2. old \in Node \cup {None}
    BY <1>1, <1>2 DEF NodeRecord
  <2> HIDE DEF old
  <2>3. cmd' = [cmd EXCEPT ![n].step = "write conf", ![n].old = old] => cmd' \in [Node -> Process]
    <3> DEFINE changed == [cmd[n] EXCEPT !.step = "write conf", !.old = old]
    <3>1. cmd[n] \in Process /\ "write conf" \in Step
      BY <1>1, SomeSteps
    <3>2. changed \in Process
      BY <2>2, <3>1 DEF Process
    <3> SUFFICES ASSUME cmd' = [cmd EXCEPT ![n] = changed] PROVE cmd' \in [Node -> Process]
      OBVIOUS
    <3> HIDE DEF changed
    <3> QED BY <1>1, <3>2
  <2>4. cmd' \in [Node -> Process]
    BY <1>3, <1>4, <2>1, <2>3, SomeSteps
  <2>5. slots' = slots \/ (CanCreateSlot(n, cmd[n].target) /\ slots' = CreateSlot(n, cmd[n].target))
    BY <1>16 DEF CreateTargetSlot
  <2>6. slots' \in Held
    BY <1>1, <1>2, <1>6, <2>5
  <2>7. UNCHANGED <<server, wal, fork, receiver, conninfo, registry, purged, spent>>
    BY <1>16 DEF CreateTargetSlot
  <2> QED BY <1>1, <2>4, <2>6, <2>7, TypesAfter
<1>17. CASE WriteConf(n)
  <2>1. cmd' \in [Node -> Process]
    BY <1>3, <1>4, <1>17, SomeSteps, SomeExits DEF WriteConf, GeneralError
  <2>2. RecoveryFileWritten(n) \/ UNCHANGED <<conninfo, server>>
    BY <1>17 DEF WriteConf
  <2>3. server' \in [Node -> Machine] /\ conninfo' \in Upstreams
    BY <1>1, <2>2, WrittenIs
  <2>4. UNCHANGED <<wal, fork, slots, receiver, registry, purged, spent>>
    BY <1>17 DEF WriteConf
  <2> QED BY <1>1, <2>1, <2>3, <2>4, TypesAfter
<1>18. CASE RestartServer(n)
  <2>1. \/ Continue(n, "drop old slot") \/ Continue(n, "update record") \/ Abort(n, "ERR_NO_RESTART")
    BY <1>18 DEF RestartServer
  <2>2. cmd' \in [Node -> Process]
    BY <1>3, <1>4, <2>1, SomeSteps, SomeExits
  <2>4. server' \in [Node -> Machine]
    BY <1>1, <1>18, RestartedIs
  <2>5. receiver' \in Upstreams
    BY <1>1, <1>18, RestartedIs, CutIs
  <2>6. UNCHANGED <<wal, fork, slots, conninfo, registry, purged, spent>>
    BY <1>18 DEF RestartServer
  <2> QED BY <1>1, <2>2, <2>4, <2>5, <2>6, TypesAfter
<1>19. CASE DropOldSlot(n)
  <2>1. cmd' \in [Node -> Process]
    BY <1>3, <1>19, SomeSteps DEF DropOldSlot
  <2>2. slots' \in Held
    BY <1>2, <1>5, <1>19 DEF DropOldSlot
  <2>3. UNCHANGED <<server, wal, fork, receiver, conninfo, registry, purged, spent>>
    BY <1>19 DEF DropOldSlot
  <2> QED BY <1>1, <2>1, <2>2, <2>3, TypesAfter
<1>20. CASE UpdateRecord(n)
  <2>1. cmd' \in [Node -> Process]
    BY <1>3, <1>4, <1>20, SomeSteps, SomeExits DEF UpdateRecord
  <2>2. registry' = registry \/ registry' = [registry EXCEPT ![n] = StandbyRecord(cmd[n].target)]
    BY <1>20 DEF UpdateRecord
  <2>3. StandbyRecord(cmd[n].target) \in NodeRecord
    BY <1>2 DEF StandbyRecord, NodeRecord
  <2>4. registry' \in [Node -> NodeRecord]
    BY <1>1, <2>2, <2>3
  <2>5. UNCHANGED <<server, wal, fork, slots, receiver, conninfo, purged, spent>>
    BY <1>20 DEF UpdateRecord
  <2> QED BY <1>1, <2>1, <2>4, <2>5, TypesAfter
<1>21. CASE AwaitAttachment(n)
  <2>1. cmd' \in [Node -> Process]
    BY <1>4, <1>21, SomeExits DEF AwaitAttachment, GeneralError
  <2>2. slots' = slots \/ slots' = DropSlot(cmd[n].target, n)
    BY <1>21 DEF AwaitAttachment, SlotsAfterRejoin
  <2>3. slots' \in Held
    BY <1>1, <2>2, DropSlotIs
  <2>4. purged' = purged \/ Purge(n)
    BY <1>21 DEF AwaitAttachment
  <2>5. purged' \subseteq Node \X Node
    BY <1>1, <2>4, PurgeIs
  <2>6. UNCHANGED <<server, wal, fork, receiver, conninfo, registry, spent>>
    BY <1>21 DEF AwaitAttachment
  <2> QED BY <1>1, <2>1, <2>3, <2>5, <2>6, TypesAfter
<1>22. CASE Rewind(n)
  <2>1. cmd' \in [Node -> Process]
    BY <1>3, <1>4, <1>22, SomeSteps, SomeExits DEF Rewind
  <2>2. server' \in [Node -> Machine] /\ wal' \in [Node -> Wal] /\ slots' \in Held
    BY <1>22, RewindIs
  <2>3. purged' \subseteq Node \X Node
    BY <1>1, <1>22, PurgeIs DEF Rewind
  <2>4. UNCHANGED <<fork, receiver, conninfo, registry, spent>>
    BY <1>22 DEF Rewind
  <2> QED BY <1>1, <2>1, <2>2, <2>3, <2>4, TypesAfter
<1>23. CASE DeleteCopiedSlots(n)
  <2>1. cmd' \in [Node -> Process]
    BY <1>3, <1>4, <1>23, SomeSteps, SomeExits DEF DeleteCopiedSlots
  <2>2. slots' = slots \/ \E kept \in SUBSET slots[n] : slots' = [slots EXCEPT ![n] = kept]
    BY <1>23 DEF DeleteCopiedSlots
  <2>3. slots' \in Held
    BY <1>1, <2>2, KeptIs
  <2>4. purged' \subseteq Node \X Node
    BY <1>1, <1>23, PurgeIs DEF DeleteCopiedSlots
  <2>5. UNCHANGED <<server, wal, fork, receiver, conninfo, registry, spent>>
    BY <1>23 DEF DeleteCopiedSlots
  <2> QED BY <1>1, <2>1, <2>3, <2>4, <2>5, TypesAfter
<1> QED BY <1>7, <1>8, <1>9, <1>10, <1>11, <1>12, <1>13, <1>14, <1>15, <1>16, <1>17, <1>18,
           <1>19, <1>20, <1>21, <1>22, <1>23 DEF StepOf

LEMMA EnvironmentTypes ==
  ASSUME TypeOK, NEW n \in Node, Environment(n)
  PROVE  TypeOK'
<1>1. /\ server \in [Node -> Machine] /\ wal \in [Node -> Wal] /\ fork \in 0..MaxLsn
      /\ slots \in Held /\ receiver \in Upstreams /\ conninfo \in Upstreams
      /\ registry \in [Node -> NodeRecord]
      /\ cmd \in [Node -> Process] /\ purged \subseteq Node \X Node /\ spent \in Bounds
  BY TypeParts
<1>2. ASSUME NEW ended \in Ending, ServerDown(n, ended) PROVE TypeOK'
  <2>1. server' = [server EXCEPT ![n].up = FALSE, ![n].ended = ended]
    BY <1>2 DEF ServerDown
  <2>2. server' \in [Node -> Machine]
    BY <1>1, <2>1, DownIs
  <2>3. receiver' \in Upstreams
    BY <1>1, <1>2, CutIs DEF ServerDown
  <2>4. spent' \in Bounds
    BY <1>1, <1>2, FaultIs DEF ServerDown
  <2>5. UNCHANGED <<wal, fork, slots, conninfo, registry, cmd, purged>>
    BY <1>2 DEF ServerDown
  <2> QED BY <1>1, <2>2, <2>3, <2>4, <2>5, TypesAfter
<1>3. CASE ServerUp(n)
  <2> DEFINE data == IF conninfo[n] = None THEN server[n].data ELSE "standby"
             started == [server[n] EXCEPT !.up = TRUE, !.ended = "clean", !.data = data]
  <2>1. server' = [server EXCEPT ![n] = started]
    BY <1>3 DEF ServerUp
  <2>2. started \in Machine
    BY <1>1 DEF Machine, Ending, Data
  <2> HIDE DEF started
  <2>3. server' \in [Node -> Machine]
    BY <1>1, <2>1, <2>2
  <2>4. UNCHANGED <<wal, fork, slots, receiver, conninfo, registry, cmd, purged, spent>>
    BY <1>3 DEF ServerUp
  <2> QED BY <1>1, <2>3, <2>4, TypesAfter
<1>4. CASE ReceiverStarts(n)
  <2>1. receiver' = [receiver EXCEPT ![n] = conninfo[n]]
    BY <1>4 DEF ReceiverStarts
  <2>2. receiver' \in Upstreams
    BY <1>1, <2>1 DEF Upstreams
  <2>3. UNCHANGED <<server, wal, fork, slots, conninfo, registry, cmd, purged, spent>>
    BY <1>4 DEF ReceiverStarts
  <2> QED BY <1>1, <2>2, <2>3, TypesAfter
<1>5. CASE Stream(n)
  <2>1. wal' = [wal EXCEPT ![n] = wal[receiver[n]]] /\ receiver[n] # None
    BY <1>5 DEF Stream
  <2>2. receiver[n] \in Node
    BY <1>1, <2>1 DEF Upstreams
  <2>3. wal' \in [Node -> Wal]
    BY <1>1, <2>1, <2>2
  <2>4. UNCHANGED <<server, fork, slots, receiver, conninfo, registry, cmd, purged, spent>>
    BY <1>5 DEF Stream
  <2> QED BY <1>1, <2>3, <2>4, TypesAfter
<1>6. CASE Write(n)
  <2>1. wal' = [wal EXCEPT ![n].lsn = @ + 1] /\ wal[n].lsn < MaxLsn
    BY <1>6 DEF Write
  <2>2. wal' \in [Node -> Wal]
    BY <1>1, <2>1, SlotsAssumption DEF Wal
  <2>3. UNCHANGED <<server, fork, slots, receiver, conninfo, registry, cmd, purged, spent>>
    BY <1>6 DEF Write
  <2> QED BY <1>1, <2>2, <2>3, TypesAfter
<1>7. CASE StandbyPromote(n)
  <2>1. /\ server' = [server EXCEPT ![n].data = "primary"]
        /\ receiver' = Detached({n})
        /\ conninfo' = [conninfo EXCEPT ![n] = None]
        /\ wal' = [wal EXCEPT ![n].tli = 2]
        /\ fork' = wal[n].lsn
    BY <1>7 DEF StandbyPromote
  <2>2. registry' = [m \in Node |->
          IF m = n THEN [type |-> "primary", active |-> TRUE, upstream |-> None]
          ELSE IF registry[m].type = "primary" THEN [registry[m] EXCEPT !.active = FALSE]
          ELSE registry[m]]
    BY <1>7 DEF StandbyPromote
  <2>3. server' \in [Node -> Machine]
    BY <1>1, <2>1 DEF Machine, Data
  <2>4. receiver' \in Upstreams
    BY <1>1, <2>1, DetachedIs
  <2>5. conninfo' \in Upstreams
    BY <1>1, <2>1 DEF Upstreams
  <2>6. wal' \in [Node -> Wal] /\ fork' \in 0..MaxLsn
    BY <1>1, <2>1 DEF Wal
  <2>7. registry' \in [Node -> NodeRecord]
    <3>1. [type |-> "primary", active |-> TRUE, upstream |-> None] \in NodeRecord
      BY DEF NodeRecord
    <3>2. \A m \in Node : [registry[m] EXCEPT !.active = FALSE] \in NodeRecord
      BY <1>1 DEF NodeRecord
    <3> QED BY <1>1, <2>2, <3>1, <3>2
  <2>8. UNCHANGED <<slots, cmd, purged, spent>>
    BY <1>7 DEF StandbyPromote
  <2> QED BY <1>1, <2>3, <2>4, <2>5, <2>6, <2>7, <2>8, TypesAfter
<1>8. CASE StandbyRegister(n)
  <2>1. registry' = [registry EXCEPT ![n] = StandbyRecord(conninfo[n])]
    BY <1>8 DEF StandbyRegister
  <2>2. StandbyRecord(conninfo[n]) \in NodeRecord
    BY <1>1 DEF StandbyRecord, NodeRecord, Upstreams
  <2>3. registry' \in [Node -> NodeRecord]
    BY <1>1, <2>1, <2>2
  <2>4. UNCHANGED <<server, wal, fork, slots, receiver, conninfo, cmd, purged, spent>>
    BY <1>8 DEF StandbyRegister
  <2> QED BY <1>1, <2>3, <2>4, TypesAfter
<1>9. CASE Killed(n)
  <2>1. cmd' \in [Node -> Process]
    BY <1>1, <1>9, AbortIs, SomeExits DEF Killed, Ends
  <2>2. spent' \in Bounds
    BY <1>1, <1>9, SlotsAssumption DEF Killed, Fault, Bounds
  <2>3. UNCHANGED <<server, wal, fork, slots, receiver, conninfo, registry, purged>>
    BY <1>9 DEF Killed
  <2> QED BY <1>1, <2>1, <2>2, <2>3, TypesAfter
<1> QED BY <1>2, <1>3, <1>4, <1>5, <1>6, <1>7, <1>8, <1>9 DEF Environment

LEMMA NextTypes ==
  ASSUME TypeOK, [Next]_vars
  PROVE  TypeOK'
<1>1. CASE Next
  <2>1. PICK n \in Node : CommandOf(n) \/ StepOf(n) \/ Environment(n)
    BY <1>1 DEF Next
  <2> QED BY <2>1, CommandTypes, StepTypes, EnvironmentTypes
<1>2. CASE UNCHANGED vars
  BY <1>2, TypeParts, TypesAfter DEF vars
<1> QED BY <1>1, <1>2

\* No server holds more slots than it may, and every command, file and record
\* is one there can be.
THEOREM TypeCorrect == Spec => []TypeOK
<1>1. TypeOK /\ [Next]_vars => TypeOK'
  BY NextTypes
<1> QED BY InitTypes, <1>1, PTL DEF Spec
-----------------------------------------------------------------------------
(* The configuration files of a node. *)

\* What no command touches before its first step.
LEMMA CommandLeaves ==
  ASSUME NEW n \in Node, CommandOf(n)
  PROVE  UNCHANGED <<wal, fork, conninfo, registry>>
<1>1. ASSUME NEW source, NEW option, NEW force,
             \/ StandbyClone(n, source, option, force)
             \/ BarmanClone(n, source, option, force)
             \/ CreateRecoveryConf(n, source, option, force)
      PROVE  UNCHANGED <<wal, fork, conninfo, registry>>
  <2>1. CASE StandbyClone(n, source, option, force)
    BY <2>1 DEF StandbyClone
  <2>2. CASE BarmanClone(n, source, option, force)
    BY <2>2 DEF BarmanClone
  <2>3. CASE CreateRecoveryConf(n, source, option, force)
    BY <2>3 DEF CreateRecoveryConf
  <2> QED BY <1>1, <2>1, <2>2, <2>3
<1>2. ASSUME NEW option, StandbyFollow(n, option)
      PROVE  UNCHANGED <<wal, fork, conninfo, registry>>
  BY <1>2 DEF StandbyFollow
<1>3. ASSUME NEW upstream, NEW rewind, NodeRejoin(n, upstream, rewind)
      PROVE  UNCHANGED <<wal, fork, conninfo, registry>>
  BY <1>3 DEF NodeRejoin
<1> QED BY <1>1, <1>2, <1>3 DEF CommandOf
-----------------------------------------------------------------------------
(* A command and the others: what a step of the rest of the system leaves a    *)
(* command that runs on n.                                                     *)

Quiet(n) ==
  /\ cmd'[n] = cmd[n]
  /\ Running(n) =>
       /\ ~server[n].up => server'[n] = server[n]
       /\ conninfo'[n] = conninfo[n]
       /\ registry'[n].upstream = registry[n].upstream
       /\ \/ receiver'[n] \in {receiver[n], None}
          \/ receiver'[n] = conninfo[n] /\ n \in slots'[conninfo[n]]
       /\ \A u \in Node : n \in slots[u] => n \in slots'[u] \/ <<u, n>> \in purged'
       /\ \A u \in Node : <<u, n>> \in purged => <<u, n>> \in purged'
       /\ \A u \in Node : n \in slots'[u] => n \in slots[u] \/ <<u, n>> \in purged'

\* A quiet step keeps what the command rests on.
LEMMA QuietKeeps ==
  ASSUME TypeOK, NEW n \in Node, Running(n), Sound(n), Configured(n), Slotted(n), Quiet(n)
  PROVE  Sound(n)' /\ Configured(n)' /\ Slotted(n)'
<1>1. cmd'[n] = cmd[n] /\ (server'[n].up => server[n].up)
  BY DEF Quiet
<1>2. cmd[n] \in Process /\ server[n] \in Machine
  BY TypeParts
<1>3. Sound(n)'
  BY <1>1 DEF Sound
<1>4. /\ conninfo'[n] = conninfo[n] /\ registry'[n].upstream = registry[n].upstream
      /\ \/ receiver'[n] \in {receiver[n], None}
         \/ receiver'[n] = conninfo[n] /\ n \in slots'[conninfo[n]]
  BY DEF Quiet
<1>5. Configured(n)'
  BY <1>1, <1>4 DEF Configured
<1>6. \A u \in Node : Has(n, u) => Has(n, u)'
  BY DEF Quiet, Has
<1>7. /\ \A u \in Node : <<u, n>> \in purged => <<u, n>> \in purged'
      /\ \A u \in Node : n \in slots'[u] => n \in slots[u] \/ <<u, n>> \in purged'
  BY DEF Quiet
<1>8. cmd[n].target \in Node /\ (cmd[n].op = "clone" => cmd[n].source \in Node)
  BY DEF Sound
<1>9. (cmd[n].op = "clone" /\ cmd[n].step \in {"backup", "upstream slot"} => Has(n, cmd[n].source))'
  BY <1>1, <1>6, <1>8 DEF Slotted
<1>10. (cmd[n].step = "drop source slot" /\ ~cmd[n].warned =>
          Has(n, cmd[n].target) /\ (cmd[n].source = cmd[n].target => <<cmd[n].target, n>> \in purged))'
  BY <1>1, <1>6, <1>7, <1>8 DEF Slotted
<1>11. (cmd[n].step \in {"write file", "write file only"} /\ ~cmd[n].warned => Has(n, cmd[n].target))'
  BY <1>1, <1>6, <1>8 DEF Slotted
<1>12. (cmd[n].step \in {"write conf", "restart", "drop old slot"} => Has(n, cmd[n].target))'
  BY <1>1, <1>6, <1>8 DEF Slotted
<1>13. (cmd[n].step \in {"update record", "wait"} =>
          Has(n, cmd[n].target) \/ (cmd[n].old = cmd[n].target /\ receiver[n] # cmd[n].target))'
  <2> SUFFICES ASSUME cmd[n].step \in {"update record", "wait"}, receiver'[n] = cmd[n].target
               PROVE  Has(n, cmd[n].target)'
    BY <1>1, <1>6, <1>8 DEF Slotted
  <2>1. CASE receiver'[n] = receiver[n]
    BY <1>1, <1>6, <1>8, <2>1 DEF Slotted
  <2>2. CASE receiver'[n] = conninfo[n] /\ n \in slots'[conninfo[n]]
    BY <1>1, <2>2 DEF Has
  <2>3. receiver'[n] # None
    BY <1>8, SlotsAssumption
  <2> QED BY <1>4, <2>1, <2>2, <2>3
<1>14. (cmd[n].op = "follow" /\ cmd[n].step \in {"update record", "wait"} /\ ~cmd[n].warned =>
          \/ cmd[n].old = cmd[n].target \/ n \notin slots[cmd[n].old]
          \/ <<cmd[n].old, n>> \in purged)'
  <2>1. cmd[n].op = "follow" /\ cmd[n].step \in {"update record", "wait"} => cmd[n].old \in Node
    BY DEF Sound
  <2> QED BY <1>1, <1>7, <2>1 DEF Slotted
<1>15. Slotted(n)'
  BY <1>9, <1>10, <1>11, <1>12, <1>13, <1>14 DEF Slotted
<1> QED BY <1>3, <1>5, <1>15

\* Creating or dropping a slot of m is nothing to n.
LEMMA SlotsOfOthers ==
  ASSUME slots \in Held, NEW n \in Node, NEW m \in Node \ {n}, NEW x \in Node \cup {None},
         \/ slots' = slots
         \/ slots' = DropSlot(m, x)
         \/ CanCreateSlot(m, x) /\ slots' = CreateSlot(m, x)
  PROVE  \A u \in Node : n \in slots'[u] <=> n \in slots[u]
<1>1. CASE slots' = DropSlot(m, x)
  BY <1>1, DropSlotIs
<1>2. CASE CanCreateSlot(m, x) /\ slots' = CreateSlot(m, x)
  BY <1>2, CreateSlotIs
<1> QED BY <1>1, <1>2

\* Nothing of n but perhaps its receiver is touched.
LEMMA AsideIsQuiet ==
  ASSUME NEW n \in Node, cmd'[n] = cmd[n], ~server[n].up => server'[n] = server[n],
         conninfo'[n] = conninfo[n],
         registry'[n] = registry[n], receiver'[n] \in {receiver[n], None},
         \A u \in Node : <<u, n>> \in purged => <<u, n>> \in purged',
         \A u \in Node : n \in slots'[u] <=> n \in slots[u]
  PROVE  Quiet(n)
BY DEF Quiet

LEMMA CommandIsQuiet ==
  ASSUME TypeOK, NEW m \in Node, CommandOf(m), NEW n \in Node \ {m}
  PROVE  Quiet(n)
<1>1. /\ server \in [Node -> Machine] /\ slots \in Held /\ receiver \in Upstreams
      /\ conninfo \in Upstreams /\ cmd \in [Node -> Process]
      /\ purged \subseteq Node \X Node /\ spent \in Bounds
  BY TypeParts
<1>2. ASSUME NEW emptied \in SUBSET Node, Begin(m, emptied)
      PROVE  \A u \in Node : /\ <<u, n>> \in purged => <<u, n>> \in purged'
                             /\ u \in emptied /\ Running(n) => <<u, n>> \in purged'
  BY <1>1, <1>2, BeginIs
<1>3. ASSUME NEW op \in Command, NEW step \in Step, NEW source \in Node \cup {None},
             NEW u \in Node, NEW rewind \in BOOLEAN, Run(m, op, step, source, u, rewind)
      PROVE  cmd'[n] = cmd[n]
  BY <1>1, <1>3, RunIs DEF Starts, Others
<1>4. ASSUME NEW source \in Node, NEW option \in Node \cup {None}, NEW force \in BOOLEAN,
             StandbyClone(m, source, option, force)
      PROVE  Quiet(n)
  <2>1. \E u \in Node : Run(m, "clone", "source slot", source, u, FALSE)
    BY <1>4, CloneTargetsAreNodes DEF StandbyClone
  <2>2. cmd'[n] = cmd[n]
    BY <1>3, <2>1, SomeSteps
  <2>3. UNCHANGED <<server, slots, receiver, conninfo, registry>> /\ Begin(m, {})
    BY <1>4 DEF StandbyClone
  <2>4. \A u \in Node : <<u, n>> \in purged => <<u, n>> \in purged'
    BY <1>2, <2>3
  <2> QED BY <2>2, <2>3, <2>4, AsideIsQuiet
<1>5. ASSUME NEW source \in Node, NEW option \in Node \cup {None}, NEW force \in BOOLEAN,
             BarmanClone(m, source, option, force)
      PROVE  Quiet(n)
  <2>1. /\ receiver' = Cut(m) /\ server'[n] = server[n] /\ cmd'[n] = cmd[n]
        /\ \A u \in Node : slots'[u] = IF u = m THEN {} ELSE slots[u]
    BY <1>5, BarmanIs DEF Starts, Ends, Others
  <2>2. Begin(m, {m}) /\ UNCHANGED <<conninfo, registry>>
    BY <1>5 DEF BarmanClone
  <2>3. \A u \in Node : /\ <<u, n>> \in purged => <<u, n>> \in purged'
                        /\ u = m /\ Running(n) => <<u, n>> \in purged'
    BY <1>2, <2>2
  <2>4. receiver'[n] \in {receiver[n], None}
    BY <1>1, <2>1, CutIs
  <2> QED BY <2>1, <2>2, <2>3, <2>4 DEF Quiet
<1>6. ASSUME NEW source \in Node, NEW option \in Node \cup {None}, NEW force \in BOOLEAN,
             CreateRecoveryConf(m, source, option, force)
      PROVE  Quiet(n)
  <2>1. \E u \in Node, step \in Step : Starts(m, "conf", step, source, u)
    BY <1>6, ConfIs, SomeSteps
  <2>2. cmd'[n] = cmd[n]
    BY <2>1 DEF Starts, Others
  <2>3. UNCHANGED <<server, slots, receiver, conninfo, registry>> /\ Begin(m, {})
    BY <1>6 DEF CreateRecoveryConf
  <2>4. \A u \in Node : <<u, n>> \in purged => <<u, n>> \in purged'
    BY <1>2, <2>3
  <2> QED BY <2>2, <2>3, <2>4, AsideIsQuiet
<1>7. ASSUME NEW option \in Node \cup {None}, StandbyFollow(m, option)
      PROVE  Quiet(n)
  <2>1. \E u \in Node : Run(m, "follow", "target slot", None, u, FALSE)
    BY <1>7 DEF StandbyFollow, FollowTargets, PrimaryConnections
  <2>2. cmd'[n] = cmd[n]
    BY <1>3, <2>1, SomeSteps
  <2>3. UNCHANGED <<server, slots, receiver, conninfo, registry>> /\ Begin(m, {})
    BY <1>7 DEF StandbyFollow
  <2>4. \A u \in Node : <<u, n>> \in purged => <<u, n>> \in purged'
    BY <1>2, <2>3
  <2> QED BY <2>2, <2>3, <2>4, AsideIsQuiet
<1>8. ASSUME NEW upstream \in Node, NEW rewind \in BOOLEAN, NodeRejoin(m, upstream, rewind)
      PROVE  Quiet(n)
  <2>1. PICK u \in Node, first \in {"rewind", "target slot"} : Run(m, "rejoin", first, None, u, rewind)
    BY <1>8 DEF NodeRejoin, RecordedPrimary
  <2>2. cmd'[n] = cmd[n]
    <3>1. first \in Step /\ "rejoin" \in Command /\ None \in Node \cup {None} /\ rewind \in BOOLEAN
      BY SomeSteps
    <3>2. Starts(m, "rejoin", first, None, u)
      BY <1>1, <2>1, <3>1, RunIs
    <3> QED BY <3>2 DEF Starts, Others
  <2>3. UNCHANGED <<server, slots, receiver, conninfo, registry>> /\ Begin(m, {})
    BY <1>8 DEF NodeRejoin
  <2>4. \A x \in Node : <<x, n>> \in purged => <<x, n>> \in purged'
    BY <1>2, <2>3
  <2> QED BY <2>2, <2>3, <2>4, AsideIsQuiet
<1> QED BY <1>4, <1>5, <1>6, <1>7, <1>8 DEF CommandOf

LEMMA StepIsQuiet ==
  ASSUME TypeOK, NEW m \in Node, StepOf(m), NEW n \in Node \ {m}
  PROVE  Quiet(n)
<1>1. /\ server \in [Node -> Machine] /\ slots \in Held /\ receiver \in Upstreams
      /\ conninfo \in Upstreams /\ cmd \in [Node -> Process] /\ registry \in [Node -> NodeRecord]
      /\ purged \subseteq Node \X Node
  BY TypeParts
<1>2. cmd[m].source \in Node \cup {None} /\ cmd[m].target \in Node \cup {None} /\ cmd[m].old \in Node \cup {None}
  BY <1>1 DEF Process
<1>3. \A step \in Step : Continue(m, step) \/ Warn(m, step) => cmd'[n] = cmd[n]
  BY <1>1, ContinueIs, WarnIs DEF GoesOn, Others
<1>4. (\E code \in Exit : Abort(m, code)) \/ Succeed(m) => cmd'[n] = cmd[n]
  BY <1>1, AbortIs, SucceedIs DEF Ends, Others
<1>5. ASSUME NEW x \in {cmd[m].source, cmd[m].target, cmd[m].old},
             \/ slots' = slots
             \/ slots' = DropSlot(m, x)
             \/ CanCreateSlot(m, x) /\ slots' = CreateSlot(m, x)
      PROVE  \A u \in Node : n \in slots'[u] <=> n \in slots[u]
  BY <1>1, <1>2, <1>5, SlotsOfOthers
<1>6. CASE InitialiseDirectClone(m)
  <2> DEFINE emptied == [slots EXCEPT ![m] = {}]
             source == cmd[m].source
  <2>1. server' = [server EXCEPT ![m].data = "none"]
    BY <1>6 DEF InitialiseDirectClone
  <2>2. server'[n] = server[n]
    BY <1>1, <2>1
  <2>3. cmd'[n] = cmd[n]
    BY <1>3, <1>4, <1>6, SomeSteps, SomeExits DEF InitialiseDirectClone
  <2>4. emptied \in Held /\ \A u \in Node : emptied[u] = IF u = m THEN {} ELSE slots[u]
    BY <1>1, EmptiedIs
  <2>5. \/ slots' = emptied
        \/ CanCreateSlot(m, source) /\ slots' = [emptied EXCEPT ![source] = @ \cup {m}]
    BY <1>6 DEF InitialiseDirectClone
  <2> HIDE DEF emptied, source
  <2>6. \A u \in Node : n \in slots'[u] <=> u # m /\ n \in slots[u]
    BY <2>4, <2>5 DEF Held
  <2>7. \A u \in Node : /\ <<u, n>> \in purged => <<u, n>> \in purged'
                        /\ u = m /\ Running(n) => <<u, n>> \in purged'
    BY <1>1, <1>6, PurgeIs DEF InitialiseDirectClone
  <2>8. UNCHANGED <<receiver, conninfo, registry>>
    BY <1>6 DEF InitialiseDirectClone
  <2> QED BY <2>2, <2>3, <2>6, <2>7, <2>8 DEF Quiet
<1>7. CASE RunBasebackup(m)
  <2>1. cmd'[n] = cmd[n]
    BY <1>3, <1>4, <1>7, SomeSteps, SomeExits DEF RunBasebackup
  <2>2. \A u \in Node : n \in slots'[u] <=> n \in slots[u]
    BY <1>5, <1>7 DEF RunBasebackup
  <2>3. \/ server' = server
        \/ server' = [server EXCEPT ![m].data = "backup", ![m].ended = "unclean"]
    BY <1>7 DEF RunBasebackup
  <2>4. server'[n] = server[n]
    BY <1>1, <2>3
  <2>5. UNCHANGED <<receiver, conninfo, registry, purged>>
    BY <1>7 DEF RunBasebackup
  <2> QED BY <2>1, <2>2, <2>4, <2>5, AsideIsQuiet
<1>8. CASE MoveSlotToUpstream(m)
  <2>1. \/ Warn(m, "drop source slot") \/ Continue(m, "write file")
        \/ Continue(m, "drop source slot") \/ Abort(m, "ERR_DB_QUERY")
    BY <1>8 DEF MoveSlotToUpstream, Continue
  <2>2. cmd'[n] = cmd[n]
    BY <1>3, <1>4, <2>1, SomeSteps, SomeExits
  <2>3. slots' = slots \/ (CanCreateSlot(m, cmd[m].target) /\ slots' = CreateSlot(m, cmd[m].target))
    BY <1>8 DEF MoveSlotToUpstream
  <2>4. \A u \in Node : n \in slots'[u] <=> n \in slots[u]
    BY <1>5, <2>3
  <2>5. UNCHANGED <<server, receiver, conninfo, registry, purged>>
    BY <1>8 DEF MoveSlotToUpstream
  <2> QED BY <2>2, <2>4, <2>5, AsideIsQuiet
<1>9. CASE DropSourceSlot(m)
  <2>1. cmd'[n] = cmd[n]
    BY <1>3, <1>9, SomeSteps DEF DropSourceSlot
  <2>2. \A u \in Node : n \in slots'[u] <=> n \in slots[u]
    BY <1>5, <1>9 DEF DropSourceSlot
  <2>3. UNCHANGED <<server, receiver, conninfo, registry, purged>>
    BY <1>9 DEF DropSourceSlot
  <2> QED BY <2>1, <2>2, <2>3, AsideIsQuiet
<1>10. CASE FetchFileBackup(m)
  <2>1. cmd'[n] = cmd[n]
    BY <1>3, <1>4, <1>10, SomeSteps, SomeExits DEF FetchFileBackup
  <2>2. server' = server \/ server' = [server EXCEPT ![m].data = "backup", ![m].ended = "unclean"]
    BY <1>10 DEF FetchFileBackup
  <2>3. server'[n] = server[n]
    BY <1>1, <2>2, BackupIs
  <2>4. UNCHANGED <<slots, receiver, conninfo, registry, purged>>
    BY <1>10 DEF FetchFileBackup
  <2> QED BY <2>1, <2>3, <2>4, AsideIsQuiet
<1>11. CASE FileBackupFails(m)
  <2>1. cmd'[n] = cmd[n]
    BY <1>4, <1>11, SomeExits DEF FileBackupFails
  <2>2. \A u \in Node : n \in slots'[u] <=> n \in slots[u]
    BY <1>5, <1>11 DEF FileBackupFails
  <2>3. UNCHANGED <<server, receiver, conninfo, registry, purged>>
    BY <1>11 DEF FileBackupFails
  <2> QED BY <2>1, <2>2, <2>3, AsideIsQuiet
<1>12. CASE BarmanUpstreamSlot(m)
  <2>1. Warn(m, "write file") \/ Continue(m, "write file")
    BY <1>12 DEF BarmanUpstreamSlot
  <2>2. cmd'[n] = cmd[n]
    BY <1>3, <2>1, SomeSteps
  <2>3. slots' = slots \/ (CanCreateSlot(m, cmd[m].target) /\ slots' = CreateSlot(m, cmd[m].target))
    BY <1>12 DEF BarmanUpstreamSlot
  <2>4. \A u \in Node : n \in slots'[u] <=> n \in slots[u]
    BY <1>5, <2>3
  <2>5. UNCHANGED <<server, receiver, conninfo, registry, purged>>
    BY <1>12 DEF BarmanUpstreamSlot
  <2> QED BY <2>2, <2>4, <2>5, AsideIsQuiet
<1>13. CASE FinishClone(m) \/ WriteConf(m)
  <2>1. cmd'[n] = cmd[n]
    BY <1>3, <1>4, <1>13, SomeSteps, SomeExits DEF FinishClone, WriteConf, GeneralError
  <2>2. RecoveryFileWritten(m) \/ UNCHANGED <<conninfo, server>>
    BY <1>13 DEF FinishClone, WriteConf
  <2>3. server'[n] = server[n] /\ conninfo'[n] = conninfo[n]
    BY <1>1, <2>2, WrittenIs
  <2>4. UNCHANGED <<slots, receiver, registry, purged>>
    BY <1>13 DEF FinishClone, WriteConf
  <2> QED BY <2>1, <2>3, <2>4, AsideIsQuiet
<1>14. CASE WriteRecoveryConf(m)
  <2>1. cmd'[n] = cmd[n]
    BY <1>4, <1>14, SomeExits DEF WriteRecoveryConf
  <2>2. RecoveryFileWritten(m) \/ UNCHANGED <<conninfo, server>>
    BY <1>14 DEF WriteRecoveryConf
  <2>3. server'[n] = server[n] /\ conninfo'[n] = conninfo[n]
    BY <1>1, <2>2, WrittenIs
  <2>4. slots' = slots \/ (CanCreateSlot(m, cmd[m].target) /\ slots' = CreateSlot(m, cmd[m].target))
    BY <1>14 DEF WriteRecoveryConf
  <2>5. \A u \in Node : n \in slots'[u] <=> n \in slots[u]
    BY <1>5, <2>4
  <2>6. UNCHANGED <<receiver, registry, purged>>
    BY <1>14 DEF WriteRecoveryConf
  <2> QED BY <2>1, <2>3, <2>5, <2>6, AsideIsQuiet
<1>15. ASSUME NEW hostGiven \in BOOLEAN, CreateTargetSlot(m, hostGiven)
       PROVE  Quiet(n)
  <2>1. \/ \E code \in Exit : Abort(m, code)
        \/ Continue(m, "write conf")
        \/ \E old \in Node \cup {None} : cmd' = [cmd EXCEPT ![m].step = "write conf", ![m].old = old]
    BY <1>1, <1>2, <1>15, SomeExits DEF CreateTargetSlot, NodeRecord
  <2>2. cmd'[n] = cmd[n]
    BY <1>1, <1>3, <1>4, <2>1, SomeSteps
  <2>3. slots' = slots \/ (CanCreateSlot(m, cmd[m].target) /\ slots' = CreateSlot(m, cmd[m].target))
    BY <1>15 DEF CreateTargetSlot
  <2>4. \A u \in Node : n \in slots'[u] <=> n \in slots[u]
    BY <1>5, <2>3
  <2>5. UNCHANGED <<server, receiver, conninfo, registry, purged>>
    BY <1>15 DEF CreateTargetSlot
  <2> QED BY <2>2, <2>4, <2>5, AsideIsQuiet
<1>16. CASE RestartServer(m)
  <2>1. \/ Continue(m, "drop old slot") \/ Continue(m, "update record") \/ Abort(m, "ERR_NO_RESTART")
    BY <1>16 DEF RestartServer
  <2>2. cmd'[n] = cmd[n]
    BY <1>3, <1>4, <2>1, SomeSteps, SomeExits
  <2>4. server'[n] = server[n]
    BY <1>1, <1>16, RestartedIs
  <2>5. receiver'[n] \in {receiver[n], None}
    BY <1>1, <1>16, RestartedIs, CutIs
  <2>6. UNCHANGED <<slots, conninfo, registry, purged>>
    BY <1>16 DEF RestartServer
  <2> QED BY <2>2, <2>4, <2>5, <2>6, AsideIsQuiet
<1>17. CASE DropOldSlot(m)
  <2>1. cmd'[n] = cmd[n]
    BY <1>3, <1>17, SomeSteps DEF DropOldSlot
  <2>2. \A u \in Node : n \in slots'[u] <=> n \in slots[u]
    BY <1>5, <1>17 DEF DropOldSlot
  <2>3. UNCHANGED <<server, receiver, conninfo, registry, purged>>
    BY <1>17 DEF DropOldSlot
  <2> QED BY <2>1, <2>2, <2>3, AsideIsQuiet
<1>18. CASE UpdateRecord(m)
  <2>1. cmd'[n] = cmd[n]
    BY <1>3, <1>4, <1>18, SomeSteps, SomeExits DEF UpdateRecord
  <2>2. registry' = registry \/ registry' = [registry EXCEPT ![m] = StandbyRecord(cmd[m].target)]
    BY <1>18 DEF UpdateRecord
  <2>3. registry'[n] = registry[n]
    BY <1>1, <2>2
  <2>4. UNCHANGED <<server, slots, receiver, conninfo, purged>>
    BY <1>18 DEF UpdateRecord
  <2> QED BY <2>1, <2>3, <2>4, AsideIsQuiet
<1>19. CASE AwaitAttachment(m)
  <2>1. cmd'[n] = cmd[n]
    BY <1>4, <1>19, SomeExits DEF AwaitAttachment, GeneralError
  <2>2. \/ UNCHANGED <<slots, purged>>
        \/ Purge(m) /\ (slots' = slots \/ slots' = DropSlot(cmd[m].target, m))
    BY <1>19 DEF AwaitAttachment, SlotsAfterRejoin
  <2>3. \A u \in Node : /\ n \in slots'[u] => n \in slots[u]
                        /\ n \in slots[u] => n \in slots'[u] \/ u = m
    <3>1. CASE slots' = DropSlot(cmd[m].target, m)
      <4>1. \A u \in Node : slots'[u] = slots[u] \/ slots'[u] = slots[u] \ {cmd[m].target}
        BY <1>1, <3>1, DropSlotIs
      <4>2. \A u \in Node \ {m} : slots'[u] = slots[u]
        BY <1>1, <3>1, DropSlotIs
      <4> QED BY <4>1, <4>2
    <3> QED BY <2>2, <3>1
  <2>4. UNCHANGED <<slots, purged>> \/ Purge(m)
    BY <2>2
  <2>5. \A u \in Node : <<u, n>> \in purged => <<u, n>> \in purged'
    BY <1>1, <2>4, PurgeIs
  <2>6. Running(n) => UNCHANGED slots \/ <<m, n>> \in purged'
    BY <1>1, <2>4, PurgeIs
  <2>7. UNCHANGED <<server, receiver, conninfo, registry>>
    BY <1>19 DEF AwaitAttachment
  <2> QED BY <2>1, <2>3, <2>5, <2>6, <2>7 DEF Quiet
<1>20. CASE Rewind(m) \/ DeleteCopiedSlots(m)
  <2>1. cmd'[n] = cmd[n]
    BY <1>3, <1>4, <1>20, SomeSteps, SomeExits DEF Rewind, DeleteCopiedSlots
  <2>2. UNCHANGED <<slots, purged>> \/ Purge(m)
    BY <1>20, RewindIs DEF DeleteCopiedSlots
  <2>3. \A u \in Node \ {m} : slots'[u] = slots[u]
    <3>1. CASE Rewind(m)
      BY <3>1, RewindIs
    <3>2. CASE DeleteCopiedSlots(m)
      <4>1. slots' = slots \/ \E kept \in SUBSET slots[m] : slots' = [slots EXCEPT ![m] = kept]
        BY <3>2 DEF DeleteCopiedSlots
      <4>2. ASSUME NEW kept \in SUBSET slots[m], slots' = [slots EXCEPT ![m] = kept]
            PROVE  \A u \in Node \ {m} : slots'[u] = slots[u]
        BY <4>2
      <4> QED BY <4>1, <4>2
    <3> QED BY <1>20, <3>1, <3>2
  <2>4. \A u \in Node : <<u, n>> \in purged => <<u, n>> \in purged'
    BY <1>1, <2>2, PurgeIs
  <2>5. Running(n) => UNCHANGED slots \/ <<m, n>> \in purged'
    BY <1>1, <2>2, PurgeIs
  <2>6. UNCHANGED <<receiver, conninfo, registry>> /\ server'[n] = server[n]
    BY <1>20, RewindIs DEF Rewind, DeleteCopiedSlots
  <2> QED BY <2>1, <2>3, <2>4, <2>5, <2>6 DEF Quiet
<1> QED BY <1>6, <1>7, <1>8, <1>9, <1>10, <1>11, <1>12, <1>13, <1>14, <1>15, <1>16, <1>17, <1>18,
           <1>19, <1>20 DEF StepOf

\* The operator starts, promotes and registers no node on which a command runs.
LEMMA EnvironmentIsQuiet ==
  ASSUME TypeOK, NEW m \in Node, Environment(m), NEW n \in Node, Killed(m) => n # m
  PROVE  Quiet(n)
<1>1. /\ server \in [Node -> Machine] /\ receiver \in Upstreams /\ cmd \in [Node -> Process]
      /\ conninfo \in Upstreams /\ registry \in [Node -> NodeRecord]
  BY TypeParts
<1>2. ASSUME NEW ended \in Ending, ServerDown(m, ended) PROVE Quiet(n)
  <2>1. server' = [server EXCEPT ![m].up = FALSE, ![m].ended = ended] /\ server[m].up
    BY <1>2 DEF ServerDown
  <2>2. ~server[n].up => server'[n] = server[n]
    BY <1>1, <2>1
  <2>3. receiver' = Cut(m)
    BY <1>2 DEF ServerDown
  <2>4. receiver'[n] \in {receiver[n], None}
    BY <1>1, <2>3, CutIs
  <2>5. UNCHANGED <<slots, conninfo, registry, cmd, purged>>
    BY <1>2 DEF ServerDown
  <2> QED BY <2>2, <2>4, <2>5, AsideIsQuiet
<1>3. CASE ServerUp(m)
  <2> DEFINE data == IF conninfo[m] = None THEN server[m].data ELSE "standby"
             started == [server[m] EXCEPT !.up = TRUE, !.ended = "clean", !.data = data]
  <2>1. server' = [server EXCEPT ![m] = started] /\ ~Running(m)
    BY <1>3 DEF ServerUp, Idle, Running
  <2> HIDE DEF started
  <2>2. Running(n) => server'[n] = server[n]
    BY <1>1, <2>1
  <2>3. UNCHANGED <<slots, receiver, conninfo, registry, cmd, purged>>
    BY <1>3 DEF ServerUp
  <2> QED BY <2>2, <2>3 DEF Quiet
<1>4. CASE ReceiverStarts(m)
  <2>1. receiver' = [receiver EXCEPT ![m] = conninfo[m]] /\ m \in slots[conninfo[m]]
    BY <1>4 DEF ReceiverStarts, SlotFound
  <2>2. UNCHANGED <<server, slots, conninfo, registry, cmd, purged>>
    BY <1>4 DEF ReceiverStarts
  <2>3. receiver'[n] = receiver[n] \/ (receiver'[n] = conninfo[n] /\ n \in slots[conninfo[n]])
    BY <1>1, <2>1 DEF Upstreams
  <2> QED BY <2>2, <2>3 DEF Quiet
<1>5. CASE Stream(m) \/ Write(m)
  <2>1. UNCHANGED <<server, slots, receiver, conninfo, registry, cmd, purged>>
    BY <1>5 DEF Stream, Write
  <2> QED BY <2>1, AsideIsQuiet
<1>6. CASE StandbyPromote(m)
  <2>1. /\ server' = [server EXCEPT ![m].data = "primary"]
        /\ receiver' = Detached({m})
        /\ conninfo' = [conninfo EXCEPT ![m] = None]
        /\ ~Running(m)
    BY <1>6 DEF StandbyPromote, Idle, Running
  <2>2. registry' = [k \in Node |->
          IF k = m THEN [type |-> "primary", active |-> TRUE, upstream |-> None]
          ELSE IF registry[k].type = "primary" THEN [registry[k] EXCEPT !.active = FALSE]
          ELSE registry[k]]
    BY <1>6 DEF StandbyPromote
  <2>3. Running(n) => server'[n] = server[n] /\ conninfo'[n] = conninfo[n]
    BY <1>1, <2>1 DEF Upstreams
  <2>4. receiver'[n] \in {receiver[n], None}
    BY <1>1, <2>1, DetachedIs
  <2>5. [registry[n] EXCEPT !.active = FALSE].upstream = registry[n].upstream
    BY <1>1 DEF NodeRecord
  <2>6. Running(n) => registry'[n].upstream = registry[n].upstream
    BY <2>1, <2>2, <2>5
  <2>7. UNCHANGED <<slots, cmd, purged>>
    BY <1>6 DEF StandbyPromote
  <2> QED BY <2>3, <2>4, <2>6, <2>7 DEF Quiet
<1>7. CASE StandbyRegister(m)
  <2>1. registry' = [registry EXCEPT ![m] = StandbyRecord(conninfo[m])] /\ ~Running(m)
    BY <1>7 DEF StandbyRegister, Idle, Running
  <2>2. Running(n) => registry'[n] = registry[n]
    BY <1>1, <2>1
  <2>3. UNCHANGED <<server, slots, receiver, conninfo, cmd, purged>>
    BY <1>7 DEF StandbyRegister
  <2> QED BY <2>2, <2>3 DEF Quiet
<1>8. CASE Killed(m)
  <2>1. cmd'[n] = cmd[n]
    BY <1>1, <1>8, AbortIs, SomeExits DEF Killed, Ends, Others
  <2>2. UNCHANGED <<server, slots, receiver, conninfo, registry, purged>>
    BY <1>8 DEF Killed
  <2> QED BY <2>1, <2>2, AsideIsQuiet
<1> QED BY <1>2, <1>3, <1>4, <1>5, <1>6, <1>7, <1>8 DEF Environment

\* A command that is killed is over, and reports nothing.
LEMMA KilledEnds ==
  ASSUME TypeOK, NEW n \in Node, Killed(n)
  PROVE  Ends(n) /\ ~cmd'[n].done /\ ~Running(n)'
<1>1. cmd \in [Node -> Process] /\ "none" \in Exit
  BY TypeParts, SomeExits
<1> QED BY <1>1, AbortIs DEF Killed, Ends, Running
-----------------------------------------------------------------------------
(* A command and its own steps. *)

Resting(n) == Sound(n) /\ Configured(n) /\ Slotted(n)

\* A command that starts has looked at the node and the slot.
LEMMA CommandStarts ==
  ASSUME TypeOK, NEW n \in Node, CommandOf(n), Running(n)'
  PROVE  Resting(n)'
<1>1. /\ server \in [Node -> Machine] /\ slots \in Held /\ cmd \in [Node -> Process]
  BY TypeParts
<1>2. ASSUME NEW source \in Node, NEW option \in Node \cup {None}, NEW force \in BOOLEAN,
             StandbyClone(n, source, option, force)
      PROVE  Resting(n)'
  <2>1. PICK u \in Node : Run(n, "clone", "source slot", source, u, FALSE)
    BY <1>2, CloneTargetsAreNodes DEF StandbyClone
  <2>2. Starts(n, "clone", "source slot", source, u)
    BY <1>1, <2>1, RunIs, SomeSteps
  <2>3. ~server[n].up /\ UNCHANGED server
    BY <1>2 DEF StandbyClone, NotRunning
  <2>4. Sound(n)'
    BY <2>2, <2>3 DEF Sound, Starts, StepsOf
  <2> QED BY <2>2, <2>4 DEF Starts, Resting, Configured, Slotted
<1>3. ASSUME NEW source \in Node, NEW option \in Node \cup {None}, NEW force \in BOOLEAN,
             BarmanClone(n, source, option, force)
      PROVE  Resting(n)'
  <2>1. /\ ~server'[n].up
        /\ (\E u \in Node : Starts(n, "barman", "backup", source, u)) \/ Ends(n)
    BY <1>3, BarmanIs
  <2>2. ~Ends(n)
    BY DEF Ends, Running
  <2>3. PICK u \in Node : Starts(n, "barman", "backup", source, u)
    BY <2>1, <2>2
  <2>4. Sound(n)'
    BY <2>1, <2>3 DEF Sound, Starts, StepsOf
  <2> QED BY <2>3, <2>4 DEF Starts, Resting, Configured, Slotted
<1>4. ASSUME NEW source \in Node, NEW option \in Node \cup {None}, NEW force \in BOOLEAN,
             CreateRecoveryConf(n, source, option, force)
      PROVE  Resting(n)'
  <2>1. PICK u \in Node :
          \/ /\ Starts(n, "conf", "write file only", source, u)
             /\ SlotFound(n, u) \/ cmd'[n].warned
          \/ Starts(n, "conf", "write file, then slot", source, u)
    BY <1>4, ConfIs
  <2>2. slots' = slots
    BY <1>4 DEF CreateRecoveryConf
  <2>3. Sound(n)' /\ Configured(n)'
    BY <2>1 DEF Sound, Configured, Starts, StepsOf
  <2>4. Slotted(n)'
    BY <2>1, <2>2 DEF Slotted, Has, SlotFound, Starts
  <2> QED BY <2>3, <2>4 DEF Resting
<1>5. ASSUME NEW option \in Node \cup {None}, StandbyFollow(n, option)
      PROVE  Resting(n)'
  <2>1. PICK u \in Node : Run(n, "follow", "target slot", None, u, FALSE)
    BY <1>5 DEF StandbyFollow, FollowTargets, PrimaryConnections
  <2>2. Starts(n, "follow", "target slot", None, u)
    BY <1>1, <2>1, RunIs, SomeSteps
  <2>3. Sound(n)'
    BY <2>2 DEF Sound, Starts, StepsOf, Following
  <2> QED BY <2>2, <2>3 DEF Starts, Resting, Configured, Slotted
<1>6. ASSUME NEW upstream \in Node, NEW rewind \in BOOLEAN, NodeRejoin(n, upstream, rewind)
      PROVE  Resting(n)'
  <2>1. PICK u \in Node, first \in {"rewind", "target slot"} :
          Reachable(u) /\ Run(n, "rejoin", first, None, u, rewind)
    BY <1>6 DEF NodeRejoin, RecordedPrimary
  <2>2. first \in Step /\ "rejoin" \in Command /\ None \in Node \cup {None} /\ rewind \in BOOLEAN
    BY SomeSteps
  <2>3. Starts(n, "rejoin", first, None, u)
    BY <1>1, <2>1, <2>2, RunIs
  <2>4. ~server[n].up /\ UNCHANGED server /\ u # n
    BY <1>6, <2>1 DEF NodeRejoin, Reachable
  <2>5. Sound(n)'
    BY <2>3, <2>4 DEF Sound, Starts, StepsOf, Following
  <2> QED BY <2>3, <2>5 DEF Starts, Resting, Configured, Slotted
<1> QED BY <1>2, <1>3, <1>4, <1>5, <1>6 DEF CommandOf

\* Which command a step is of.
LEMMA StepTellsCommand ==
  ASSUME NEW n \in Node, Sound(n), cmd[n] \in Process
  PROVE  /\ cmd[n].step \in {"source slot", "drop source slot"} => cmd[n].op = "clone"
         /\ cmd[n].step \in {"restart", "drop old slot", "update record", "wait", "write conf", "target slot"}
              => cmd[n].op \in {"follow", "rejoin"}
         /\ cmd[n].step \in {"rewind", "copied slots"} => cmd[n].op = "rejoin"
         /\ cmd[n].step \in {"backup", "upstream slot", "write file"} => cmd[n].op \in {"clone", "barman"}
<1>1. cmd[n].step \in StepsOf(cmd[n].op)
  BY DEF Sound
<1>2. cmd[n].op \in {"none", "clone", "barman", "conf", "follow", "rejoin"}
  BY DEF Process, Command
<1> QED BY <1>1, <1>2 DEF StepsOf, Following

LEMMA StepKeeps ==
  ASSUME TypeOK, NEW n \in Node, StepOf(n), Running(n) => Resting(n), Running(n)'
  PROVE  Resting(n)'
<1>1. /\ server \in [Node -> Machine] /\ slots \in Held /\ receiver \in Upstreams
      /\ conninfo \in Upstreams /\ cmd \in [Node -> Process] /\ registry \in [Node -> NodeRecord]
      /\ purged \subseteq Node \X Node /\ cmd[n] \in Process
  BY TypeParts
<1>2. Running(n)
  BY DEF StepOf, InitialiseDirectClone, RunBasebackup, MoveSlotToUpstream, DropSourceSlot, FetchFileBackup,
     FileBackupFails, BarmanUpstreamSlot, FinishClone, WriteRecoveryConf, CreateTargetSlot, WriteConf,
     RestartServer, DropOldSlot, UpdateRecord, AwaitAttachment, Rewind, DeleteCopiedSlots, At, Running
<1>3. Sound(n) /\ Configured(n) /\ Slotted(n)
  BY <1>2 DEF Resting
<1>4. cmd[n].target \in Node /\ ~cmd[n].done
  BY <1>3 DEF Sound
<1>5. ~Succeed(n) /\ \A code \in Exit : ~Abort(n, code)
  BY <1>1, AbortIs, SucceedIs DEF Ends, Running
<1>6. \A step \in Step : Continue(n, step) =>
        GoesOn(n, step) /\ cmd'[n].warned = cmd[n].warned /\ cmd'[n].old = cmd[n].old
  BY <1>1, ContinueIs
<1>7. \A step \in Step : Warn(n, step) => GoesOn(n, step) /\ cmd'[n].warned /\ cmd'[n].old = cmd[n].old
  BY <1>1, WarnIs
<1>8. CASE InitialiseDirectClone(n)
  <2> DEFINE emptied == [slots EXCEPT ![n] = {}]
             source == cmd[n].source
  <2>1. /\ cmd[n].op = "clone" /\ source \in Node /\ ~server[n].up
    BY <1>1, <1>3, <1>8, StepTellsCommand DEF InitialiseDirectClone, At, Sound
  <2>2. Continue(n, "backup") /\ slots' = [emptied EXCEPT ![source] = @ \cup {n}]
    BY <1>5, <1>8, SomeExits DEF InitialiseDirectClone
  <2>3. server' = [server EXCEPT ![n].data = "none"]
    BY <1>8 DEF InitialiseDirectClone
  <2>4. ~server'[n].up
    BY <1>1, <2>1, <2>3 DEF Machine
  <2>5. emptied \in Held
    BY <1>1, EmptiedIs
  <2>6. GoesOn(n, "backup")
    BY <1>6, <2>2, SomeSteps
  <2> HIDE DEF emptied
  <2>7. n \in slots'[source]
    BY <2>1, <2>2, <2>5 DEF Held
  <2>8. Sound(n)'
    BY <1>4, <2>1, <2>4, <2>6 DEF Sound, GoesOn, StepsOf
  <2>9. Slotted(n)' /\ Configured(n)'
    BY <2>1, <2>6, <2>7 DEF Slotted, Configured, GoesOn, Has
  <2> QED BY <2>8, <2>9 DEF Resting
<1>9. CASE RunBasebackup(n)
  <2>1. cmd[n].op = "clone" /\ cmd[n].step = "backup"
    BY <1>9 DEF RunBasebackup, At
  <2>2. cmd[n].source \in Node /\ ~server[n].up /\ Has(n, cmd[n].source)
    BY <1>3, <2>1 DEF Sound, Slotted
  <2>3. Continue(n, "upstream slot") /\ server' = [server EXCEPT ![n].data = "backup", ![n].ended = "unclean"]
    BY <1>5, <1>9, SomeExits DEF RunBasebackup
  <2>4. slots' = slots /\ purged' = purged
    BY <1>5, <1>9, SomeExits DEF RunBasebackup
  <2>5. ~server'[n].up
    BY <1>1, <2>2, <2>3, BackupIs
  <2>6. GoesOn(n, "upstream slot")
    BY <1>6, <2>3, SomeSteps
  <2>7. Sound(n)'
    BY <1>4, <2>1, <2>2, <2>5, <2>6 DEF Sound, GoesOn, StepsOf
  <2>8. Slotted(n)' /\ Configured(n)'
    BY <2>1, <2>2, <2>4, <2>6 DEF Slotted, Configured, GoesOn, Has
  <2> QED BY <2>7, <2>8 DEF Resting
<1>10. CASE MoveSlotToUpstream(n)
  <2> DEFINE upstream == cmd[n].target
  <2>1. /\ cmd[n].op = "clone" /\ cmd[n].step = "upstream slot"
        /\ UNCHANGED <<server, purged>>
    BY <1>10 DEF MoveSlotToUpstream, At
  <2>2. cmd[n].source \in Node /\ ~server[n].up /\ Has(n, cmd[n].source)
    BY <1>3, <2>1 DEF Sound, Slotted
  <2>3. \/ Warn(n, "drop source slot")
        \/ Continue(n, "write file") /\ n \in slots[upstream] /\ slots' = slots
        \/ /\ Continue(n, "drop source slot") /\ n \notin slots[upstream]
           /\ CanCreateSlot(n, upstream) /\ slots' = CreateSlot(n, upstream)
    BY <1>5, <1>10, SomeExits DEF MoveSlotToUpstream, SlotFound, Continue
  <2> HIDE DEF upstream
  <2>4. CASE Warn(n, "drop source slot")
    <3>1. GoesOn(n, "drop source slot") /\ cmd'[n].warned
      BY <1>7, <2>4, SomeSteps
    <3>2. Sound(n)'
      BY <1>4, <2>1, <2>2, <3>1 DEF Sound, GoesOn, StepsOf
    <3> QED BY <3>1, <3>2 DEF Slotted, Configured, GoesOn, Resting
  <2>5. CASE Continue(n, "write file") /\ n \in slots[upstream] /\ slots' = slots
    <3>1. GoesOn(n, "write file")
      BY <1>6, <2>5, SomeSteps
    <3>2. Sound(n)'
      BY <1>4, <2>1, <2>2, <3>1 DEF Sound, GoesOn, StepsOf
    <3> QED BY <2>5, <3>1, <3>2 DEF Slotted, Configured, GoesOn, Resting, Has, upstream
  <2>6. CASE /\ Continue(n, "drop source slot") /\ n \notin slots[upstream]
             /\ CanCreateSlot(n, upstream) /\ slots' = CreateSlot(n, upstream)
    <3>1. GoesOn(n, "drop source slot")
      BY <1>6, <2>6, SomeSteps
    <3>2. Sound(n)'
      BY <1>4, <2>1, <2>2, <3>1 DEF Sound, GoesOn, StepsOf
    <3>3. upstream \in Node
      BY <1>4 DEF upstream
    <3>4. n \in slots'[upstream]
      <4>1. CreateSlot(n, upstream)[upstream] = slots[upstream] \cup {n}
        BY <1>1, <2>6, <3>3, CreateSlotIs
      <4> QED BY <2>6, <4>1
    <3>5. cmd[n].source = upstream => <<upstream, n>> \in purged'
      BY <2>1, <2>2, <2>6 DEF Has
    <3> QED BY <3>1, <3>2, <3>4, <3>5 DEF Slotted, Configured, GoesOn, Resting, Has, upstream
  <2> QED BY <2>3, <2>4, <2>5, <2>6
<1>11. CASE DropSourceSlot(n)
  <2>1. /\ cmd[n].step = "drop source slot" /\ slots' = DropSlot(n, cmd[n].source)
        /\ Warn(n, "write file") \/ Continue(n, "write file")
        /\ UNCHANGED <<server, purged>>
    BY <1>11 DEF DropSourceSlot, At
  <2>2. cmd[n].op = "clone" /\ cmd[n].source \in Node /\ ~server[n].up
    BY <1>1, <1>3, <2>1, StepTellsCommand DEF Sound
  <2>3. GoesOn(n, "write file") /\ (~cmd'[n].warned => ~cmd[n].warned)
    BY <1>6, <1>7, <2>1, SomeSteps
  <2>4. Sound(n)'
    BY <1>4, <2>1, <2>2, <2>3 DEF Sound, GoesOn, StepsOf
  <2>5. \A u \in Node \ {cmd[n].source} : slots'[u] = slots[u]
    <3>1. \A u \in Node \ {cmd[n].source} : DropSlot(n, cmd[n].source)[u] = slots[u]
      BY <1>1, <2>2, DropSlotIs
    <3> QED BY <2>1, <3>1
  <2>6. ~cmd[n].warned => Has(n, cmd[n].target)'
    BY <1>3, <1>4, <2>1, <2>5, <2>3 DEF Slotted, Has, GoesOn
  <2> QED BY <2>3, <2>4, <2>6 DEF Slotted, Configured, GoesOn, Resting, Has
<1>12. CASE FetchFileBackup(n)
  <2>1. cmd[n].op = "barman" /\ cmd[n].step = "backup"
    BY <1>12 DEF FetchFileBackup, At
  <2>2. /\ Continue(n, "upstream slot")
        /\ server' = [server EXCEPT ![n].data = "backup", ![n].ended = "unclean"]
    BY <1>5, <1>12, SomeExits DEF FetchFileBackup
  <2>3. ~server[n].up
    BY <1>3, <2>1 DEF Sound
  <2>4. ~server'[n].up
    BY <1>1, <2>2, <2>3, BackupIs
  <2>5. GoesOn(n, "upstream slot")
    BY <1>6, <2>2, SomeSteps
  <2>6. Sound(n)'
    BY <1>4, <2>1, <2>4, <2>5 DEF Sound, GoesOn, StepsOf
  <2> QED BY <2>1, <2>5, <2>6 DEF Slotted, Configured, GoesOn, Resting
<1>13. CASE FileBackupFails(n)
  BY <1>5, <1>13, SomeExits DEF FileBackupFails
<1>14. CASE BarmanUpstreamSlot(n)
  <2> DEFINE upstream == cmd[n].target
  <2>1. cmd[n].op = "barman" /\ cmd[n].step = "upstream slot" /\ UNCHANGED <<server, purged>>
    BY <1>14 DEF BarmanUpstreamSlot, At
  <2>2. \/ Continue(n, "write file") /\ n \in slots[upstream] /\ slots' = slots
        \/ Continue(n, "write file") /\ CanCreateSlot(n, upstream) /\ slots' = CreateSlot(n, upstream)
        \/ Warn(n, "write file")
    BY <1>14 DEF BarmanUpstreamSlot, SlotFound
  <2> HIDE DEF upstream
  <2>3. GoesOn(n, "write file") /\ (Warn(n, "write file") => cmd'[n].warned)
    BY <1>6, <1>7, <2>2, SomeSteps
  <2>4. ~server[n].up
    BY <1>3, <2>1 DEF Sound
  <2>5. Sound(n)'
    BY <1>4, <2>1, <2>3, <2>4 DEF Sound, GoesOn, StepsOf
  <2>6. upstream \in Node
    BY <1>4 DEF upstream
  <2>7. CanCreateSlot(n, upstream) => n \in CreateSlot(n, upstream)[upstream]
    BY <1>1, <2>6, CreateSlotIs
  <2>8. cmd'[n].warned \/ n \in slots'[upstream]
    BY <2>2, <2>3, <2>7
  <2> QED BY <2>3, <2>5, <2>8 DEF Slotted, Configured, GoesOn, Resting, Has, upstream
<1>15. CASE FinishClone(n)
  BY <1>5, <1>15, SomeExits DEF FinishClone
<1>16. CASE WriteRecoveryConf(n)
  BY <1>5, <1>16, SomeExits DEF WriteRecoveryConf
<1>17. ASSUME NEW hostGiven \in BOOLEAN, cmd[n].op = "follow" => ~hostGiven, CreateTargetSlot(n, hostGiven)
       PROVE  Resting(n)'
  <2> DEFINE old == IF registry[n].upstream # None THEN registry[n].upstream ELSE cmd[n].target
  <2>1. cmd[n].step = "target slot" /\ UNCHANGED server
    BY <1>17 DEF CreateTargetSlot, At
  <2>2. \/ hostGiven /\ Continue(n, "write conf")
        \/ cmd' = [cmd EXCEPT ![n] = [cmd[n] EXCEPT !.step = "write conf", !.old = old]]
    BY <1>5, <1>17, SomeExits DEF CreateTargetSlot
  <2>3. old \in Node
    BY <1>1, <1>4 DEF NodeRecord
  <2> HIDE DEF old
  <2>4. GoesOn(n, "write conf") /\ (cmd[n].op = "follow" => cmd'[n].old \in Node)
    <3>1. CASE hostGiven /\ Continue(n, "write conf")
      BY <1>6, <1>17, <3>1, SomeSteps
    <3>2. CASE cmd' = [cmd EXCEPT ![n] = [cmd[n] EXCEPT !.step = "write conf", !.old = old]]
      <4> DEFINE changed == [cmd[n] EXCEPT !.step = "write conf", !.old = old]
      <4>1. /\ changed \in Process /\ changed.step = "write conf" /\ changed.op = cmd[n].op
            /\ changed.source = cmd[n].source /\ changed.target = cmd[n].target
            /\ changed.rewind = cmd[n].rewind /\ changed.done = cmd[n].done /\ changed.old = old
        BY <1>1, <2>3, SomeSteps DEF Process
      <4> HIDE DEF changed
      <4>2. cmd' \in [Node -> Process] /\ cmd'[n] = changed /\ Others(n)
        BY <1>1, <3>2, <4>1 DEF Others, changed
      <4> QED BY <2>3, <4>1, <4>2 DEF GoesOn
    <3> QED BY <2>2, <3>1, <3>2
  <2>5. cmd[n].op \in {"follow", "rejoin"} /\ (cmd[n].op = "rejoin" => cmd[n].target # n /\ ~server[n].up)
    BY <1>1, <1>3, <2>1, StepTellsCommand DEF Sound
  <2>6. Sound(n)'
    BY <1>4, <2>1, <2>4, <2>5 DEF Sound, GoesOn, StepsOf, Following
  <2>7. CanCreateSlot(n, cmd[n].target) /\ slots' = CreateSlot(n, cmd[n].target)
    BY <1>5, <1>17, SomeExits DEF CreateTargetSlot
  <2>8. n \in slots'[cmd[n].target]
    <3>1. CreateSlot(n, cmd[n].target)[cmd[n].target] = slots[cmd[n].target] \cup {n}
      BY <1>1, <1>4, <2>7, CreateSlotIs
    <3> QED BY <2>7, <3>1
  <2> QED BY <2>4, <2>5, <2>6, <2>8 DEF Slotted, Configured, GoesOn, Resting, Has
<1>18. CASE WriteConf(n)
  <2>1. cmd[n].step = "write conf" /\ RecoveryFileWritten(n) /\ Continue(n, "restart")
    BY <1>5, <1>18, SomeExits DEF WriteConf, At, GeneralError
  <2>2. conninfo'[n] = cmd[n].target /\ server'[n].up = server[n].up
    BY <1>1, <2>1, WrittenIs
  <2>3. GoesOn(n, "restart") /\ cmd'[n].old = cmd[n].old
    BY <1>6, <2>1, SomeSteps
  <2>4. /\ cmd[n].op \in {"follow", "rejoin"}
        /\ cmd[n].op = "rejoin" => cmd[n].target # n /\ ~server[n].up
        /\ cmd[n].op = "follow" => cmd[n].old \in Node
    BY <1>1, <1>3, <2>1, StepTellsCommand DEF Sound
  <2>5. Sound(n)'
    BY <1>4, <2>2, <2>3, <2>4 DEF Sound, GoesOn, StepsOf, Following
  <2>6. Has(n, cmd[n].target) /\ UNCHANGED <<slots, purged>>
    BY <1>3, <1>18, <2>1 DEF Slotted, WriteConf
  <2> QED BY <2>2, <2>3, <2>4, <2>5, <2>6 DEF Slotted, Configured, GoesOn, Resting, Has
<1>19. CASE RestartServer(n)
  <2>1. cmd[n].step = "restart" /\ receiver' = Cut(n) /\ UNCHANGED <<slots, conninfo, purged>>
    BY <1>1, <1>5, <1>19, SomeExits, RestartedIs DEF RestartServer, At
  <2>2. Continue(n, IF cmd[n].old # None THEN "drop old slot" ELSE "update record")
    BY <1>5, <1>19, SomeExits DEF RestartServer
  <2>3. PICK step \in {"drop old slot", "update record"} :
          Continue(n, step) /\ (step = "update record" => cmd[n].old = None)
    BY <2>2
  <2>4. GoesOn(n, step) /\ cmd'[n].old = cmd[n].old
    BY <1>6, <2>3, SomeSteps
  <2>5. /\ cmd[n].op \in {"follow", "rejoin"}
        /\ cmd[n].op = "rejoin" => cmd[n].target # n
        /\ cmd[n].op = "follow" => cmd[n].old \in Node
    BY <1>1, <1>3, <2>1, StepTellsCommand DEF Sound
  <2>6. Sound(n)'
    BY <1>4, <2>4, <2>5 DEF Sound, GoesOn, StepsOf, Following
  <2>7. receiver'[n] = None /\ conninfo'[n] = cmd[n].target
    BY <1>1, <1>3, <2>1, CutIs DEF Configured
  <2>8. Configured(n)'
    BY <2>4, <2>7 DEF Configured, GoesOn
  <2>9. cmd[n].op = "follow" => step = "drop old slot"
    BY <2>3, <2>5, SlotsAssumption
  <2>10. Has(n, cmd[n].target)
    BY <1>3, <2>1 DEF Slotted
  <2>11. Slotted(n)'
    BY <1>4, <2>1, <2>4, <2>5, <2>9, <2>10 DEF Slotted, GoesOn, Has
  <2> QED BY <2>6, <2>8, <2>11 DEF Resting
<1>20. CASE DropOldSlot(n)
  <2> DEFINE old == cmd[n].old
             target == cmd[n].target
  <2>1. /\ cmd[n].step = "drop old slot" /\ slots' = DropSlot(n, old)
        /\ IF Reachable(old) THEN Continue(n, "update record") ELSE Warn(n, "update record")
        /\ UNCHANGED <<receiver, conninfo, purged>>
    BY <1>20 DEF DropOldSlot, At
  <2>2. /\ GoesOn(n, "update record") /\ cmd'[n].old = old
        /\ ~cmd'[n].warned => Reachable(old)
    BY <1>6, <1>7, <2>1, SomeSteps
  <2>3. /\ cmd[n].op \in {"follow", "rejoin"}
        /\ cmd[n].op = "rejoin" => target # n
        /\ cmd[n].op = "follow" => old \in Node
    BY <1>1, <1>3, <2>1, StepTellsCommand DEF Sound
  <2>4. Sound(n)'
    BY <1>4, <2>2, <2>3 DEF Sound, GoesOn, StepsOf, Following
  <2>5. conninfo[n] = target /\ receiver[n] \in {None, target}
    BY <1>3, <2>1 DEF Configured
  <2>6. Configured(n)'
    BY <2>1, <2>2, <2>5 DEF Configured, GoesOn
  <2>7. old \in Node \cup {None}
    BY <1>1 DEF Process
  <2>8. slots'[target] = slots[target] \/ (old = target /\ receiver[n] # target)
    <3> HIDE DEF old, target
    <3>1. target \in Node /\ slots' = DropSlot(n, old)
      BY <1>4, <2>1 DEF target
    <3>2. \A u \in Node \ {old} : DropSlot(n, old)[u] = slots[u]
      BY <1>1, <2>7, DropSlotIs
    <3>3. CASE old # target
      BY <3>1, <3>2, <3>3
    <3>4. CASE old = target /\ receiver[n] = target
      <4>1. SlotActive(n, old) /\ old \in Node
        BY <3>1, <3>4 DEF SlotActive
      <4>2. DropSlot(n, old)[old] = slots[old]
        BY <1>1, <4>1, DropSlotIs
      <4> QED BY <3>1, <3>4, <4>2
    <3> QED BY <3>3, <3>4
  <2>9. Has(n, target)' \/ (old = target /\ receiver[n] # target)
    <3>1. Has(n, target)
      BY <1>3, <2>1 DEF Slotted
    <3> QED BY <2>1, <2>2, <2>8, <3>1 DEF Has, GoesOn
  <2>10. cmd[n].op = "follow" /\ Reachable(old) => old = target \/ n \notin slots'[old]
    <3> SUFFICES ASSUME cmd[n].op = "follow", Reachable(old), old # target PROVE n \notin slots'[old]
      OBVIOUS
    <3>1. ~SlotActive(n, old) /\ old \in Node
      BY <2>3, <2>5, SlotsAssumption DEF SlotActive
    <3> QED BY <1>1, <2>1, <3>1, DropSlotIs
  <2>11. Slotted(n)'
    BY <2>1, <2>2, <2>3, <2>9, <2>10 DEF Slotted, GoesOn
  <2> QED BY <2>4, <2>6, <2>11 DEF Resting
<1>21. CASE UpdateRecord(n)
  <2>1. /\ cmd[n].step = "update record" /\ Continue(n, "wait")
        /\ registry' = [registry EXCEPT ![n] = StandbyRecord(cmd[n].target)]
        /\ UNCHANGED <<slots, receiver, conninfo, purged>>
    BY <1>5, <1>21, SomeExits DEF UpdateRecord, At
  <2>2. GoesOn(n, "wait") /\ cmd'[n].old = cmd[n].old /\ cmd'[n].warned = cmd[n].warned
    BY <1>6, <2>1, SomeSteps
  <2>3. /\ cmd[n].op \in {"follow", "rejoin"}
        /\ cmd[n].op = "rejoin" => cmd[n].target # n
        /\ cmd[n].op = "follow" => cmd[n].old \in Node
    BY <1>1, <1>3, <2>1, StepTellsCommand DEF Sound
  <2>4. Sound(n)'
    BY <1>4, <2>2, <2>3 DEF Sound, GoesOn, StepsOf, Following
  <2>5. registry'[n].upstream = cmd[n].target
    BY <1>1, <2>1 DEF StandbyRecord
  <2>6. Configured(n)'
    BY <1>3, <2>1, <2>2, <2>5 DEF Configured, GoesOn
  <2>7. Slotted(n)'
    BY <1>3, <2>1, <2>2, <2>3 DEF Slotted, GoesOn, Has
  <2> QED BY <2>4, <2>6, <2>7 DEF Resting
<1>22. CASE AwaitAttachment(n)
  BY <1>5, <1>22, SomeExits DEF AwaitAttachment, GeneralError
<1>23. CASE Rewind(n)
  <2>1. cmd[n].step = "rewind" /\ Continue(n, "copied slots") /\ server'[n].up = server[n].up
    BY <1>5, <1>23, SomeExits, RewindIs DEF Rewind, At
  <2>2. GoesOn(n, "copied slots")
    BY <1>6, <2>1, SomeSteps
  <2>3. cmd[n].op = "rejoin" /\ cmd[n].target # n /\ ~server[n].up
    BY <1>1, <1>3, <2>1, StepTellsCommand DEF Sound
  <2>4. Sound(n)'
    BY <1>4, <2>1, <2>2, <2>3 DEF Sound, GoesOn, StepsOf, Following
  <2> QED BY <2>2, <2>3, <2>4 DEF Slotted, Configured, GoesOn, Resting
<1>24. CASE DeleteCopiedSlots(n)
  <2>1. cmd[n].step = "copied slots" /\ Continue(n, "target slot") /\ UNCHANGED server
    BY <1>5, <1>24, SomeExits DEF DeleteCopiedSlots, At
  <2>2. GoesOn(n, "target slot")
    BY <1>6, <2>1, SomeSteps
  <2>3. cmd[n].op = "rejoin" /\ cmd[n].target # n /\ ~server[n].up
    BY <1>1, <1>3, <2>1, StepTellsCommand DEF Sound
  <2>4. Sound(n)'
    BY <1>4, <2>1, <2>2, <2>3 DEF Sound, GoesOn, StepsOf, Following
  <2> QED BY <2>2, <2>3, <2>4 DEF Slotted, Configured, GoesOn, Resting
<1> QED BY <1>8, <1>9, <1>10, <1>11, <1>12, <1>13, <1>14, <1>15, <1>16, <1>17, <1>18, <1>19,
           <1>20, <1>21, <1>22, <1>23, <1>24 DEF StepOf

LEMMA InitCommands == Init => CommandInv
BY DEF Init, CommandInv, Running, NoCommand

LEMMA NextCommands ==
  ASSUME TypeOK, CommandInv, [Next]_vars
  PROVE  CommandInv'
<1> SUFFICES ASSUME NEW n \in Node, Running(n)' PROVE Resting(n)'
  BY DEF CommandInv, Resting
<1>1. Running(n) => Resting(n)
  BY DEF CommandInv, Resting
<1>2. CASE UNCHANGED vars
  <2>1. Quiet(n) /\ Running(n)
    BY <1>2 DEF vars, Quiet, Running
  <2> QED BY <1>1, <2>1, QuietKeeps DEF Resting
<1>3. CASE Next
  <2>1. PICK m \in Node : CommandOf(m) \/ StepOf(m) \/ Environment(m)
    BY <1>3 DEF Next
  <2>2. CASE Quiet(n)
    <3>1. Running(n)
      BY <2>2 DEF Quiet, Running
    <3> QED BY <1>1, <2>2, <3>1, QuietKeeps DEF Resting
  <2>3. CASE m # n
    BY <2>1, <2>2, <2>3, CommandIsQuiet, StepIsQuiet, EnvironmentIsQuiet
  <2>4. CASE m = n
    BY <1>1, <2>1, <2>2, <2>4, CommandStarts, StepKeeps, EnvironmentIsQuiet, KilledEnds
  <2> QED BY <2>3, <2>4
<1> QED BY <1>2, <1>3

\* Wherever a command is, it still has what it rests on, whatever the other
\* commands, the servers and their WAL receivers have done meanwhile.
THEOREM CommandsRest == Spec => []CommandInv
<1>1. TypeOK /\ CommandInv /\ [Next]_vars => CommandInv'
  BY NextCommands
<1> QED BY InitCommands, TypeCorrect, <1>1, PTL DEF Spec
-----------------------------------------------------------------------------
(* What a command that reports success has done. *)

LEMMA StepReports ==
  ASSUME TypeOK, NEW n \in Node, StepOf(n), Reports(n)
  PROVE  FinishClone(n) \/ WriteRecoveryConf(n) \/ AwaitAttachment(n)
<1>1. /\ cmd \in [Node -> Process] /\ registry \in [Node -> NodeRecord] /\ cmd[n] \in Process
  BY TypeParts
<1>2. cmd'[n].done /\ ~cmd[n].done
  BY DEF Reports
<1>3. \A step \in Step : ~Continue(n, step) /\ ~Warn(n, step)
  BY <1>1, <1>2, ContinueIs, WarnIs DEF GoesOn
<1>4. \A code \in Exit : ~Abort(n, code)
  BY <1>1, <1>2, AbortIs
<1>5. ASSUME NEW old, cmd' = [cmd EXCEPT ![n].step = "write conf", ![n].old = old] PROVE FALSE
  <2> DEFINE changed == [cmd[n] EXCEPT !.step = "write conf", !.old = old]
  <2>1. changed.done = cmd[n].done
    BY <1>1 DEF Process
  <2>2. cmd' = [cmd EXCEPT ![n] = changed]
    BY <1>5
  <2> HIDE DEF changed
  <2>3. cmd'[n] = changed
    BY <1>1, <2>2
  <2> QED BY <1>2, <2>1, <2>3
<1>6. ~InitialiseDirectClone(n) /\ ~RunBasebackup(n) /\ ~DropSourceSlot(n)
  BY <1>3, <1>4, SomeSteps, SomeExits DEF InitialiseDirectClone, RunBasebackup, DropSourceSlot
<1>7. ~MoveSlotToUpstream(n)
  <2>1. MoveSlotToUpstream(n) =>
          \/ Warn(n, "drop source slot") \/ Continue(n, "write file")
          \/ Continue(n, "drop source slot") \/ Abort(n, "ERR_DB_QUERY")
    BY DEF MoveSlotToUpstream, Continue
  <2> QED BY <1>3, <1>4, <2>1, SomeSteps, SomeExits
<1>8. ~FetchFileBackup(n) /\ ~FileBackupFails(n) /\ ~BarmanUpstreamSlot(n)
  BY <1>3, <1>4, SomeSteps, SomeExits DEF FetchFileBackup, FileBackupFails, BarmanUpstreamSlot
<1>9. \A hostGiven \in BOOLEAN : ~CreateTargetSlot(n, hostGiven)
  BY <1>3, <1>4, <1>5, SomeSteps, SomeExits DEF CreateTargetSlot
<1>10. ~RestartServer(n)
  <2>1. RestartServer(n) =>
          Continue(n, "drop old slot") \/ Continue(n, "update record") \/ Abort(n, "ERR_NO_RESTART")
    BY DEF RestartServer
  <2> QED BY <1>3, <1>4, <2>1, SomeSteps, SomeExits
<1>11. ~WriteConf(n) /\ ~DropOldSlot(n) /\ ~UpdateRecord(n)
  BY <1>3, <1>4, SomeSteps, SomeExits DEF WriteConf, GeneralError, DropOldSlot, UpdateRecord
<1>12. ~Rewind(n) /\ ~DeleteCopiedSlots(n)
  BY <1>3, <1>4, SomeSteps, SomeExits DEF Rewind, DeleteCopiedSlots
<1> QED BY <1>6, <1>7, <1>8, <1>9, <1>10, <1>11, <1>12 DEF StepOf

LEMMA CommandReportsNothing ==
  ASSUME TypeOK, NEW n \in Node, CommandOf(n)
  PROVE  ~cmd'[n].done
<1>1. cmd \in [Node -> Process]
  BY TypeParts
<1>2. ASSUME NEW source \in Node, NEW option \in Node \cup {None}, NEW force \in BOOLEAN,
             \/ StandbyClone(n, source, option, force)
             \/ BarmanClone(n, source, option, force)
             \/ CreateRecoveryConf(n, source, option, force)
      PROVE  ~cmd'[n].done
  <2>1. CASE StandbyClone(n, source, option, force)
    <3>1. PICK u \in Node : Run(n, "clone", "source slot", source, u, FALSE)
      BY <2>1, CloneTargetsAreNodes DEF StandbyClone
    <3>2. Starts(n, "clone", "source slot", source, u)
      BY <1>1, <3>1, RunIs, SomeSteps
    <3> QED BY <3>2 DEF Starts
  <2>2. CASE BarmanClone(n, source, option, force)
    BY <2>2, BarmanIs DEF Starts
  <2>3. CASE CreateRecoveryConf(n, source, option, force)
    <3>1. PICK u \in Node, step \in Step : Starts(n, "conf", step, source, u)
      BY <2>3, ConfIs, SomeSteps
    <3> QED BY <3>1 DEF Starts
  <2> QED BY <1>2, <2>1, <2>2, <2>3
<1>3. ASSUME NEW option \in Node \cup {None}, StandbyFollow(n, option) PROVE ~cmd'[n].done
  <2>1. PICK u \in Node : Run(n, "follow", "target slot", None, u, FALSE)
    BY <1>3 DEF StandbyFollow, FollowTargets, PrimaryConnections
  <2>2. Starts(n, "follow", "target slot", None, u)
    BY <1>1, <2>1, RunIs, SomeSteps
  <2> QED BY <2>2 DEF Starts
<1>4. ASSUME NEW upstream \in Node, NEW rewind \in BOOLEAN, NodeRejoin(n, upstream, rewind)
      PROVE  ~cmd'[n].done
  <2>1. PICK u \in Node, first \in {"rewind", "target slot"} :
          Run(n, "rejoin", first, None, u, rewind)
    BY <1>4 DEF NodeRejoin, RecordedPrimary
  <2>2. first \in Step /\ "rejoin" \in Command /\ None \in Node \cup {None} /\ rewind \in BOOLEAN
    BY SomeSteps
  <2>3. Starts(n, "rejoin", first, None, u)
    BY <1>1, <2>1, <2>2, RunIs
  <2> QED BY <2>3 DEF Starts
<1> QED BY <1>2, <1>3, <1>4 DEF CommandOf

\* Only the end of a command reports.
LEMMA ReportIsAnEnd ==
  ASSUME TypeOK, [Next]_vars, NEW n \in Node, Reports(n)
  PROVE  FinishClone(n) \/ WriteRecoveryConf(n) \/ AwaitAttachment(n)
<1>1. cmd'[n] # cmd[n] /\ cmd'[n].done
  BY DEF Reports
<1>2. PICK m \in Node : CommandOf(m) \/ StepOf(m) \/ Environment(m)
  BY <1>1 DEF Next, vars
<1>3. ~Quiet(n)
  BY <1>1 DEF Quiet
<1>4. m = n /\ ~Environment(m)
  BY <1>1, <1>2, <1>3, CommandIsQuiet, StepIsQuiet, EnvironmentIsQuiet, KilledEnds
<1> QED BY <1>1, <1>2, <1>4, CommandReportsNothing, StepReports

\* What each of them rests on, and leaves.
LEMMA EndLeaves ==
  ASSUME TypeOK, CommandInv, [Next]_vars, NEW n \in Node, Reports(n)
  PROVE  LET u == cmd[n].target
         IN /\ \/ n \in slots'[u] \/ <<u, n>> \in purged
               \/ cmd[n].old = u /\ receiver'[n] # u
            /\ cmd[n].op \in {"follow", "rejoin"} =>
                 conninfo'[n] = u /\ receiver'[n] \in {None, u} /\ registry'[n].upstream = u
            /\ cmd[n].op = "follow" =>
                 \/ cmd[n].old = u \/ n \notin slots'[cmd[n].old]
                 \/ <<cmd[n].old, n>> \in purged
<1> DEFINE u == cmd[n].target
<1>1. /\ cmd \in [Node -> Process] /\ cmd[n] \in Process /\ slots \in Held
      /\ purged \subseteq Node \X Node
  BY TypeParts
<1>2. ~cmd[n].warned /\ cmd'[n].done
  BY DEF Reports
<1>3. FinishClone(n) \/ WriteRecoveryConf(n) \/ AwaitAttachment(n)
  BY ReportIsAnEnd
<1>4. Running(n)
  BY <1>3 DEF FinishClone, WriteRecoveryConf, AwaitAttachment, At, Running
<1>5. Sound(n) /\ Configured(n) /\ Slotted(n) /\ u \in Node
  BY <1>4 DEF CommandInv, Sound
<1>6. \A code \in Exit : ~Abort(n, code)
  BY <1>1, <1>2, AbortIs
<1>7. CASE FinishClone(n)
  <2>1. cmd[n].step = "write file" /\ slots' = slots /\ purged' = purged
    BY <1>7 DEF FinishClone, At
  <2>2. cmd[n].op \in {"clone", "barman"}
    BY <1>1, <1>5, <2>1, StepTellsCommand
  <2>3. Has(n, u)
    BY <1>2, <1>5, <2>1 DEF Slotted
  <2> QED BY <2>1, <2>2, <2>3 DEF Has
<1>8. CASE WriteRecoveryConf(n)
  <2>1. cmd[n].step \in {"write file only", "write file, then slot"} /\ purged' = purged
    BY <1>8 DEF WriteRecoveryConf, At
  <2>2. cmd[n].op = "conf"
    <3>1. cmd[n].op \in {"none", "clone", "barman", "conf", "follow", "rejoin"}
      BY <1>1 DEF Process, Command
    <3> QED BY <1>5, <2>1, <3>1 DEF Sound, StepsOf, Following
  <2>3. CASE cmd[n].step = "write file only"
    <3>1. slots' = slots /\ Has(n, u)
      BY <1>2, <1>5, <1>8, <2>3 DEF WriteRecoveryConf, At, Slotted
    <3> QED BY <2>1, <2>2, <3>1 DEF Has
  <2>4. CASE cmd[n].step = "write file, then slot"
    <3>1. CanCreateSlot(n, u) /\ slots' = CreateSlot(n, u)
      BY <1>6, <1>8, <2>4, SomeExits DEF WriteRecoveryConf, At
    <3> HIDE DEF u
    <3>2. CreateSlot(n, u)[u] = slots[u] \cup {n}
      BY <1>1, <1>5, <3>1, CreateSlotIs
    <3> QED BY <2>2, <3>1, <3>2 DEF u
  <2> QED BY <2>1, <2>3, <2>4
<1>9. CASE AwaitAttachment(n)
  <2>1. /\ cmd[n].step = "wait"
        /\ slots' = IF cmd[n].op = "rejoin" THEN SlotsAfterRejoin(n) ELSE slots
        /\ IF cmd[n].op = "rejoin" THEN Purge(n) ELSE UNCHANGED purged
        /\ UNCHANGED <<conninfo, receiver, registry>>
    BY <1>6, <1>9, SomeExits DEF AwaitAttachment, At, GeneralError
  <2>3. Has(n, u) \/ (cmd[n].old = u /\ receiver[n] # u)
    BY <1>5, <2>1 DEF Slotted
  <2>4. conninfo[n] = u /\ receiver[n] \in {None, u} /\ registry[n].upstream = u
    BY <1>5, <2>1 DEF Configured
  <2>5. cmd[n].op = "rejoin" => u # n
    BY <1>5 DEF Sound
  <2>6. slots'[u] = slots[u]
    <3> HIDE DEF u
    <3>1. slots' = slots \/ (slots' = DropSlot(u, n) /\ u # n)
      BY <2>1, <2>5 DEF SlotsAfterRejoin, u
    <3>2. u # n => DropSlot(u, n)[u] = slots[u]
      BY <1>1, <1>5, DropSlotIs
    <3> QED BY <3>1, <3>2
  <2>8. cmd[n].op = "follow" =>
          /\ slots' = slots
          /\ cmd[n].old = u \/ n \notin slots[cmd[n].old] \/ <<cmd[n].old, n>> \in purged
    BY <1>2, <1>5, <2>1 DEF Slotted
  <2> QED BY <2>1, <2>3, <2>4, <2>6, <2>8 DEF Has
<1> QED BY <1>3, <1>7, <1>8, <1>9

\* SuccessIsUsable, for any number of nodes, slots, commands and faults: a command
\* that reports success has left a slot, whether or not the node has attached.
THEOREM SuccessLeavesASlot == Spec => SuccessIsUsable
<1>1. TypeOK /\ CommandInv /\ [Next]_vars =>
        [\A n \in Node : Reports(n) =>
           LET u == cmd[n].target
           IN /\ \/ n \in slots'[u] \/ <<u, n>> \in purged
                 \/ cmd[n].old = u /\ receiver'[n] # u
              /\ cmd[n].op \in {"follow", "rejoin"} =>
                   conninfo'[n] = u /\ receiver'[n] \in {None, u} /\ registry'[n].upstream = u]_vars
  BY EndLeaves
<1> QED BY TypeCorrect, CommandsRest, <1>1, PTL DEF Spec, SuccessIsUsable

\* FollowFreesOldSlot: where a follow ended with no warning, no slot is left behind.
THEOREM FollowLeavesNoSlot == Spec => FollowFreesOldSlot
<1>1. TypeOK /\ CommandInv /\ [Next]_vars =>
        [\A n \in Node : Reports(n) /\ cmd[n].op = "follow"
           => LET old == cmd[n].old
              IN old = cmd[n].target \/ n \notin slots'[old] \/ <<old, n>> \in purged]_vars
  BY EndLeaves
<1> QED BY TypeCorrect, CommandsRest, <1>1, PTL DEF Spec, FollowFreesOldSlot
-----------------------------------------------------------------------------
(* Which WAL receivers run. *)

LEMMA InitAttachments == Init => Attachments
<1> SUFFICES ASSUME Init PROVE Attachments
  OBVIOUS
<1>1. PICK cascaded \in BOOLEAN :
        LET Upstream(n) == IF n = Primary THEN None
                           ELSE IF n = Standby THEN Primary
                           ELSE IF cascaded THEN Standby ELSE None
            Type(n) == IF n = Primary THEN "primary"
                       ELSE IF Upstream(n) = None THEN "none" ELSE "standby"
        IN /\ server = [n \in Node |->
                         [up |-> Type(n) # "none", ended |-> "clean", data |-> Type(n)]]
           /\ conninfo = [n \in Node |-> Upstream(n)]
           /\ receiver = conninfo
           /\ slots = [m \in Node |-> {n \in Node : Upstream(n) = m}]
           /\ registry = [n \in Node |-> [type |-> Type(n), active |-> Type(n) # "none",
                                          upstream |-> Upstream(n)]]
  BY DEF Init
<1> DEFINE Upstream(n) == IF n = Primary THEN None
                          ELSE IF n = Standby THEN Primary
                          ELSE IF cascaded THEN Standby ELSE None
           Type(n) == IF n = Primary THEN "primary"
                      ELSE IF Upstream(n) = None THEN "none" ELSE "standby"
<1>2. \A n \in Node : /\ receiver[n] = Upstream(n) /\ server[n].data = Type(n)
                      /\ server[n].up <=> Type(n) # "none"
  BY <1>1
<1>3. \A n \in Node : Upstream(n) # None =>
        Type(n) = "standby" /\ Upstream(n) \in Node /\ Type(Upstream(n)) # "none"
  BY SlotsAssumption
<1>4. \A n, m \in Node : Below(n, m)
  BY DEF Init, Below
<1> HIDE DEF Upstream, Type
<1> QED BY <1>2, <1>3, <1>4 DEF Attachments

\* A node that is down has no part in streaming.
LEMMA DownIsAside ==
  ASSUME TypeOK, Attachments, NEW n \in Node,
         \A m \in Node \ {n} : server'[m] = server[m] /\ wal'[m] = wal[m],
         server[n].up => server'[n] = server[n] /\ wal'[n] = wal[n],
         UNCHANGED <<receiver, fork>>
  PROVE  Attachments'
<1> SUFFICES ASSUME NEW m \in Node, receiver'[m] # None
             PROVE  /\ server'[m].up /\ server'[m].data = "standby" /\ server'[receiver'[m]].up
                    /\ Below(m, receiver[m])'
  BY DEF Attachments
<1>1. receiver[m] \in Node /\ receiver'[m] = receiver[m]
  BY TypeParts DEF Upstreams
<1>2. /\ server[m].up /\ server[m].data = "standby" /\ server[receiver[m]].up
      /\ Below(m, receiver[m])
  BY <1>1 DEF Attachments
<1>3. /\ server'[m] = server[m] /\ wal'[m] = wal[m]
      /\ server'[receiver[m]] = server[receiver[m]] /\ wal'[receiver[m]] = wal[receiver[m]]
  BY <1>1, <1>2
<1> QED BY <1>1, <1>2, <1>3 DEF Below

\* Nor has one whose receivers are cut.
LEMMA CutIsAside ==
  ASSUME TypeOK, Attachments, NEW n \in Node, \A m \in Node \ {n} : server'[m] = server[m],
         receiver' = Cut(n), UNCHANGED <<wal, fork>>
  PROVE  Attachments'
<1> SUFFICES ASSUME NEW m \in Node, receiver'[m] # None
             PROVE  /\ server'[m].up /\ server'[m].data = "standby" /\ server'[receiver'[m]].up
                    /\ Below(m, receiver[m])'
  BY DEF Attachments
<1>1. receiver \in Upstreams /\ receiver[m] \in Node \cup {None}
  BY TypeParts DEF Upstreams
<1>2. receiver'[m] = receiver[m] /\ m # n /\ receiver[m] # n /\ receiver[m] \in Node
  BY <1>1, CutIs
<1>3. /\ server[m].up /\ server[m].data = "standby" /\ server[receiver[m]].up
      /\ Below(m, receiver[m])
  BY <1>2 DEF Attachments
<1> QED BY <1>2, <1>3 DEF Below

LEMMA BelowIsTransitive ==
  ASSUME TypeOK, NEW k \in Node, NEW n \in Node, NEW m \in Node, Below(k, n), Below(n, m)
  PROVE  Below(k, m)
<1>1. wal \in [Node -> Wal] /\ fork \in Nat
  BY TypeParts
<1>2. \A l \in Node : wal[l].tli \in Nat /\ wal[l].lsn \in Nat
  BY <1>1 DEF Wal
<1> QED BY <1>1, <1>2 DEF Below

LEMMA StreamKeeps ==
  ASSUME TypeOK, Attachments, NEW n \in Node, Stream(n)
  PROVE  /\ Attachments' /\ receiver[n] \in Node /\ receiver[n] # n
         /\ wal'[n] = wal[receiver[n]] /\ Below(n, receiver[n]) /\ fork' = fork
         /\ \A m \in Node \ {n} : wal'[m] = wal[m]
<1>1. wal \in [Node -> Wal] /\ receiver \in Upstreams
  BY TypeParts
<1>2. /\ receiver[n] # None /\ wal[n] # wal[receiver[n]] /\ wal' = [wal EXCEPT ![n] = wal[receiver[n]]]
      /\ UNCHANGED <<server, fork, receiver>>
  BY DEF Stream
<1>3. receiver[n] \in Node /\ receiver[n] # n
  BY <1>1, <1>2 DEF Upstreams
<1>4. wal'[n] = wal[receiver[n]] /\ \A m \in Node \ {n} : wal'[m] = wal[m]
  BY <1>1, <1>2, <1>3
<1>5. Below(n, receiver[n])
  BY <1>2 DEF Attachments
<1>6. ASSUME NEW m \in Node, receiver'[m] # None
      PROVE  /\ server'[m].up /\ server'[m].data = "standby" /\ server'[receiver'[m]].up
             /\ Below(m, receiver[m])'
  <2>1. receiver[m] \in Node /\ receiver'[m] = receiver[m]
    BY <1>1, <1>2, <1>6 DEF Upstreams
  <2>2. /\ server[m].up /\ server[m].data = "standby" /\ server[receiver[m]].up
        /\ Below(m, receiver[m])
    BY <2>1, <1>6 DEF Attachments
  <2>3. CASE m = n
    <3>1. wal'[m] = wal'[receiver[m]]
      BY <1>3, <1>4, <2>3
    <3>2. wal[receiver[n]].lsn \in Nat
      BY <1>1, <1>3 DEF Wal
    <3> QED BY <1>2, <1>4, <2>1, <2>2, <2>3, <3>1, <3>2 DEF Below
  <2>4. CASE m # n /\ receiver[m] = n
    <3>1. Below(m, receiver[n])
      BY <1>3, <1>5, <2>2, <2>4, BelowIsTransitive
    <3> QED BY <1>2, <1>4, <2>1, <2>2, <2>4, <3>1 DEF Below
  <2>5. CASE m # n /\ receiver[m] # n
    BY <1>2, <1>4, <2>1, <2>2, <2>5 DEF Below
  <2> QED BY <2>3, <2>4, <2>5
<1> QED BY <1>2, <1>3, <1>4, <1>5, <1>6 DEF Attachments

LEMMA PromotionKeeps ==
  ASSUME TypeOK, Attachments, NEW n \in Node, StandbyPromote(n)
  PROVE  /\ Attachments' /\ ~Running(n) /\ UNCHANGED <<cmd, purged>>
         /\ \A m \in Node : wal[m].tli = 1
         /\ wal'[n].tli = 2 /\ wal'[n].lsn = wal[n].lsn /\ fork' = wal[n].lsn
         /\ \A m \in Node \ {n} : wal'[m] = wal[m]
<1>1. wal \in [Node -> Wal] /\ receiver \in Upstreams /\ server \in [Node -> Machine]
  BY TypeParts
<1>2. /\ wal' = [wal EXCEPT ![n].tli = 2] /\ fork' = wal[n].lsn /\ receiver' = Detached({n})
      /\ server' = [server EXCEPT ![n].data = "primary"]
      /\ ~Running(n) /\ UNCHANGED <<cmd, purged>> /\ \A m \in Node : wal[m].tli = 1
  BY DEF StandbyPromote, Idle, Running
<1>3. wal'[n].tli = 2 /\ wal'[n].lsn = wal[n].lsn /\ \A m \in Node \ {n} : wal'[m] = wal[m]
  BY <1>1, <1>2 DEF Wal
<1>4. \A m \in Node : server'[m].up = server[m].up /\ (m # n => server'[m] = server[m])
  BY <1>1, <1>2 DEF Machine
<1>5. ASSUME NEW m \in Node, receiver'[m] # None
      PROVE  /\ server'[m].up /\ server'[m].data = "standby" /\ server'[receiver'[m]].up
             /\ Below(m, receiver[m])'
  <2>1. m # n /\ receiver'[m] = receiver[m] /\ receiver[m] \in Node
    BY <1>1, <1>2, <1>5, DetachedIs DEF Upstreams
  <2>2. /\ server[m].up /\ server[m].data = "standby" /\ server[receiver[m]].up
        /\ Below(m, receiver[m])
    BY <1>5, <2>1 DEF Attachments
  <2>3. wal[m].lsn <= wal[receiver[m]].lsn
    BY <1>2, <2>1, <2>2 DEF Below
  <2>4. Below(m, receiver[m])'
    BY <1>2, <1>3, <2>1, <2>3 DEF Below
  <2> QED BY <1>4, <2>1, <2>2, <2>4
<1> QED BY <1>2, <1>3, <1>5 DEF Attachments

LEMMA WriteKeeps ==
  ASSUME TypeOK, Attachments, NEW n \in Node, Write(n)
  PROVE  /\ Attachments' /\ server[n].up /\ UNCHANGED <<cmd, purged, fork>>
         /\ wal'[n].tli = wal[n].tli /\ wal'[n].lsn = wal[n].lsn + 1
         /\ \A m \in Node \ {n} : wal'[m] = wal[m]
<1>1. wal \in [Node -> Wal] /\ receiver \in Upstreams
  BY TypeParts
<1>2. /\ wal' = [wal EXCEPT ![n].lsn = @ + 1] /\ server[n].data = "primary" /\ server[n].up
      /\ UNCHANGED <<server, receiver, fork, cmd, purged>>
  BY DEF Write, Reachable
<1>3. /\ wal'[n].tli = wal[n].tli /\ wal'[n].lsn = wal[n].lsn + 1
      /\ \A m \in Node \ {n} : wal'[m] = wal[m]
  BY <1>1, <1>2 DEF Wal
<1>4. ASSUME NEW m \in Node, receiver'[m] # None
      PROVE  /\ server'[m].up /\ server'[m].data = "standby" /\ server'[receiver'[m]].up
             /\ Below(m, receiver[m])'
  <2>1. receiver'[m] = receiver[m] /\ receiver[m] \in Node
    BY <1>1, <1>2, <1>4 DEF Upstreams
  <2>2. /\ server[m].up /\ server[m].data = "standby" /\ server[receiver[m]].up
        /\ Below(m, receiver[m])
    BY <2>1, <1>4 DEF Attachments
  <2>3. m # n
    BY <1>2, <2>2
  <2>4. wal[m].lsn \in Nat /\ wal[receiver[m]].lsn \in Nat
    BY <1>1, <2>1 DEF Wal
  <2>5. Below(m, receiver[m])'
    BY <1>2, <1>3, <2>1, <2>2, <2>3, <2>4 DEF Below
  <2> QED BY <1>2, <2>1, <2>2, <2>5
<1> QED BY <1>2, <1>3, <1>4 DEF Attachments

\* The steps after which the receivers are still attached to what they read.
LEMMA CommandAttachments ==
  ASSUME TypeOK, Attachments, NEW n \in Node, CommandOf(n)
  PROVE  Attachments' /\ UNCHANGED <<wal, fork>>
<1>1. CASE UNCHANGED <<server, wal, fork, receiver>>
  BY <1>1 DEF Attachments, Below
<1>2. ASSUME NEW source \in Node, NEW option \in Node \cup {None}, NEW force \in BOOLEAN,
             BarmanClone(n, source, option, force)
      PROVE  Attachments' /\ UNCHANGED <<wal, fork>>
  <2>1. receiver' = Cut(n) /\ \A m \in Node \ {n} : server'[m] = server[m]
    BY <1>2, BarmanIs
  <2>2. UNCHANGED <<wal, fork>>
    BY <1>2 DEF BarmanClone
  <2> QED BY <2>1, <2>2, CutIsAside
<1>3. ASSUME ~\E source \in Node, option \in Node \cup {None}, force \in BOOLEAN :
                 BarmanClone(n, source, option, force)
      PROVE  UNCHANGED <<server, wal, fork, receiver>>
  BY <1>3 DEF CommandOf, StandbyClone, CreateRecoveryConf, StandbyFollow, NodeRejoin
<1> QED BY <1>1, <1>2, <1>3

LEMMA StepAttachments ==
  ASSUME TypeOK, Attachments, NEW n \in Node, StepOf(n), Running(n) => Resting(n)
  PROVE  Attachments'
<1>1. server \in [Node -> Machine] /\ wal \in [Node -> Wal] /\ cmd \in [Node -> Process] /\ conninfo \in Upstreams
      /\ cmd[n] \in Process
  BY TypeParts
<1>2. CASE UNCHANGED <<server, wal, fork, receiver>>
  BY <1>2 DEF Attachments, Below
<1>3. cmd[n].step \in {"source slot", "backup", "rewind"} => ~server[n].up
  <2>1. cmd[n].step \in {"source slot", "backup", "rewind"} => Running(n)
    BY DEF Running
  <2> QED BY <1>1, <2>1, StepTellsCommand DEF Resting, Sound
<1>4. CASE InitialiseDirectClone(n)
  <2>1. server' = [server EXCEPT ![n].data = "none"] /\ ~server[n].up /\ UNCHANGED <<wal, fork, receiver>>
    BY <1>3, <1>4 DEF InitialiseDirectClone, At
  <2>2. \A m \in Node \ {n} : server'[m] = server[m]
    BY <1>1, <2>1
  <2> QED BY <2>1, <2>2, DownIsAside
<1>5. CASE RunBasebackup(n) \/ FetchFileBackup(n) \/ Rewind(n)
  <2>1. ~server[n].up /\ UNCHANGED <<fork, receiver>>
    BY <1>3, <1>5 DEF RunBasebackup, FetchFileBackup, Rewind, At
  <2>2. \A m \in Node \ {n} : server'[m] = server[m]
    BY <1>1, <1>5, RewindIs DEF RunBasebackup, FetchFileBackup
  <2>3. \A m \in Node \ {n} : wal'[m] = wal[m]
    BY <1>1, <1>5, RewindIs DEF RunBasebackup, FetchFileBackup
  <2> QED BY <2>1, <2>2, <2>3, DownIsAside
<1>6. CASE FinishClone(n) \/ WriteRecoveryConf(n) \/ WriteConf(n)
  <2>1. /\ RecoveryFileWritten(n) \/ UNCHANGED <<conninfo, server>>
        /\ UNCHANGED <<wal, fork, receiver>>
    BY <1>6 DEF FinishClone, WriteRecoveryConf, WriteConf
  <2>2. /\ \A m \in Node \ {n} : server'[m] = server[m]
        /\ server[n].up => server'[n] = server[n]
    BY <1>1, <2>1, WrittenIs
  <2> QED BY <2>1, <2>2, DownIsAside
<1>7. CASE RestartServer(n)
  <2>1. UNCHANGED <<wal, fork>> /\ \A m \in Node \ {n} : server'[m] = server[m]
    BY <1>1, <1>7, RestartedIs DEF RestartServer
  <2>2. receiver' = Cut(n) \/ UNCHANGED <<server, receiver>>
    BY <1>1, <1>7, RestartedIs
  <2> QED BY <1>2, <2>1, <2>2, CutIsAside
<1>8. CASE MoveSlotToUpstream(n) \/ DropSourceSlot(n) \/ FileBackupFails(n) \/ BarmanUpstreamSlot(n)
           \/ (\E hostGiven \in BOOLEAN : CreateTargetSlot(n, hostGiven)) \/ DropOldSlot(n)
           \/ UpdateRecord(n) \/ AwaitAttachment(n) \/ DeleteCopiedSlots(n)
  <2>1. UNCHANGED <<server, wal, fork, receiver>>
    BY <1>8 DEF MoveSlotToUpstream, DropSourceSlot, FileBackupFails, BarmanUpstreamSlot,
         CreateTargetSlot, DropOldSlot, UpdateRecord, AwaitAttachment, DeleteCopiedSlots
  <2> QED BY <1>2, <2>1
<1> QED BY <1>4, <1>5, <1>6, <1>7, <1>8 DEF StepOf

LEMMA EnvironmentAttachments ==
  ASSUME TypeOK, Attachments, NEW n \in Node, Environment(n)
  PROVE  Attachments'
<1>1. server \in [Node -> Machine] /\ receiver \in Upstreams /\ conninfo \in Upstreams /\ wal \in [Node -> Wal]
  BY TypeParts
<1>2. ASSUME NEW ended \in Ending, ServerDown(n, ended) PROVE Attachments'
  <2>1. /\ server' = [server EXCEPT ![n].up = FALSE, ![n].ended = ended]
        /\ receiver' = Cut(n) /\ UNCHANGED <<wal, fork>>
    BY <1>2 DEF ServerDown
  <2>2. \A m \in Node \ {n} : server'[m] = server[m]
    BY <1>1, <2>1
  <2> QED BY <2>1, <2>2, CutIsAside
<1>3. CASE ServerUp(n)
  <2> DEFINE data == IF conninfo[n] = None THEN server[n].data ELSE "standby"
             started == [server[n] EXCEPT !.up = TRUE, !.ended = "clean", !.data = data]
  <2>1. server' = [server EXCEPT ![n] = started] /\ ~server[n].up /\ UNCHANGED <<wal, fork, receiver>>
    BY <1>3 DEF ServerUp
  <2> HIDE DEF started
  <2>2. \A m \in Node \ {n} : server'[m] = server[m]
    BY <1>1, <2>1
  <2> QED BY <2>1, <2>2, DownIsAside
<1>4. CASE ReceiverStarts(n)
  <2> DEFINE u == conninfo[n]
  <2>1. /\ server[n].up /\ server[n].data = "standby" /\ u # None /\ server[u].up
        /\ SharesHistory(n, u) /\ (wal[n].tli = wal[u].tli => wal[n].lsn <= wal[u].lsn)
        /\ receiver' = [receiver EXCEPT ![n] = u] /\ UNCHANGED <<server, wal, fork>>
    BY <1>4 DEF ReceiverStarts, Reachable
  <2>2. Below(n, u)
    BY <2>1 DEF SharesHistory, Below
  <2> HIDE DEF u
  <2>3. receiver'[n] = u /\ \A m \in Node \ {n} : receiver'[m] = receiver[m]
    BY <1>1, <2>1 DEF Upstreams
  <2> SUFFICES ASSUME NEW m \in Node, receiver'[m] # None
               PROVE  /\ server'[m].up /\ server'[m].data = "standby" /\ server'[receiver'[m]].up
                      /\ Below(m, receiver[m])'
    BY DEF Attachments
  <2>4. CASE m = n
    BY <2>1, <2>2, <2>3, <2>4 DEF Below
  <2>5. CASE m # n
    BY <2>1, <2>3, <2>5 DEF Attachments, Below
  <2> QED BY <2>4, <2>5
<1>5. CASE StandbyRegister(n) \/ Killed(n)
  BY <1>5 DEF StandbyRegister, Killed, Attachments, Below
<1> QED BY <1>2, <1>3, <1>4, <1>5, StreamKeeps, WriteKeeps, PromotionKeeps DEF Environment

LEMMA NextAttachments ==
  ASSUME TypeOK, CommandInv, Attachments, [Next]_vars
  PROVE  Attachments'
<1>1. CASE UNCHANGED vars
  BY <1>1 DEF vars, Attachments, Below
<1>2. CASE Next
  <2>1. PICK n \in Node : CommandOf(n) \/ StepOf(n) \/ Environment(n)
    BY <1>2 DEF Next
  <2>2. Running(n) => Resting(n)
    BY DEF CommandInv, Resting
  <2> QED BY <2>1, <2>2, CommandAttachments, StepAttachments, EnvironmentAttachments
<1> QED BY <1>1, <1>2
-----------------------------------------------------------------------------
(* What a rejoin has compared. *)

\* Where each step of a command leads.
LEMMA StepGoes ==
  ASSUME TypeOK, NEW n \in Node, StepOf(n)
  PROVE  \/ Ends(n)
         \/ InitialiseDirectClone(n) /\ GoesOn(n, "backup")
         \/ Rewind(n) /\ GoesOn(n, "copied slots")
         \/ DeleteCopiedSlots(n) /\ GoesOn(n, "target slot")
         \/ /\ \E hostGiven \in BOOLEAN : CreateTargetSlot(n, hostGiven)
            /\ GoesOn(n, "write conf")
         \/ WriteConf(n) /\ RecoveryFileWritten(n) /\ GoesOn(n, "restart")
         \/ \E step \in {"upstream slot", "drop source slot", "write file", "drop old slot",
                         "update record", "wait"} : GoesOn(n, step)
<1>1. cmd \in [Node -> Process] /\ registry \in [Node -> NodeRecord] /\ cmd[n] \in Process
  BY TypeParts
<1>2. \A step \in Step : Continue(n, step) \/ Warn(n, step) => GoesOn(n, step)
  BY <1>1, ContinueIs, WarnIs
<1>3. (\E code \in Exit : Abort(n, code)) \/ Succeed(n) => Ends(n)
  BY <1>1, AbortIs, SucceedIs
<1>4. CASE InitialiseDirectClone(n)
  BY <1>2, <1>3, <1>4, SomeSteps, SomeExits DEF InitialiseDirectClone
<1>5. CASE RunBasebackup(n) \/ FetchFileBackup(n)
  BY <1>2, <1>3, <1>5, SomeSteps, SomeExits DEF RunBasebackup, FetchFileBackup
<1>6. CASE MoveSlotToUpstream(n)
  <2>1. \/ Warn(n, "drop source slot") \/ Continue(n, "write file")
        \/ Continue(n, "drop source slot") \/ Abort(n, "ERR_DB_QUERY")
    BY <1>6 DEF MoveSlotToUpstream, Continue
  <2> QED BY <1>2, <1>3, <2>1, SomeSteps, SomeExits
<1>7. CASE DropSourceSlot(n) \/ BarmanUpstreamSlot(n)
  <2>1. Warn(n, "write file") \/ Continue(n, "write file")
    BY <1>7 DEF DropSourceSlot, BarmanUpstreamSlot
  <2> QED BY <1>2, <2>1, SomeSteps
<1>8. CASE FileBackupFails(n) \/ FinishClone(n) \/ WriteRecoveryConf(n) \/ AwaitAttachment(n)
  BY <1>3, <1>8, SomeExits DEF FileBackupFails, FinishClone, WriteRecoveryConf, AwaitAttachment, GeneralError
<1>9. ASSUME NEW hostGiven \in BOOLEAN, CreateTargetSlot(n, hostGiven)
      PROVE  Ends(n) \/ GoesOn(n, "write conf")
  <2> DEFINE old == IF registry[n].upstream # None THEN registry[n].upstream ELSE cmd[n].target
             changed == [cmd[n] EXCEPT !.step = "write conf", !.old = old]
  <2>1. \/ \E code \in Exit : Abort(n, code)
        \/ Continue(n, "write conf")
        \/ cmd' = [cmd EXCEPT ![n] = changed]
    BY <1>9, SomeExits DEF CreateTargetSlot
  <2>2. old \in Node \cup {None}
    BY <1>1 DEF NodeRecord, Process
  <2> HIDE DEF old
  <2>3. /\ changed \in Process /\ changed.step = "write conf" /\ changed.op = cmd[n].op
        /\ changed.source = cmd[n].source /\ changed.target = cmd[n].target
        /\ changed.rewind = cmd[n].rewind /\ changed.done = cmd[n].done
    BY <1>1, <2>2, SomeSteps DEF Process
  <2> HIDE DEF changed
  <2>4. CASE cmd' = [cmd EXCEPT ![n] = changed]
    <3>1. cmd' \in [Node -> Process] /\ cmd'[n] = changed /\ Others(n)
      BY <1>1, <2>3, <2>4 DEF Others
    <3> QED BY <2>3, <3>1 DEF GoesOn
  <2> QED BY <1>2, <1>3, <2>1, <2>4, SomeSteps
<1>10. CASE WriteConf(n)
  BY <1>2, <1>3, <1>10, SomeSteps, SomeExits DEF WriteConf, GeneralError
<1>11. CASE RestartServer(n)
  <2>1. Continue(n, "drop old slot") \/ Continue(n, "update record") \/ Abort(n, "ERR_NO_RESTART")
    BY <1>11 DEF RestartServer
  <2> QED BY <1>2, <1>3, <2>1, SomeSteps, SomeExits
<1>12. CASE DropOldSlot(n) \/ UpdateRecord(n)
  BY <1>2, <1>3, <1>12, SomeSteps, SomeExits DEF DropOldSlot, UpdateRecord
<1>13. CASE Rewind(n) \/ DeleteCopiedSlots(n)
  BY <1>2, <1>3, <1>13, SomeSteps, SomeExits DEF Rewind, DeleteCopiedSlots
<1> QED BY <1>4, <1>5, <1>6, <1>7, <1>8, <1>9, <1>10, <1>11, <1>12, <1>13 DEF StepOf

LEMMA StepPurges ==
  ASSUME NEW n \in Node, StepOf(n)
  PROVE  Purge(n) \/ UNCHANGED purged
BY DEF StepOf, InitialiseDirectClone, RunBasebackup, MoveSlotToUpstream, DropSourceSlot, FetchFileBackup,
   FileBackupFails, BarmanUpstreamSlot, FinishClone, WriteRecoveryConf, CreateTargetSlot, WriteConf,
   RestartServer, DropOldSlot, UpdateRecord, AwaitAttachment, Rewind, DeleteCopiedSlots

LEMMA CommandBegins ==
  ASSUME NEW n \in Node, CommandOf(n)
  PROVE  ~Running(n)
<1>1. \A emptied : Begin(n, emptied) => ~Running(n)
  BY DEF Begin, Running
<1>2. ASSUME NEW source, NEW option, NEW force,
             \/ StandbyClone(n, source, option, force)
             \/ BarmanClone(n, source, option, force)
             \/ CreateRecoveryConf(n, source, option, force)
      PROVE  ~Running(n)
  <2>1. CASE StandbyClone(n, source, option, force)
    BY <1>1, <2>1 DEF StandbyClone
  <2>2. CASE BarmanClone(n, source, option, force)
    BY <1>1, <2>2 DEF BarmanClone
  <2>3. CASE CreateRecoveryConf(n, source, option, force)
    BY <1>1, <2>3 DEF CreateRecoveryConf
  <2> QED BY <1>2, <2>1, <2>2, <2>3
<1>3. ASSUME NEW option, StandbyFollow(n, option) PROVE ~Running(n)
  BY <1>1, <1>3 DEF StandbyFollow
<1>4. ASSUME NEW upstream, NEW rewind, NodeRejoin(n, upstream, rewind) PROVE ~Running(n)
  BY <1>1, <1>4 DEF NodeRejoin
<1> QED BY <1>2, <1>3, <1>4 DEF CommandOf

\* A command that starts replaces a data directory at once only with Barman, and
\* compares histories only as a rejoin.
LEMMA CommandCompares ==
  ASSUME TypeOK, NEW n \in Node, CommandOf(n)
  PROVE  /\ Replacing(n)' => Begin(n, {n})
         /\ cmd'[n].op = "rejoin" /\ Running(n)' =>
              \E rewind \in BOOLEAN, u \in Node :
                /\ server[u].up /\ \E lsn \in ComparedPositions(n) : CanAttach(n, u, lsn, rewind)
                /\ cmd'[n].target = u /\ Begin(n, {})
                /\ cmd'[n].step = IF rewind THEN "rewind" ELSE "target slot"
                /\ ~server[n].up /\ Others(n) /\ UNCHANGED <<server, wal, fork>>
<1>1. cmd \in [Node -> Process]
  BY TypeParts
<1>2. ASSUME NEW source \in Node, NEW option \in Node \cup {None}, NEW force \in BOOLEAN,
             StandbyClone(n, source, option, force)
      PROVE  cmd'[n].op = "clone" /\ cmd'[n].step = "source slot"
  <2>1. PICK u \in Node : Run(n, "clone", "source slot", source, u, FALSE)
    BY <1>2, CloneTargetsAreNodes DEF StandbyClone
  <2>2. Starts(n, "clone", "source slot", source, u)
    BY <1>1, <2>1, RunIs, SomeSteps
  <2> QED BY <2>2 DEF Starts
<1>3. ASSUME NEW source \in Node, NEW option \in Node \cup {None}, NEW force \in BOOLEAN,
             BarmanClone(n, source, option, force)
      PROVE  Begin(n, {n}) /\ (cmd'[n].op = "barman" \/ ~Running(n)')
  <2>1. (\E u \in Node : Starts(n, "barman", "backup", source, u)) \/ Ends(n)
    BY <1>3, BarmanIs
  <2> QED BY <1>3, <2>1 DEF BarmanClone, Starts, Ends, Running
<1>4. ASSUME NEW source \in Node, NEW option \in Node \cup {None}, NEW force \in BOOLEAN,
             CreateRecoveryConf(n, source, option, force)
      PROVE  cmd'[n].op = "conf"
  <2>1. PICK u \in Node, step \in Step : Starts(n, "conf", step, source, u)
    BY <1>4, ConfIs, SomeSteps
  <2> QED BY <2>1 DEF Starts
<1>5. ASSUME NEW option \in Node \cup {None}, StandbyFollow(n, option)
      PROVE  cmd'[n].op = "follow"
  <2>1. PICK u \in Node : Run(n, "follow", "target slot", None, u, FALSE)
    BY <1>5 DEF StandbyFollow, FollowTargets, PrimaryConnections
  <2>2. Starts(n, "follow", "target slot", None, u)
    BY <1>1, <2>1, RunIs, SomeSteps
  <2> QED BY <2>2 DEF Starts
<1>6. ASSUME NEW upstream \in Node, NEW rewind \in BOOLEAN, NodeRejoin(n, upstream, rewind)
      PROVE  /\ cmd'[n].op = "rejoin"
             /\ \E u \in Node :
                  /\ server[u].up /\ \E lsn \in ComparedPositions(n) : CanAttach(n, u, lsn, rewind)
                  /\ cmd'[n].target = u /\ Begin(n, {})
                  /\ cmd'[n].step = IF rewind THEN "rewind" ELSE "target slot"
                  /\ ~server[n].up /\ Others(n) /\ UNCHANGED <<server, wal, fork>>
  <2> DEFINE first == IF rewind THEN "rewind" ELSE "target slot"
  <2>1. PICK u \in Node : /\ server[u].up
                          /\ \E lsn \in ComparedPositions(n) : CanAttach(n, u, lsn, rewind)
                          /\ Run(n, "rejoin", first, None, u, rewind)
    BY <1>6 DEF NodeRejoin, RecordedPrimary, Reachable
  <2>2. first \in Step /\ "rejoin" \in Command /\ None \in Node \cup {None} /\ rewind \in BOOLEAN
    BY SomeSteps
  <2> HIDE DEF first
  <2>3. Starts(n, "rejoin", first, None, u)
    BY <1>1, <2>1, <2>2, RunIs
  <2>4. Begin(n, {}) /\ ~server[n].up /\ UNCHANGED <<server, wal, fork>>
    BY <1>6 DEF NodeRejoin
  <2> QED BY <2>1, <2>3, <2>4 DEF Starts, first
<1>7. Replacing(n)' => Begin(n, {n})
  <2>1. SUFFICES ASSUME cmd'[n].op \in {"clone", "barman"}, cmd'[n].step = "backup" PROVE Begin(n, {n})
    BY DEF Replacing
  <2> QED BY <1>2, <1>3, <1>4, <1>5, <1>6, <2>1 DEF CommandOf
<1>8. cmd'[n].op = "rejoin" /\ Running(n)' =>
        \E upstream \in Node, rewind \in BOOLEAN : NodeRejoin(n, upstream, rewind)
  BY <1>2, <1>3, <1>4, <1>5 DEF CommandOf
<1> QED BY <1>6, <1>7, <1>8

\* The data directory of m is replaced only after its slots have been dropped
\* under the commands that run.
LEMMA ReplacingPurges ==
  ASSUME TypeOK, NEW m \in Node, CommandOf(m) \/ StepOf(m), Replacing(m)', ~Replacing(m),
         NEW n \in Node \ {m}, Running(n)
  PROVE  <<m, n>> \in purged'
<1>1. purged \subseteq Node \X Node /\ spent \in Bounds
  BY TypeParts
<1>2. CASE CommandOf(m)
  <2>1. Begin(m, {m})
    BY <1>2, CommandCompares
  <2>2. {m} \in SUBSET Node
    OBVIOUS
  <2> QED BY <1>1, <2>1, <2>2, BeginIs
<1>3. CASE StepOf(m)
  <2>1. ~Ends(m) /\ \A step \in Step : step # "backup" => ~GoesOn(m, step)
    BY DEF Ends, GoesOn, Replacing
  <2>2. InitialiseDirectClone(m)
    BY <1>3, <2>1, StepGoes, SomeSteps
  <2> QED BY <1>1, <2>2, PurgeIs DEF InitialiseDirectClone
<1> QED BY <1>2, <1>3

\* A rejoin that has compared the histories was already one, or starts now.
LEMMA RejoiningWas ==
  ASSUME TypeOK, NEW n \in Node, NEW m \in Node, CommandOf(n) \/ StepOf(n), Rejoining(n, m)'
  PROVE  CommandOf(n) \/ (Rejoining(n, m) /\ (Rewind(n) \/ cmd[n].step # "rewind"))
<1> SUFFICES ASSUME StepOf(n) PROVE Rejoining(n, m) /\ (Rewind(n) \/ cmd[n].step # "rewind")
  OBVIOUS
<1>1. purged \subseteq Node \X Node
  BY TypeParts
<1>2. /\ cmd'[n].op = "rejoin" /\ cmd'[n].target = m /\ <<m, n>> \notin purged'
      /\ cmd'[n].step \in {"rewind", "copied slots", "target slot", "write conf"}
      /\ server'[n].ended # "shutting down"
  BY DEF Rejoining
<1>3. ~Ends(n) /\ \A step \in Step : GoesOn(n, step) => step = cmd'[n].step
  BY <1>2 DEF Ends, GoesOn
<1>4. \/ Rewind(n) /\ GoesOn(n, "copied slots")
      \/ DeleteCopiedSlots(n) /\ GoesOn(n, "target slot")
      \/ (\E hostGiven \in BOOLEAN : CreateTargetSlot(n, hostGiven)) /\ GoesOn(n, "write conf")
  BY <1>2, <1>3, StepGoes, SomeSteps
<1>5. cmd[n].op = "rejoin" /\ cmd[n].target = m
  BY <1>2, <1>4 DEF GoesOn
<1>6. (cmd[n].step = "rewind" /\ Rewind(n)) \/ cmd[n].step \in {"copied slots", "target slot"}
  BY <1>4 DEF Rewind, DeleteCopiedSlots, CreateTargetSlot, At
<1>7. <<m, n>> \notin purged
  BY <1>1, <1>2, StepPurges, PurgeIs
<1>8. server[n].ended # "shutting down"
  <2>1. CASE Rewind(n)
    <3>1. server[n].ended = "clean" \/ UNCHANGED server
      BY <2>1 DEF Rewind
    <3> QED BY <1>2, <3>1
  <2>2. CASE DeleteCopiedSlots(n) \/ \E hostGiven \in BOOLEAN : CreateTargetSlot(n, hostGiven)
    BY <1>2, <2>2 DEF DeleteCopiedSlots, CreateTargetSlot
  <2> QED BY <1>4, <2>1, <2>2
<1> QED BY <1>5, <1>6, <1>7, <1>8 DEF Rejoining

\* Nothing but the replacement of a data directory, a rewind, streaming, writing
\* and a promotion changes the WAL of a node.
LEMMA StepWal ==
  ASSUME TypeOK, NEW k \in Node, StepOf(k)
  PROVE  /\ fork' = fork /\ \A m \in Node \ {k} : wal'[m] = wal[m]
         /\ wal'[k] = wal[k] \/ Replacing(k) \/ (Rewind(k) /\ Purge(k))
<1>1. wal \in [Node -> Wal]
  BY TypeParts
<1>2. CASE RunBasebackup(k) \/ FetchFileBackup(k)
  BY <1>1, <1>2 DEF RunBasebackup, FetchFileBackup, Replacing, At
<1>3. CASE Rewind(k)
  BY <1>1, <1>3, RewindIs DEF Rewind
<1>4. CASE UNCHANGED <<wal, fork>>
  BY <1>4
<1>5. CASE ~RunBasebackup(k) /\ ~FetchFileBackup(k) /\ ~Rewind(k)
  BY <1>4, <1>5 DEF StepOf, InitialiseDirectClone, MoveSlotToUpstream, DropSourceSlot,
     FileBackupFails, BarmanUpstreamSlot, FinishClone, WriteRecoveryConf, CreateTargetSlot, WriteConf,
     RestartServer, DropOldSlot, UpdateRecord, AwaitAttachment, DeleteCopiedSlots
<1> QED BY <1>2, <1>3, <1>5

LEMMA EnvironmentWal ==
  ASSUME NEW k \in Node, Environment(k)
  PROVE  UNCHANGED <<wal, fork>> \/ Stream(k) \/ Write(k) \/ StandbyPromote(k)
BY DEF Environment, ServerDown, Killed, ServerUp, ReceiverStarts, StandbyRegister, Stream, Write,
       StandbyPromote

LEMMA NextCompared ==
  ASSUME TypeOK, CommandInv, Attachments, Compared, [Next]_vars
  PROVE  Compared'
<1> SUFFICES ASSUME NEW n \in Node, NEW m \in Node, Rejoining(n, m)'
             PROVE  Agreed(n, m)'
  BY DEF Compared
<1>1. /\ \A k \in Node : wal[k].tli \in 1..2 /\ wal[k].lsn \in Nat
      /\ fork \in Nat /\ wal \in [Node -> Wal] /\ purged \subseteq Node \X Node /\ spent \in Bounds
      /\ cmd \in [Node -> Process]
  <2>1. wal \in [Node -> Wal] /\ fork \in 0..MaxLsn
    BY TypeParts
  <2>2. \A k \in Node : wal[k].tli \in 1..2 /\ wal[k].lsn \in Nat
    BY <2>1 DEF Wal
  <2> QED BY <2>1, <2>2, TypeParts
<1>2. CASE UNCHANGED vars
  BY <1>2 DEF vars, Rejoining, Compared, Agreed, Replacing
<1>3. CASE \E k \in Node : CommandOf(k) \/ StepOf(k) \/ Environment(k)
  <2>1. PICK k \in Node : CommandOf(k) \/ StepOf(k) \/ Environment(k)
    BY <1>3
  <2>6. ~Killed(n)
    BY KilledEnds DEF Rejoining, Running
  <2>2. ASSUME Rejoining(n, m), cmd'[n].step # "rewind" => cmd[n].step # "rewind" \/ Rewind(n)
        PROVE  Agreed(n, m)'
    <3>1. Running(n) /\ Agreed(n, m)
      BY <2>2 DEF Rejoining, Running, Compared
    <3>2. Sound(n) /\ cmd[n].op = "rejoin" /\ cmd[n].target = m
      BY <2>2, <3>1 DEF CommandInv, Rejoining
    <3>3. n # m /\ ~server[n].up /\ ~Replacing(n)
      BY <2>2, <3>2 DEF Sound, Rejoining, Replacing
    <3>4. <<m, n>> \notin purged'
      BY DEF Rejoining
    <3>5. ~Replacing(m)'
      <4>1. ~Replacing(m)
        BY <3>1 DEF Agreed
      <4>2. CASE Quiet(m)
        BY <4>1, <4>2 DEF Quiet, Replacing
      <4>3. CASE k = m /\ (CommandOf(m) \/ StepOf(m))
        BY <3>1, <3>3, <3>4, <4>1, <4>3, ReplacingPurges
      <4>4. CASE Killed(m)
        BY <4>4, KilledEnds DEF Replacing, Running
      <4> QED BY <2>1, <4>2, <4>3, <4>4, CommandIsQuiet, StepIsQuiet, EnvironmentIsQuiet
    <3>6. /\ wal[n].tli <= wal[m].tli
          /\ wal[m].tli = 1 => wal[n].lsn <= wal[m].lsn
          /\ cmd[n].step # "rewind" /\ wal[n].tli < wal[m].tli => wal[n].lsn <= fork
      BY <3>1 DEF Agreed
    <3>7. CASE wal'[n] = wal[n] /\ wal'[m] = wal[m] /\ fork' = fork /\ ~Rewind(n)
      BY <2>2, <3>5, <3>6, <3>7 DEF Agreed
    <3>8. CASE CommandOf(k)
      <4>1. UNCHANGED <<wal, fork>>
        BY <3>8, CommandAttachments
      <4>2. k # n
        BY <3>1, <3>8, CommandBegins
      <4>3. cmd'[n] = cmd[n]
        BY <3>8, <4>2, CommandIsQuiet DEF Quiet
      <4> QED BY <3>5, <3>6, <4>1, <4>3 DEF Agreed
    <3>9. CASE StepOf(k) /\ ~Rewind(n)
      <4>1. k = m => ~(Rewind(m) /\ Purge(m))
        BY <1>1, <3>1, <3>4, PurgeIs
      <4>2. wal'[n] = wal[n] /\ wal'[m] = wal[m] /\ fork' = fork
        BY <3>1, <3>3, <3>9, <4>1, StepWal DEF Agreed
      <4> QED BY <3>7, <3>9, <4>2
    <3>10. CASE Rewind(n)
      <4>1. ~Ends(n)
        BY DEF Ends, Rejoining
      <4>2. \A code \in Exit : ~Abort(n, code)
        BY <1>1, <4>1, AbortIs
      <4>3. wal'[m] = wal[m] /\ fork' = fork
        BY <3>3, <3>10, RewindIs DEF Rewind
      <4>4. CASE wal[n].tli < wal[m].tli /\ wal'[n] = Rewound(n)
        <5>1. wal'[n].tli = wal[m].tli /\ wal[m].tli # 1
          BY <1>1, <3>2, <4>4 DEF Rewound
        <5> QED BY <1>1, <3>5, <4>3, <5>1 DEF Agreed
      <4>5. CASE wal'[n] = wal[n] /\ SharesHistory(n, m)
        <5>1. wal[n].tli < wal[m].tli => wal[n].lsn <= fork
          BY <1>1, <4>5 DEF SharesHistory
        <5> QED BY <3>5, <3>6, <4>3, <4>5, <5>1 DEF Agreed
      <4> QED BY <3>2, <3>10, <4>2, <4>4, <4>5, RewindIs, SomeExits
    <3>11. CASE Environment(k) /\ ~Rewind(n)
      <4>1. cmd'[n] = cmd[n]
        BY <2>6, <3>11, EnvironmentIsQuiet DEF Quiet
      <4>2. CASE UNCHANGED <<wal, fork>>
        BY <3>7, <3>11, <4>2
      <4>3. CASE Stream(k)
        <5>1. /\ k # n /\ receiver[k] \in Node /\ wal'[k] = wal[receiver[k]] /\ Below(k, receiver[k])
              /\ fork' = fork /\ \A l \in Node \ {k} : wal'[l] = wal[l]
          BY <3>3, <4>3, StreamKeeps DEF Attachments, Stream
        <5>2. CASE k # m
          BY <3>3, <3>7, <3>11, <5>1, <5>2
        <5>3. CASE k = m
          <6>1. PICK r \in Node : wal'[m] = wal[r] /\ Below(m, r)
            BY <5>1, <5>3
          <6>2. /\ wal[n].tli <= wal[r].tli
                /\ wal[r].tli = 1 => wal[n].lsn <= wal[r].lsn
                /\ cmd[n].step # "rewind" /\ wal[n].tli < wal[r].tli => wal[n].lsn <= fork
            BY <1>1, <3>6, <6>1 DEF Below
          <6>3. wal'[n] = wal[n]
            BY <5>1
          <6> QED BY <3>5, <4>1, <5>1, <6>1, <6>2, <6>3 DEF Agreed
        <5> QED BY <5>2, <5>3
      <4>4. CASE Write(k)
        <5>1. /\ k # n /\ fork' = fork /\ \A l \in Node \ {k} : wal'[l] = wal[l]
              /\ wal'[k].tli = wal[k].tli /\ wal'[k].lsn = wal[k].lsn + 1
          BY <3>3, <4>4, WriteKeeps
        <5>2. CASE k # m
          BY <3>3, <3>7, <3>11, <5>1, <5>2
        <5>3. CASE k = m
          BY <1>1, <3>5, <3>6, <4>1, <5>1, <5>3 DEF Agreed
        <5> QED BY <5>2, <5>3
      <4>5. CASE StandbyPromote(k)
        <5>1. /\ k # n /\ fork' = wal[k].lsn /\ \A l \in Node \ {k} : wal'[l] = wal[l]
              /\ \A l \in Node : wal[l].tli = 1
              /\ wal'[k].tli = 2
          BY <3>1, <4>5, PromotionKeeps
        <5>2. CASE k # m
          <6>1. wal'[n] = wal[n] /\ wal'[m] = wal[m] /\ wal[n].tli = 1 /\ wal[m].tli = 1
            BY <3>3, <5>1, <5>2
          <6> QED BY <1>1, <3>5, <3>6, <6>1 DEF Agreed
        <5>3. CASE k = m
          <6>1. wal'[n] = wal[n] /\ wal[n].tli = 1 /\ wal[m].tli = 1 /\ wal'[m].tli = 2 /\ fork' = wal[m].lsn
            BY <3>3, <5>1, <5>3
          <6>2. wal[n].lsn <= wal[m].lsn
            BY <3>6, <6>1
          <6> QED BY <1>1, <3>5, <6>1, <6>2 DEF Agreed
        <5> QED BY <5>2, <5>3
      <4> QED BY <3>11, <4>2, <4>3, <4>4, <4>5, EnvironmentWal
    <3> QED BY <2>1, <3>8, <3>9, <3>10, <3>11
  <2>3. CASE Quiet(n)
    <3>1. cmd'[n] = cmd[n]
      BY <2>3 DEF Quiet
    <3>2. Running(n)
      BY <3>1 DEF Rejoining, Running
    <3>3. <<m, n>> \notin purged
      BY <2>3, <3>2 DEF Quiet, Rejoining
    <3>4. server[n].ended # "shutting down"
      <4>1. ~server[n].up
        BY <3>1, <3>2 DEF CommandInv, Sound, Rejoining
      <4> QED BY <2>3, <3>2, <4>1 DEF Quiet, Rejoining
    <3>5. Rejoining(n, m)
      BY <3>1, <3>3, <3>4 DEF Rejoining
    <3> QED BY <2>2, <3>1, <3>5
  <2>4. CASE k = n /\ CommandOf(n)
    <3>1. /\ cmd'[n].op = "rejoin" /\ Running(n)' /\ cmd'[n].target = m
      BY DEF Rejoining, Running
    <3>2. PICK rewind \in BOOLEAN :
            /\ server[m].up /\ \E lsn \in ComparedPositions(n) : CanAttach(n, m, lsn, rewind)
            /\ cmd'[n].step = IF rewind THEN "rewind" ELSE "target slot"
            /\ ~server[n].up /\ Others(n) /\ UNCHANGED <<server, wal, fork>>
      BY <2>4, <3>1, CommandCompares
    <3>3. cmd'[m] = cmd[m]
      BY <3>2 DEF Others
    <3>4. ~Replacing(m)
      <4>1. Replacing(m) => Running(m) /\ cmd[m].op \in {"clone", "barman"}
        BY DEF Replacing, Running
      <4> QED BY <3>2, <4>1 DEF CommandInv, Sound
    <3>5. /\ wal[n].tli <= wal[m].tli
          /\ wal[m].tli = 1 => wal[n].lsn <= wal[m].lsn
          /\ ~rewind /\ wal[n].tli < wal[m].tli => wal[n].lsn <= fork
      <4>1. \/ wal[n].tli = wal[m].tli /\ wal[n].lsn <= wal[m].lsn
            \/ wal[n].tli < wal[m].tli /\ (wal[n].lsn <= fork \/ rewind)
        <5>1. ComparedPositions(n) = {wal[n].lsn}
          BY <3>2 DEF Rejoining, ComparedPositions
        <5> QED BY <3>2, <5>1 DEF CanAttach, HistoryEnd
      <4>2. wal[n].tli \in 1..2 /\ wal[m].tli \in 1..2
        BY <1>1
      <4>3. CASE wal[n].tli = wal[m].tli /\ wal[n].lsn <= wal[m].lsn
        BY <4>2, <4>3
      <4>4. CASE wal[n].tli < wal[m].tli /\ wal[n].lsn <= fork
        BY <4>2, <4>4
      <4>5. CASE wal[n].tli < wal[m].tli /\ rewind
        <5>1. wal[n].tli <= wal[m].tli /\ wal[m].tli # 1
          BY <4>2, <4>5
        <5> QED BY <4>5, <5>1
      <4> QED BY <4>1, <4>3, <4>4, <4>5
    <3>6. cmd'[n].step # "rewind" => ~rewind
      BY <3>2
    <3> QED BY <3>2, <3>3, <3>4, <3>5, <3>6 DEF Agreed, Replacing
  <2>5. CASE k = n /\ StepOf(n) /\ ~CommandOf(n)
    BY <2>2, <2>5, RejoiningWas
  <2> QED BY <2>1, <2>3, <2>4, <2>5, <2>6, CommandIsQuiet, StepIsQuiet, EnvironmentIsQuiet
<1> QED BY <1>2, <1>3 DEF Next

LEMMA InitHistory == Init => HistoryInv
<1>1. Init => Compared
  <2>1. Init => \A n \in Node : cmd[n].op = "none"
    BY DEF Init, NoCommand
  <2> QED BY <2>1 DEF Compared, Rejoining
<1> QED BY <1>1, InitAttachments DEF HistoryInv

\* What streams has WAL of its upstream, and what is rejoining has compared well.
THEOREM HistoriesAgree == Spec => []HistoryInv
<1>1. TypeOK /\ CommandInv /\ HistoryInv /\ [Next]_vars => HistoryInv'
  BY NextAttachments, NextCompared DEF HistoryInv
<1> QED BY InitHistory, TypeCorrect, CommandsRest, <1>1, PTL DEF Spec

\* Two histories of which one is not ahead of the other.
LEMMA InOrder ==
  ASSUME wal \in [Node -> Wal], NEW n \in Node, NEW m \in Node, wal[n].tli <= wal[m].tli
  PROVE  wal[n].tli = wal[m].tli \/ wal[n].tli < wal[m].tli
<1>1. wal[n].tli \in Nat /\ wal[m].tli \in Nat
  BY DEF Wal
<1> QED BY <1>1

LEMMA RejoinConfigures ==
  ASSUME TypeOK, CommandInv, HistoryInv, [Next]_vars, NEW n \in Node,
         cmd[n].op = "rejoin", conninfo'[n] # conninfo[n], cmd'[n].step = "restart",
         <<conninfo'[n], n>> \notin purged, server[n].ended # "shutting down"
  PROVE  SharesHistory(n, conninfo'[n])
<1>1. PICK k \in Node : CommandOf(k) \/ StepOf(k) \/ Environment(k)
  BY DEF Next, vars
<1>2. ~Quiet(n)
  BY DEF Quiet, Running
<1>3. k = n /\ (CommandOf(n) \/ StepOf(n))
  <2>1. ~Killed(n)
    BY KilledEnds DEF Running
  <2> QED BY <1>1, <1>2, <2>1, CommandIsQuiet, StepIsQuiet, EnvironmentIsQuiet
<1>4. ~CommandOf(n)
  BY CommandLeaves
<1>5. ~Ends(n) /\ \A step \in Step : step # "restart" => ~GoesOn(n, step)
  BY DEF Ends, GoesOn
<1>6. WriteConf(n) /\ RecoveryFileWritten(n)
  BY <1>3, <1>4, <1>5, StepGoes, SomeSteps
<1>7. cmd[n].step = "write conf" /\ Running(n)
  BY <1>6 DEF WriteConf, At, Running
<1>8. conninfo'[n] = cmd[n].target /\ cmd[n].target \in Node
  BY <1>6, <1>7, TypeParts, WrittenIs DEF CommandInv, Sound
<1>9. Rejoining(n, cmd[n].target)
  BY <1>7, <1>8 DEF Rejoining
<1>10. Agreed(n, cmd[n].target)
  BY <1>8, <1>9 DEF HistoryInv, Compared
<1>11. SharesHistory(n, cmd[n].target)
  <2>1. wal[n].tli <= wal[cmd[n].target].tli
    BY <1>10 DEF Agreed
  <2>2. wal[n].tli = wal[cmd[n].target].tli \/ wal[n].tli < wal[cmd[n].target].tli
    BY <1>8, <2>1, TypeParts, InOrder
  <2> QED BY <1>7, <1>10, <2>2 DEF Agreed, SharesHistory
<1> QED BY <1>8, <1>11

\* RejoinCanAttach, for any number of nodes, commands and faults.
THEOREM RejoinSharesHistory == Spec => RejoinCanAttach
<1>1. TypeOK /\ CommandInv /\ HistoryInv /\ [Next]_vars =>
        [\A n \in Node : /\ cmd[n].op = "rejoin" /\ conninfo'[n] # conninfo[n]
                         /\ cmd'[n].step = "restart"
                         /\ <<conninfo'[n], n>> \notin purged
                         /\ server[n].ended # "shutting down"
           => SharesHistory(n, conninfo'[n])]_vars
  BY RejoinConfigures
<1> QED BY TypeCorrect, CommandsRest, HistoriesAgree, <1>1, PTL DEF Spec, RejoinCanAttach
=============================================================================
