----------------------------- MODULE BdrFailover -----------------------------
(***************************************************************************)
(* The failover of a BDR pair (repmgrd-bdr.c): the repmgrd of each node    *)
(* monitors both servers; when one fails, either daemon may become the     *)
(* handler, which is agreed on in the shared memory of the other server,   *)
(* marks the failed node inactive and runs the notification command.       *)
(*                                                                         *)
(* Each server has its copy of the node records, which BDR replicates in   *)
(* both directions, the last update winning.                               *)
(***************************************************************************)
EXTENDS Integers, FiniteSets

CONSTANTS
  BdrNode,     \* the ids of the two nodes
  MaxFaults    \* how many servers fail and repmgrds die

\* UNKNOWN_NODE_ID
Nobody == -1

ASSUME BdrNodeAssumption == BdrNode \subseteq Nat /\ Cardinality(BdrNode) = 2
ASSUME FaultsAssumption == MaxFaults \in Nat

VARIABLES
  alive,       \* the servers that run
  registered,  \* those whose shared memory knows the node's id
  handler,     \* the failover handler in each server's shared memory
  record,      \* each server's node records: active, and since which update
  clock,       \* the number of updates
  watch,       \* what each daemon thinks of each node
  conn,        \* each daemon's local connection, which may break unnoticed
  task,        \* what each daemon is doing
  left,        \* the servers where a handler has been left behind
  missed,      \* the daemons that have once been wrong about a node
  faults       \* how many there have been

bdrVars == <<alive, registered, handler, record, clock, watch, conn, task, left, missed, faults>>

Place ==
  {"stopped",
   "loop",       \* monitor_bdr()
   "reconnect",  \* try_reconnect()
   "failover",   \* do_bdr_failover(): connects to the other node, reads the record
   "claim",      \* am_bdr_failover_handler() under the shared lock
   "claiming",   \* the same before it takes the exclusive lock
   "recheck", "update", "unset",
   "recover",    \* do_bdr_recovery()
   "activate"}   \* the same before it updates the record

\* The stages with a connection to the other node.
Handling == {"claim", "claiming", "recheck", "update", "unset"}

Other(n) == CHOOSE m \in BdrNode : m # n

\* The link is the connection that the rest of the function uses.
At(stage, node) == [at |-> stage, node |-> node, link |-> "open"]

Goes(d, stage) == task' = [task EXCEPT ![d].at = stage]
Returns(d) == task' = [task EXCEPT ![d] = At("loop", d)]
Connection(d, status) == conn' = [conn EXCEPT ![d] = status]
Watch(d, m, state, status) ==
  watch' = [watch EXCEPT ![d][m] = [state |-> state, status |-> status]]

SetActive(n, m, active) ==
  /\ clock' = clock + 1
  /\ record' = [record EXCEPT ![n][m] = [active |-> active, since |-> clock']]

Fresh == [m \in BdrNode |-> [state |-> "normal", status |-> "up"]]

BdrInit ==
  /\ alive = BdrNode /\ registered = BdrNode
  /\ handler = [n \in BdrNode |-> Nobody]
  /\ record = [n \in BdrNode |-> [m \in BdrNode |-> [active |-> TRUE, since |-> 0]]]
  /\ clock = 0
  /\ watch = [d \in BdrNode |-> Fresh]
  /\ conn = [d \in BdrNode |-> "open"]
  /\ task = [d \in BdrNode |-> At("loop", d)]
  /\ left = {} /\ missed = {}
  /\ faults = 0
-----------------------------------------------------------------------------
(* The servers. *)

Fault ==
  /\ faults < MaxFaults
  /\ faults' = faults + 1

\* The server to which a daemon is connected for the rest of its function.
Peer(d) == IF task[d].at = "activate" THEN d ELSE Other(task[d].node)

\* A daemon at work on a node does not see that it fails again.
Busy(d) == task[d].at \in Handling \cup {"activate"}

ServerFails(n) ==
  /\ n \in alive /\ Fault
  /\ alive' = alive \ {n}
  /\ registered' = registered \ {n}
  /\ handler' = [handler EXCEPT ![n] = Nobody]
  /\ left' = left \ {n}
  /\ task' = [d \in BdrNode |->
       IF Busy(d) /\ Peer(d) = n /\ task[d].link = "open"
       THEN [task[d] EXCEPT !.link = "broken"] ELSE task[d]]
  /\ missed' = missed \cup {d \in BdrNode : Busy(d) /\ task[d].node = n}
  /\ IF conn[n] = "open" THEN Connection(n, "broken") ELSE UNCHANGED conn
  /\ UNCHANGED <<record, clock, watch>>

\* Only a repmgrd that starts makes the node's id known again.
ServerStarts(n) ==
  /\ n \notin alive
  /\ alive' = alive \cup {n}
  /\ UNCHANGED <<registered, handler, record, clock, watch, conn, task, left, missed, faults>>

Replicate(n, m) ==
  /\ {n, m} \subseteq alive
  /\ \E k \in BdrNode :
       /\ record[n][k].since > record[m][k].since
       /\ record' = [record EXCEPT ![m][k] = record[n][k]]
  /\ UNCHANGED <<alive, registered, handler, clock, watch, conn, task, left, missed, faults>>

Dies(d) ==
  /\ task' = [task EXCEPT ![d] = At("stopped", d)]
  /\ left' = left \cup {n \in BdrNode : handler[n] = d}

DaemonDies(d) ==
  /\ task[d].at # "stopped" /\ Fault
  /\ Dies(d)
  /\ UNCHANGED <<alive, registered, handler, record, clock, watch, conn, missed>>

\* main() and the start of monitor_bdr(), which wants an active record.
DaemonStarts(d) ==
  /\ task[d].at = "stopped" /\ d \in alive /\ record[d][d].active
  /\ registered' = registered \cup {d}
  /\ watch' = [watch EXCEPT ![d] = Fresh]
  /\ Connection(d, "open")
  /\ Returns(d)
  /\ UNCHANGED <<alive, handler, record, clock, left, missed, faults>>
-----------------------------------------------------------------------------
(* monitor_bdr(): every node in every interval. *)

\* Mutant: a node is only looked at again while it is marked as down.
Check_StillDown(d, m) ==
  /\ task[d].at = "loop"
  /\ \/ /\ watch[d][m] = [state |-> "normal", status |-> "up"] /\ m \notin alive
        /\ Watch(d, m, "normal", "down")
        /\ task' = [task EXCEPT ![d] = At("reconnect", m)]
     \/ /\ watch[d][m] = [state |-> "degraded", status |-> "down"] /\ m \in alive
        /\ task' = [task EXCEPT ![d] = At("recover", m)]
        /\ UNCHANGED watch
  /\ UNCHANGED <<alive, registered, handler, record, clock, conn, left, missed, faults>>

Check(d, m) ==
  /\ task[d].at = "loop"
  /\ \/ /\ watch[d][m] = [state |-> "normal", status |-> "up"] /\ m \notin alive
        /\ Watch(d, m, "normal", "down")
        /\ task' = [task EXCEPT ![d] = At("reconnect", m)]
     \/ /\ watch[d][m].state = "degraded" /\ m \in alive
        /\ task' = [task EXCEPT ![d] = At("recover", m)]
        /\ UNCHANGED watch
  /\ UNCHANGED <<alive, registered, handler, record, clock, conn, left, missed, faults>>

\* Mutant: the failure of the daemon's own node is left to the other daemon.
Reconnect_OwnIgnored(d) ==
  LET m == task[d].node IN
  /\ task[d].at = "reconnect"
  /\ IF m \in alive
     THEN Watch(d, m, "normal", "up") /\ Returns(d) /\ UNCHANGED conn
     ELSE /\ Watch(d, m, "degraded", "down")
          /\ IF m = d THEN Connection(d, "none") ELSE UNCHANGED conn
          /\ IF m = d THEN Returns(d) ELSE Goes(d, "failover")
  /\ UNCHANGED <<alive, registered, handler, record, clock, left, missed, faults>>

\* When all attempts have failed, do_bdr_failover() begins.
Reconnect(d) ==
  LET m == task[d].node IN
  /\ task[d].at = "reconnect"
  /\ \/ /\ m \in alive
        /\ Watch(d, m, "normal", "up")
        /\ Returns(d)
        /\ UNCHANGED conn
     \/ /\ m \notin alive
        /\ Watch(d, m, "degraded", "down")
        /\ IF m = d THEN Connection(d, "none") ELSE UNCHANGED conn
        /\ Goes(d, "failover")
  /\ UNCHANGED <<alive, registered, handler, record, clock, left, missed, faults>>

\* Nothing is done without another server, nor if its record of the failed
\* node is inactive: then the other repmgrd has done it.
NextNode(d) ==
  LET m == task[d].node
      o == Other(m) IN
  /\ task[d].at = "failover"
  /\ IF o \in alive /\ record[o][m].active THEN Goes(d, "claim") ELSE Returns(d)
  /\ UNCHANGED <<alive, registered, handler, record, clock, watch, conn, left, missed, faults>>

PeekHandler(d) ==
  LET o == Other(task[d].node) IN
  /\ task[d].at = "claim"
  /\ \/ /\ task[d].link = "open" /\ handler[o] = Nobody
        /\ Goes(d, "claiming")
     \/ /\ task[d].link = "open" /\ handler[o] = d
        /\ Goes(d, "recheck")
     \/ /\ task[d].link # "open" \/ handler[o] = Other(d)
        /\ Returns(d)
  /\ UNCHANGED <<alive, registered, handler, record, clock, watch, conn, left, missed, faults>>

ClaimHandler(d) ==
  LET o == Other(task[d].node) IN
  /\ task[d].at = "claiming"
  /\ IF task[d].link = "open"
     THEN /\ handler' = [handler EXCEPT ![o] = d]
          /\ Goes(d, "recheck")
     ELSE Returns(d) /\ UNCHANGED handler
  /\ UNCHANGED <<alive, registered, record, clock, watch, conn, left, missed, faults>>

\* If the node is back the connection is closed, and used nevertheless; the
\* node stays marked as down, so that its next failure goes unnoticed.
Recheck(d) ==
  LET m == task[d].node IN
  /\ task[d].at = "recheck"
  /\ IF m \in alive
     THEN /\ watch' = [watch EXCEPT ![d][m].state = "normal"]
          /\ task' = [task EXCEPT ![d].at = "update", ![d].link = "freed"]
          /\ missed' = missed \cup {d}
     ELSE Goes(d, "update") /\ UNCHANGED <<watch, missed>>
  /\ UNCHANGED <<alive, registered, handler, record, clock, conn, left, faults>>

\* The node record, the event and its command.  What is done with a closed
\* connection is undefined: it fails or repmgrd crashes.
Update(d) ==
  LET m == task[d].node IN
  /\ task[d].at = "update"
  /\ \/ /\ task[d].link = "open"
        /\ SetActive(Other(m), m, FALSE)
        /\ Goes(d, "unset")
        /\ UNCHANGED left
     \/ /\ task[d].link # "open"
        /\ Goes(d, "unset")
        /\ UNCHANGED <<record, clock, left>>
     \/ /\ task[d].link = "freed"
        /\ Dies(d)
        /\ UNCHANGED <<record, clock>>
  /\ UNCHANGED <<alive, registered, handler, watch, conn, missed, faults>>

\* Mutant: the handler is not released.
Unset_Kept(d) ==
  /\ task[d].at = "unset"
  /\ Returns(d)
  /\ UNCHANGED <<alive, registered, handler, record, clock, watch, conn, left, missed, faults>>

\* unset_bdr_failover_handler() does nothing where the node's id is unknown.
Unset(d) ==
  LET o == Other(task[d].node)
      released == task[d].link = "open" /\ o \in registered
  IN
  /\ task[d].at = "unset"
  /\ \/ /\ handler' = IF released THEN [handler EXCEPT ![o] = Nobody] ELSE handler
        /\ left' = left \cup {n \in BdrNode : handler'[n] = d}
        /\ Returns(d)
     \/ /\ task[d].link = "freed"
        /\ Dies(d)
        /\ UNCHANGED handler
  /\ UNCHANGED <<alive, registered, record, clock, watch, conn, missed, faults>>
-----------------------------------------------------------------------------
(* do_bdr_recovery() *)

\* Without a local server, the node is taken to be well.
RecoverAlone(d) ==
  LET m == task[d].node IN
  /\ task[d].at = "recover"
  /\ m \in alive /\ d \notin alive /\ conn[d] = "none"
  /\ Watch(d, m, "normal", "up")
  /\ missed' = missed \cup {d}
  /\ Returns(d)
  /\ UNCHANGED <<alive, registered, handler, record, clock, conn, left, faults>>

\* The node has gone again, or its slot is not active in time, as when the local
\* connection is found to be broken: only the next call opens another one.
NotRecovered(d) ==
  LET m == task[d].node IN
  /\ task[d].at = "recover"
  /\ \/ m \notin alive /\ UNCHANGED <<watch, conn>>
     \/ /\ m \in alive /\ (d \in alive \/ conn[d] # "none")
        /\ Watch(d, m, "degraded", "up")
        /\ Connection(d, IF conn[d] = "broken" THEN "none" ELSE "open")
  /\ Returns(d)
  /\ UNCHANGED <<alive, registered, handler, record, clock, left, missed, faults>>

\* The slot for the other node is active on the local server.
Recovered(d) ==
  LET m == task[d].node IN
  /\ task[d].at = "recover"
  /\ alive = BdrNode /\ conn[d] # "broken"
  /\ Watch(d, m, "normal", "up")
  /\ Connection(d, "open")
  /\ IF m = d THEN Returns(d)
     ELSE task' = [task EXCEPT ![d] = At("activate", m)]
  /\ UNCHANGED <<alive, registered, handler, record, clock, left, missed, faults>>

\* The other node's daemon leaves this to us.
Activate(d) ==
  LET m == task[d].node IN
  /\ task[d].at = "activate"
  /\ IF task[d].link = "open"
     THEN SetActive(d, m, TRUE) /\ UNCHANGED conn
     ELSE Connection(d, "none") /\ UNCHANGED <<record, clock>>
  /\ missed' = IF task[d].link = "open" THEN missed ELSE missed \cup {d}
  /\ Returns(d)
  /\ UNCHANGED <<alive, registered, handler, watch, left, faults>>
-----------------------------------------------------------------------------
Repmgrd(d) ==
  \/ \E m \in BdrNode : Check(d, m)
  \/ Reconnect(d) \/ NextNode(d) \/ PeekHandler(d) \/ ClaimHandler(d) \/ Recheck(d)
  \/ Update(d) \/ Unset(d) \/ RecoverAlone(d) \/ NotRecovered(d) \/ Recovered(d) \/ Activate(d)

BdrNext ==
  \/ \E n \in BdrNode : ServerFails(n) \/ ServerStarts(n) \/ DaemonDies(n) \/ DaemonStarts(n)
  \/ \E n, m \in BdrNode : Replicate(n, m)
  \/ \E d \in BdrNode : Repmgrd(d)

BdrSpec == BdrInit /\ [][BdrNext]_bdrVars

\* A daemon runs on; BDR replicates, and its slots become active some time
\* after both nodes are up.
Fairness ==
  /\ \A d \in BdrNode : WF_bdrVars(Repmgrd(d)) /\ SF_bdrVars(Recovered(d))
  /\ WF_bdrVars(\E n, m \in BdrNode : Replicate(n, m))

BdrFairSpec == BdrSpec /\ Fairness
-----------------------------------------------------------------------------
(***************************************************************************)
(* A daemon that is not at work on a failover has released what it was     *)
(* granted for it, except where it died, lost its connection, or spoke to  *)
(* a server that had been restarted and does not know its node's id.       *)
(***************************************************************************)
HandlerIsReleased ==
  \A n \in BdrNode \ left, d \in BdrNode :
    handler[n] = d => task[d].at \in {"recheck", "update", "unset"} /\ Peer(d) = n

(***************************************************************************)
(* When a node fails for good, one running daemon is enough for the other  *)
(* node's copy of its record to be inactive in the end.  This needs a      *)
(* registered server, no handler left behind, and no daemon that was still *)
(* at work on the node, or mistaken about it, when it failed again.        *)
(***************************************************************************)
FailureIsHandled ==
  \A n, m \in BdrNode :
    <>[](/\ alive = {n} /\ n # m /\ n \in registered /\ left = {} /\ missed = {}
         /\ \E d \in BdrNode : task[d].at # "stopped")
      => <>[](~record[n][m].active)

(***************************************************************************)
(* When both servers are up for good, every daemon that runs returns to    *)
(* normal monitoring of both, however many recoveries were given up when   *)
(* the slot was late.                                                      *)
(***************************************************************************)
MonitoringResumes ==
  <>[](alive = BdrNode) =>
    <>[](\A d, m \in BdrNode :
           task[d].at # "stopped" => watch[d][m].state = "normal")
=============================================================================
