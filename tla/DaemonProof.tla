----------------------------- MODULE DaemonProof -----------------------------
(***************************************************************************)
(* Proofs about Daemon, for any number of pids, launches, restarts and     *)
(* faults: the types, with what a session and a registration imply, and    *)
(* that the pid file keeps all repmgrds but one from monitoring the node.  *)
(***************************************************************************)
EXTENDS Daemon, FiniteSetTheorems, TLAPS

\* The stages that are reached with the node's id known, while the session lasts.
Identified == {"check", "open", "write", "write removed", "register", "set pid"}

IdIsKnown == \A p \in Pid : Answers(p) /\ proc[p].stage \in Identified => segment.local # "unknown"

TypeInv == TypeOK /\ IdIsKnown

\* Between its look at the pid file and its end.
Holding == {"open", "write", "write removed", "register"} \cup Running
Holds(p) == proc[p].stage \in Holding

\* The file names the repmgrd that holds it as soon as it has been written.
HolderInv ==
  ~lapse => /\ \A p, q \in Pid : Holds(p) /\ Holds(q) => p = q
            /\ \A p \in Pid : At(p, "register") \/ Monitoring(p) => file = p
            /\ \A p \in Pid : ~At(p, "write removed")

-----------------------------------------------------------------------------
Memory == [local : {"unknown", "own", "foreign"}, pid : Pid \cup {Unknown}]
Process == [stage : Stage, link : Link]
Bounds == [launches : 0..MaxLaunches, restarts : 0..MaxRestarts, faults : 0..MaxFaults]
Order == [name : {"none", "start", "launch", "stop", "wait"}, pid : Pid \cup {Unknown}]

LEMMA SpendType ==
  ASSUME TypeOK,
         \/ Spend("launches", MaxLaunches)
         \/ Spend("restarts", MaxRestarts)
         \/ Spend("faults", MaxFaults)
  PROVE  spent' \in Bounds
BY BoundAssumption DEF TypeOK, Spend, Bounds

\* The types and the session's implications, one by one.
LEMMA TypeParts ==
  TypeInv <=>
    /\ server \in [up : BOOLEAN, primary : BOOLEAN]
    /\ segment \in Memory /\ proc \in [Pid -> Process]
    /\ file \in Pid \cup {"absent", "empty"} /\ command \in Order
    /\ cascaded \in BOOLEAN /\ gap \in BOOLEAN /\ lapse \in BOOLEAN /\ spent \in Bounds
    /\ \A p \in Pid : proc[p].link = "ok" => server.up /\ proc[p].stage \notin {"free", "other"}
    /\ segment.pid # Unknown => segment.local # "unknown"
    /\ \A p \in Pid : proc[p].link = "ok" /\ proc[p].stage \in Identified => segment.local # "unknown"
BY DEF TypeInv, TypeOK, IdIsKnown, Answers, Memory, Process, Order, Bounds, Stage, Starting, Running

\* The same parts after a step make up the types after it.
LEMMA TypesAfter ==
  ASSUME server' \in [up : BOOLEAN, primary : BOOLEAN],
         segment' \in Memory, proc' \in [Pid -> Process],
         file' \in Pid \cup {"absent", "empty"}, command' \in Order,
         cascaded' \in BOOLEAN, gap' \in BOOLEAN, lapse' \in BOOLEAN, spent' \in Bounds,
         \A p \in Pid : proc'[p].link = "ok" => server'.up /\ proc'[p].stage \notin {"free", "other"},
         segment'.pid # Unknown => segment'.local # "unknown",
         \A p \in Pid : proc'[p].link = "ok" /\ proc'[p].stage \in Identified => segment'.local # "unknown"
  PROVE  TypeInv'
<1>1. \A p \in Pid : proc'[p].link = "ok" => server'.up /\ proc'[p].stage \in Starting \cup Running \cup {"unlink"}
  BY DEF Process, Stage
<1>2. /\ segment' \in [local : {"unknown", "own", "foreign"}, pid : Pid \cup {Unknown}]
      /\ proc' \in [Pid -> [stage : Stage, link : Link]]
      /\ command' \in [name : {"none", "start", "launch", "stop", "wait"}, pid : Pid \cup {Unknown}]
      /\ spent' \in [launches : 0..MaxLaunches, restarts : 0..MaxRestarts, faults : 0..MaxFaults]
  BY DEF Memory, Process, Order, Bounds
<1>3. TypeOK'
  BY <1>1, <1>2 DEF TypeOK
<1>4. IdIsKnown'
  BY DEF IdIsKnown, Answers
<1> QED BY <1>3, <1>4 DEF TypeInv

\* What a process does to itself and to the segment, the server being the same.
LEMMA OneProcess ==
  ASSUME TypeInv, NEW p \in Pid,
         proc' \in [Pid -> Process], \A q \in Pid \ {p} : proc'[q] = proc[q],
         proc'[p].link = "ok" => proc[p].link = "ok" \/ server.up,
         proc'[p].link = "ok" => proc'[p].stage \notin {"free", "other"},
         proc'[p].link = "ok" /\ proc'[p].stage \in Identified => segment'.local # "unknown",
         segment' \in Memory, segment.local # "unknown" => segment'.local # "unknown",
         segment'.pid # Unknown => segment'.local # "unknown",
         server' = server,
         file' \in Pid \cup {"absent", "empty"}, command' \in Order, cascaded' \in BOOLEAN,
         gap' \in BOOLEAN, lapse' \in BOOLEAN, spent' \in Bounds
  PROVE  TypeInv'
<1>1. /\ server \in [up : BOOLEAN, primary : BOOLEAN]
      /\ \A q \in Pid : proc[q].link = "ok" => server.up /\ proc[q].stage \notin {"free", "other"}
      /\ \A q \in Pid : proc[q].link = "ok" /\ proc[q].stage \in Identified => segment.local # "unknown"
  BY TypeParts
<1>2. /\ \A q \in Pid : proc'[q].link = "ok" => server.up /\ proc'[q].stage \notin {"free", "other"}
      /\ \A q \in Pid : proc'[q].link = "ok" /\ proc'[q].stage \in Identified => segment'.local # "unknown"
  BY <1>1
<1> QED BY <1>1, <1>2, TypesAfter

\* The same where the segment is left alone.
LEMMA OneProcessOnly ==
  ASSUME TypeInv, NEW p \in Pid,
         proc' \in [Pid -> Process], \A q \in Pid \ {p} : proc'[q] = proc[q],
         proc'[p].link = "ok" => proc[p].link = "ok" \/ server.up,
         proc'[p].link = "ok" => proc'[p].stage \notin {"free", "other"},
         proc'[p].link = "ok" /\ proc'[p].stage \in Identified => segment.local # "unknown",
         UNCHANGED <<server, segment>>,
         file' \in Pid \cup {"absent", "empty"}, command' \in Order, cascaded' \in BOOLEAN,
         gap' \in BOOLEAN, lapse' \in BOOLEAN, spent' \in Bounds
  PROVE  TypeInv'
<1>1. segment \in Memory /\ (segment.pid # Unknown => segment.local # "unknown")
  BY TypeParts
<1> QED BY <1>1, OneProcess

LEMMA GoneType == Gone \in Process /\ Gone.link = "bad" /\ Gone.stage = "free"
BY DEF Gone, Process, Stage, Link

LEMMA GoesType ==
  ASSUME TypeInv, NEW p \in Pid, NEW stage \in Stage, Goes(p, stage)
  PROVE  /\ proc' \in [Pid -> Process] /\ \A q \in Pid \ {p} : proc'[q] = proc[q]
         /\ proc'[p].stage = stage /\ proc'[p].link = proc[p].link
BY TypeParts DEF Goes, Process

LEMMA StatementType ==
  ASSUME TypeInv, NEW p \in Pid, NEW stage \in Stage, Statement(p, stage)
  PROVE  /\ proc' \in [Pid -> Process] /\ \A q \in Pid \ {p} : proc'[q] = proc[q]
         /\ proc'[p].stage = stage /\ (proc'[p].link = "ok" => proc[p].link = "ok")
BY TypeParts DEF Statement, Process, Link, Answers

LEMMA EndsType ==
  ASSUME TypeInv, NEW p \in Pid, Ends(p)
  PROVE  /\ proc' \in [Pid -> Process] /\ \A q \in Pid \ {p} : proc'[q] = proc[q]
         /\ proc'[p].stage = "free" /\ proc'[p].link = "bad"
BY TypeParts, GoneType DEF Ends

LEMMA SetIdType ==
  ASSUME TypeInv, NEW p \in Pid, SetId(p)
  PROVE  /\ segment' \in Memory /\ gap' \in BOOLEAN
         /\ segment.local # "unknown" \/ proc[p].link = "ok" => segment'.local # "unknown"
         /\ segment'.pid # Unknown => segment'.local # "unknown"
<1>1. segment \in Memory /\ gap \in BOOLEAN /\ (segment.pid # Unknown => segment.local # "unknown")
  BY TypeParts
<1> QED BY <1>1 DEF SetId, SetLocalNodeId, Answers, Memory

LEMMA SetPidType ==
  ASSUME TypeInv, NEW p \in Pid, NEW pid \in Pid \cup {Unknown}, SetPid(p, pid),
         pid # Unknown /\ proc[p].link = "ok" => segment.local # "unknown"
  PROVE  /\ segment' \in Memory /\ gap' \in BOOLEAN
         /\ segment'.local = segment.local
         /\ segment'.pid # Unknown => segment'.local # "unknown"
<1>1. segment \in Memory /\ gap \in BOOLEAN /\ (segment.pid # Unknown => segment.local # "unknown")
  BY TypeParts
<1> QED BY <1>1 DEF SetPid, Answers, Memory

\* terminate() removes the file; one that has it open writes elsewhere.
LEMMA UnlinkType ==
  ASSUME TypeInv, NEW p, NEW procs \in [Pid -> Process],
         \A q \in Pid : procs[q] = proc[q] \/ procs[q] = Gone,
         Unlink(p, procs), UNCHANGED <<server, segment, command, cascaded, gap>>, spent' \in Bounds
  PROVE  TypeInv'
<1> USE GoneType
<1>1. /\ server \in [up : BOOLEAN, primary : BOOLEAN] /\ segment \in Memory
      /\ \A q \in Pid : proc[q].link = "ok" => server.up /\ proc[q].stage \notin {"free", "other"}
      /\ segment.pid # Unknown => segment.local # "unknown"
      /\ \A q \in Pid : proc[q].link = "ok" /\ proc[q].stage \in Identified => segment.local # "unknown"
      /\ command \in Order /\ cascaded \in BOOLEAN /\ gap \in BOOLEAN /\ lapse \in BOOLEAN
  BY TypeParts
<1>2. \A q \in Pid : /\ proc'[q] \in Process /\ proc'[q].link = procs[q].link
                     /\ proc'[q].stage = procs[q].stage
                        \/ (procs[q].stage = "write" /\ proc'[q].stage = "write removed")
  BY DEF Unlink, Process, Stage, Starting
<1>3. proc' \in [Pid -> Process]
  BY <1>2 DEF Unlink
<1>4. /\ \A q \in Pid : proc'[q].link = "ok" => server.up /\ proc'[q].stage \notin {"free", "other"}
      /\ \A q \in Pid : proc'[q].link = "ok" /\ proc'[q].stage \in Identified => segment.local # "unknown"
  <2> SUFFICES ASSUME NEW q \in Pid, proc'[q].link = "ok"
               PROVE  /\ server.up /\ proc'[q].stage \notin {"free", "other"}
                      /\ proc'[q].stage \in Identified => segment.local # "unknown"
    BY Zenon
  <2>1. procs[q] = proc[q]
    BY <1>2
  <2>2. proc'[q].stage = proc[q].stage \/ (proc[q].stage = "write" /\ proc'[q].stage = "write removed")
    BY <1>2, <2>1
  <2> QED BY <1>1, <1>2, <2>1, <2>2 DEF Identified
<1>5. file' = "absent" /\ lapse' \in BOOLEAN
  BY <1>1 DEF Unlink
<1> QED BY <1>1, <1>3, <1>4, <1>5, TypesAfter

\* A new segment has nothing set, and every session has ended.
LEMMA ZappedType ==
  ASSUME TypeInv, server' \in [up : BOOLEAN, primary : BOOLEAN], segment' = Fresh,
         proc' \in [Pid -> Process], \A q \in Pid : proc'[q].link # "ok",
         UNCHANGED <<file, command, lapse>>, cascaded' = FALSE, gap' = FALSE, spent' \in Bounds
  PROVE  TypeInv'
<1>1. file \in Pid \cup {"absent", "empty"} /\ command \in Order /\ lapse \in BOOLEAN
  BY TypeParts
<1>2. segment' \in Memory /\ segment'.pid = Unknown
  BY DEF Fresh, Memory
<1> QED BY <1>1, <1>2, TypesAfter

LEMMA RepmgrdsKeepTypes ==
  ASSUME TypeInv, NEW p \in Pid, Continues(p)
  PROVE  TypeInv'
<1>a. /\ server \in [up : BOOLEAN, primary : BOOLEAN]
      /\ segment \in Memory /\ proc \in [Pid -> Process]
      /\ file \in Pid \cup {"absent", "empty"} /\ command \in Order
      /\ cascaded \in BOOLEAN /\ gap \in BOOLEAN /\ lapse \in BOOLEAN /\ spent \in Bounds
      /\ \A q \in Pid : proc[q].link = "ok" => server.up /\ proc[q].stage \notin {"free", "other"}
      /\ segment.pid # Unknown => segment.local # "unknown"
      /\ \A q \in Pid : proc[q].link = "ok" /\ proc[q].stage \in Identified => segment.local # "unknown"
  BY TypeParts
<1>b. TypeOK /\ {"free", "other", "unlink"} \cup Starting \cup Running = Stage
  BY DEF TypeInv, Stage
<1>1. CASE Identify(p)
  <2>1. /\ segment' \in Memory /\ gap' \in BOOLEAN
        /\ segment.local # "unknown" => segment'.local # "unknown"
        /\ segment'.pid # Unknown => segment'.local # "unknown"
    BY <1>1, SetIdType DEF Identify
  <2>2. /\ proc' \in [Pid -> Process] /\ \A q \in Pid \ {p} : proc'[q] = proc[q]
        /\ proc'[p].stage = "verify" /\ (proc'[p].link = "ok" => proc[p].link = "ok")
    BY <1>1, StatementType DEF Identify, Stage, Starting
  <2>3. proc'[p].stage \notin {"free", "other"} \cup Identified
    BY <2>2 DEF Identified
  <2> QED BY <1>1, <1>a, <2>1, <2>2, <2>3, OneProcess DEF Identify
<1>2. CASE Verify(p)
  <2>1. CASE /\ Answers(p) /\ segment.local # "unknown"
             /\ Goes(p, "check") /\ UNCHANGED <<segment, gap, spent>>
    <3>1. /\ proc' \in [Pid -> Process] /\ \A q \in Pid \ {p} : proc'[q] = proc[q]
          /\ proc'[p].stage = "check" /\ proc'[p].link = proc[p].link
      BY <2>1, GoesType DEF Stage, Starting
    <3> QED BY <1>2, <1>a, <2>1, <3>1, OneProcessOnly DEF Verify
  <2>2. CASE /\ proc' = [proc EXCEPT ![p] = [stage |-> "unlink", link |-> "bad"]]
             /\ UNCHANGED <<segment, gap, spent>>
    BY <1>2, <2>2, <1>a, OneProcessOnly DEF Verify, Process, Stage, Link
  <2>3. CASE Spend("faults", MaxFaults) /\ SetPid(p, Unknown) /\ Statement(p, "unlink")
    <3>1. /\ segment' \in Memory /\ gap' \in BOOLEAN
          /\ segment'.local = segment.local
          /\ segment'.pid # Unknown => segment'.local # "unknown"
      BY <2>3, SetPidType
    <3>2. /\ proc' \in [Pid -> Process] /\ \A q \in Pid \ {p} : proc'[q] = proc[q]
          /\ proc'[p].stage = "unlink" /\ (proc'[p].link = "ok" => proc[p].link = "ok")
      BY <2>3, StatementType DEF Stage
    <3>3. spent' \in Bounds
      BY <1>b, <2>3, SpendType
    <3>4. proc'[p].stage \notin {"free", "other"} \cup Identified
      BY <3>2 DEF Identified
    <3> QED BY <1>2, <1>a, <3>1, <3>2, <3>3, <3>4, OneProcess DEF Verify
  <2> QED BY <1>2, <2>1, <2>2, <2>3 DEF Verify
<1>3. CASE CheckPidFile(p)
  <2>1. lapse' \in BOOLEAN /\ At(p, "check")
    BY <1>3, <1>a DEF CheckPidFile
  <2>2. CASE Goes(p, "open")
    <3>1. /\ proc' \in [Pid -> Process] /\ \A q \in Pid \ {p} : proc'[q] = proc[q]
          /\ proc'[p].stage = "open" /\ proc'[p].link = proc[p].link
      BY <2>2, GoesType DEF Stage, Starting
    <3>2. proc[p].stage \in Identified
      BY <2>1 DEF At, Identified
    <3>3. UNCHANGED <<server, segment, file, command, cascaded, gap, spent>>
      BY <1>3 DEF CheckPidFile
    <3> QED BY <1>a, <2>1, <3>1, <3>2, <3>3, OneProcessOnly
  <2>3. CASE Ends(p)
    BY <1>3, <2>1, <2>3, <1>a, EndsType, OneProcessOnly DEF CheckPidFile
  <2> QED BY <1>3, <2>2, <2>3 DEF CheckPidFile
<1>4. CASE OpenPidFile(p)
  <2>1. proc[p].stage \in Identified
    BY <1>4 DEF OpenPidFile, At, Identified
  <2>2. /\ proc' \in [Pid -> Process] /\ \A q \in Pid \ {p} : proc'[q] = proc[q]
        /\ proc'[p].stage = "write" /\ proc'[p].link = proc[p].link
    BY <1>4, GoesType DEF OpenPidFile, Stage, Starting
  <2> QED BY <1>4, <1>a, <2>1, <2>2, OneProcessOnly DEF OpenPidFile
<1>5. CASE WritePidFile(p)
  <2>1. file' \in Pid \cup {"absent", "empty"} /\ proc[p].stage \in Identified
    BY <1>5, <1>a DEF WritePidFile, At, Identified
  <2>2. /\ proc' \in [Pid -> Process] /\ \A q \in Pid \ {p} : proc'[q] = proc[q]
        /\ proc'[p].stage = "register" /\ proc'[p].link = proc[p].link
    BY <1>5, GoesType DEF WritePidFile, Stage, Starting
  <2> QED BY <1>5, <1>a, <2>1, <2>2, OneProcessOnly DEF WritePidFile
<1>6. CASE Register(p) \/ SetPidAgain(p)
  <2>1. proc[p].link = "ok" => segment.local # "unknown"
    BY <1>6, <1>a DEF Register, SetPidAgain, At, Identified
  <2>2. SetPid(p, p) /\ Statement(p, "monitor") /\ UNCHANGED <<server, file, command, cascaded, lapse, spent>>
    BY <1>6 DEF Register, SetPidAgain
  <2>3. /\ segment' \in Memory /\ gap' \in BOOLEAN
        /\ segment'.local = segment.local
        /\ segment'.pid # Unknown => segment'.local # "unknown"
    BY <2>1, <2>2, SetPidType
  <2>4. /\ proc' \in [Pid -> Process] /\ \A q \in Pid \ {p} : proc'[q] = proc[q]
        /\ proc'[p].stage = "monitor" /\ (proc'[p].link = "ok" => proc[p].link = "ok")
    BY <2>2, StatementType DEF Stage, Running
  <2>5. proc'[p].stage \notin {"free", "other"} \cup Identified
    BY <2>4 DEF Identified
  <2> QED BY <1>a, <2>2, <2>3, <2>4, <2>5, OneProcess
<1>7. CASE RemovePidFile(p)
  BY <1>7, <1>a, GoneType, UnlinkType DEF RemovePidFile
<1>8. CASE LoseSession(p)
  <2>1. /\ proc' \in [Pid -> Process] /\ \A q \in Pid \ {p} : proc'[q] = proc[q]
        /\ proc'[p].link = "bad"
    BY <1>8, <1>a DEF LoseSession, Process, Link
  <2> QED BY <1>8, <2>1, <1>a, OneProcessOnly DEF LoseSession
<1>9. CASE Reconnect(p)
  <2>1. /\ proc' \in [Pid -> Process] /\ \A q \in Pid \ {p} : proc'[q] = proc[q]
        /\ proc'[p].stage \in {"set id", "monitor"}
    BY <1>9, <1>a DEF Reconnect, Reinitialise, Process, Link, Stage, Running
  <2> QED BY <1>9, <2>1, <1>a, OneProcessOnly DEF Reconnect, Identified
<1>10. CASE SetIdAgain(p)
  <2>1. /\ segment' \in Memory /\ gap' \in BOOLEAN
        /\ segment.local # "unknown" \/ proc[p].link = "ok" => segment'.local # "unknown"
        /\ segment'.pid # Unknown => segment'.local # "unknown"
    BY <1>10, SetIdType DEF SetIdAgain
  <2>2. /\ proc' \in [Pid -> Process] /\ \A q \in Pid \ {p} : proc'[q] = proc[q]
        /\ proc'[p].stage = "set pid" /\ (proc'[p].link = "ok" => proc[p].link = "ok")
    BY <1>10, StatementType DEF SetIdAgain, Stage, Running
  <2> QED BY <1>10, <1>a, <2>1, <2>2, OneProcess DEF SetIdAgain
<1>11. CASE GiveUp(p)
  BY <1>11, <1>a, GoesType, OneProcessOnly DEF GiveUp, Stage, Running, Identified
<1>12. CASE Rejoin(p)
  <2>1. UNCHANGED <<segment, file, command, cascaded, gap, lapse, spent>> /\ Goes(p, "degraded")
    BY <1>12 DEF Rejoin
  <2>2. /\ proc' \in [Pid -> Process] /\ \A q \in Pid \ {p} : proc'[q] = proc[q]
        /\ proc'[p].stage = "degraded" /\ proc'[p].link = proc[p].link
    BY <2>1, GoesType DEF Stage, Running
  <2>3. server' \in [up : BOOLEAN, primary : BOOLEAN] /\ (server.up => server'.up)
    <3>1. CASE server' = [up |-> TRUE, primary |-> FALSE]
      BY <3>1
    <3>2. CASE UNCHANGED server
      BY <1>a, <3>2
    <3> QED BY <1>12, <3>1, <3>2 DEF Rejoin
  <2>4. \A q \in Pid : proc'[q].link = "ok" => server'.up /\ proc'[q].stage \notin {"free", "other"}
    BY <1>a, <2>2, <2>3
  <2>5. \A q \in Pid : proc'[q].link = "ok" /\ proc'[q].stage \in Identified => segment.local # "unknown"
    BY <1>a, <2>2 DEF Identified
  <2> QED BY <1>a, <2>1, <2>2, <2>3, <2>4, <2>5, TypesAfter
<1>13. CASE ReconnectDegraded(p)
  <2>1. CASE server.up
    <3>1. proc' = [proc EXCEPT ![p] = [stage |-> "monitor", link |-> "ok"]] /\ gap' \in BOOLEAN
      BY <1>13, <2>1, <1>a DEF ReconnectDegraded
    <3>2. /\ proc' \in [Pid -> Process] /\ \A q \in Pid \ {p} : proc'[q] = proc[q]
          /\ proc'[p].stage = "monitor"
      BY <3>1, <1>a DEF Process, Stage, Running, Link
    <3> QED BY <1>13, <2>1, <3>1, <3>2, <1>a, OneProcessOnly DEF ReconnectDegraded, Identified
  <2>2. CASE ~server.up
    BY <1>13, <2>2, <1>a, GoesType, OneProcessOnly DEF ReconnectDegraded, Stage, Running, Identified
  <2> QED BY <2>1, <2>2
<1>14. CASE ReconnectFollowed(p)
  <2>1. /\ proc' \in [Pid -> Process] /\ \A q \in Pid \ {p} : proc'[q] = proc[q]
        /\ proc'[p].stage \in {"set id", "monitor"} /\ (proc'[p].link = "ok" => server.up)
    BY <1>14, <1>a DEF ReconnectFollowed, Process, Link, Stage, Running
  <2> QED BY <1>14, <2>1, <1>a, OneProcessOnly DEF ReconnectFollowed, Identified
<1> QED
  BY <1>1, <1>2, <1>3, <1>4, <1>5, <1>6, <1>7, <1>8, <1>9, <1>10, <1>11, <1>12, <1>13, <1>14
  DEF Continues

\* A process that has got a pid has a session.
LEMMA LaunchesType ==
  ASSUME TypeInv, NEW p \in Pid, Launches(p)
  PROVE  /\ proc' \in [Pid -> Process] /\ \A q \in Pid \ {p} : proc'[q] = proc[q]
         /\ proc'[p].stage = "identify" /\ server.up /\ spent' \in Bounds
<1>1. [stage |-> "identify", link |-> "ok"] \in Process
  BY DEF Process, Stage, Starting, Link
<1>2. proc' = [proc EXCEPT ![p] = [stage |-> "identify", link |-> "ok"]] /\ server.up
  BY DEF Launches
<1>3. spent' \in Bounds
  BY SpendType DEF Launches, TypeInv
<1> QED BY <1>1, <1>2, <1>3, TypeParts

LEMMA EnvironmentKeepsTypes ==
  ASSUME TypeInv, Environment
  PROVE  TypeInv'
<1>a. /\ server \in [up : BOOLEAN, primary : BOOLEAN]
      /\ segment \in Memory /\ proc \in [Pid -> Process]
      /\ file \in Pid \cup {"absent", "empty"} /\ command \in Order
      /\ cascaded \in BOOLEAN /\ gap \in BOOLEAN /\ lapse \in BOOLEAN /\ spent \in Bounds
      /\ \A q \in Pid : proc[q].link = "ok" => server.up /\ proc[q].stage \notin {"free", "other"}
      /\ segment.pid # Unknown => segment.local # "unknown"
      /\ \A q \in Pid : proc[q].link = "ok" /\ proc[q].stage \in Identified => segment.local # "unknown"
  BY TypeParts
<1>b. TypeOK /\ (Spend("faults", MaxFaults) \/ Spend("restarts", MaxRestarts) => spent' \in Bounds)
  BY SpendType DEF TypeInv
<1>c. ASSUME UNCHANGED <<proc, file, command, lapse>>, server' \in [up : BOOLEAN, primary : BOOLEAN],
             server.up => server'.up, segment' \in Memory,
             segment.local # "unknown" => segment'.local # "unknown",
             segment'.pid # Unknown => segment'.local # "unknown",
             gap' \in BOOLEAN, cascaded' \in BOOLEAN, spent' \in Bounds
      PROVE  TypeInv'
  BY <1>a, <1>c, TypesAfter
<1>1. CASE RecordIsMissing
  BY <1>1, <1>a, <1>b, UnlinkType DEF RecordIsMissing
<1>2. ASSUME NEW p \in Pid, Launched(p) PROVE TypeInv'
  <2>1. /\ proc' \in [Pid -> Process] /\ \A q \in Pid \ {p} : proc'[q] = proc[q]
        /\ proc'[p].stage = "identify" /\ server.up /\ spent' \in Bounds
    BY <1>2, LaunchesType DEF Launched
  <2>2. proc'[p].stage \notin {"free", "other"} \cup Identified
    BY <2>1 DEF Identified
  <2> QED BY <1>2, <1>a, <2>1, <2>2, OneProcessOnly DEF Launched
<1>3. ASSUME NEW p \in Pid, Terminate(p) PROVE TypeInv'
  <2>1. /\ segment' \in Memory /\ gap' \in BOOLEAN
        /\ segment'.local = segment.local
        /\ segment'.pid # Unknown => segment'.local # "unknown"
    BY <1>3, SetPidType DEF Terminate
  <2>2. /\ proc' \in [Pid -> Process] /\ \A q \in Pid \ {p} : proc'[q] = proc[q]
        /\ proc'[p].stage = "unlink" /\ (proc'[p].link = "ok" => proc[p].link = "ok")
    BY <1>3, StatementType DEF Terminate, Stage
  <2>3. proc'[p].stage \notin {"free", "other"} \cup Identified
    BY <2>2 DEF Identified
  <2> QED BY <1>3, <1>a, <2>1, <2>2, <2>3, OneProcess DEF Terminate
<1>4. ASSUME NEW p \in Pid, Killed(p) PROVE TypeInv'
  BY <1>4, <1>a, <1>b, EndsType, OneProcessOnly DEF Killed
<1>5. ASSUME NEW p \in Pid, Promote(p) PROVE TypeInv'
  <2>1. server' \in [up : BOOLEAN, primary : BOOLEAN] /\ (server.up => server'.up)
    BY <1>5, <1>a DEF Promote
  <2> QED BY <1>5, <1>a, <1>c, <2>1 DEF Promote
<1>6. ASSUME NEW p \in Pid, Follow(p) PROVE TypeInv'
  <2> DEFINE state(q) == IF q = p THEN [stage |-> "followed", link |-> "bad"]
                         ELSE IF Answers(q) THEN [proc[q] EXCEPT !.link = "dead"] ELSE proc[q]
  <2>1. \A q \in Pid : state(q) \in Process /\ state(q).link # "ok"
    BY <1>a DEF Answers, Process, Link, Stage, Running
  <2>2. proc' = [q \in Pid |-> state(q)]
    BY <1>6 DEF Follow
  <2> HIDE DEF state
  <2>3. proc' \in [Pid -> Process] /\ \A q \in Pid : proc'[q].link # "ok"
    BY <2>1, <2>2
  <2> QED BY <1>6, <1>a, <1>b, <2>3, ZappedType DEF Follow
<1>7. ASSUME NEW p \in Pid, SessionLost(p) PROVE TypeInv'
  <2>1. /\ proc' \in [Pid -> Process] /\ \A q \in Pid \ {p} : proc'[q] = proc[q]
        /\ proc'[p].link = "dead"
    BY <1>7, <1>a DEF SessionLost, Process, Link
  <2> QED BY <1>7, <1>a, <1>b, <2>1, OneProcessOnly DEF SessionLost
<1>8. ASSUME NEW p \in Pid, PidTaken(p) PROVE TypeInv'
  <2>1. /\ proc' \in [Pid -> Process] /\ \A q \in Pid \ {p} : proc'[q] = proc[q]
        /\ proc'[p].link = proc[p].link
    BY <1>8, GoesType DEF PidTaken, Stage
  <2>2. proc[p].link # "ok"
    BY <1>8, <1>a DEF PidTaken, At
  <2> QED BY <1>8, <1>a, <1>b, <2>1, <2>2, OneProcessOnly DEF PidTaken
<1>9. ASSUME NEW up \in BOOLEAN, Restart(up) PROVE TypeInv'
  <2>1. proc' \in [Pid -> Process] /\ \A q \in Pid : proc'[q].link # "ok"
    BY <1>9, <1>a DEF Restart, Zapped, Answers, Process, Link
  <2>2. server' \in [up : BOOLEAN, primary : BOOLEAN]
    BY <1>9, <1>a DEF Restart, Zapped
  <2> QED BY <1>9, <1>b, <2>1, <2>2, ZappedType DEF Restart, Zapped
<1>10. CASE ServerUp
  <2>1. server' \in [up : BOOLEAN, primary : BOOLEAN] /\ server'.up
    BY <1>10, <1>a DEF ServerUp
  <2> QED BY <1>10, <1>a, <1>c, <2>1 DEF ServerUp
<1>11. CASE CascadedReconnects
  BY <1>11, <1>a, <1>b, <1>c DEF CascadedReconnects
<1>12. CASE CascadedSetsId
  <2>1. /\ segment' \in Memory /\ gap' \in BOOLEAN
        /\ segment.local # "unknown" => segment'.local # "unknown"
        /\ segment'.local # "unknown"
    BY <1>12, <1>a DEF CascadedSetsId, SetLocalNodeId, Memory
  <2> QED BY <1>12, <1>a, <1>c, <2>1 DEF CascadedSetsId
<1> QED
  BY <1>1, <1>2, <1>3, <1>4, <1>5, <1>6, <1>7, <1>8, <1>9, <1>10, <1>11, <1>12 DEF Environment

LEMMA CommandsKeepTypes ==
  ASSUME TypeInv, Commands
  PROVE  TypeInv'
<1>a. /\ segment \in Memory /\ proc \in [Pid -> Process]
      /\ server \in [up : BOOLEAN, primary : BOOLEAN]
      /\ file \in Pid \cup {"absent", "empty"} /\ command \in Order
      /\ cascaded \in BOOLEAN /\ gap \in BOOLEAN /\ lapse \in BOOLEAN /\ spent \in Bounds
      /\ \A q \in Pid : proc[q].link = "ok" => server.up /\ proc[q].stage \notin {"free", "other"}
      /\ segment.pid # Unknown => segment.local # "unknown"
      /\ \A q \in Pid : proc[q].link = "ok" /\ proc[q].stage \in Identified => segment.local # "unknown"
  BY TypeParts
<1>b. ASSUME UNCHANGED <<server, segment, proc, file, cascaded, gap, lapse, spent>>, command' \in Order
      PROVE  TypeInv'
  BY <1>a, <1>b, TypesAfter
<1>c. ASSUME NEW name \in {"none", "start", "launch", "stop", "wait"}, NEW pid \in Pid \cup {Unknown},
             Step(name, pid)
      PROVE  command' \in Order
  BY <1>c DEF Step, Order
<1>1. CASE DaemonStart \/ CommandEnds
  BY <1>1, <1>b, <1>c DEF DaemonStart, CommandEnds
<1>2. CASE DaemonStop
  <2>1. (IF server.up THEN segment.pid ELSE Unknown) \in Pid \cup {Unknown}
    BY <1>a DEF Memory
  <2> QED BY <1>2, <1>b, <1>c, <2>1 DEF DaemonStop
<1>3. CASE StopSignals
  <2>1. command' \in Order /\ UNCHANGED <<server, file, cascaded, lapse, spent>>
    BY <1>3, <1>a, <1>c DEF StopSignals, Order
  <2>2. ASSUME NEW p \in Pid, SetPid(p, Unknown), Statement(p, "unlink") PROVE TypeInv'
    <3>1. /\ segment' \in Memory /\ gap' \in BOOLEAN
          /\ segment'.local = segment.local
          /\ segment'.pid # Unknown => segment'.local # "unknown"
      BY <2>2, SetPidType
    <3>2. /\ proc' \in [Pid -> Process] /\ \A q \in Pid \ {p} : proc'[q] = proc[q]
          /\ proc'[p].stage = "unlink" /\ (proc'[p].link = "ok" => proc[p].link = "ok")
      BY <2>2, StatementType DEF Stage
    <3>3. proc'[p].stage \notin {"free", "other"} \cup Identified
      BY <3>2 DEF Identified
    <3> QED BY <1>a, <2>1, <3>1, <3>2, <3>3, OneProcess
  <2>3. CASE UNCHANGED <<segment, proc, gap>>
    BY <1>b, <2>1, <2>3
  <2> QED BY <1>3, <2>2, <2>3 DEF StopSignals
<1>4. ASSUME NEW p \in Pid, LaunchedByCommand(p) PROVE TypeInv'
  <2>1. /\ proc' \in [Pid -> Process] /\ \A q \in Pid \ {p} : proc'[q] = proc[q]
        /\ proc'[p].stage = "identify" /\ server.up /\ spent' \in Bounds
    BY <1>4, LaunchesType DEF LaunchedByCommand
  <2>2. proc'[p].stage \notin {"free", "other"} \cup Identified
    BY <2>1 DEF Identified
  <2>3. command' \in Order
    BY <1>4, <1>c DEF LaunchedByCommand
  <2> QED BY <1>4, <1>a, <2>1, <2>2, <2>3, OneProcessOnly DEF LaunchedByCommand
<1> QED BY <1>1, <1>2, <1>3, <1>4 DEF Commands

\* The types; an open session is one of a repmgrd to a running server, and a pid
\* is only registered where the node's id is known.
THEOREM TypeCorrect == Spec => []TypeOK
<1>1. Init => TypeInv
  <2> SUFFICES ASSUME Init PROVE TypeInv
    OBVIOUS
  <2>1. proc \in [Pid -> Process] /\ \A p \in Pid : proc[p].link = "bad"
    BY GoneType DEF Init
  <2>2. segment \in Memory /\ segment.pid = Unknown /\ command \in Order /\ spent \in Bounds
    BY BoundAssumption DEF Init, Fresh, Memory, Order, Bounds
  <2> QED BY <2>1, <2>2, TypeParts DEF Init
<1>2. TypeInv /\ [Next]_vars => TypeInv'
  <2> SUFFICES ASSUME TypeInv, [Next]_vars PROVE TypeInv'
    OBVIOUS
  <2>1. CASE UNCHANGED vars
    BY <2>1 DEF vars, TypeInv, TypeOK, IdIsKnown, Answers
  <2> QED BY <2>1, RepmgrdsKeepTypes, EnvironmentKeepsTypes, CommandsKeepTypes DEF Next, Repmgrds
<1>3. TypeInv => TypeOK
  BY DEF TypeInv
<1> QED BY <1>1, <1>2, <1>3, PTL DEF Spec
-----------------------------------------------------------------------------
(* The pid file. *)

Registers(p) == At(p, "register") \/ Monitoring(p)

\* Steps by which nobody becomes a holder, and that leave the file alone.
LEMMA HolderStays ==
  ASSUME TypeInv, HolderInv, file' = file, lapse => lapse',
         \A q \in Pid : /\ Holds(q)' => Holds(q)
                        /\ Registers(q)' => Registers(q)
                        /\ At(q, "write removed")' => At(q, "write removed")
  PROVE  HolderInv'
<1> SUFFICES ASSUME ~lapse' PROVE HolderInv'
  BY DEF HolderInv
<1>1. /\ \A p, q \in Pid : Holds(p) /\ Holds(q) => p = q
      /\ \A p \in Pid : Registers(p) => file = p
      /\ \A p \in Pid : ~At(p, "write removed")
  BY DEF HolderInv, Registers
<1>2. \A p, q \in Pid : Holds(p)' /\ Holds(q)' => p = q
  BY <1>1 DEF Holds
<1>3. \A p \in Pid : Registers(p)' => file' = p
  BY <1>1 DEF Registers, At, Monitoring
<1>4. \A p \in Pid : ~At(p, "write removed")'
  BY <1>1 DEF At
<1> QED BY <1>2, <1>3, <1>4 DEF HolderInv, Registers

\* In particular where at most one process moves on, without holding the file or
\* from having written it.
LEMMA MoverStays ==
  ASSUME TypeInv, HolderInv, NEW p \in Pid, file' = file, lapse => lapse',
         \A q \in Pid \ {p} : proc'[q].stage = proc[q].stage,
         \/ proc'[p].stage = proc[p].stage
         \/ proc'[p].stage \notin Holding
         \/ proc'[p].stage \in Running /\ Registers(p)
  PROVE  HolderInv'
<1>1. ASSUME NEW q \in Pid
      PROVE  /\ Holds(q)' => Holds(q)
             /\ Registers(q)' => Registers(q)
             /\ At(q, "write removed")' => At(q, "write removed")
  BY DEF Holds, Registers, At, Monitoring, Holding, Running
<1> QED BY <1>1, HolderStays

LEMMA UnlinkStays ==
  ASSUME TypeInv, HolderInv, NEW p, NEW procs \in [Pid -> Process], Unlink(p, procs),
         \A q \in Pid \ {p} : procs[q] = proc[q],
         p \in Pid => procs[p] = Gone
  PROVE  HolderInv'
<1> SUFFICES ASSUME ~lapse' PROVE HolderInv'
  BY DEF HolderInv
<1>1. ~lapse /\ \A q \in Pid \ {p} : ~(At(q, "write") \/ (file = q /\ Repmgrd(q)))
  BY TypeParts DEF Unlink
<1>2. \A q \in Pid \ {p} : proc'[q] = proc[q]
  BY <1>1 DEF Unlink, At
<1>3. p \in Pid => proc'[p].stage = "free"
  BY GoneType DEF Unlink, Process
<1>4. \A q \in Pid : ~(At(q, "register") \/ Monitoring(q))'
  <2> SUFFICES ASSUME NEW q \in Pid, (At(q, "register") \/ Monitoring(q))' PROVE FALSE
    OBVIOUS
  <2>1. q # p /\ (At(q, "register") \/ Monitoring(q)) /\ Repmgrd(q)
    BY <1>2, <1>3 DEF At, Monitoring, Running, Repmgrd
  <2> QED BY <1>1, <2>1 DEF HolderInv
<1>5. \A q \in Pid : Holds(q)' => q # p /\ proc'[q] = proc[q]
  BY <1>2, <1>3 DEF Holds, Holding, Running
<1>6. \A q \in Pid : ~At(q, "write removed")'
  BY <1>1, <1>2, <1>3 DEF HolderInv, At
<1>7. \A q \in Pid : Holds(q)' => Holds(q)
  BY <1>5 DEF Holds
<1>8. \A q, r \in Pid : Holds(q)' /\ Holds(r)' => q = r
  BY <1>1, <1>7 DEF HolderInv
<1> QED BY <1>4, <1>6, <1>8 DEF HolderInv

LEMMA RepmgrdsKeepHolder ==
  ASSUME TypeInv, HolderInv, NEW p \in Pid, Continues(p)
  PROVE  HolderInv'
<1>a. proc \in [Pid -> Process] /\ lapse \in BOOLEAN
  BY TypeParts
<1>b. ASSUME NEW stage \in Stage, Goes(p, stage) \/ Statement(p, stage)
      PROVE  proc'[p].stage = stage /\ \A q \in Pid \ {p} : proc'[q].stage = proc[q].stage
  BY <1>b, GoesType, StatementType
<1>c. ASSUME Ends(p)
      PROVE  proc'[p].stage = "free" /\ \A q \in Pid \ {p} : proc'[q].stage = proc[q].stage
  BY <1>c, EndsType
<1>1. CASE Identify(p)
  <2>1. proc'[p].stage = "verify" /\ \A q \in Pid \ {p} : proc'[q].stage = proc[q].stage
    BY <1>1, <1>b DEF Identify, Stage, Starting
  <2> QED BY <1>1, <2>1, MoverStays DEF Identify, Holding, Running
<1>2. CASE Verify(p)
  <2>1. proc'[p].stage \in {"check", "unlink"} /\ \A q \in Pid \ {p} : proc'[q].stage = proc[q].stage
    <3>1. CASE Goes(p, "check") \/ Statement(p, "unlink")
      BY <3>1, <1>b DEF Stage, Starting
    <3>2. CASE proc' = [proc EXCEPT ![p] = [stage |-> "unlink", link |-> "bad"]]
      BY <3>2, <1>a
    <3> QED BY <1>2, <3>1, <3>2 DEF Verify
  <2> QED BY <1>2, <2>1, MoverStays DEF Verify, Holding, Running
<1>3. CASE CheckPidFile(p)
  <2>1. CASE PidFileIsStale(file) /\ Goes(p, "open")
    <3> SUFFICES ASSUME ~lapse' PROVE HolderInv'
      BY DEF HolderInv
    <3>1. /\ ~lapse /\ file' = file
          /\ \A q \in Pid \ {p} : proc[q].stage \notin {"open", "write", "write removed"}
      BY <1>3, <1>a DEF CheckPidFile
    <3>2. proc'[p].stage = "open" /\ \A q \in Pid \ {p} : proc'[q].stage = proc[q].stage
      BY <1>b, <2>1 DEF Stage, Starting
    <3>3. ASSUME NEW q \in Pid \ {p} PROVE ~Holds(q)'
      <4>1. ASSUME At(q, "register") \/ Monitoring(q) PROVE FALSE
        <5>1. file = q /\ ~At(q, "free")
          BY <3>1, <4>1 DEF HolderInv, At, Monitoring, Running
        <5> QED BY <2>1, <5>1, PidAssumption DEF PidFileIsStale, Exists
      <4> QED BY <3>1, <3>2, <4>1 DEF Holds, Holding, At, Monitoring
    <3> QED BY <3>1, <3>2, <3>3 DEF HolderInv, Holds, Holding, At, Monitoring, Running
  <2>2. CASE Ends(p)
    <3>1. proc'[p].stage = "free" /\ \A q \in Pid \ {p} : proc'[q].stage = proc[q].stage
      BY <1>c, <2>2
    <3> QED BY <1>3, <3>1, MoverStays DEF CheckPidFile, Holding, Running
  <2> QED BY <1>3, <2>1, <2>2 DEF CheckPidFile
<1>4. CASE OpenPidFile(p)
  <2>1. proc'[p].stage = "write" /\ \A q \in Pid \ {p} : proc'[q].stage = proc[q].stage
    BY <1>4, <1>b DEF OpenPidFile, Stage, Starting
  <2>2. Holds(p) /\ lapse' = lapse
    BY <1>4 DEF OpenPidFile, Holds, Holding, At
  <2> QED BY <2>1, <2>2 DEF HolderInv, Holds, Holding, At, Monitoring, Running
<1>5. CASE WritePidFile(p)
  <2>1. proc'[p].stage = "register" /\ \A q \in Pid \ {p} : proc'[q].stage = proc[q].stage
    BY <1>5, <1>b DEF WritePidFile, Stage, Starting
  <2>2. /\ Holds(p) /\ lapse' = lapse
        /\ ~lapse => file' = p
    BY <1>5 DEF WritePidFile, Holds, Holding, At, HolderInv
  <2> QED BY <2>1, <2>2 DEF HolderInv, Holds, Holding, At, Monitoring, Running
<1>6. CASE Register(p)
  <2>1. proc'[p].stage = "monitor" /\ \A q \in Pid \ {p} : proc'[q].stage = proc[q].stage
    BY <1>6, <1>b DEF Register, Stage, Running
  <2> QED BY <1>6, <2>1, MoverStays DEF Register, Registers, Running
<1>7. CASE RemovePidFile(p)
  <2> DEFINE procs == [proc EXCEPT ![p] = Gone]
  <2>1. procs \in [Pid -> Process] /\ procs[p] = Gone /\ \A q \in Pid \ {p} : procs[q] = proc[q]
    BY <1>a, GoneType
  <2> QED BY <1>7, <2>1, UnlinkStays DEF RemovePidFile
<1>8. CASE LoseSession(p)
  <2>1. \A q \in Pid : proc'[q].stage = proc[q].stage
    BY <1>8, <1>a DEF LoseSession, Process
  <2> QED BY <1>8, <2>1, MoverStays DEF LoseSession
<1>9. CASE Reconnect(p) \/ ReconnectFollowed(p)
  <2>1. /\ proc'[p].stage \in Running /\ proc[p].stage \in Running
        /\ \A q \in Pid \ {p} : proc'[q].stage = proc[q].stage
        /\ UNCHANGED <<file, lapse>>
    <3>1. CASE Reconnect(p)
      BY <1>a, <3>1 DEF Reconnect, Reinitialise, Process, Running, At
    <3>2. CASE ReconnectFollowed(p)
      <4>1. proc[p].stage = "followed" /\ UNCHANGED <<file, lapse>>
        BY <3>2 DEF ReconnectFollowed, At
      <4>2. \A q \in Pid \ {p} : proc'[q].stage = proc[q].stage
        BY <1>a, <3>2 DEF ReconnectFollowed
      <4>3. proc'[p].stage \in {"set id", "monitor"}
        BY <1>a, <3>2 DEF ReconnectFollowed
      <4> QED BY <4>1, <4>2, <4>3 DEF Running
    <3> QED BY <1>9, <3>1, <3>2
  <2> QED BY <2>1, MoverStays DEF Registers, Monitoring
<1>10. CASE SetIdAgain(p) \/ SetPidAgain(p)
  <2>1. Statement(p, "set pid") \/ Statement(p, "monitor")
    BY <1>10 DEF SetIdAgain, SetPidAgain
  <2>2. proc'[p].stage \in Running /\ \A q \in Pid \ {p} : proc'[q].stage = proc[q].stage
    BY <2>1, <1>b DEF Stage, Running
  <2>3. proc[p].stage \in Running /\ UNCHANGED <<file, lapse>>
    BY <1>10 DEF SetIdAgain, SetPidAgain, At, Running
  <2> QED BY <2>2, <2>3, MoverStays DEF Registers, Monitoring
<1>11. CASE GiveUp(p) \/ Rejoin(p)
  <2>1. Goes(p, "rejoin") \/ Goes(p, "degraded")
    BY <1>11 DEF GiveUp, Rejoin
  <2>2. proc'[p].stage \in Running /\ \A q \in Pid \ {p} : proc'[q].stage = proc[q].stage
    BY <2>1, <1>b DEF Stage, Running
  <2>3. proc[p].stage \in Running /\ UNCHANGED <<file, lapse>>
    BY <1>11 DEF GiveUp, Rejoin, At, Running
  <2> QED BY <2>2, <2>3, MoverStays DEF Registers, Monitoring
<1>12. CASE ReconnectDegraded(p)
  <2>1. proc'[p].stage \in Running /\ \A q \in Pid \ {p} : proc'[q].stage = proc[q].stage
    <3>1. CASE Goes(p, "down")
      BY <3>1, <1>b DEF Stage, Running
    <3>2. CASE proc' = [proc EXCEPT ![p] = [stage |-> "monitor", link |-> "ok"]]
      BY <3>2, <1>a DEF Running
    <3> QED BY <1>12, <3>1, <3>2 DEF ReconnectDegraded
  <2>2. proc[p].stage \in Running /\ UNCHANGED <<file, lapse>>
    BY <1>12 DEF ReconnectDegraded, At, Running
  <2> QED BY <2>1, <2>2, MoverStays DEF Registers, Monitoring
<1> QED
  BY <1>1, <1>2, <1>3, <1>4, <1>5, <1>6, <1>7, <1>8, <1>9, <1>10, <1>11, <1>12 DEF Continues

LEMMA EnvironmentKeepsHolder ==
  ASSUME TypeInv, HolderInv, Environment \/ Commands
  PROVE  HolderInv'
<1>a. proc \in [Pid -> Process]
  BY TypeParts
<1>b. ASSUME NEW p \in Pid, UNCHANGED <<file, lapse>>, proc'[p].stage \notin Holding,
             \A q \in Pid \ {p} : proc'[q].stage = proc[q].stage
      PROVE  HolderInv'
  BY <1>b, MoverStays
<1>c. ASSUME NEW p \in Pid, UNCHANGED <<file, lapse>>,
             Statement(p, "unlink") \/ Ends(p) \/ Goes(p, "other") \/ Launches(p)
      PROVE  HolderInv'
  <2>1. /\ proc'[p].stage \in {"unlink", "free", "other", "identify"}
        /\ \A q \in Pid \ {p} : proc'[q].stage = proc[q].stage
    BY <1>c, StatementType, EndsType, GoesType, LaunchesType DEF Stage
  <2> QED BY <1>b, <1>c, <2>1 DEF Holding, Running
<1>d. ASSUME UNCHANGED <<file, lapse>>, \A q \in Pid : proc'[q].stage = proc[q].stage PROVE HolderInv'
  BY <1>d, HolderStays DEF Holds, Registers, At, Monitoring
<1>1. CASE RecordIsMissing
  BY <1>1, <1>a, UnlinkStays, PidAssumption DEF RecordIsMissing
<1>2. ASSUME NEW p \in Pid, Launched(p) \/ Terminate(p) \/ Killed(p) \/ PidTaken(p) \/ LaunchedByCommand(p)
      PROVE  HolderInv'
  BY <1>2, <1>c DEF Launched, Terminate, Killed, PidTaken, LaunchedByCommand
<1>3. ASSUME NEW p \in Pid, Promote(p) \/ SessionLost(p) PROVE HolderInv'
  <2>1. \A q \in Pid : proc'[q].stage = proc[q].stage
    BY <1>3, <1>a DEF Promote, SessionLost, Process
  <2> QED BY <1>3, <1>d, <2>1 DEF Promote, SessionLost
<1>4. ASSUME NEW p \in Pid, Follow(p) PROVE HolderInv'
  <2>1. proc'[p].stage = "followed" /\ \A q \in Pid \ {p} : proc'[q].stage = proc[q].stage
    BY <1>4, <1>a DEF Follow, Process
  <2>2. proc[p].stage = "monitor"
    BY <1>4 DEF Follow, At
  <2> QED BY <1>4, <2>1, <2>2, MoverStays DEF Follow, Registers, Monitoring, Running
<1>5. ASSUME NEW up \in BOOLEAN, Restart(up) PROVE HolderInv'
  <2>1. \A q \in Pid : proc'[q].stage = proc[q].stage
    BY <1>5, <1>a DEF Restart, Zapped, Process
  <2> QED BY <1>5, <1>d, <2>1 DEF Restart
<1>6. CASE ServerUp \/ CascadedReconnects \/ CascadedSetsId \/ DaemonStart \/ DaemonStop \/ CommandEnds
  BY <1>6, <1>d DEF ServerUp, CascadedReconnects, CascadedSetsId, DaemonStart, DaemonStop, CommandEnds
<1>7. CASE StopSignals
  BY <1>7, <1>c, <1>d DEF StopSignals
<1> QED BY <1>1, <1>2, <1>3, <1>4, <1>5, <1>6, <1>7 DEF Environment, Commands

\* The pid file keeps all repmgrds but one from monitoring the node, as long as
\* nothing has taken it from the one that holds it.
THEOREM OneRepmgrdMonitors == Spec => []OneRepmgrd
<1>1. Init => TypeInv /\ HolderInv
  <2> SUFFICES ASSUME Init PROVE TypeInv /\ HolderInv
    OBVIOUS
  <2>1. proc \in [Pid -> Process] /\ \A p \in Pid : proc[p].link = "bad" /\ proc[p].stage = "free"
    BY GoneType DEF Init
  <2>2. segment \in Memory /\ segment.pid = Unknown /\ command \in Order /\ spent \in Bounds
    BY BoundAssumption DEF Init, Fresh, Memory, Order, Bounds
  <2>3. TypeInv
    BY <2>1, <2>2, TypeParts DEF Init
  <2> QED BY <2>1, <2>3 DEF HolderInv, Holds, Holding, At, Monitoring, Running
<1>2. TypeInv /\ HolderInv /\ [Next]_vars => HolderInv'
  <2> SUFFICES ASSUME TypeInv, HolderInv, [Next]_vars PROVE HolderInv'
    OBVIOUS
  <2>1. CASE UNCHANGED vars
    BY <2>1, HolderStays DEF vars, Holds, Registers, At, Monitoring
  <2> QED BY <2>1, RepmgrdsKeepHolder, EnvironmentKeepsHolder DEF Next, Repmgrds
<1>3. TypeInv /\ [Next]_vars => TypeInv'
  <2> SUFFICES ASSUME TypeInv, [Next]_vars PROVE TypeInv'
    OBVIOUS
  <2>1. CASE UNCHANGED vars
    BY <2>1 DEF vars, TypeInv, TypeOK, IdIsKnown, Answers
  <2> QED BY <2>1, RepmgrdsKeepTypes, EnvironmentKeepsTypes, CommandsKeepTypes DEF Next, Repmgrds
<1>4. HolderInv => OneRepmgrd
  <2> SUFFICES ASSUME HolderInv, ~lapse PROVE Cardinality({p \in Pid : Monitoring(p)}) <= 1
    BY DEF OneRepmgrd
  <2> DEFINE monitors == {p \in Pid : Monitoring(p)}
  <2>1. \A p, q \in monitors : p = q
    BY DEF HolderInv, Holds, Holding, Monitoring
  <2>2. CASE monitors = {}
    BY <2>2, FS_EmptySet
  <2>3. CASE monitors # {}
    <3>1. PICK p : monitors = {p}
      BY <2>1, <2>3
    <3>2. Cardinality({p}) = 1
      BY FS_Singleton
    <3> QED BY <3>1, <3>2
  <2> QED BY <2>2, <2>3
<1> QED BY <1>1, <1>2, <1>3, <1>4, PTL DEF Spec
=============================================================================
