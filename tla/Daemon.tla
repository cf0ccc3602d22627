-------------------------------- MODULE Daemon --------------------------------
(***************************************************************************)
(* The repmgrd processes of one node: how they start and end (repmgrd.c),  *)
(* register in the shared memory of their PostgreSQL server (repmgr.c),    *)
(* guard themselves with a pid file, and register again after the server   *)
(* has been restarted (repmgrd-physical.c); with "repmgr daemon start" and *)
(* "daemon stop" (repmgr-action-daemon.c).                                 *)
(*                                                                         *)
(* The process that counts is the one left by daemonize_process(); it uses *)
(* a pid file, as is the default.  A pid that has become free may be taken *)
(* by a process that is not a repmgrd.  Every statement on the session and *)
(* every operation on the pid file is a step of its own.                   *)
(***************************************************************************)
EXTENDS Naturals, FiniteSets

CONSTANTS
  Pid,           \* the pids of the system
  Unknown,       \* UNKNOWN_PID, UNKNOWN_NODE_ID
  MaxLaunches,   \* bound: processes that are started
  MaxRestarts,   \* bound: times the server stops or crashes
  MaxFaults      \* bound: processes killed, starts that fail, sessions lost, pids taken

ASSUME PidAssumption ==
  IsFiniteSet(Pid) /\ Unknown \notin Pid /\ Pid \cap {"absent", "empty"} = {}
ASSUME BoundAssumption == {MaxLaunches, MaxRestarts, MaxFaults} \subseteq Nat

VARIABLES
  server,    \* is the server up, is it a primary
  segment,   \* shared_state: whose id is the local node's, the pid of repmgrd
  proc,      \* per pid: what the process does, and its session (local_conn)
  file,      \* the pid file: absent, empty, or with a pid
  command,   \* "daemon start" or "daemon stop", and the pid it has found
  cascaded,  \* the repmgrd of a cascaded standby is about to set its own id here
  gap,       \* history: why a repmgrd might not be registered in this segment
  lapse,     \* history: the pid file has been of no use to a running repmgrd
  spent      \* what the bounds have been used for

vars == <<server, segment, proc, file, command, cascaded, gap, lapse, spent>>

\* "other" is not a repmgrd.
Starting == {"identify", "verify", "check", "open", "write", "write removed", "register"}
Running == {"monitor", "set id", "set pid", "degraded", "down", "rejoin", "followed"}
Stage == {"free", "other", "unlink"} \cup Starting \cup Running

\* A session that is open, one that has ended unnoticed, none.
Link == {"ok", "dead", "bad"}

Fresh == [local |-> "unknown", pid |-> Unknown]

TypeOK ==
  /\ server \in [up : BOOLEAN, primary : BOOLEAN]
  /\ segment \in [local : {"unknown", "own", "foreign"}, pid : Pid \cup {Unknown}]
  /\ proc \in [Pid -> [stage : Stage, link : Link]]
  /\ file \in Pid \cup {"absent", "empty"}
  /\ command \in [name : {"none", "start", "launch", "stop", "wait"}, pid : Pid \cup {Unknown}]
  /\ cascaded \in BOOLEAN
  /\ gap \in BOOLEAN
  /\ lapse \in BOOLEAN
  /\ spent \in [launches : 0..MaxLaunches, restarts : 0..MaxRestarts, faults : 0..MaxFaults]
  /\ \A p \in Pid : proc[p].link = "ok" => server.up /\ proc[p].stage \in Starting \cup Running \cup {"unlink"}
  /\ segment.pid # Unknown => segment.local # "unknown"

-----------------------------------------------------------------------------
Spend(what, bound) == spent[what] < bound /\ spent' = [spent EXCEPT ![what] = @ + 1]

At(p, stage) == proc[p].stage = stage
Goes(p, stage) == proc' = [proc EXCEPT ![p].stage = stage]
Gone == [stage |-> "free", link |-> "bad"]
Ends(p) == proc' = [proc EXCEPT ![p] = Gone]
Monitoring(p) == proc[p].stage \in Running
Repmgrd(p) == proc[p].stage \notin {"free", "other"}

\* kill(pid, 0)
Exists(p) == p \in Pid /\ ~At(p, "free")

Init ==
  /\ server \in [up : {TRUE}, primary : BOOLEAN]
  /\ segment = Fresh
  /\ proc = [p \in Pid |-> Gone]
  /\ file = "absent"
  /\ command = [name |-> "none", pid |-> Unknown]
  /\ cascaded = FALSE
  /\ gap = FALSE
  /\ lapse = FALSE
  /\ spent = [launches |-> 0, restarts |-> 0, faults |-> 0]

-----------------------------------------------------------------------------
(* Shared memory, over the session of p: nothing happens if that has ended, *)
(* and it is noticed.                                                       *)

Answers(p) == proc[p].link = "ok"

\* set_local_node_id(): the id is set once in the life of the segment.
SetLocalNodeId(whose) == [segment EXCEPT !.local = IF @ = "unknown" THEN whose ELSE @]

\* By p: another repmgrd will not register in this segment any more, as it looks
\* at the id only.
SetId(p) ==
  /\ segment' = IF Answers(p) THEN SetLocalNodeId("own") ELSE segment
  /\ gap' = (gap \/ (segment' # segment /\ \E q \in Pid \ {p} : Repmgrd(q)))

\* The step of p that leads to stage, over the session.
Statement(p, stage) ==
  proc' = [proc EXCEPT ![p] = [stage |-> stage, link |-> IF Answers(p) THEN "ok" ELSE "bad"]]

\* repmgrd_set_pid(): another repmgrd that runs is registered no longer.  The id
\* has been set by a statement of its own; if only the session has ended since,
\* and the server lives on, the next session finds the id and leaves the pid.
SetPid(p, pid) ==
  /\ segment' = IF Answers(p) THEN [segment EXCEPT !.pid = pid] ELSE segment
  /\ gap' = (gap \/ IF Answers(p) THEN \E q \in Pid \ {p} : Repmgrd(q)
                                 ELSE pid = p /\ segment.local # "unknown")

-----------------------------------------------------------------------------
(* main() *)

\* A process connects, and finds the extension and the record of the node.
Launches(p) ==
  /\ At(p, "free") /\ server.up
  /\ Spend("launches", MaxLaunches)
  /\ proc' = [proc EXCEPT ![p] = [stage |-> "identify", link |-> "ok"]]

\* terminate() removes the pid file, whose ever it is.  One that has it open
\* writes to a file without a name.  (procs: the processes after the step)
Unlink(p, procs) ==
  /\ file' = "absent"
  /\ lapse' = (lapse \/ \E q \in Pid \ {p} : At(q, "write") \/ (file = q /\ Repmgrd(q)))
  /\ proc' = [q \in Pid |-> IF procs[q].stage = "write"
                             THEN [procs[q] EXCEPT !.stage = "write removed"] ELSE procs[q]]

\* A process that does not find the record of the node: it has closed its
\* session, and its pid is not seen by anyone.
RecordIsMissing ==
  /\ server.up /\ Spend("faults", MaxFaults)
  /\ Unlink(Unknown, proc)
  /\ UNCHANGED <<server, segment, command, cascaded, gap>>

Identify(p) ==
  /\ At(p, "identify")
  /\ SetId(p)
  /\ Statement(p, "verify")
  /\ UNCHANGED <<server, file, command, cascaded, lapse, spent>>

\* "unable to write to shared memory", then do_physical_node_check(); terminate()
\* clears the pid only over an open session.
Verify(p) ==
  /\ At(p, "verify")
  /\ \/ /\ Answers(p) /\ segment.local # "unknown"
        /\ Goes(p, "check")
        /\ UNCHANGED <<segment, gap, spent>>
     \/ /\ ~(Answers(p) /\ segment.local # "unknown")
        /\ proc' = [proc EXCEPT ![p] = [stage |-> "unlink", link |-> "bad"]]
        /\ UNCHANGED <<segment, gap, spent>>
     \/ /\ Answers(p)   \* promote_command or follow_command is missing
        /\ Spend("faults", MaxFaults)
        /\ SetPid(p, Unknown)
        /\ Statement(p, "unlink")
  /\ UNCHANGED <<server, file, command, cascaded, lapse>>

\* Mutant: the process of the pid file is not looked for.
PidFileIsStale_Always(pid) == TRUE

\* check_and_create_pid_file(): "seems to contain a valid PID"
PidFileIsStale(pid) == pid \in {"absent", "empty"} \/ ~Exists(pid)

CheckPidFile(p) ==
  /\ At(p, "check")
  /\ IF PidFileIsStale(file) THEN Goes(p, "open") ELSE Ends(p)
  /\ lapse' = (lapse \/ \E q \in Pid \ {p} : proc[q].stage \in {"open", "write", "write removed"})
  /\ UNCHANGED <<server, segment, file, command, cascaded, gap, spent>>

OpenPidFile(p) ==
  /\ At(p, "open")
  /\ file' = "empty"
  /\ Goes(p, "write")
  /\ UNCHANGED <<server, segment, command, cascaded, gap, lapse, spent>>

WritePidFile(p) ==
  /\ \/ At(p, "write") /\ file' = p
     \/ At(p, "write removed") /\ UNCHANGED file
  /\ Goes(p, "register")
  /\ UNCHANGED <<server, segment, command, cascaded, gap, lapse, spent>>

\* repmgrd_set_pid(), after which the signal handlers are installed.
Register(p) ==
  /\ At(p, "register")
  /\ SetPid(p, p)
  /\ Statement(p, "monitor")
  /\ UNCHANGED <<server, file, command, cascaded, lapse, spent>>

\* terminate(), from a signal handler or from the monitoring of the node: the
\* pid is cleared, then the file is removed, whoever they belong to.
Terminate(p) ==
  /\ Monitoring(p)
  /\ SetPid(p, Unknown)
  /\ Statement(p, "unlink")
  /\ UNCHANGED <<server, file, command, cascaded, lapse, spent>>

RemovePidFile(p) ==
  /\ At(p, "unlink")
  /\ Unlink(p, [proc EXCEPT ![p] = Gone])
  /\ UNCHANGED <<server, segment, command, cascaded, gap, spent>>

\* SIGTERM before the handlers are installed, or SIGKILL.
Killed(p) ==
  /\ Repmgrd(p)
  /\ Spend("faults", MaxFaults)
  /\ Ends(p)
  /\ UNCHANGED <<server, segment, file, command, cascaded, gap, lapse>>

-----------------------------------------------------------------------------
(* Monitoring, as far as the session with the local server is concerned. *)

\* check_connection(), or a query: the session is found to have ended.
LoseSession(p) ==
  /\ At(p, "monitor") /\ proc[p].link = "dead"
  /\ proc' = [proc EXCEPT ![p].link = "bad"]
  /\ UNCHANGED <<server, segment, file, command, cascaded, gap, lapse, spent>>

\* Mutants: nothing is done; only the pid is set.
Reinitialise_Never(p) == "monitor"
Reinitialise_Pid(p) == IF segment.local = "unknown" THEN "set pid" ELSE "monitor"

\* Both values are set anew when the id is found not to be set.
Reinitialise(p) == IF segment.local = "unknown" THEN "set id" ELSE "monitor"

\* try_reconnect() and check_connection() open a new session and read the id of
\* the local node over it.
Reconnect(p) ==
  /\ \/ At(p, "monitor") /\ proc[p].link = "bad"
     \/ At(p, "down")
  /\ server.up
  /\ proc' = [proc EXCEPT ![p] = [stage |-> Reinitialise(p), link |-> "ok"]]
  /\ UNCHANGED <<server, segment, file, command, cascaded, gap, lapse, spent>>

SetIdAgain(p) ==
  /\ At(p, "set id")
  /\ SetId(p)
  /\ Statement(p, "set pid")
  /\ UNCHANGED <<server, file, command, cascaded, lapse, spent>>

SetPidAgain(p) ==
  /\ At(p, "set pid")
  /\ SetPid(p, p)
  /\ Statement(p, "monitor")
  /\ UNCHANGED <<server, file, command, cascaded, lapse, spent>>

\* The repmgrd of a primary that stays away has it rejoined as a standby, and
\* tries that again in each round of degraded monitoring.
GiveUp(p) ==
  /\ \/ At(p, "monitor") /\ proc[p].link = "bad" /\ server.primary
     \/ At(p, "down")
  /\ ~server.up
  /\ Goes(p, "rejoin")
  /\ UNCHANGED <<server, segment, file, command, cascaded, gap, lapse, spent>>

\* exec_node_rejoin_primary(), which may fail.
Rejoin(p) ==
  /\ At(p, "rejoin")
  /\ \/ ~server.up /\ server' = [up |-> TRUE, primary |-> FALSE]
     \/ UNCHANGED server
  /\ Goes(p, "degraded")
  /\ UNCHANGED <<segment, file, command, cascaded, gap, lapse, spent>>

\* Degraded monitoring connects without a look at the shared memory.
ReconnectDegraded(p) ==
  /\ At(p, "degraded")
  /\ IF server.up
       THEN /\ proc' = [proc EXCEPT ![p] = [stage |-> "monitor", link |-> "ok"]]
            /\ gap' = (gap \/ segment = Fresh)
       ELSE Goes(p, "down") /\ UNCHANGED gap
  /\ UNCHANGED <<server, segment, file, command, cascaded, lapse, spent>>

-----------------------------------------------------------------------------
(* The server, its sessions and the pids. *)

\* A new segment: every session has ended, and nothing is set in it.
Zapped(up) ==
  /\ server' = [server EXCEPT !.up = up]
  /\ segment' = Fresh
  /\ proc' = [p \in Pid |-> IF Answers(p) THEN [proc[p] EXCEPT !.link = "dead"] ELSE proc[p]]
  /\ cascaded' = FALSE
  /\ gap' = FALSE

\* The server stops, or it restarts.
Restart(up) ==
  /\ server.up /\ Spend("restarts", MaxRestarts)
  /\ Zapped(up)
  /\ UNCHANGED <<file, command, lapse>>

ServerUp ==
  /\ ~server.up
  /\ server' = [server EXCEPT !.up = TRUE]
  /\ UNCHANGED <<segment, proc, file, command, cascaded, gap, lapse, spent>>

\* The promote_command, whose result is a primary with the same shared memory.
Promote(p) ==
  /\ At(p, "monitor") /\ Answers(p) /\ ~server.primary
  /\ server' = [server EXCEPT !.primary = TRUE]
  /\ UNCHANGED <<segment, proc, file, command, cascaded, gap, lapse, spent>>

\* follow_new_primary() closes the session; the follow_command restarts the server.
Follow(p) ==
  /\ At(p, "monitor") /\ Answers(p) /\ ~server.primary
  /\ Spend("restarts", MaxRestarts)
  /\ segment' = Fresh /\ cascaded' = FALSE /\ gap' = FALSE /\ UNCHANGED server
  /\ proc' = [q \in Pid |->
       IF q = p THEN [stage |-> "followed", link |-> "bad"]
       ELSE IF Answers(q) THEN [proc[q] EXCEPT !.link = "dead"] ELSE proc[q]]
  /\ UNCHANGED <<file, command, lapse>>

\* The id and the pid are set without a look at what is there.
ReconnectFollowed(p) ==
  /\ At(p, "followed")
  /\ proc' = [proc EXCEPT ![p] = IF server.up THEN [stage |-> "set id", link |-> "ok"]
                                              ELSE [stage |-> "monitor", link |-> "bad"]]
  /\ UNCHANGED <<server, segment, file, command, cascaded, gap, lapse, spent>>

SessionLost(p) ==
  /\ Answers(p) /\ Spend("faults", MaxFaults)
  /\ proc' = [proc EXCEPT ![p].link = "dead"]
  /\ UNCHANGED <<server, segment, file, command, cascaded, gap, lapse>>

PidTaken(p) ==
  /\ At(p, "free") /\ Spend("faults", MaxFaults)
  /\ Goes(p, "other")
  /\ UNCHANGED <<server, segment, file, command, cascaded, gap, lapse>>

\* The repmgrd of a cascaded standby whose upstream has failed connects to its
\* primary, this node, with check_connection(): it finds no id and sets its own.
CascadedReconnects ==
  /\ server.up /\ server.primary /\ ~cascaded
  /\ segment.local = "unknown" /\ Spend("faults", MaxFaults)
  /\ cascaded' = TRUE
  /\ UNCHANGED <<server, segment, proc, file, command, gap, lapse>>

CascadedSetsId ==
  /\ cascaded
  /\ cascaded' = FALSE
  /\ segment' = SetLocalNodeId("foreign")
  /\ gap' = (gap \/ segment.local = "unknown")
  /\ UNCHANGED <<server, proc, file, command, lapse, spent>>

-----------------------------------------------------------------------------
(* repmgr daemon start and repmgr daemon stop. *)

\* is_repmgrd_running(): there is a process with the pid that is registered.
IsRunning == server.up /\ Exists(segment.pid)

Step(name, pid) == command' = [name |-> name, pid |-> pid]

DaemonStart ==
  /\ command.name = "none" /\ server.up /\ ~IsRunning
  /\ Step("launch", Unknown)
  /\ UNCHANGED <<server, segment, proc, file, cascaded, gap, lapse, spent>>

\* repmgrd_service_start_command
LaunchedByCommand(p) ==
  /\ command.name = "launch"
  /\ Launches(p)
  /\ Step("start", Unknown)
  /\ UNCHANGED <<server, segment, file, cascaded, gap, lapse>>

\* By hand, or by the system.
Launched(p) ==
  /\ Launches(p)
  /\ UNCHANGED <<server, segment, file, command, cascaded, gap, lapse>>

\* Without a server the pid is not known.
DaemonStop ==
  /\ command.name = "none"
  /\ server.up => IsRunning
  /\ Step("stop", IF server.up THEN segment.pid ELSE Unknown)
  /\ UNCHANGED <<server, segment, proc, file, cascaded, gap, lapse, spent>>

\* repmgrd_service_stop_command, which signals the process of the pid file.
StopSignals ==
  /\ command.name = "stop"
  /\ Step("wait", command.pid)
  /\ \/ \E p \in Pid :
          /\ file = p /\ Monitoring(p)
          /\ SetPid(p, Unknown)
          /\ Statement(p, "unlink")
     \/ ~(\E p \in Pid : file = p /\ Monitoring(p)) /\ UNCHANGED <<segment, proc, gap>>
  /\ UNCHANGED <<server, file, cascaded, lapse, spent>>

\* The wait succeeds, or it times out; or the start command has failed.
CommandEnds ==
  /\ command.name \in {"launch", "start", "wait"}
  /\ Step("none", Unknown)
  /\ UNCHANGED <<server, segment, proc, file, cascaded, gap, lapse, spent>>

-----------------------------------------------------------------------------
\* What a repmgrd does of its own accord.
Continues(p) ==
  \/ Identify(p) \/ Verify(p) \/ CheckPidFile(p) \/ OpenPidFile(p) \/ WritePidFile(p)
  \/ Register(p) \/ RemovePidFile(p)
  \/ LoseSession(p) \/ Reconnect(p) \/ SetIdAgain(p) \/ SetPidAgain(p)
  \/ GiveUp(p) \/ Rejoin(p) \/ ReconnectDegraded(p) \/ ReconnectFollowed(p)

Repmgrds == \E p \in Pid : Continues(p)

Environment ==
  \/ RecordIsMissing
  \/ \E p \in Pid : Launched(p) \/ Terminate(p) \/ Killed(p) \/ Promote(p) \/ Follow(p)
                    \/ SessionLost(p) \/ PidTaken(p)
  \/ \E up \in BOOLEAN : Restart(up)
  \/ ServerUp \/ CascadedReconnects \/ CascadedSetsId

Commands ==
  \/ DaemonStart \/ DaemonStop \/ StopSignals \/ CommandEnds
  \/ \E p \in Pid : LaunchedByCommand(p)

Next == Repmgrds \/ Environment \/ Commands

\* A repmgrd is a loop that sleeps for bounded times.
Spec == Init /\ [][Next]_vars /\ WF_vars(Repmgrds)

-----------------------------------------------------------------------------
(* Properties. *)

\* The pid file keeps all repmgrds but one from monitoring the node, unless it
\* has been removed by one that was refused or has ended, or two have looked at
\* it before either has written it (lapse).
OneRepmgrd == Cardinality({p \in Pid : Monitoring(p)}) <= 1 \/ lapse

Alone(p) == Repmgrd(p) /\ \A q \in Pid \ {p} : ~Repmgrd(q)

\* A repmgrd that remains alone is registered in the shared memory of its
\* server in the end, wherever in its start, its monitoring, a rejoin or a
\* follow the server was restarted, so that it is notified of a new primary and
\* "repmgr daemon" finds it; unless it connected in degraded monitoring, another
\* one or a cascaded standby's repmgrd had set its values in the same segment, or
\* its session was lost between the two statements (gap).
RepmgrdIsKnown ==
  \A p \in Pid : <>[](server.up /\ Alone(p) /\ ~gap) => <>[](segment = [local |-> "own", pid |-> p])
=============================================================================
