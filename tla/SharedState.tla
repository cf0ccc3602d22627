----------------------------- MODULE SharedState -----------------------------
(***************************************************************************)
(* The shared memory segment that repmgr.c keeps in each PostgreSQL        *)
(* server and the state file that backs its pause flag.                    *)
(*                                                                         *)
(* Every SQL function of the extension runs in the session of a client     *)
(* (repmgrd of this node or of another, "repmgr daemon pause", a           *)
(* switchover), one step per section under the lock and per operation on   *)
(* the file, so that the functions of several sessions interleave.         *)
(***************************************************************************)
EXTENDS Integers, Sequences

CONSTANTS
  Session,     \* the sessions that call the functions
  Own,         \* the node's id in repmgr.conf
  Other,       \* the ids of the other nodes
  Called,      \* the functions that are called
  Budget       \* bound on the events of each kind

UNKNOWN_NODE_ID == -1
Node == {Own} \cup Other
SqlFunction == {"set_local_node_id", "notify_follow_primary", "reset_voting_status",
              "am_bdr_failover_handler", "unset_bdr_failover_handler", "repmgrd_pause"}
Event == {"pause", "restart", "crash", "copy", "failure"}

ASSUME SettingAssumption ==
  /\ Node \subseteq Nat /\ Own \notin Other
  /\ Called \subseteq SqlFunction
  /\ Budget \in [Event -> Nat]

VARIABLES
  shared,      \* shared_state
  file,        \* the state file: <<>> where it is missing or empty, else <<node id, paused>>
  session,     \* what each session is executing
  acked,       \* the pause state last acknowledged, and whether the file has it for this node
  asked,       \* somebody has asked for a pause here
  clashed,     \* two calls that use the state file have overlapped
  spent        \* the events that have happened

vars == <<shared, file, session, acked, asked, clashed, spent>>

Stage == {"idle",
          "apply",           \* set_local_node_id(): has read the file
          "notify", "reset", "claim", "unset",  \* between the shared and the exclusive lock
          "open", "format", "write"}            \* repmgrd_pause(): has set the flag

Fresh ==
  [local |-> UNKNOWN_NODE_ID, paused |-> FALSE, candidate |-> UNKNOWN_NODE_ID,
   follow |-> FALSE, handler |-> UNKNOWN_NODE_ID]

Idle == [at |-> "idle", node |-> UNKNOWN_NODE_ID, pause |-> FALSE, text |-> <<>>]

Registered == shared.local # UNKNOWN_NODE_ID
Quiet == \A s \in Session : session[s].at = "idle"
Pausing == \E s \in Session : session[s].at \in {"open", "format", "write"}
UsingFile == Pausing \/ \E s \in Session : session[s].at = "apply"

Spend(event) ==
  /\ spent[event] < Budget[event]
  /\ spent' = [spent EXCEPT ![event] = @ + 1]

Returns(s) == session' = [session EXCEPT ![s] = Idle]
Goes(s, stage) == session' = [session EXCEPT ![s].at = stage]
Call(s, name, frame) ==
  /\ name \in Called /\ session[s].at = "idle"
  /\ session' = [session EXCEPT ![s] = frame]

Init ==
  /\ shared = Fresh
  /\ file = <<>>
  /\ session = [s \in Session |-> Idle]
  /\ acked = <<>>
  /\ asked = FALSE
  /\ clashed = FALSE
  /\ spent = [event \in Event |-> 0]
-----------------------------------------------------------------------------
(* set_local_node_id() *)

\* The id is that of the caller: of this node's repmgrd or, when it has found
\* none set (check_connection() in repmgrd-physical.c), of the repmgrd of a
\* cascaded standby.  The state file is read before the lock is taken.
ReadStateFile(s) ==
  /\ \E node \in Node :
       Call(s, "set_local_node_id",
            [Idle EXCEPT !.at = "apply", !.node = node, !.text = file])
  /\ clashed' = (clashed \/ UsingFile)
  /\ UNCHANGED <<shared, file, acked, asked, spent>>

\* Mutant: the file of another node is heeded.
Restored_AnyNode(text, local, paused) == IF text # <<>> THEN text[2] ELSE paused

\* The pause state, given what the file says.
Restored(text, local, paused) == IF text # <<>> /\ text[1] = local THEN text[2] ELSE paused

\* The id is set once in the life of the segment.
LocalId(node) == IF Registered THEN shared.local ELSE node

SetLocalNodeId(s) ==
  /\ session[s].at = "apply"
  /\ LET local == LocalId(session[s].node)
     IN shared' = [shared EXCEPT !.local = local,
                                 !.paused = Restored(session[s].text, local, @)]
  /\ Returns(s)
  /\ UNCHANGED <<file, acked, asked, spent, clashed>>
-----------------------------------------------------------------------------
(* notify_follow_primary() and reset_voting_status() *)

\* Nothing is done, and nothing reported, before the node's id is known.
PeekNotify(s) ==
  /\ Registered
  /\ \E node \in Node :
       Call(s, "notify_follow_primary", [Idle EXCEPT !.at = "notify", !.node = node])
  /\ UNCHANGED <<shared, file, acked, asked, spent, clashed>>

NotifyFollowPrimary(s) ==
  /\ session[s].at = "notify"
  /\ shared' = [shared EXCEPT !.candidate = session[s].node, !.follow = TRUE]
  /\ Returns(s)
  /\ UNCHANGED <<file, acked, asked, spent, clashed>>

PeekReset(s) ==
  /\ Registered
  /\ Call(s, "reset_voting_status", [Idle EXCEPT !.at = "reset"])
  /\ UNCHANGED <<shared, file, acked, asked, spent, clashed>>

\* Mutant: the memory is zeroed, and 0 is no node id.
Forgotten_Zeroed(memory) == [memory EXCEPT !.candidate = 0, !.follow = FALSE]

\* Mutant: the notice stays in place without its flag.
Forgotten_FlagOnly(memory) == [memory EXCEPT !.follow = FALSE]

Forgotten(memory) == [memory EXCEPT !.candidate = UNKNOWN_NODE_ID, !.follow = FALSE]

ResetVotingStatus(s) ==
  /\ session[s].at = "reset"
  /\ shared' = Forgotten(shared)
  /\ Returns(s)
  /\ UNCHANGED <<file, acked, asked, spent, clashed>>
-----------------------------------------------------------------------------
(* am_bdr_failover_handler() and unset_bdr_failover_handler() *)

\* The check under the shared lock; who is told "no" stops here.
PeekHandler(s) ==
  /\ \E node \in Node :
       /\ shared.handler = UNKNOWN_NODE_ID
       /\ Call(s, "am_bdr_failover_handler", [Idle EXCEPT !.at = "claim", !.node = node])
  /\ UNCHANGED <<shared, file, acked, asked, spent, clashed>>

\* The exclusive lock is taken anew, the check is not repeated.
ClaimHandler(s) ==
  /\ session[s].at = "claim"
  /\ shared' = [shared EXCEPT !.handler = session[s].node]
  /\ Returns(s)
  /\ UNCHANGED <<file, acked, asked, spent, clashed>>

\* Whoever is the handler, its claim goes.
PeekUnset(s) ==
  /\ Registered
  /\ Call(s, "unset_bdr_failover_handler", [Idle EXCEPT !.at = "unset"])
  /\ UNCHANGED <<shared, file, acked, asked, spent, clashed>>

UnsetHandler(s) ==
  /\ session[s].at = "unset"
  /\ shared' = [shared EXCEPT !.handler = UNKNOWN_NODE_ID]
  /\ Returns(s)
  /\ UNCHANGED <<file, acked, asked, spent, clashed>>
-----------------------------------------------------------------------------
(* repmgrd_pause() *)

SetPaused(s) ==
  /\ Spend("pause")
  /\ \E pause \in BOOLEAN :
       /\ Call(s, "repmgrd_pause", [Idle EXCEPT !.at = "open", !.pause = pause])
       /\ shared' = [shared EXCEPT !.paused = pause]
       /\ asked' = (asked \/ pause)
  /\ clashed' = (clashed \/ UsingFile)
  /\ UNCHANGED <<file, acked>>

\* AllocateFile() truncates the file.
OpenStateFile(s) ==
  /\ session[s].at = "open"
  /\ file' = <<>>
  /\ Goes(s, "format")
  /\ UNCHANGED <<shared, acked, asked, spent, clashed>>

\* A file that cannot be opened is passed over in silence.
OpenFails(s) ==
  /\ session[s].at = "open"
  /\ Spend("failure")
  /\ acked' = <<session[s].pause, FALSE>>
  /\ Returns(s)
  /\ UNCHANGED <<shared, file, asked, clashed>>

FormatState(s) ==
  /\ session[s].at = "format"
  /\ session' = [session EXCEPT ![s].at = "write",
                                ![s].text = <<shared.local, session[s].pause>>]
  /\ UNCHANGED <<shared, file, acked, asked, spent, clashed>>

\* Mutant: the file always says that the node is not paused.
Written_Unpaused(text) == <<text[1], FALSE>>

Written(text) == text

\* The contents reach the file when it is closed, and the call is acknowledged.
WriteStateFile(s) ==
  /\ session[s].at = "write"
  /\ file' = Written(session[s].text)
  /\ acked' = <<session[s].pause, session[s].text[1] = Own>>
  /\ Returns(s)
  /\ UNCHANGED <<shared, asked, spent, clashed>>

\* The contents cannot be written, to a file that has been truncated: there is
\* a warning in the log.
WriteFails(s) ==
  /\ session[s].at = "write"
  /\ Spend("failure")
  /\ acked' = <<session[s].pause, FALSE>>
  /\ Returns(s)
  /\ UNCHANGED <<shared, file, asked, clashed>>
-----------------------------------------------------------------------------
(***************************************************************************)
(* The server                                                              *)
(***************************************************************************)

\* repmgr_shmem_startup() in a new segment; the sessions are gone.
Startup ==
  /\ shared' = Fresh
  /\ session' = [s \in Session |-> Idle]

\* A shutdown lets the functions that are executing finish.
Restarts ==
  /\ Spend("restart") /\ Quiet
  /\ Startup
  /\ UNCHANGED <<file, acked, asked, clashed>>

\* The state file of another node arrives with its data directory
\* (a clone, pg_rewind), and the server is started.
Copied ==
  /\ Spend("copy") /\ Quiet
  /\ Startup
  /\ \E node \in Other, pause \in BOOLEAN : file' = <<node, pause>>
  /\ acked' = <<>>
  /\ UNCHANGED <<asked, clashed>>

Crashes ==
  /\ Spend("crash")
  /\ Startup
  /\ acked' = IF Pausing THEN <<>> ELSE acked
  /\ UNCHANGED <<file, asked, clashed>>
-----------------------------------------------------------------------------
SessionStep(s) ==
  \/ ReadStateFile(s) \/ SetLocalNodeId(s)
  \/ PeekNotify(s) \/ NotifyFollowPrimary(s) \/ PeekReset(s) \/ ResetVotingStatus(s)
  \/ PeekHandler(s) \/ ClaimHandler(s) \/ PeekUnset(s) \/ UnsetHandler(s)
  \/ SetPaused(s) \/ OpenStateFile(s) \/ OpenFails(s) \/ FormatState(s) \/ WriteStateFile(s)
  \/ WriteFails(s)

Next ==
  \/ \E s \in Session : SessionStep(s)
  \/ Restarts \/ Copied \/ Crashes

Spec == Init /\ [][Next]_vars
-----------------------------------------------------------------------------
(***************************************************************************)
(* Properties                                                              *)
(***************************************************************************)

Texts == {<<>>} \cup ((Node \cup {UNKNOWN_NODE_ID}) \X BOOLEAN)

TypeOK ==
  /\ shared \in [local : Node \cup {UNKNOWN_NODE_ID}, paused : BOOLEAN,
                 candidate : Node \cup {UNKNOWN_NODE_ID}, follow : BOOLEAN,
                 handler : Node \cup {UNKNOWN_NODE_ID}]
  /\ file \in Texts
  /\ session \in [Session -> [at : Stage, node : Node \cup {UNKNOWN_NODE_ID},
                              pause : BOOLEAN, text : Texts]]
  /\ acked \in {<<>>} \cup (BOOLEAN \X BOOLEAN)
  /\ asked \in BOOLEAN /\ clashed \in BOOLEAN
  /\ spent \in [Event -> Nat]

\* get_new_primary() returns a node exactly when a notice has been given, and
\* only a server whose repmgrd has registered holds one, whatever notices,
\* resets and restarts interleave.
NoticeIsWhole ==
  /\ shared.follow <=> shared.candidate # UNKNOWN_NODE_ID
  /\ shared.follow => Registered

\* A node is not paused by the state file of the node it was cloned from, unless
\* it is the repmgrd of another node that has set its id since the server was
\* started: the file is compared with whatever id is set (repmgr.c:302).
NoForeignPause == shared.paused /\ shared.local \notin Other => asked

\* repmgrd_pause() and set_local_node_id(): as long as their calls have not
\* overlapped and the file could be written, a pause state that is acknowledged
\* while this node's id is set is the one in force whenever this node's id has
\* been set again, over any restarts, crashes and calls, those of other nodes'
\* repmgrds included.  (After a restart in which another node's id is set the
\* file is passed over and the node is not paused.)
PauseIsKept ==
  Quiet /\ shared.local = Own /\ ~clashed /\ acked # <<>> /\ acked[2] => shared.paused = acked[1]
=============================================================================
