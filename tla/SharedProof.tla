----------------------------- MODULE SharedProof -----------------------------
(***************************************************************************)
(* Proofs about SharedState, for any number of sessions and any number of  *)
(* pauses, restarts, crashes, copied directories and failures to write the *)
(* state file: the types, that a notice is whole, that another node's file *)
(* is not heeded where this node's id is set, and that an acknowledged     *)
(* pause is in force there.                                                *)
(***************************************************************************)
EXTENDS SharedState, TLAPS

Memory ==
  [local : Node \cup {UNKNOWN_NODE_ID}, paused : BOOLEAN,
   candidate : Node \cup {UNKNOWN_NODE_ID}, follow : BOOLEAN,
   handler : Node \cup {UNKNOWN_NODE_ID}]

Frame == [at : Stage, node : Node \cup {UNKNOWN_NODE_ID}, pause : BOOLEAN, text : Texts]

\* The contents of the state file that are not empty.
LEMMA TextParts ==
  ASSUME NEW text \in Texts, text # <<>>
  PROVE  /\ text[1] \in Node \cup {UNKNOWN_NODE_ID}
         /\ text[2] \in BOOLEAN
         /\ text = <<text[1], text[2]>>
BY DEF Texts

LEMMA OwnIsKnown == Own \in Node /\ UNKNOWN_NODE_ID \notin Node /\ Own # UNKNOWN_NODE_ID
BY SettingAssumption DEF Node, UNKNOWN_NODE_ID

\* An event that happens only counts.
LEMMA SpendType ==
  ASSUME TypeOK, NEW event \in Event, Spend(event)
  PROVE  spent' \in [Event -> Nat]
BY DEF TypeOK, Spend, Event

LEMMA IdleType == Idle \in Frame /\ Fresh \in Memory
BY DEF Idle, Fresh, Frame, Memory, Stage, Texts

\* A call that begins, goes on or returns leaves a frame.
LEMMA FrameType ==
  ASSUME TypeOK, NEW s \in Session, NEW frame \in Frame,
         session' = [session EXCEPT ![s] = frame]
  PROVE  session' \in [Session -> Frame]
BY DEF TypeOK, Frame

LEMMA SessionKeepsTypes ==
  ASSUME TypeOK, NEW s \in Session, SessionStep(s)
  PROVE  TypeOK'
<1> USE OwnIsKnown
<1>0. TypeOK <=> /\ shared \in Memory /\ file \in Texts /\ session \in [Session -> Frame]
                 /\ acked \in {<<>>} \cup (BOOLEAN \X BOOLEAN)
                 /\ asked \in BOOLEAN /\ clashed \in BOOLEAN /\ spent \in [Event -> Nat]
  BY DEF TypeOK, Memory, Frame
<1>a. ASSUME Returns(s) PROVE session' \in [Session -> Frame]
  BY <1>a, <1>0, IdleType DEF Returns
<1>b. session[s] \in Frame
  BY <1>0
<1>1. CASE ReadStateFile(s)
  <2>1. PICK node \in Node :
          session' = [session EXCEPT ![s] = [Idle EXCEPT !.at = "apply", !.node = node, !.text = file]]
    BY <1>1 DEF ReadStateFile, Call
  <2>4. [Idle EXCEPT !.at = "apply", !.node = node, !.text = file] \in Frame
    BY <1>0, IdleType DEF Frame, Stage
  <2>2. session' \in [Session -> Frame]
    BY <2>1, <2>4, FrameType
  <2>3. clashed' \in BOOLEAN
    BY <1>1 DEF ReadStateFile
  <2> QED BY <1>1, <1>0, <2>2, <2>3 DEF ReadStateFile, TypeOK, Memory, Frame
<1>2. CASE SetLocalNodeId(s)
  <2> DEFINE text == session[s].text
             local == LocalId(session[s].node)
  <2>1. local \in Node \cup {UNKNOWN_NODE_ID}
    BY <1>0, <1>b DEF LocalId, Memory, Frame
  <2>2. Restored(text, local, shared.paused) \in BOOLEAN
    <3>1. text \in Texts /\ shared.paused \in BOOLEAN
      BY <1>0, <1>b DEF Frame, Memory
    <3> QED BY <3>1, TextParts DEF Restored
  <2>3. shared' \in Memory
    BY <1>2, <1>0, <2>1, <2>2 DEF SetLocalNodeId, Memory
  <2> QED BY <1>2, <1>0, <1>a, <2>3 DEF SetLocalNodeId, TypeOK, Memory, Frame
<1>3. CASE PeekNotify(s) \/ PeekReset(s) \/ PeekHandler(s) \/ PeekUnset(s)
  <2>1. \E frame \in Frame : session' = [session EXCEPT ![s] = frame]
    <3>1. ASSUME NEW stage \in Stage, NEW node \in Node \cup {UNKNOWN_NODE_ID}
          PROVE  [Idle EXCEPT !.at = stage] \in Frame /\ [Idle EXCEPT !.at = stage, !.node = node] \in Frame
      BY IdleType DEF Frame
    <3>2. CASE PeekNotify(s) \/ PeekHandler(s)
      BY <3>1, <3>2 DEF PeekNotify, PeekHandler, Call, Stage
    <3>3. CASE PeekReset(s) \/ PeekUnset(s)
      BY <3>1, <3>3 DEF PeekReset, PeekUnset, Call, Stage
    <3> QED BY <1>3, <3>2, <3>3
  <2>2. session' \in [Session -> Frame]
    BY <2>1, FrameType
  <2> QED BY <1>3, <1>0, <2>2 DEF PeekNotify, PeekReset, PeekHandler, PeekUnset, TypeOK, Memory, Frame
<1>4. CASE NotifyFollowPrimary(s) \/ ResetVotingStatus(s) \/ ClaimHandler(s) \/ UnsetHandler(s)
  <2>1. shared' \in Memory
    BY <1>4, <1>0, <1>b
    DEF NotifyFollowPrimary, ResetVotingStatus, ClaimHandler, UnsetHandler, Forgotten, Memory, Frame
  <2>2. Returns(s) /\ UNCHANGED <<file, acked, asked, spent, clashed>>
    BY <1>4 DEF NotifyFollowPrimary, ResetVotingStatus, ClaimHandler, UnsetHandler
  <2> QED BY <1>0, <1>a, <2>1, <2>2 DEF TypeOK, Memory, Frame
<1>5. CASE SetPaused(s)
  <2>1. PICK pause \in BOOLEAN :
          /\ Call(s, "repmgrd_pause", [Idle EXCEPT !.at = "open", !.pause = pause])
          /\ shared' = [shared EXCEPT !.paused = pause]
          /\ asked' = (asked \/ pause)
    BY <1>5 DEF SetPaused
  <2>2. [Idle EXCEPT !.at = "open", !.pause = pause] \in Frame
    BY IdleType DEF Frame, Stage
  <2>3. session' \in [Session -> Frame]
    BY <2>1, <2>2, FrameType DEF Call
  <2>4. shared' \in Memory
    BY <2>1, <1>0 DEF Memory
  <2>5. asked' \in BOOLEAN
    BY <2>1
  <2>6. clashed' \in BOOLEAN
    BY <1>5 DEF SetPaused
  <2>7. spent' \in [Event -> Nat]
    BY <1>5, SpendType DEF SetPaused, Event
  <2>8. UNCHANGED <<file, acked>>
    BY <1>5 DEF SetPaused
  <2> QED BY <1>0, <2>3, <2>4, <2>5, <2>6, <2>7, <2>8 DEF TypeOK, Memory, Frame
<1>6. CASE OpenStateFile(s)
  <2>1. session' \in [Session -> Frame]
    BY <1>6, <1>0 DEF OpenStateFile, Goes, Frame, Stage
  <2>2. file' \in Texts
    BY <1>6 DEF OpenStateFile, Texts
  <2> QED BY <1>6, <1>0, <2>1, <2>2 DEF OpenStateFile, TypeOK, Memory, Frame
<1>7. CASE OpenFails(s)
  <2>1. spent' \in [Event -> Nat]
    BY <1>7, SpendType DEF OpenFails, Event
  <2>2. acked' \in BOOLEAN \X BOOLEAN
    BY <1>7, <1>b DEF OpenFails, Frame
  <2> QED BY <1>7, <1>0, <1>a, <2>1, <2>2 DEF OpenFails, TypeOK, Memory, Frame
<1>8. CASE FormatState(s)
  <2>1. <<shared.local, session[s].pause>> \in Texts
    BY <1>0, <1>b DEF Memory, Frame, Texts
  <2>2. session' \in [Session -> Frame]
    <3> DEFINE text == <<shared.local, session[s].pause>>
               frame == [session[s] EXCEPT !.at = "write", !.text = text]
    <3>1. session' = [session EXCEPT ![s] = frame]
      BY <1>8 DEF FormatState
    <3> HIDE DEF text
    <3>2. text \in Texts /\ "write" \in Stage
      BY <2>1 DEF text, Stage
    <3>3. frame \in Frame
      BY <1>b, <3>2 DEF Frame
    <3> QED BY <3>1, <3>3, FrameType
  <2> QED BY <1>8, <1>0, <2>2 DEF FormatState, TypeOK, Memory, Frame
<1>9. CASE WriteStateFile(s)
  <2>1. file' \in Texts
    BY <1>9, <1>b DEF WriteStateFile, Written, Frame
  <2>2. acked' \in BOOLEAN \X BOOLEAN
    BY <1>9, <1>b DEF WriteStateFile, Frame
  <2> QED BY <1>9, <1>0, <1>a, <2>1, <2>2 DEF WriteStateFile, TypeOK, Memory, Frame
<1>10. CASE WriteFails(s)
  <2>1. spent' \in [Event -> Nat]
    BY <1>10, SpendType DEF WriteFails, Event
  <2>2. acked' \in BOOLEAN \X BOOLEAN
    BY <1>10, <1>b DEF WriteFails, Frame
  <2> QED BY <1>10, <1>0, <1>a, <2>1, <2>2 DEF WriteFails, TypeOK, Memory, Frame
<1> QED
  BY <1>1, <1>2, <1>3, <1>4, <1>5, <1>6, <1>7, <1>8, <1>9, <1>10 DEF SessionStep

\* The types of the shared memory, of the state file and of what the calls hold.
THEOREM TypeCorrect == Spec => []TypeOK
<1> USE OwnIsKnown
<1>1. Init => TypeOK
  <2> SUFFICES ASSUME Init PROVE TypeOK
    OBVIOUS
  <2>1. shared \in Memory /\ session \in [Session -> Frame] /\ file \in Texts
    BY IdleType DEF Init, Texts
  <2>2. asked \in BOOLEAN /\ clashed \in BOOLEAN
    BY DEF Init
  <2>3. acked \in {<<>>} \cup (BOOLEAN \X BOOLEAN) /\ spent \in [Event -> Nat]
    BY DEF Init
  <2> QED BY <2>1, <2>2, <2>3 DEF TypeOK, Memory, Frame
<1>2. TypeOK /\ [Next]_vars => TypeOK'
  <2> SUFFICES ASSUME TypeOK, [Next]_vars PROVE TypeOK'
    OBVIOUS
  <2>1. ASSUME Startup PROVE shared' \in Memory /\ session' \in [Session -> Frame]
    BY <2>1, IdleType DEF Startup
  <2>2. CASE Restarts
    <3>1. spent' \in [Event -> Nat]
      BY <2>2, SpendType DEF Restarts, Event
    <3> QED BY <2>1, <2>2, <3>1 DEF Restarts, TypeOK, Memory, Frame
  <2>3. CASE Copied
    <3>1. spent' \in [Event -> Nat]
      BY <2>3, SpendType DEF Copied, Event
    <3>2. file' \in Texts
      BY <2>3 DEF Copied, Texts, Node
    <3>3. acked' = <<>> /\ UNCHANGED <<asked, clashed>> /\ Startup
      BY <2>3 DEF Copied
    <3> QED BY <2>1, <3>1, <3>2, <3>3 DEF TypeOK, Memory, Frame
  <2>4. CASE Crashes
    <3>1. spent' \in [Event -> Nat]
      BY <2>4, SpendType DEF Crashes, Event
    <3>2. acked' \in {<<>>, acked} /\ UNCHANGED <<file, asked, clashed>> /\ Startup
      BY <2>4 DEF Crashes
    <3> QED BY <2>1, <3>1, <3>2 DEF TypeOK, Memory, Frame
  <2>5. CASE UNCHANGED vars
    BY <2>5 DEF vars, TypeOK
  <2> QED BY <2>2, <2>3, <2>4, <2>5, SessionKeepsTypes DEF Next
<1> QED BY <1>1, <1>2, PTL DEF Spec
-----------------------------------------------------------------------------
(* What the three properties rest on. *)

\* A notice is only written by a call that has seen the node's id, and that does
\* not go away while the call lasts: a call that sets an id brings one.
NoticeInv ==
  /\ NoticeIsWhole
  /\ \A s \in Session : /\ session[s].at = "notify" => session[s].node \in Node /\ Registered
                        /\ session[s].at = "apply" => session[s].node \in Node

\* What a state file, or a copy of it, says of this node.
SaysPaused(text) == text # <<>> /\ text[1] = Own /\ text[2]

Pauses(s) == session[s].at \in {"open", "format", "write"}
Uses(s) == Pauses(s) \/ session[s].at = "apply"

\* The text that is about to be written is that of the call, and the id that is
\* about to be set is that of a node.
TextIsOfCall ==
  \A s \in Session :
    /\ session[s].at = "write" => session[s].text # <<>> /\ session[s].text[2] = session[s].pause
    /\ session[s].at = "apply" => session[s].node \in Node

\* Every place a pause can come from has been asked for here.
AskedInv ==
  /\ NoForeignPause
  /\ TextIsOfCall
  /\ SaysPaused(file) => asked
  /\ \A s \in Session :
       /\ session[s].at = "apply" /\ SaysPaused(session[s].text) => asked
       /\ Pauses(s) /\ session[s].pause => asked

InForce == acked # <<>> /\ acked[2] /\ ~Pausing

\* The file holds what was acknowledged, overlaps or not: whoever writes last
\* acknowledges last.
FileInv == InForce => file = <<Own, acked[1]>>

\* As long as no two calls have overlapped, a call that uses the file is alone
\* with it, so what it has read or set is still there.
AloneInv ==
  ~clashed =>
    /\ \A s, o \in Session : Uses(s) /\ Uses(o) => s = o
    /\ \A s \in Session : session[s].at = "apply" => session[s].text = file
    /\ \A s \in Session : Pauses(s) => shared.paused = session[s].pause
    /\ InForce /\ shared.local = Own => shared.paused = acked[1]

KeptInv == TextIsOfCall /\ FileInv /\ AloneInv

-----------------------------------------------------------------------------
\* The three invariants hold of a server that has just been started: nothing is
\* set and nothing is called.
LEMMA StartupIsIdle ==
  ASSUME TypeOK, Startup
  PROVE  /\ NoticeInv'
         /\ TextIsOfCall' /\ ~shared'.paused /\ ~Registered'
         /\ \A s \in Session : ~Uses(s)'
         /\ ~Pausing'
BY OwnIsKnown
DEF Startup, NoticeInv, NoticeIsWhole, TextIsOfCall, Registered, Fresh, Idle, Uses, Pauses, Pausing

\* A notice names a node, and is there exactly when its flag is, in a server
\* whose repmgrd has registered: however notices and resets interleave between
\* their two sections under the lock.
THEOREM NoticesAreWhole == Spec => []NoticeIsWhole
<1> USE OwnIsKnown
<1>1. Init => NoticeInv
  BY DEF Init, NoticeInv, NoticeIsWhole, Fresh, Idle
<1>2. TypeOK /\ NoticeInv /\ [Next]_vars => NoticeInv'
  <2> SUFFICES ASSUME TypeOK, NoticeInv, [Next]_vars PROVE NoticeInv'
    OBVIOUS
  <2> USE DEF TypeOK, NoticeInv, NoticeIsWhole, Registered
  <2>1. ASSUME NEW s \in Session, ReadStateFile(s) PROVE NoticeInv'
    BY <2>1 DEF ReadStateFile, Call, Idle
  <2>2. ASSUME NEW s \in Session, SetLocalNodeId(s) PROVE NoticeInv'
    <3>1. session[s].node \in Node
      BY <2>2 DEF SetLocalNodeId
    <3> QED BY <2>2, <3>1 DEF SetLocalNodeId, LocalId, Returns, Idle
  <2>3. ASSUME NEW s \in Session, PeekNotify(s) PROVE NoticeInv'
    BY <2>3 DEF PeekNotify, Call, Idle
  <2>4. ASSUME NEW s \in Session, NotifyFollowPrimary(s) PROVE NoticeInv'
    BY <2>4 DEF NotifyFollowPrimary, Returns, Idle
  <2>5. ASSUME NEW s \in Session, PeekReset(s) \/ PeekHandler(s) \/ PeekUnset(s) PROVE NoticeInv'
    <3>1. CASE PeekReset(s)
      BY <3>1 DEF PeekReset, Call, Idle
    <3>2. CASE PeekHandler(s)
      BY <3>2 DEF PeekHandler, Call, Idle
    <3>3. CASE PeekUnset(s)
      BY <3>3 DEF PeekUnset, Call, Idle
    <3> QED BY <2>5, <3>1, <3>2, <3>3
  <2>6. ASSUME NEW s \in Session, ResetVotingStatus(s) PROVE NoticeInv'
    BY <2>6 DEF ResetVotingStatus, Forgotten, Returns, Idle
  <2>7. ASSUME NEW s \in Session, ClaimHandler(s) \/ UnsetHandler(s) PROVE NoticeInv'
    BY <2>7 DEF ClaimHandler, UnsetHandler, Returns, Idle
  <2>8. ASSUME NEW s \in Session, SetPaused(s) PROVE NoticeInv'
    BY <2>8 DEF SetPaused, Call, Idle
  <2>9. ASSUME NEW s \in Session, OpenStateFile(s) \/ OpenFails(s) \/ FormatState(s) \/ WriteStateFile(s) \/ WriteFails(s)
        PROVE  NoticeInv'
    <3>1. CASE OpenStateFile(s)
      BY <3>1 DEF OpenStateFile, Goes
    <3>2. CASE Returns(s) /\ UNCHANGED shared
      BY <3>2 DEF Returns, Idle
    <3>3. CASE FormatState(s)
      BY <3>3 DEF FormatState
    <3> QED BY <2>9, <3>1, <3>2, <3>3 DEF OpenFails, WriteStateFile, WriteFails
  <2>10. CASE Restarts \/ Copied \/ Crashes
    BY <2>10, StartupIsIdle DEF Restarts, Copied, Crashes
  <2>11. CASE UNCHANGED vars
    BY <2>11 DEF vars
  <2> QED
    BY <2>1, <2>2, <2>3, <2>4, <2>5, <2>6, <2>7, <2>8, <2>9, <2>10, <2>11 DEF Next, SessionStep
<1>3. NoticeInv => NoticeIsWhole
  BY DEF NoticeInv
<1> QED BY <1>1, <1>2, <1>3, TypeCorrect, PTL DEF Spec

-----------------------------------------------------------------------------
\* A file written by a call says of this node only what the call was asked for.
LEMMA TextStays ==
  ASSUME TypeOK, TextIsOfCall, Next
  PROVE  TextIsOfCall'
<1> USE DEF TypeOK, TextIsOfCall
<1>1. ASSUME NEW s \in Session, SessionStep(s) PROVE TextIsOfCall'
  <2>1. CASE ReadStateFile(s)
    BY <2>1 DEF ReadStateFile, Call, Idle
  <2>2. CASE PeekNotify(s) \/ PeekReset(s) \/ PeekHandler(s) \/ PeekUnset(s)
    <3>1. CASE PeekNotify(s)
      BY <3>1 DEF PeekNotify, Call, Idle
    <3>2. CASE PeekReset(s)
      BY <3>2 DEF PeekReset, Call, Idle
    <3>3. CASE PeekHandler(s)
      BY <3>3 DEF PeekHandler, Call, Idle
    <3>4. CASE PeekUnset(s)
      BY <3>4 DEF PeekUnset, Call, Idle
    <3> QED BY <2>2, <3>1, <3>2, <3>3, <3>4
  <2>3. CASE SetPaused(s)
    BY <2>3 DEF SetPaused, Call, Idle
  <2>4. CASE OpenStateFile(s)
    BY <2>4 DEF OpenStateFile, Goes
  <2>5. CASE FormatState(s)
    BY <2>5 DEF FormatState
  <2>6. CASE Returns(s)
    BY <2>6 DEF Returns, Idle
  <2> QED
    BY <1>1, <2>1, <2>2, <2>3, <2>4, <2>5, <2>6
    DEF SessionStep, SetLocalNodeId, NotifyFollowPrimary, ResetVotingStatus, ClaimHandler,
        UnsetHandler, OpenFails, WriteStateFile, WriteFails
<1>2. CASE Restarts \/ Copied \/ Crashes
  BY <1>2, StartupIsIdle DEF Restarts, Copied, Crashes
<1> QED BY <1>1, <1>2 DEF Next

\* A step that pauses nothing and writes no pause leaves all pauses asked for.
LEMMA AskedStays ==
  ASSUME AskedInv, TextIsOfCall', UNCHANGED asked,
         shared'.paused => shared.paused, shared'.local = shared.local,
         SaysPaused(file') => SaysPaused(file),
         \A o \in Session :
           \/ session'[o] = session[o]
           \/ ~Uses(o)'
           \/ Pauses(o) /\ Pauses(o)' /\ session'[o].pause = session[o].pause
  PROVE  AskedInv'
<1>1. NoForeignPause' /\ (SaysPaused(file') => asked')
  BY DEF AskedInv, NoForeignPause
<1>2. ASSUME NEW o \in Session
      PROVE  /\ session'[o].at = "apply" /\ SaysPaused(session'[o].text) => asked'
             /\ Pauses(o)' /\ session'[o].pause => asked'
  <2>1. CASE session'[o] = session[o]
    BY <2>1 DEF AskedInv, Pauses
  <2>2. CASE ~Uses(o)'
    BY <2>2 DEF Uses
  <2>3. CASE Pauses(o) /\ Pauses(o)' /\ session'[o].pause = session[o].pause
    BY <2>3 DEF AskedInv, Pauses
  <2> QED BY <2>1, <2>2, <2>3
<1> QED BY <1>1, <1>2 DEF AskedInv

\* A pause in shared memory was asked for here, or it is another node's id that
\* is set: the state file of the node that the data directory was copied from
\* does not pause this one, whenever it is read, and whoever pauses or sets an id
\* at the same time.
THEOREM ForeignFilesAreIgnored == Spec => []NoForeignPause
<1> USE OwnIsKnown
<1>1. Init => AskedInv
  BY DEF Init, AskedInv, NoForeignPause, TextIsOfCall, SaysPaused, Pauses, Fresh, Idle
<1>2. TypeOK /\ AskedInv /\ [Next]_vars => AskedInv'
  <2> SUFFICES ASSUME TypeOK, AskedInv, [Next]_vars PROVE AskedInv'
    OBVIOUS
  <2> USE DEF TypeOK, AskedInv, NoForeignPause, SaysPaused, Pauses
  <2>0. CASE UNCHANGED vars
    BY <2>0 DEF vars, TextIsOfCall
  <2> SUFFICES ASSUME Next PROVE AskedInv'
    BY <2>0
  <2>a. TextIsOfCall'
    BY TextStays
  <2> HIDE DEF TypeOK
  <2>1. ASSUME NEW s \in Session, ReadStateFile(s) PROVE AskedInv'
    BY <2>1, <2>a DEF ReadStateFile, Call, Idle, TypeOK
  <2>2. ASSUME NEW s \in Session, SetLocalNodeId(s) PROVE AskedInv'
    <3> DEFINE text == session[s].text
    <3>1. shared'.local = LocalId(session[s].node) /\ session[s].node \in Node
      BY <2>2 DEF SetLocalNodeId, TypeOK, TextIsOfCall
    <3>2. shared'.paused = Restored(text, shared'.local, shared.paused)
      BY <2>2, <3>1 DEF SetLocalNodeId, TypeOK
    <3>3. shared'.paused /\ shared'.local \notin Other => asked
      <4>1. CASE shared'.local = Own
        <5>1. shared.local \notin Other
          BY <3>1, <4>1, SettingAssumption DEF LocalId, Registered, Node
        <5> QED BY <2>2, <3>2, <4>1, <5>1 DEF SetLocalNodeId, Restored
      <4>2. CASE shared'.local # Own
        <5>1. shared'.local \in Node
          BY <3>1 DEF LocalId, Registered, TypeOK
        <5> QED BY <4>2, <5>1 DEF Node
      <4> QED BY <4>1, <4>2
    <3>4. \A o \in Session : session'[o] = session[o] \/ session'[o].at = "idle"
      BY <2>2 DEF SetLocalNodeId, Returns, Idle, TypeOK
    <3> QED BY <2>2, <2>a, <3>3, <3>4 DEF SetLocalNodeId
  <2>3. ASSUME NEW s \in Session, PeekNotify(s) \/ PeekReset(s) \/ PeekHandler(s) \/ PeekUnset(s)
        PROVE  AskedInv'
    <3>1. \A o \in Session : session'[o] = session[o] \/ ~Uses(o)'
      <4>a. session \in [Session -> Frame]
        BY DEF TypeOK, Frame
      <4>1. CASE PeekNotify(s)
        BY <4>1, <4>a DEF PeekNotify, Call, Idle, Uses
      <4>2. CASE PeekReset(s)
        BY <4>2, <4>a DEF PeekReset, Call, Idle, Uses
      <4>3. CASE PeekHandler(s)
        BY <4>3, <4>a DEF PeekHandler, Call, Idle, Uses
      <4>4. CASE PeekUnset(s)
        BY <4>4, <4>a DEF PeekUnset, Call, Idle, Uses
      <4> QED BY <2>3, <4>1, <4>2, <4>3, <4>4
    <3>2. UNCHANGED <<asked, shared, file>>
      BY <2>3 DEF PeekNotify, PeekReset, PeekHandler, PeekUnset
    <3> QED BY <2>a, <3>1, <3>2, AskedStays
  <2>4. ASSUME NEW s \in Session,
               NotifyFollowPrimary(s) \/ ResetVotingStatus(s) \/ ClaimHandler(s) \/ UnsetHandler(s)
        PROVE  AskedInv'
    <3>1. \A o \in Session : session'[o] = session[o] \/ ~Uses(o)'
      BY <2>4
      DEF NotifyFollowPrimary, ResetVotingStatus, ClaimHandler, UnsetHandler, Returns, Idle, Uses, TypeOK
    <3>2. /\ UNCHANGED <<asked, file>> /\ shared'.paused = shared.paused
          /\ shared'.local = shared.local
      BY <2>4 DEF NotifyFollowPrimary, ResetVotingStatus, ClaimHandler, UnsetHandler, Forgotten, TypeOK
    <3> QED BY <2>a, <3>1, <3>2, AskedStays
  <2>5. ASSUME NEW s \in Session, SetPaused(s) PROVE AskedInv'
    BY <2>5, <2>a DEF SetPaused, Call, Idle, TypeOK
  <2>6. ASSUME NEW s \in Session, OpenStateFile(s) PROVE AskedInv'
    <3>1. \A o \in Session : /\ session'[o].pause = session[o].pause /\ session'[o].text = session[o].text
                             /\ session'[o].at = "apply" => session[o].at = "apply"
                             /\ Pauses(o)' => Pauses(o)
      BY <2>6 DEF OpenStateFile, Goes, TypeOK
    <3> QED BY <2>6, <2>a, <3>1 DEF OpenStateFile
  <2>7. ASSUME NEW s \in Session, OpenFails(s) \/ WriteFails(s) PROVE AskedInv'
    <3>1. UNCHANGED <<shared, file, asked>> /\ Returns(s)
      BY <2>7 DEF OpenFails, WriteFails
    <3>2. \A o \in Session : session'[o] = session[o] \/ session'[o].at = "idle"
      BY <3>1 DEF Returns, Idle, TypeOK
    <3> QED BY <2>a, <3>1, <3>2
  <2>8. ASSUME NEW s \in Session, FormatState(s) PROVE AskedInv'
    <3>1. \A o \in Session : \/ session'[o] = session[o]
                             \/ Pauses(o) /\ Pauses(o)' /\ session'[o].pause = session[o].pause
      BY <2>8 DEF FormatState, TypeOK
    <3>2. UNCHANGED <<asked, shared, file>>
      BY <2>8 DEF FormatState
    <3> QED BY <2>a, <3>1, <3>2, AskedStays
  <2>9. ASSUME NEW s \in Session, WriteStateFile(s) PROVE AskedInv'
    <3>1. SaysPaused(file') => asked
      BY <2>9 DEF WriteStateFile, Written, TextIsOfCall
    <3> QED BY <2>9, <2>a, <3>1 DEF WriteStateFile, Returns, Idle, TypeOK
  <2>10. CASE Restarts \/ Crashes
    BY <2>10, <2>a, StartupIsIdle DEF Restarts, Crashes, Uses, Startup, Idle
  <2>11. CASE Copied
    <3>1. ~SaysPaused(file')
      BY <2>11, SettingAssumption DEF Copied
    <3> QED BY <2>11, <2>a, <3>1, StartupIsIdle DEF Copied, Uses, Startup, Idle
  <2> QED
    BY <2>1, <2>2, <2>3, <2>4, <2>5, <2>6, <2>7, <2>8, <2>9, <2>10, <2>11 DEF Next, SessionStep
<1>3. AskedInv => NoForeignPause
  BY DEF AskedInv
<1> QED BY <1>1, <1>2, <1>3, TypeCorrect, PTL DEF Spec
-----------------------------------------------------------------------------
\* Calls that leave the file and the pause flag alone do not disturb what is kept.
LEMMA OthersKeep ==
  ASSUME TypeOK, KeptInv, TextIsOfCall',
         UNCHANGED <<file, acked, clashed>>, shared'.paused = shared.paused,
         shared'.local = shared.local,
         \A s \in Session :
           \/ session'[s] = session[s]
           \/ ~Uses(s) /\ ~Uses(s)'
  PROVE  KeptInv'
<1>1. \A s \in Session : Uses(s)' => session'[s] = session[s]
  OBVIOUS
<1>2. Pausing' <=> Pausing
  BY DEF Uses, Pauses, Pausing
<1>3. FileInv'
  BY <1>2 DEF KeptInv, FileInv, InForce
<1>4. AloneInv'
  BY <1>1, <1>2 DEF KeptInv, AloneInv, InForce, Uses, Pauses, Registered
<1> QED BY <1>3, <1>4 DEF KeptInv

\* An acknowledged pause is in force whenever this node's id is set, over any
\* restarts and crashes and whoever's repmgrd sets an id in between, as long as no
\* two calls have overlapped.
THEOREM PausesAreKept == Spec => []PauseIsKept
<1> USE OwnIsKnown
<1>1. Init => KeptInv
  BY DEF Init, KeptInv, TextIsOfCall, FileInv, AloneInv, InForce, Uses, Pauses, Idle
<1>2. TypeOK /\ KeptInv /\ [Next]_vars => KeptInv'
  <2> SUFFICES ASSUME TypeOK, KeptInv, [Next]_vars PROVE KeptInv'
    OBVIOUS
  <2>0. CASE UNCHANGED vars
    BY <2>0 DEF vars, KeptInv, TextIsOfCall, FileInv, AloneInv, InForce, Uses, Pauses, Pausing, Registered
  <2> SUFFICES ASSUME Next PROVE KeptInv'
    BY <2>0
  <2>a. TextIsOfCall'
    BY TextStays DEF KeptInv
  <2>1. ASSUME NEW s \in Session, ReadStateFile(s) PROVE KeptInv'
    <3>1. /\ session[s].at = "idle" /\ session'[s].at = "apply" /\ session'[s].text = file
          /\ \A o \in Session \ {s} : session'[o] = session[o]
      BY <2>1 DEF ReadStateFile, Call, Idle, TypeOK
    <3>2. Pausing' <=> Pausing
      BY <3>1 DEF Pausing
    <3>3. ~clashed' => ~clashed /\ ~UsingFile
      BY <2>1 DEF ReadStateFile, TypeOK
    <3>4. ~clashed' => \A o \in Session \ {s} : ~Uses(o)'
      BY <3>1, <3>3 DEF UsingFile, Pausing, Uses, Pauses
    <3>5. FileInv'
      BY <2>1, <3>2 DEF KeptInv, FileInv, InForce, ReadStateFile
    <3>6. AloneInv'
      BY <2>1, <3>1, <3>2, <3>3, <3>4 DEF KeptInv, AloneInv, InForce, ReadStateFile, Uses, Pauses, Registered
    <3> QED BY <2>a, <3>5, <3>6 DEF KeptInv
  <2>2. ASSUME NEW s \in Session, SetLocalNodeId(s) PROVE KeptInv'
    <3>1. /\ session[s].at = "apply" /\ session'[s].at = "idle"
          /\ \A o \in Session \ {s} : session'[o] = session[o]
          /\ UNCHANGED <<file, acked, clashed>>
      BY <2>2 DEF SetLocalNodeId, Returns, Idle, TypeOK
    <3>2. Pausing' <=> Pausing
      BY <3>1 DEF Pausing
    <3>3. FileInv'
      BY <3>1, <3>2 DEF KeptInv, FileInv, InForce
    <3>4. shared'.paused = Restored(session[s].text, shared'.local, shared.paused)
      BY <2>2 DEF SetLocalNodeId, TypeOK
    <3>5. ASSUME ~clashed PROVE \A o \in Session : ~Uses(o)'
      BY <3>1, <3>5 DEF KeptInv, AloneInv, Uses, Pauses
    <3>6. ASSUME ~clashed, InForce', shared'.local = Own PROVE shared'.paused = acked'[1]
      <4>1. session[s].text = file /\ file = <<Own, acked[1]>>
        BY <3>1, <3>2, <3>6 DEF KeptInv, FileInv, AloneInv, InForce
      <4> QED BY <3>1, <3>4, <3>6, <4>1 DEF Restored
    <3>7. AloneInv'
      BY <3>1, <3>5, <3>6 DEF AloneInv, Uses, Pauses
    <3> QED BY <2>a, <3>3, <3>7 DEF KeptInv
  <2>3. ASSUME NEW s \in Session,
               \/ PeekNotify(s) \/ PeekReset(s) \/ PeekHandler(s) \/ PeekUnset(s)
               \/ NotifyFollowPrimary(s) \/ ResetVotingStatus(s) \/ ClaimHandler(s) \/ UnsetHandler(s)
        PROVE  KeptInv'
    <3>1. /\ UNCHANGED <<file, acked, clashed>> /\ shared'.paused = shared.paused
          /\ shared'.local = shared.local
      BY <2>3
      DEF PeekNotify, PeekReset, PeekHandler, PeekUnset, NotifyFollowPrimary, ResetVotingStatus,
          ClaimHandler, UnsetHandler, Forgotten, TypeOK
    <3>2. \A o \in Session : session'[o] = session[o] \/ (~Uses(o) /\ ~Uses(o)')
      <4>1. CASE PeekNotify(s) \/ PeekReset(s) \/ PeekHandler(s) \/ PeekUnset(s)
        <5>1. /\ session[s].at = "idle" /\ session'[s].at \in {"notify", "reset", "claim", "unset"}
              /\ \A o \in Session \ {s} : session'[o] = session[o]
          <6>1. CASE PeekNotify(s)
            BY <6>1 DEF PeekNotify, Call, Idle, TypeOK
          <6>2. CASE PeekHandler(s)
            BY <6>2 DEF PeekHandler, Call, Idle, TypeOK
          <6>3. CASE PeekReset(s) \/ PeekUnset(s)
            BY <6>3 DEF PeekReset, PeekUnset, Call, Idle, TypeOK
          <6> QED BY <4>1, <6>1, <6>2, <6>3
        <5> QED BY <5>1 DEF Uses, Pauses
      <4>2. CASE NotifyFollowPrimary(s) \/ ResetVotingStatus(s) \/ ClaimHandler(s) \/ UnsetHandler(s)
        BY <4>2
        DEF NotifyFollowPrimary, ResetVotingStatus, ClaimHandler, UnsetHandler, Returns, Idle, Uses,
            Pauses, TypeOK
      <4> QED BY <2>3, <4>1, <4>2
    <3> QED BY <2>a, <3>1, <3>2, OthersKeep
  <2>4. ASSUME NEW s \in Session, SetPaused(s) PROVE KeptInv'
    <3>1. /\ session[s].at = "idle" /\ session'[s].at = "open"
          /\ shared'.paused = session'[s].pause
          /\ \A o \in Session \ {s} : session'[o] = session[o]
          /\ UNCHANGED <<file, acked>>
          /\ ~clashed' => ~clashed /\ ~UsingFile
      <4>1. PICK pause \in BOOLEAN :
              /\ Call(s, "repmgrd_pause", [Idle EXCEPT !.at = "open", !.pause = pause])
              /\ shared' = [shared EXCEPT !.paused = pause]
        BY <2>4 DEF SetPaused
      <4>2. /\ session[s].at = "idle" /\ \A o \in Session \ {s} : session'[o] = session[o]
            /\ session'[s].at = "open" /\ session'[s].pause = pause
        BY <4>1 DEF Call, Idle, TypeOK
      <4>3. shared'.paused = pause
        BY <4>1 DEF TypeOK
      <4>4. UNCHANGED <<file, acked>> /\ (~clashed' => ~clashed /\ ~UsingFile)
        BY <2>4 DEF SetPaused
      <4> QED BY <4>2, <4>3, <4>4
    <3>2. Pausing'
      BY <3>1 DEF Pausing
    <3>3. ~clashed' => \A o \in Session \ {s} : ~Uses(o)'
      BY <3>1 DEF UsingFile, Pausing, Uses, Pauses
    <3>4. FileInv'
      BY <3>2 DEF FileInv, InForce
    <3>5. AloneInv'
      BY <3>1, <3>2, <3>3 DEF AloneInv, InForce, Uses, Pauses
    <3> QED BY <2>a, <3>4, <3>5 DEF KeptInv
  <2>5. ASSUME NEW s \in Session, OpenStateFile(s) \/ FormatState(s) PROVE KeptInv'
    <3>1. /\ Pauses(s) /\ Pauses(s)' /\ session'[s].pause = session[s].pause
          /\ \A o \in Session \ {s} : session'[o] = session[o]
          /\ UNCHANGED <<shared, acked, clashed>>
      <4>1. CASE OpenStateFile(s)
        BY <4>1 DEF OpenStateFile, Goes, Pauses, TypeOK
      <4>2. CASE FormatState(s)
        <5> DEFINE text == <<shared.local, session[s].pause>>
        <5>1. /\ session[s].at = "format"
              /\ session' = [session EXCEPT ![s].at = "write", ![s].text = text]
              /\ UNCHANGED <<shared, acked, clashed>>
          BY <4>2 DEF FormatState
        <5> HIDE DEF text
        <5>2. session'[s].at = "write" /\ session'[s].pause = session[s].pause
          BY <5>1 DEF TypeOK
        <5> QED BY <5>1, <5>2 DEF Pauses, TypeOK
      <4> QED BY <2>5, <4>1, <4>2
    <3>2. Pausing'
      BY <3>1 DEF Pausing, Pauses
    <3>3. FileInv'
      BY <3>2 DEF FileInv, InForce
    <3>4. ~clashed => \A o \in Session \ {s} : ~Uses(o)'
      BY <3>1 DEF KeptInv, AloneInv, Uses, Pauses
    <3>5. AloneInv'
      BY <3>1, <3>2, <3>4 DEF KeptInv, AloneInv, InForce, Uses, Pauses
    <3> QED BY <2>a, <3>3, <3>5 DEF KeptInv
  <2>6. ASSUME NEW s \in Session, OpenFails(s) \/ WriteFails(s) PROVE KeptInv'
    <3>1. /\ Pauses(s) /\ session'[s].at = "idle"
          /\ \A o \in Session \ {s} : session'[o] = session[o]
          /\ UNCHANGED <<shared, file, clashed>> /\ ~acked'[2]
      <4>1. CASE OpenFails(s)
        BY <4>1 DEF OpenFails, Returns, Idle, Pauses, TypeOK
      <4>2. CASE WriteFails(s)
        BY <4>2 DEF WriteFails, Returns, Idle, Pauses, TypeOK
      <4> QED BY <2>6, <4>1, <4>2
    <3>2. ~InForce'
      BY <3>1 DEF InForce
    <3>3. AloneInv'
      BY <3>1, <3>2 DEF KeptInv, AloneInv, Uses, Pauses
    <3> QED BY <2>a, <3>2, <3>3 DEF KeptInv, FileInv
  <2>7. ASSUME NEW s \in Session, WriteStateFile(s) PROVE KeptInv'
    <3>1. /\ Pauses(s) /\ session'[s].at = "idle" /\ session[s].at = "write"
          /\ \A o \in Session \ {s} : session'[o] = session[o]
          /\ UNCHANGED <<shared, clashed>>
          /\ file' = session[s].text
          /\ acked' = <<session[s].pause, session[s].text[1] = Own>>
      BY <2>7 DEF WriteStateFile, Written, Returns, Idle, Pauses, TypeOK
    <3>2. session[s].text = <<session[s].text[1], session[s].pause>>
      <4>1. session[s].text \in Texts /\ session[s].text # <<>> /\ session[s].text[2] = session[s].pause
        BY <3>1 DEF KeptInv, TextIsOfCall, TypeOK
      <4> QED BY <4>1, TextParts
    <3>3. FileInv'
      BY <3>1, <3>2 DEF FileInv, InForce
    <3>4. ~clashed => /\ \A o \in Session : ~Uses(o)'
                      /\ shared'.paused = acked'[1]
      BY <3>1 DEF KeptInv, AloneInv, Uses, Pauses
    <3>5. AloneInv'
      BY <3>1, <3>4 DEF AloneInv, Uses, Pauses
    <3> QED BY <2>a, <3>3, <3>5 DEF KeptInv
  <2>8. CASE Restarts \/ Copied \/ Crashes
    <3>1. /\ Startup /\ UNCHANGED clashed
          /\ acked' = <<>> \/ (acked' = acked /\ file' = file /\ ~Pausing)
      BY <2>8 DEF Restarts, Copied, Crashes, Quiet, Pausing
    <3>2. FileInv'
      BY <3>1, StartupIsIdle DEF KeptInv, FileInv, InForce
    <3>3. AloneInv'
      BY <3>1, StartupIsIdle DEF AloneInv, Uses, Pauses, Registered
    <3> QED BY <2>a, <3>2, <3>3 DEF KeptInv
  <2> QED
    BY <2>1, <2>2, <2>3, <2>4, <2>5, <2>6, <2>7, <2>8 DEF Next, SessionStep
<1>3. KeptInv => PauseIsKept
  BY DEF KeptInv, AloneInv, InForce, Pausing, Quiet, PauseIsKept
<1> QED BY <1>1, <1>2, <1>3, TypeCorrect, PTL DEF Spec
=============================================================================
