--------------------------- MODULE SessionRegistry ---------------------------
(***************************************************************************)
(* The sessions of the server and the threads that share them by raw       *)
(* pointer: the read thread of each connection, which creates them, starts *)
(* their RTSP pull and removes them when the robot is gone; the pull       *)
(* threads, whose callback keeps them alive and starts workers; the        *)
(* workers (one slot per session); and the thread that purges the expired. *)
(*                                                                         *)
(* The registry's mutex is held within single steps only.  A pointer that  *)
(* FindSession returned outlives it: a thread that stands behind a lookup  *)
(* goes on with the session it found, whoever removes it meanwhile.  If it *)
(* was removed, the code reads freed memory from there on; the model goes  *)
(* on with what stood there.                                               *)
(*                                                                         *)
(* Time is reduced to the moment a session has been idle for too long.     *)
(* A robot names only sessions it was given on the same connection.        *)
(***************************************************************************)
EXTENDS Naturals, Sequences, SequencesExt, FiniteSets

CONSTANTS
    Conns,                 \* connections, in the life of the server
    Fds,                   \* descriptors, which the kernel hands out again
    Sessions,              \* session ids
    MaxSessions,           \* max_sessions_
    StreamsPerConnection,  \* bound on the req_stream of one connection
    None, Cleanup          \* no one; the purging thread

ASSUME LimitsAssumption == MaxSessions \in Nat /\ StreamsPerConnection \in Nat
ASSUME NamesAssumption ==
    /\ None \notin Conns \cup Fds \cup Sessions
    /\ Cleanup \notin Conns \cup {None}

VARIABLES
    sessions,  \* SessionManager::sessions_, in the order of creation
    ws_fd,     \* Session::ws_fd
    owner,     \* the connection a session was created for
    expired,   \* sessions idle for longer than the timeout
    pull,      \* the RTSP pull of a session
    worker,    \* the pipeline thread of a session
    fd,        \* the descriptor of a connection
    step,      \* where the read thread of a connection stands
    target,    \* the session pointer it holds
    cleanup,   \* where SessionCleanupLoop stands
    todo,      \* its expired_ids
    remover    \* who took a session out of the registry

readers == <<fd, step, target>>
purging == <<cleanup, todo>>
registryVars == <<sessions, ws_fd, owner, expired, pull, worker, readers, purging, remover>>

Registered == {sessions[i] : i \in DOMAIN sessions}

HandlerStep == {"idle", "req_fd", "start_touch", "start_stop", "start_pull", "ping"}
DisconnectStep == {"closed", "disc_stop", "disc_remove", "ended"}

TypeOK ==
    /\ sessions \in Seq(Sessions) /\ IsInjective(sessions)
    /\ Len(sessions) <= MaxSessions
    /\ ws_fd \in [Sessions -> Fds \cup {None}]
    /\ owner \in [Sessions -> Conns \cup {None}]
    /\ expired \subseteq Sessions
    /\ pull \in [Sessions -> {"none", "reading", "callback"}]
    /\ worker \in [Sessions -> {"none", "born", "using"}]
    /\ fd \in [Conns -> Fds \cup {None}]
    /\ step \in [Conns -> {"unborn"} \cup HandlerStep \cup DisconnectStep]
    /\ target \in [Conns -> Sessions \cup {None}]
    /\ cleanup \in {"sleep", "stop", "remove"}
    /\ todo \in Seq(Sessions)
    /\ remover \in [Sessions -> Conns \cup {None, Cleanup}]

Init ==
    /\ sessions = <<>>
    /\ ws_fd = [s \in Sessions |-> None]
    /\ owner = [s \in Sessions |-> None]
    /\ expired = {}
    /\ pull = [s \in Sessions |-> "none"]
    /\ worker = [s \in Sessions |-> "none"]
    /\ fd = [c \in Conns |-> None]
    /\ step = [c \in Conns |-> "unborn"]
    /\ target = [c \in Conns |-> None]
    /\ cleanup = "sleep" /\ todo = <<>>
    /\ remover = [s \in Sessions |-> None]

-----------------------------------------------------------------------------
Goto(c, next) == step' = [step EXCEPT ![c] = next] /\ UNCHANGED fd

\* Drop the pointer and go.
Finish(c, next) == Goto(c, next) /\ target' = [target EXCEPT ![c] = None]

Touch(s) == expired' = expired \ {s}

\* A connection whose socket is open.
Open == {c \in Conns : step[c] \in HandlerStep}

Connect(c, f) ==
    /\ step[c] = "unborn"
    /\ \A d \in Open : fd[d] # f
    /\ fd' = [fd EXCEPT ![c] = f]
    /\ step' = [step EXCEPT ![c] = "idle"]
    /\ UNCHANGED <<sessions, ws_fd, owner, expired, pull, worker, target, purging, remover>>

(***************************************************************************)
(* HandleWsMessage                                                         *)
(***************************************************************************)
\* Mutant of Insert: the youngest session first.
InsertFront(s) == <<s>> \o sessions

Insert(s) == Append(sessions, s)

HasRoom == Len(sessions) < MaxSessions

\* req_stream, with an id never used before; refused when there is no room.
CreateSession(c, s) ==
    /\ step[c] = "idle"
    /\ owner[s] = None
    /\ Cardinality({r \in Sessions : owner[r] = c}) < StreamsPerConnection
    /\ HasRoom
    /\ sessions' = Insert(s)
    /\ owner' = [owner EXCEPT ![s] = c]
    /\ target' = [target EXCEPT ![c] = s]
    /\ Goto(c, "req_fd")
    /\ UNCHANGED <<ws_fd, expired, pull, worker, purging, remover>>

SetFd(c) ==
    /\ step[c] = "req_fd"
    /\ ws_fd' = [ws_fd EXCEPT ![target[c]] = fd[c]]
    /\ Finish(c, "idle")
    /\ UNCHANGED <<sessions, owner, expired, pull, worker, purging, remover>>

\* start_push_audio for a session that is registered; for another it answers
\* with an error and changes nothing.
StartFind(c, s) ==
    /\ step[c] = "idle"
    /\ owner[s] = c /\ s \in Registered
    /\ target' = [target EXCEPT ![c] = s]
    /\ Goto(c, "start_touch")
    /\ UNCHANGED <<sessions, ws_fd, owner, expired, pull, worker, purging, remover>>

StartTouch(c) ==
    /\ step[c] = "start_touch"
    /\ Touch(target[c])
    /\ Goto(c, "start_stop")
    /\ UNCHANGED <<sessions, ws_fd, owner, pull, worker, target, purging, remover>>

\* Mutant of StopAudioPull: it does not wait for the callback.
StopAudioPullAtOnce(s) == pull' = [pull EXCEPT ![s] = "none"]

\* StopAudioPull joins the pull thread, so it waits for the callback to return.
StopAudioPull(s) == pull[s] # "callback" /\ pull' = [pull EXCEPT ![s] = "none"]

\* StartAudioPull: first stop, then start.
StartStop(c) ==
    /\ step[c] = "start_stop"
    /\ StopAudioPull(target[c])
    /\ Goto(c, "start_pull")
    /\ UNCHANGED <<sessions, ws_fd, owner, expired, worker, target, purging, remover>>

StartPull(c) ==
    /\ step[c] = "start_pull"
    /\ pull' = [pull EXCEPT ![target[c]] = "reading"]
    /\ Finish(c, "idle")
    /\ UNCHANGED <<sessions, ws_fd, owner, expired, worker, purging, remover>>

\* playback_status, tts_state, interrupt, stop_tts: what else they do is the
\* subject of VoiceSession.
Report(c, s) ==
    /\ step[c] = "idle"
    /\ owner[s] = c /\ s \in Registered
    /\ Touch(s)
    /\ UNCHANGED <<sessions, ws_fd, owner, pull, worker, readers, purging, remover>>

\* A ping is answered by the read loop itself, which hands the session logic
\* only the other messages.
Ping(c) ==
    /\ step[c] = "idle"
    /\ Goto(c, "ping")
    /\ UNCHANGED <<sessions, ws_fd, owner, expired, pull, worker, target, purging, remover>>

Pong(c) ==
    /\ step[c] = "ping"
    /\ Goto(c, "idle")
    /\ UNCHANGED <<sessions, ws_fd, owner, expired, pull, worker, target, purging, remover>>

(***************************************************************************)
(* HandleWsDisconnect, called when the socket has been closed              *)
(***************************************************************************)
Close(c) ==
    /\ step[c] = "idle"
    /\ Goto(c, "closed")
    /\ UNCHANGED <<sessions, ws_fd, owner, expired, pull, worker, target, purging, remover>>

\* FindSessionByFd: the first that has this descriptor.
IsFirstWithFd(s, f) ==
    \E i \in DOMAIN sessions :
        /\ sessions[i] = s /\ ws_fd[s] = f
        /\ \A j \in 1 .. i - 1 : ws_fd[sessions[j]] # f

\* Mutant of DisconnectFind: the pull is not stopped.
DisconnectFindOnly(c) ==
    /\ step[c] = "closed"
    /\ \E s \in Registered :
         /\ IsFirstWithFd(s, fd[c])
         /\ target' = [target EXCEPT ![c] = s]
         /\ Goto(c, "disc_remove")
    /\ UNCHANGED <<sessions, ws_fd, owner, expired, pull, worker, purging, remover>>

DisconnectFind(c) ==
    /\ step[c] = "closed"
    /\ \E s \in Registered :
         /\ IsFirstWithFd(s, fd[c])
         /\ target' = [target EXCEPT ![c] = s]
         /\ Goto(c, "disc_stop")
    /\ UNCHANGED <<sessions, ws_fd, owner, expired, pull, worker, purging, remover>>

DisconnectNone(c) ==
    /\ step[c] = "closed"
    /\ \A s \in Registered : ws_fd[s] # fd[c]
    /\ Finish(c, "ended")
    /\ UNCHANGED <<sessions, ws_fd, owner, expired, pull, worker, purging, remover>>

DisconnectStop(c) ==
    /\ step[c] = "disc_stop"
    /\ StopAudioPull(target[c])
    /\ Goto(c, "disc_remove")
    /\ UNCHANGED <<sessions, ws_fd, owner, expired, worker, target, purging, remover>>

\* RemoveSession; of two threads that remove a session the second finds nothing.
RemoveSession(s, who) ==
    /\ sessions' = RemoveFirst(sessions, s)
    /\ remover' = IF s \in Registered THEN [remover EXCEPT ![s] = who] ELSE remover

DisconnectRemove(c) ==
    /\ step[c] = "disc_remove"
    /\ RemoveSession(target[c], c)
    /\ Finish(c, "ended")
    /\ UNCHANGED <<ws_fd, owner, expired, pull, worker, purging>>

(***************************************************************************)
(* The pull thread of a session and its worker                             *)
(***************************************************************************)
\* The callback of a session that is gone returns at once.
AudioArrives(s) ==
    /\ pull[s] = "reading"
    /\ s \in Registered
    /\ pull' = [pull EXCEPT ![s] = "callback"]
    /\ UNCHANGED <<sessions, ws_fd, owner, expired, worker, readers, purging, remover>>

\* Playing, or too soon after a reply: the chunk does not count as activity.
AudioDropped(s) ==
    /\ pull[s] = "callback"
    /\ pull' = [pull EXCEPT ![s] = "reading"]
    /\ UNCHANGED <<sessions, ws_fd, owner, expired, worker, readers, purging, remover>>

\* The chunk is taken, and it may close an utterance.
AudioTaken(s) ==
    /\ pull[s] = "callback"
    /\ Touch(s)
    /\ \/ UNCHANGED worker
       \/ worker[s] = "none" /\ worker' = [worker EXCEPT ![s] = "born"]
    /\ pull' = [pull EXCEPT ![s] = "reading"]
    /\ UNCHANGED <<sessions, ws_fd, owner, readers, purging, remover>>

\* The worker's lookups: when it starts, and when the pipeline has returned.
WorkerFind(s) ==
    /\ worker[s] \in {"born", "using"}
    /\ worker' = [worker EXCEPT ![s] = IF s \in Registered THEN "using" ELSE "none"]
    /\ UNCHANGED <<sessions, ws_fd, owner, expired, pull, readers, purging, remover>>

WorkerEnds(s) ==
    /\ worker[s] = "using"
    /\ worker' = [worker EXCEPT ![s] = "none"]
    /\ UNCHANGED <<sessions, ws_fd, owner, expired, pull, readers, purging, remover>>

(***************************************************************************)
(* SessionCleanupLoop                                                      *)
(***************************************************************************)
\* Time passes.
Expire(s) ==
    /\ s \in Registered \ expired
    /\ expired' = expired \cup {s}
    /\ UNCHANGED <<sessions, ws_fd, owner, pull, worker, readers, purging, remover>>

\* GetExpiredSessionIds: the registered members of a set, in their order.
RegisteredIn(S) ==
    LET ids[i \in 0 .. Len(sessions)] ==
            IF i = 0 THEN <<>>
            ELSE IF sessions[i] \in S THEN Append(ids[i - 1], sessions[i])
            ELSE ids[i - 1]
    IN  ids[Len(sessions)]

\* Mutant of Collect: a session is spared while its pull runs.
CollectSilent ==
    /\ cleanup = "sleep"
    /\ todo' = RegisteredIn({s \in expired : pull[s] = "none"})
    /\ todo' # <<>>
    /\ cleanup' = "stop"
    /\ UNCHANGED <<sessions, ws_fd, owner, expired, pull, worker, readers, remover>>

Collect ==
    /\ cleanup = "sleep"
    /\ todo' = RegisteredIn(expired)
    /\ todo' # <<>>
    /\ cleanup' = "stop"
    /\ UNCHANGED <<sessions, ws_fd, owner, expired, pull, worker, readers, remover>>

CleanupStop ==
    /\ cleanup = "stop"
    /\ StopAudioPull(Head(todo))
    /\ cleanup' = "remove"
    /\ UNCHANGED <<sessions, ws_fd, owner, expired, worker, readers, todo, remover>>

\* Nobody looks whether the session is still expired.
CleanupRemove ==
    /\ cleanup = "remove"
    /\ RemoveSession(Head(todo), Cleanup)
    /\ todo' = Tail(todo)
    /\ cleanup' = IF todo' = <<>> THEN "sleep" ELSE "stop"
    /\ UNCHANGED <<ws_fd, owner, expired, pull, worker, readers>>

MessageArrives(c) ==
    \/ \E s \in Sessions : CreateSession(c, s) \/ StartFind(c, s) \/ Report(c, s)
    \/ Ping(c)

HandlerGoesOn(c) == SetFd(c) \/ StartTouch(c) \/ StartStop(c) \/ StartPull(c) \/ Pong(c)

DisconnectGoesOn(c) == \/ DisconnectFind(c) \/ DisconnectNone(c)
                       \/ DisconnectStop(c) \/ DisconnectRemove(c)

CallbackReturns(s) == AudioDropped(s) \/ AudioTaken(s)

CleanupGoesOn == Collect \/ CleanupStop \/ CleanupRemove

Next ==
    \/ \E c \in Conns :
         \/ \E f \in Fds : Connect(c, f)
         \/ MessageArrives(c) \/ HandlerGoesOn(c)
         \/ Close(c) \/ DisconnectGoesOn(c)
    \/ \E s \in Sessions :
         \/ AudioArrives(s) \/ CallbackReturns(s)
         \/ WorkerFind(s) \/ WorkerEnds(s)
         \/ Expire(s)
    \/ CleanupGoesOn

Spec == Init /\ [][Next]_registryVars

\* Threads that wait for nothing are scheduled, and time passes.
FairSpec ==
    /\ Spec
    /\ \A c \in Conns : /\ WF_registryVars(HandlerGoesOn(c))
                        /\ WF_registryVars(DisconnectGoesOn(c))
    /\ \A s \in Sessions : /\ WF_registryVars(CallbackReturns(s))
                           /\ WF_registryVars(Expire(s))
    /\ WF_registryVars(CleanupGoesOn)

-----------------------------------------------------------------------------
(***************************************************************************)
(* Properties                                                              *)
(***************************************************************************)
\* A pull outlives its session, and a callback runs on a session that has been
\* destroyed, only if someone other than the session's own connection removed
\* it: a read thread stops the pull and removes the session in turn, and cannot
\* be starting the pull at the same time.
OwnDisconnectLeavesNoPull ==
    \A s \in Sessions :
        s \notin Registered /\ pull[s] # "none" => remover[s] # owner[s]

\* A disconnect is looked up by descriptor only, and a new connection may have
\* the descriptor by then.  Still, the disconnect of one does not end the session
\* of an open one while one of its own is registered: the registry keeps the
\* older ones in front.
DisconnectSparesOpen ==
    \A c \in Conns :
        step[c] = "disc_stop" /\ owner[target[c]] \in Open =>
            \A s \in Registered : owner[s] # c

\* Liveness.  No session stays behind for good: when its connection has ended,
\* and no publisher keeps delivering audio, it is removed, by the disconnect
\* handler or, if that found another session, by the purge.
PublishersStop == <>[][~\E s \in Sessions : AudioArrives(s)]_registryVars
LeftBehind(s) == s \in Registered /\ step[owner[s]] = "ended"
NoSessionLeftBehind ==
    PublishersStop => \A s \in Sessions : LeftBehind(s) ~> s \notin Registered

-----------------------------------------------------------------------------
(***************************************************************************)
(* Refinement of the abstract pulls                                        *)
(***************************************************************************)
StageOf(c) ==
    IF c = Cleanup
      THEN IF cleanup = "stop" THEN "stopping" ELSE "idle"
      ELSE CASE step[c] \in {"start_stop", "disc_stop"} -> "stopping"
             [] step[c] = "start_pull" -> "starting"
             [] OTHER -> "idle"

SessionOf(c) ==
    IF StageOf(c) = "idle" THEN None
    ELSE IF c = Cleanup THEN Head(todo)
    ELSE target[c]

Pulls == INSTANCE AudioPulls WITH
    Callers <- Conns \cup {Cleanup},
    stage <- [c \in Conns \cup {Cleanup} |-> StageOf(c)],
    session <- [c \in Conns \cup {Cleanup} |-> SessionOf(c)]

\* The pulls of this module are those RtspManager provides: the session logic
\* asks for one thing at a time, and although the purge and the disconnects of
\* other connections stop pulls too, a start never finds a pull running.
UsesAudioPulls == Pulls!Spec
=============================================================================
