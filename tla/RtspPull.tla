------------------------------- MODULE RtspPull -------------------------------
(***************************************************************************)
(* The audio pulls of RtspManager: the threads that start and stop them,   *)
(* the pull thread of each (PullLoop), which launches ffmpeg, reads its    *)
(* pipe and launches it again when it ends, and the shutdown.              *)
(*                                                                         *)
(* The pulls of a session are started by one read thread, named by the     *)
(* session; they are stopped by it, by the disconnect of another robot     *)
(* that had the same descriptor, and by the purge.  Not all read threads   *)
(* have ended when main calls Stop (StopClosesAll of MCWsConnections), so  *)
(* they start and stop pulls at any time.                                  *)
(*                                                                         *)
(* pipelines_mutex_ is held while a pull thread is joined, so it is a      *)
(* variable here.  It is not held from the push of a new pipeline to the   *)
(* assignment of its thread, and a pipeline that is destroyed meanwhile is *)
(* the end of what can be said: the destructor of a joinable thread calls  *)
(* std::terminate, and the starter or the thread goes on in freed memory.  *)
(* Both are the state `aborted', in which nothing happens any more.        *)
(*                                                                         *)
(* What the callback does with the audio is the subject of VoiceSession.   *)
(***************************************************************************)
EXTENDS Naturals

CONSTANTS
    Sessions,    \* sessions, each with its read thread
    Pipelines,   \* AudioPullPipeline objects
    MaxRetries,  \* kMaxRetries
    None, Purge, Main

ASSUME RetriesAssumption == MaxRetries \in Nat
ASSUME NamesAssumption ==
    /\ None \notin Sessions \cup Pipelines \cup {Purge, Main}
    /\ Purge \notin Sessions /\ Main \notin Sessions \cup {Purge}

Callers == Sessions \cup {Purge}

VARIABLES
    pull_pipelines,  \* RtspManager::pull_pipelines_; their order matters to nobody
    pipeline,        \* the fields of each object, and its lifetime
    ffmpegs,         \* how many ffmpeg children each pipeline has
    hung,            \* the pipelines whose thread is in a call that never returns
    holder,          \* who holds pipelines_mutex_
    at,              \* where each caller stands
    want,            \* the session it is called for
    restart,         \* it is in StartAudioPull, not in StopAudioPull alone
    it,              \* the pipeline it works on
    main,            \* where Stop stands
    left,            \* the pipelines whose thread it has not joined yet
    late,            \* the pipelines that were listed between its two locks
    aborted          \* the process has called std::terminate or is undefined

call == <<at, want, restart, it>>
shutdown == <<main, left, late>>
pullVars == <<pull_pipelines, pipeline, ffmpegs, hung, holder, call, shutdown, aborted>>

\* joinable: of pull_thread; retries: retry_count of PullLoop
Pipeline ==
    [heap: {"unborn", "live", "freed"},
     session_id: Sessions \cup {None},
     need_exit: BOOLEAN,
     thread: {"none", "launch", "check", "fread", "callback", "close", "sleep", "ended"},
     joinable: BOOLEAN,
     retries: 0 .. MaxRetries]

TypeOK ==
    /\ pull_pipelines \subseteq Pipelines
    /\ pipeline \in [Pipelines -> Pipeline]
    /\ ffmpegs \in [Pipelines -> Nat]
    /\ hung \subseteq Pipelines
    /\ holder \in Callers \cup {Main, None}
    /\ at \in [Callers -> {"idle", "stop", "join", "erase", "push", "spawn", "assign"}]
    /\ want \in [Callers -> Sessions \cup {None}]
    /\ restart \in [Callers -> BOOLEAN]
    /\ it \in [Callers -> Pipelines \cup {None}]
    /\ main \in {"up", "signalled", "joining", "done"}
    /\ left \subseteq Pipelines /\ late \subseteq Pipelines
    /\ aborted \in BOOLEAN

Init ==
    /\ pull_pipelines = {}
    /\ pipeline = [p \in Pipelines |->
         [heap |-> "unborn", session_id |-> None, need_exit |-> FALSE, thread |-> "none",
          joinable |-> FALSE, retries |-> 0]]
    /\ ffmpegs = [p \in Pipelines |-> 0] /\ hung = {}
    /\ holder = None
    /\ at = [c \in Callers |-> "idle"]
    /\ want = [c \in Callers |-> None]
    /\ restart = [c \in Callers |-> FALSE]
    /\ it = [c \in Callers |-> None]
    /\ main = "up" /\ left = {} /\ late = {} /\ aborted = FALSE

\* join() returns, or joinable() is FALSE and there is nothing to join.
Exited(p) == pipeline[p].joinable => pipeline[p].thread = "ended"

Joined(p) == [pipeline[p] EXCEPT !.joinable = FALSE]
Free(p) == [pipeline[p] EXCEPT !.heap = "freed"]

\* The thread was assigned after joinable() had been looked at, or it has opened
\* a pipe meanwhile, which is closed while the thread reads it.
Torn(p) == pipeline[p].joinable \/ ffmpegs[p] > 0

-----------------------------------------------------------------------------
(***************************************************************************)
(* StartAudioPull, StopAudioPull                                           *)
(***************************************************************************)
\* Mutant of Begin: StartAudioPull does not stop the pull there is.
BeginAfresh(c, s, again) ==
    /\ at[c] = "idle"
    /\ at' = [at EXCEPT ![c] = IF again THEN "push" ELSE "stop"]
    /\ want' = [want EXCEPT ![c] = s]
    /\ restart' = [restart EXCEPT ![c] = again]
    /\ UNCHANGED <<pull_pipelines, pipeline, ffmpegs, hung, holder, it, shutdown, aborted>>

Begin(c, s, again) ==
    /\ at[c] = "idle"
    /\ at' = [at EXCEPT ![c] = "stop"]
    /\ want' = [want EXCEPT ![c] = s]
    /\ restart' = [restart EXCEPT ![c] = again]
    /\ UNCHANGED <<pull_pipelines, pipeline, ffmpegs, hung, holder, it, shutdown, aborted>>

StartCall(s) == Begin(s, s, TRUE)
StopCall(c, s) == Begin(c, s, FALSE)

\* Back to the caller, or on to the second half of StartAudioPull.
AfterStop(c) ==
    IF restart[c]
      THEN at' = [at EXCEPT ![c] = "push"] /\ UNCHANGED <<want, restart>>
      ELSE /\ at' = [at EXCEPT ![c] = "idle"]
           /\ want' = [want EXCEPT ![c] = None]
           /\ restart' = [restart EXCEPT ![c] = FALSE]

Pull(s) == {p \in pull_pipelines : pipeline[p].session_id = s}

FindPull(c) ==
    /\ at[c] = "stop"
    /\ holder = None
    /\ \E p \in Pull(want[c]) :
         /\ pipeline' = [pipeline EXCEPT ![p].need_exit = TRUE]
         /\ it' = [it EXCEPT ![c] = p]
    /\ at' = [at EXCEPT ![c] = "join"]
    /\ holder' = c
    /\ UNCHANGED <<pull_pipelines, ffmpegs, hung, want, restart, shutdown, aborted>>

\* Mutant of FindNothing: a pull that is running is left alone.
FindNothingToStop(c) ==
    /\ at[c] = "stop"
    /\ holder = None
    /\ AfterStop(c)
    /\ UNCHANGED <<pull_pipelines, pipeline, ffmpegs, hung, holder, it, shutdown, aborted>>

FindNothing(c) ==
    /\ at[c] = "stop"
    /\ holder = None
    /\ Pull(want[c]) = {}
    /\ AfterStop(c)
    /\ UNCHANGED <<pull_pipelines, pipeline, ffmpegs, hung, holder, it, shutdown, aborted>>

\* Mutant of JoinThread: the thread is detached, not joined.
JoinThreadNever(c) ==
    /\ at[c] = "join"
    /\ pipeline' = [pipeline EXCEPT ![it[c]] = Joined(it[c])]
    /\ at' = [at EXCEPT ![c] = "erase"]
    /\ UNCHANGED <<pull_pipelines, ffmpegs, hung, holder, want, restart, it, shutdown, aborted>>

JoinThread(c) ==
    /\ at[c] = "join"
    /\ Exited(it[c])
    /\ pipeline' = [pipeline EXCEPT ![it[c]] = Joined(it[c])]
    /\ at' = [at EXCEPT ![c] = "erase"]
    /\ UNCHANGED <<pull_pipelines, ffmpegs, hung, holder, want, restart, it, shutdown, aborted>>

ErasePull(c) ==
    /\ at[c] = "erase"
    /\ ~ Torn(it[c])
    /\ pipeline' = [pipeline EXCEPT ![it[c]] = Free(it[c])]
    /\ pull_pipelines' = pull_pipelines \ {it[c]}
    /\ it' = [it EXCEPT ![c] = None]
    /\ holder' = None
    /\ AfterStop(c)
    /\ UNCHANGED <<ffmpegs, hung, shutdown, aborted>>

PushPull(c) ==
    /\ at[c] = "push"
    /\ holder = None
    /\ \E p \in Pipelines :
         /\ pipeline[p].heap = "unborn"
         /\ pipeline' = [pipeline EXCEPT ![p].heap = "live", ![p].session_id = want[c]]
         /\ pull_pipelines' = pull_pipelines \cup {p}
         /\ it' = [it EXCEPT ![c] = p]
         /\ late' = IF main = "signalled" THEN late \cup {p} ELSE late
    /\ at' = [at EXCEPT ![c] = "spawn"]
    /\ UNCHANGED <<ffmpegs, hung, holder, want, restart, main, left, aborted>>

\* The thread runs before its handle is assigned.
SpawnThread(c) ==
    /\ at[c] = "spawn"
    /\ pipeline[it[c]].heap = "live"
    /\ pipeline' = [pipeline EXCEPT ![it[c]].thread = "launch"]
    /\ at' = [at EXCEPT ![c] = "assign"]
    /\ UNCHANGED <<pull_pipelines, ffmpegs, hung, holder, want, restart, it, shutdown, aborted>>

AssignThread(c) ==
    /\ at[c] = "assign"
    /\ pipeline[it[c]].heap = "live"
    /\ pipeline' = [pipeline EXCEPT ![it[c]].joinable = TRUE]
    /\ at' = [at EXCEPT ![c] = "idle"]
    /\ it' = [it EXCEPT ![c] = None]
    /\ want' = [want EXCEPT ![c] = None]
    /\ restart' = [restart EXCEPT ![c] = FALSE]
    /\ UNCHANGED <<pull_pipelines, ffmpegs, hung, holder, shutdown, aborted>>

(***************************************************************************)
(* PullLoop                                                                *)
(***************************************************************************)
LoopGoto(p, step) == pipeline' = [pipeline EXCEPT ![p].thread = step]

KeepCallers == UNCHANGED <<pull_pipelines, hung, holder, call, shutdown, aborted>>

LoopExits(p) ==
    /\ pipeline[p].thread = "launch"
    /\ pipeline[p].need_exit \/ pipeline[p].retries = MaxRetries
    /\ LoopGoto(p, "ended")
    /\ UNCHANGED ffmpegs /\ KeepCallers

Launch(p) ==
    /\ pipeline[p].thread = "launch"
    /\ ~pipeline[p].need_exit /\ pipeline[p].retries < MaxRetries
    /\ ffmpegs' = [ffmpegs EXCEPT ![p] = @ + 1]
    /\ LoopGoto(p, "check")
    /\ KeepCallers

\* popen fails: the thread ends for good.
LaunchFails(p) ==
    /\ pipeline[p].thread = "launch"
    /\ ~pipeline[p].need_exit /\ pipeline[p].retries < MaxRetries
    /\ LoopGoto(p, "ended")
    /\ UNCHANGED ffmpegs /\ KeepCallers

\* Mutant of CheckExit: only an end of file leaves the inner loop.
CheckExitNever(p) ==
    /\ pipeline[p].thread = "check"
    /\ LoopGoto(p, "fread")
    /\ UNCHANGED ffmpegs /\ KeepCallers

CheckExit(p) ==
    /\ pipeline[p].thread = "check"
    /\ LoopGoto(p, IF pipeline[p].need_exit THEN "close" ELSE "fread")
    /\ UNCHANGED ffmpegs /\ KeepCallers

ReadAudio(p) ==
    /\ pipeline[p].thread = "fread"
    /\ LoopGoto(p, "callback")
    /\ UNCHANGED ffmpegs /\ KeepCallers

\* Mutant of ReadEnds: ffmpeg is launched again and the old pipe kept.
ReadEndsKeepsPipe(p) ==
    /\ pipeline[p].thread = "fread"
    /\ LoopGoto(p, "launch")
    /\ UNCHANGED ffmpegs /\ KeepCallers

\* end of file or error
ReadEnds(p) ==
    /\ pipeline[p].thread = "fread"
    /\ LoopGoto(p, "close")
    /\ UNCHANGED ffmpegs /\ KeepCallers

CallbackReturns(p) ==
    /\ pipeline[p].thread = "callback"
    /\ pipeline' = [pipeline EXCEPT ![p].thread = "check", ![p].retries = 0]
    /\ UNCHANGED ffmpegs /\ KeepCallers

\* pclose waits for the child.
ClosePipe(p) ==
    /\ pipeline[p].thread = "close"
    /\ ffmpegs' = [ffmpegs EXCEPT ![p] = @ - 1]
    /\ IF pipeline[p].need_exit
         THEN LoopGoto(p, "ended")
         ELSE pipeline' = [pipeline EXCEPT ![p].thread = "sleep", ![p].retries = @ + 1]
    /\ KeepCallers

\* fread, the callback and pclose have no timeout: ffmpeg may give neither audio
\* nor an end of file, the callback may wait for ever for a mutex
\* (BargeInFinishes of MCVoiceSession), and ffmpeg may not end.
Hang(p) ==
    /\ pipeline[p].thread \in {"fread", "callback", "close"}
    /\ hung' = hung \cup {p}
    /\ UNCHANGED <<pull_pipelines, pipeline, ffmpegs, holder, call, shutdown, aborted>>

Wake(p) ==
    /\ pipeline[p].thread = "sleep"
    /\ LoopGoto(p, "launch")
    /\ UNCHANGED ffmpegs /\ KeepCallers

(***************************************************************************)
(* Stop, called by main after that of the WebSocket server                 *)
(***************************************************************************)
\* Mutant of Signal: the pull threads are not told to end.
SignalNobody ==
    /\ main = "up"
    /\ holder = None
    /\ main' = "signalled"
    /\ UNCHANGED <<pull_pipelines, pipeline, ffmpegs, hung, holder, call, left, late, aborted>>

Signal ==
    /\ main = "up"
    /\ holder = None
    /\ pipeline' = [p \in Pipelines |->
         [pipeline[p] EXCEPT !.need_exit = @ \/ p \in pull_pipelines]]
    /\ main' = "signalled"
    /\ UNCHANGED <<pull_pipelines, ffmpegs, hung, holder, call, left, late, aborted>>

LockAgain ==
    /\ main = "signalled"
    /\ holder = None
    /\ holder' = Main
    /\ main' = "joining"
    /\ left' = pull_pipelines
    /\ UNCHANGED <<pull_pipelines, pipeline, ffmpegs, hung, call, late, aborted>>

JoinOne(p) ==
    /\ main = "joining" /\ p \in left
    /\ Exited(p)
    /\ pipeline' = [pipeline EXCEPT ![p] = Joined(p)]
    /\ left' = left \ {p}
    /\ UNCHANGED <<pull_pipelines, ffmpegs, hung, holder, call, main, late, aborted>>

ClearAll ==
    /\ main = "joining" /\ left = {}
    /\ \A p \in pull_pipelines : ~ Torn(p)
    /\ pipeline' = [p \in Pipelines |-> IF p \in pull_pipelines THEN Free(p) ELSE pipeline[p]]
    /\ pull_pipelines' = {}
    /\ holder' = None
    /\ main' = "done"
    /\ UNCHANGED <<ffmpegs, hung, call, left, late, aborted>>

(***************************************************************************)
(* What becomes of a pipeline destroyed before its thread was joined       *)
(***************************************************************************)
Active(p) == pipeline[p].thread \notin {"none", "ended"}

\* The caller c has listed p and not yet assigned its thread.
Starting(c, p) == at[c] \in {"spawn", "assign"} /\ it[c] = p

Destroying(p) ==
    \/ \E c \in Callers : at[c] = "erase" /\ it[c] = p
    \/ main = "joining" /\ left = {} /\ p \in pull_pipelines

Abort(p) ==
    /\ \/ Destroying(p) /\ Torn(p)
       \/ /\ pipeline[p].heap = "freed"
          /\ Active(p) \/ \E c \in Callers : Starting(c, p)
    /\ aborted' = TRUE
    /\ UNCHANGED <<pull_pipelines, pipeline, ffmpegs, hung, holder, call, shutdown>>

CallGoesOn(c) == \/ FindPull(c) \/ FindNothing(c) \/ JoinThread(c) \/ ErasePull(c)
                 \/ PushPull(c) \/ SpawnThread(c) \/ AssignThread(c)

ReadReturns(p) == ReadAudio(p) \/ ReadEnds(p)

LoopGoesOn(p) ==
    /\ pipeline[p].heap = "live" /\ p \notin hung
    /\ \/ LoopExits(p) \/ Launch(p) \/ LaunchFails(p) \/ CheckExit(p) \/ ReadReturns(p)
       \/ CallbackReturns(p) \/ ClosePipe(p) \/ Wake(p) \/ Hang(p)

StopGoesOn == LockAgain \/ (\E p \in Pipelines : JoinOne(p)) \/ ClearAll

Next ==
    /\ ~ aborted
    /\ \/ \E s \in Sessions : StartCall(s)
       \/ \E c \in Callers, s \in Sessions : StopCall(c, s)
       \/ \E c \in Callers : CallGoesOn(c)
       \/ \E p \in Pipelines : LoopGoesOn(p) \/ Abort(p)
       \/ Signal \/ StopGoesOn

Spec == Init /\ [][Next]_pullVars

\* Threads that wait for nothing are scheduled, and a wait of a pull thread ends
\* or hangs for ever.  Those that compete with Stop for the mutex wait for a
\* robot, or sleep for 30 s, between two calls, so Stop gets it.
FairSpec ==
    /\ Spec
    /\ \A c \in Callers : WF_pullVars(~ aborted /\ CallGoesOn(c))
    /\ \A p \in Pipelines : WF_pullVars(~ aborted /\ (LoopGoesOn(p) \/ Abort(p)))
    /\ SF_pullVars(~ aborted /\ StopGoesOn)

-----------------------------------------------------------------------------
(***************************************************************************)
(* Properties                                                              *)
(***************************************************************************)
\* Two pull threads never deliver audio to one session: a wake-up that comes
\* without a sleep, and a purge that stops the pull at the same time, leave at
\* most one.
OnePullPerSession ==
    \A p, q \in Pipelines :
        Active(p) /\ Active(q) /\ pipeline[p].session_id = pipeline[q].session_id => p = q

\* A pull thread works on a pipeline that exists and that Stop can reach, whoever
\* ends it, from the moment its starter has assigned it.  Before that the code
\* does not see to it: DestroyedAfterExit of MCRtspPull.
ThreadHasPipeline ==
    \A p \in Pipelines :
        Active(p) => \/ pipeline[p].heap = "live" /\ p \in pull_pipelines
                     \/ \E c \in Callers : Starting(c, p)

\* A pull never has two ffmpeg children, and leaves none behind when it ends,
\* however often the publisher comes and goes.
NoStrayFfmpeg ==
    \A p \in Pipelines :
        ffmpegs[p] <= (IF pipeline[p].thread \in {"check", "fread", "callback", "close"}
                         THEN 1 ELSE 0)

\* Liveness.  A caller that joins a pull thread, and holds pipelines_mutex_, which
\* every other session needs to start or stop its pull, gets past the join,
\* unless the thread hangs in one call.
JoinReturns ==
    \A c \in Callers : at[c] = "join" ~> at[c] # "join" \/ it[c] \in hung \/ aborted

\* Liveness.  Stop returns, although robots that were not cut off and the purge
\* start and stop pulls meanwhile, unless a pull thread hangs, or one was listed
\* between Stop's two locks, so that nobody has told it to end.
ShutdownEnds ==
    main = "signalled" ~>
        main = "done" \/ hung # {} \/ late \cap left # {} \/ aborted

-----------------------------------------------------------------------------
(***************************************************************************)
(* Refinement of the abstract pulls                                        *)
(***************************************************************************)
\* A thread whose pipeline has been freed is none of the manager's any more.
PullOf(s) ==
    LET mine == {p \in Pipelines : pipeline[p].session_id = s /\ pipeline[p].heap = "live"}
        threads == {pipeline[p].thread : p \in mine}
    IN  IF "callback" \in threads THEN "callback"
        ELSE IF threads \subseteq {"none", "ended"} THEN "none"
        ELSE "reading"

StageOf(c) == CASE at[c] \in {"idle", "assign"} -> "idle"
                [] at[c] \in {"stop", "join", "erase"} -> "stopping"
                [] at[c] \in {"push", "spawn"} -> "starting"

Pulls == INSTANCE AudioPulls WITH
    pull <- [s \in Sessions |-> PullOf(s)],
    stage <- [c \in Callers |-> StageOf(c)],
    session <- [c \in Callers |-> IF at[c] = "assign" THEN None ELSE want[c]]

\* What the sessions and the callback see of the manager are the pulls they were
\* promised: a stop waits for the callback that runs and leaves nothing running,
\* a start finds nothing running, whoever else stops pulls of the session, and
\* the shutdown waits for the callbacks too and ends all pulls there are.
ImplementsAudioPulls == Pulls!Spec
=============================================================================
