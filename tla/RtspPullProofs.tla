---------------------------- MODULE RtspPullProofs ----------------------------
(***************************************************************************)
(* Proofs about RtspPull, for any number of sessions, pipelines and        *)
(* retries: a session has one pull, a pull thread one pipeline or a        *)
(* starter that has not assigned it yet, and a pipeline at most one        *)
(* ffmpeg; and the manager implements AudioPulls.                          *)
(***************************************************************************)
EXTENDS RtspPull, TLAPS

\* The steps of PullLoop in which it has an ffmpeg child.
Piped == {"check", "fread", "callback", "close"}

\* A pipeline lives as long as it is listed, and its thread can be joined then
\* only.  A thread that runs and cannot be joined has a caller that is about to
\* assign it.
PipelineOK(p) ==
    /\ pipeline[p].heap = "live" <=> p \in pull_pipelines
    /\ pipeline[p].heap = "unborn" => pipeline[p].thread = "none"
    /\ pipeline[p].heap # "live" => ~pipeline[p].joinable
    /\ pipeline[p].joinable => pipeline[p].thread # "none"
    /\ pipeline[p].thread \in Piped => pipeline[p].retries < MaxRetries
    /\ ffmpegs[p] = IF pipeline[p].thread \in Piped THEN 1 ELSE 0
    /\ Active(p) /\ ~pipeline[p].joinable =>
         \E c \in Callers : at[c] = "assign" /\ it[c] = p

\* Two pipelines of one session are never listed together.
OneEach ==
    \A p, q \in pull_pipelines : pipeline[p].session_id = pipeline[q].session_id => p = q

\* Who joins or erases holds the mutex; who is about to push has found nothing;
\* only the read thread of a session pushes for it, and until it has assigned the
\* thread its session has no other pipeline.
CallerOK(c) ==
    /\ at[c] # "idle" => want[c] \in Sessions
    /\ at[c] \in {"join", "erase"} =>
         /\ holder = c /\ it[c] \in pull_pipelines
         /\ pipeline[it[c]].session_id = want[c]
    /\ at[c] \in {"push", "spawn", "assign"} => restart[c]
    /\ restart[c] => c \in Sessions /\ want[c] = c
    /\ at[c] = "push" => Pull(c) = {}
    /\ at[c] \in {"spawn", "assign"} =>
         /\ it[c] \in Pipelines
         /\ pipeline[it[c]].session_id = c
         /\ pipeline[it[c]].heap # "unborn"
         /\ Pull(c) \subseteq {it[c]}
         /\ at[c] = "spawn" <=> pipeline[it[c]].thread = "none"

PullInv ==
    /\ TypeOK
    /\ \A p \in Pipelines : PipelineOK(p)
    /\ OneEach
    /\ \A c \in Callers : CallerOK(c)
    /\ holder = Main <=> main = "joining"

-----------------------------------------------------------------------------
\* One pipeline gets the fields of r.
Becomes(p, r) ==
    /\ pipeline' \in [Pipelines -> Pipeline]
    /\ pipeline'[p] = r
    /\ \A q \in Pipelines \ {p} : pipeline'[q] = pipeline[q]

LEMMA PutEffect ==
    ASSUME TypeOK, NEW p \in Pipelines, NEW r \in Pipeline,
           pipeline' = [pipeline EXCEPT ![p] = r]
    PROVE  Becomes(p, r)
BY DEF TypeOK, Becomes

\* What a step of PullLoop makes of its pipeline.
Steps(p, step, n) ==
    /\ pipeline' \in [Pipelines -> Pipeline]
    /\ \A q \in Pipelines \ {p} : pipeline'[q] = pipeline[q]
    /\ pipeline'[p].heap = pipeline[p].heap
    /\ pipeline'[p].session_id = pipeline[p].session_id
    /\ pipeline'[p].joinable = pipeline[p].joinable
    /\ pipeline'[p].thread = step
    /\ pipeline'[p].retries = n

LEMMA LoopGotoEffect ==
    ASSUME TypeOK, NEW p \in Pipelines, NEW step \in
             {"none", "launch", "check", "fread", "callback", "close", "sleep", "ended"},
           LoopGoto(p, step)
    PROVE  Steps(p, step, pipeline[p].retries)
BY DEF LoopGoto, TypeOK, Pipeline, Steps

LEMMA RetryEffect ==
    ASSUME TypeOK, NEW p \in Pipelines, NEW step \in {"check", "sleep"},
           NEW n \in 0 .. MaxRetries,
           pipeline' = [pipeline EXCEPT ![p].thread = step, ![p].retries = n]
    PROVE  Steps(p, step, n)
<1> DEFINE moved == [pipeline[p] EXCEPT !.thread = step]
           r == [moved EXCEPT !.retries = n]
<1>1. pipeline[p] \in Pipeline /\ pipeline \in [Pipelines -> Pipeline]
  BY DEF TypeOK
<1>2. pipeline' = [pipeline EXCEPT ![p] = r]
  BY <1>1 DEF Pipeline
<1>3. /\ moved \in Pipeline /\ moved.heap = pipeline[p].heap
      /\ moved.session_id = pipeline[p].session_id
      /\ moved.joinable = pipeline[p].joinable /\ moved.thread = step
  BY <1>1 DEF Pipeline
<1> HIDE DEF moved
<1>4. /\ r \in Pipeline /\ r.heap = pipeline[p].heap
      /\ r.session_id = pipeline[p].session_id
      /\ r.joinable = pipeline[p].joinable /\ r.thread = step /\ r.retries = n
  BY <1>3 DEF Pipeline
<1> HIDE DEF r
<1>5. Becomes(p, r)
  BY <1>2, <1>4, PutEffect
<1>6. QED
  BY <1>4, <1>5 DEF Steps, Becomes

-----------------------------------------------------------------------------
\* A caller that does not move stays as it is if its pulls do.
LEMMA CallerStays ==
    ASSUME PullInv, NEW d \in Callers, UNCHANGED <<at[d], want[d], restart[d], it[d]>>,
           at[d] \in {"join", "erase"} => holder' = d /\ it[d] \in pull_pipelines',
           at[d] \in {"push", "spawn", "assign"} => Pull(d)' \subseteq Pull(d),
           \A p \in Pipelines : pipeline[p].heap # "unborn" =>
               /\ pipeline'[p].heap # "unborn"
               /\ pipeline'[p].session_id = pipeline[p].session_id,
           at[d] \in {"spawn", "assign"} =>
               (pipeline'[it[d]].thread = "none" <=> pipeline[it[d]].thread = "none")
    PROVE  CallerOK(d)'
<1>1. CallerOK(d)
  BY DEF PullInv
<1>2. at[d] \in {"join", "erase"} => it[d] \in Pipelines /\ pipeline[it[d]].heap # "unborn"
  BY <1>1 DEF CallerOK, PullInv, TypeOK, PipelineOK
<1>3. at[d] \in {"join", "erase"} => pipeline'[it[d]].session_id = want'[d]
  BY <1>1, <1>2 DEF CallerOK
<1>4. at[d] \in {"spawn", "assign"} => /\ pipeline'[it[d]].session_id = d
                                       /\ pipeline'[it[d]].heap # "unborn"
                                       /\ Pull(d)' \subseteq {it[d]}
  BY <1>1 DEF CallerOK
<1>5. at[d] = "push" => Pull(d)' = {}
  BY <1>1 DEF CallerOK
<1>6. QED
  BY <1>1, <1>3, <1>4, <1>5 DEF CallerOK

\* Who is about to assign a thread still is.
AssignersStay ==
    \A d \in Callers : at[d] = "assign" => at'[d] = "assign" /\ it'[d] = it[d]

\* A pipeline that is not touched stays as it is.
LEMMA PipelineStays ==
    ASSUME NEW p \in Pipelines, PipelineOK(p), AssignersStay,
           p \in pull_pipelines' <=> p \in pull_pipelines,
           pipeline'[p].heap = pipeline[p].heap,
           pipeline'[p].joinable = pipeline[p].joinable,
           pipeline'[p].thread = pipeline[p].thread,
           pipeline'[p].retries = pipeline[p].retries,
           ffmpegs'[p] = ffmpegs[p]
    PROVE  PipelineOK(p)'
<1>1. Active(p) /\ ~pipeline[p].joinable =>
        \E c \in Callers : at'[c] = "assign" /\ it'[c] = p
  BY DEF PipelineOK, AssignersStay
<1>2. QED
  BY <1>1, Zenon DEF PipelineOK, Active

\* A step of PullLoop that keeps count of its ffmpeg disturbs nobody.
LEMMA LoopKeepsInv ==
    ASSUME PullInv, KeepCallers, NEW p \in Pipelines, NEW step, NEW n, Steps(p, step, n),
           pipeline[p].heap = "live", Active(p), step # "none",
           step \in Piped => n < MaxRetries,
           ffmpegs' \in [Pipelines -> Nat],
           \A q \in Pipelines \ {p} : ffmpegs'[q] = ffmpegs[q],
           ffmpegs'[p] = IF step \in Piped THEN 1 ELSE 0
    PROVE  PullInv'
<1>1. UNCHANGED <<pull_pipelines, hung, holder, at, want, restart, it, main, left, late,
                  aborted>>
  BY DEF KeepCallers, call, shutdown
<1>2. TypeOK'
  BY <1>1 DEF PullInv, TypeOK, Steps
<1>3. AssignersStay
  BY <1>1 DEF AssignersStay
<1>4. \A q \in Pipelines : PipelineOK(q)'
  <2>1. PipelineOK(p)'
    <3>1. PipelineOK(p)
      BY DEF PullInv
    <3>2. Active(p)' /\ ~pipeline'[p].joinable =>
            \E c \in Callers : at'[c] = "assign" /\ it'[c] = p
      BY <1>1, <3>1 DEF PipelineOK, Steps
    <3>3. QED
      BY <1>1, <3>1, <3>2, Zenon DEF PipelineOK, Steps
  <2>2. ASSUME NEW q \in Pipelines \ {p} PROVE PipelineOK(q)'
    BY <1>1, <1>3, PipelineStays DEF PullInv, Steps
  <2>3. QED
    BY <2>1, <2>2
<1>5. \A q \in Pipelines : pipeline'[q].session_id = pipeline[q].session_id
                           /\ pipeline'[q].heap = pipeline[q].heap
                           /\ (pipeline'[q].thread = "none" <=> pipeline[q].thread = "none")
  BY DEF Steps, Active
<1>6. OneEach' /\ \A u : Pull(u)' = Pull(u)
  BY <1>1, <1>5 DEF PullInv, OneEach, Pull, TypeOK
<1>7. ASSUME NEW c \in Callers PROVE CallerOK(c)'
  <2>1. CallerOK(c)
    BY DEF PullInv
  <2>2. QED
    BY <1>1, <1>5, <1>6, <2>1, CallerStays DEF CallerOK
<1>8. QED
  BY <1>1, <1>2, <1>4, <1>6, <1>7 DEF PullInv

LEMMA HangKeepsInv ==
    ASSUME PullInv, NEW p \in Pipelines, Hang(p)
    PROVE  PullInv'
<1>1. UNCHANGED <<pull_pipelines, pipeline, ffmpegs, holder, at, want, restart, it, main,
                  left, late, aborted>>
  BY DEF Hang, call, shutdown
<1>2. TypeOK'
  BY <1>1 DEF Hang, PullInv, TypeOK
<1>3. QED
  BY <1>1, <1>2 DEF PullInv, PipelineOK, OneEach, CallerOK, Pull, Active

LEMMA LoopStep ==
    ASSUME PullInv, NEW p \in Pipelines, LoopGoesOn(p)
    PROVE  PullInv'
<1>1. /\ TypeOK /\ PipelineOK(p) /\ pipeline[p] \in Pipeline
      /\ ffmpegs \in [Pipelines -> Nat] /\ MaxRetries \in Nat
      /\ pipeline[p].heap = "live"
  BY RetriesAssumption DEF PullInv, TypeOK, LoopGoesOn
<1>2. ffmpegs[p] = IF pipeline[p].thread \in Piped THEN 1 ELSE 0
  BY <1>1 DEF PipelineOK
<1>3. CASE LoopExits(p) \/ LaunchFails(p)
  <2>1. Steps(p, "ended", pipeline[p].retries)
    BY <1>1, <1>3, LoopGotoEffect DEF LoopExits, LaunchFails
  <2>2. QED
    BY <1>1, <1>2, <1>3, <2>1, LoopKeepsInv DEF LoopExits, LaunchFails, Piped, Active
<1>4. CASE Launch(p)
  <2>1. Steps(p, "check", pipeline[p].retries)
    BY <1>1, <1>4, LoopGotoEffect DEF Launch
  <2>2. /\ ffmpegs' \in [Pipelines -> Nat] /\ ffmpegs'[p] = 1
        /\ \A q \in Pipelines \ {p} : ffmpegs'[q] = ffmpegs[q]
    BY <1>1, <1>2, <1>4 DEF Launch, Piped
  <2>3. QED
    BY <1>1, <1>4, <2>1, <2>2, LoopKeepsInv DEF Launch, Piped, Active
<1>5. CASE CheckExit(p)
  <2>1. PICK step \in {"close", "fread"} : LoopGoto(p, step)
    BY <1>5 DEF CheckExit
  <2>2. Steps(p, step, pipeline[p].retries)
    BY <1>1, <2>1, LoopGotoEffect
  <2>3. QED
    BY <1>1, <1>2, <1>5, <2>2, LoopKeepsInv DEF CheckExit, Piped, PipelineOK, Active
<1>6. CASE ReadReturns(p)
  <2>1. PICK step \in {"close", "callback"} : LoopGoto(p, step)
    BY <1>6 DEF ReadReturns, ReadAudio, ReadEnds
  <2>2. Steps(p, step, pipeline[p].retries)
    BY <1>1, <2>1, LoopGotoEffect
  <2>3. QED
    BY <1>1, <1>2, <1>6, <2>2, LoopKeepsInv
       DEF ReadReturns, ReadAudio, ReadEnds, Piped, PipelineOK, Active
<1>7. CASE CallbackReturns(p)
  <2>1. pipeline[p].retries < MaxRetries
    BY <1>1, <1>7 DEF CallbackReturns, PipelineOK, Piped
  <2>2. 0 \in 0 .. MaxRetries /\ 0 < MaxRetries
    BY <1>1, <2>1 DEF Pipeline
  <2>3. Steps(p, "check", 0)
    BY <1>1, <1>7, <2>2, RetryEffect DEF CallbackReturns
  <2>4. QED
    BY <1>1, <1>2, <1>7, <2>2, <2>3, LoopKeepsInv DEF CallbackReturns, Piped, Active
<1>8. CASE ClosePipe(p)
  <2>1. pipeline[p].retries < MaxRetries
    BY <1>1, <1>8 DEF ClosePipe, PipelineOK, Piped
  <2>2. /\ ffmpegs' \in [Pipelines -> Nat] /\ ffmpegs'[p] = 0
        /\ \A q \in Pipelines \ {p} : ffmpegs'[q] = ffmpegs[q]
    BY <1>1, <1>2, <1>8 DEF ClosePipe, Piped
  <2>3. CASE pipeline[p].need_exit
    <3>1. Steps(p, "ended", pipeline[p].retries)
      BY <1>1, <1>8, <2>3, LoopGotoEffect DEF ClosePipe
    <3>2. QED
      BY <1>1, <1>8, <2>2, <3>1, LoopKeepsInv DEF ClosePipe, Piped, Active
  <2>4. CASE ~pipeline[p].need_exit
    <3>1. pipeline[p].retries + 1 \in 0 .. MaxRetries
      BY <1>1, <2>1 DEF Pipeline
    <3>2. pipeline' = [pipeline EXCEPT ![p].thread = "sleep",
                                       ![p].retries = pipeline[p].retries + 1]
      BY <1>1, <1>8, <2>4 DEF ClosePipe
    <3>3. Steps(p, "sleep", pipeline[p].retries + 1)
      BY <1>1, <3>1, <3>2, RetryEffect
    <3>4. QED
      BY <1>1, <1>8, <2>2, <3>3, LoopKeepsInv DEF ClosePipe, Piped, Active
  <2>5. QED
    BY <2>3, <2>4
<1>9. CASE Wake(p)
  <2>1. Steps(p, "launch", pipeline[p].retries)
    BY <1>1, <1>9, LoopGotoEffect DEF Wake
  <2>2. QED
    BY <1>1, <1>2, <1>9, <2>1, LoopKeepsInv DEF Wake, Piped, Active
<1>10. QED
  BY <1>3, <1>4, <1>5, <1>6, <1>7, <1>8, <1>9, HangKeepsInv DEF LoopGoesOn

-----------------------------------------------------------------------------
Others(c) ==
    \A d \in Callers \ {c} : /\ at'[d] = at[d] /\ want'[d] = want[d]
                             /\ restart'[d] = restart[d] /\ it'[d] = it[d]

Places == {"idle", "stop", "join", "erase", "push", "spawn", "assign"}

LEMMA CallMoves ==
    ASSUME TypeOK, NEW c \in Callers, NEW place \in Places, at' = [at EXCEPT ![c] = place]
    PROVE  /\ at' \in [Callers -> Places] /\ at'[c] = place
           /\ \A d \in Callers \ {c} : at'[d] = at[d]
BY DEF TypeOK, Places

\* The caller is back where it was called from, or called, with s to work for.
LEMMA CallEffect ==
    ASSUME TypeOK, NEW c \in Callers, NEW place \in Places,
           NEW s \in Sessions \cup {None}, NEW again \in BOOLEAN,
           at' = [at EXCEPT ![c] = place], want' = [want EXCEPT ![c] = s],
           restart' = [restart EXCEPT ![c] = again]
    PROVE  /\ at' \in [Callers -> Places] /\ want' \in [Callers -> Sessions \cup {None}]
           /\ restart' \in [Callers -> BOOLEAN]
           /\ at'[c] = place /\ want'[c] = s /\ restart'[c] = again
           /\ \A d \in Callers \ {c} : at'[d] = at[d] /\ want'[d] = want[d]
                                       /\ restart'[d] = restart[d]
<1>1. /\ at' \in [Callers -> Places] /\ at'[c] = place
      /\ \A d \in Callers \ {c} : at'[d] = at[d]
  BY CallMoves
<1>2. /\ want' \in [Callers -> Sessions \cup {None}] /\ want'[c] = s
      /\ \A d \in Callers \ {c} : want'[d] = want[d]
  BY DEF TypeOK
<1>3. /\ restart' \in [Callers -> BOOLEAN] /\ restart'[c] = again
      /\ \A d \in Callers \ {c} : restart'[d] = restart[d]
  BY Zenon DEF TypeOK
<1>4. QED
  BY <1>1, <1>2, <1>3

\* Going on after StopAudioPull.
LEMMA AfterStopEffect ==
    ASSUME TypeOK, NEW c \in Callers, AfterStop(c)
    PROVE  /\ at' \in [Callers -> Places] /\ want' \in [Callers -> Sessions \cup {None}]
           /\ restart' \in [Callers -> BOOLEAN]
           /\ \A d \in Callers \ {c} : at'[d] = at[d] /\ want'[d] = want[d]
                                       /\ restart'[d] = restart[d]
           /\ \/ at'[c] = "push" /\ restart[c] /\ restart'[c] /\ want'[c] = want[c]
              \/ at'[c] = "idle" /\ ~restart'[c]
<1>1. CASE restart[c]
  BY <1>1, CallMoves DEF AfterStop, TypeOK, Places
<1>2. CASE ~restart[c]
  BY <1>2, CallEffect DEF AfterStop, Places
<1>3. QED
  BY <1>1, <1>2

\* The pipelines are as they were, but for need_exit.
SamePulls ==
    /\ pipeline' \in [Pipelines -> Pipeline]
    /\ \A p \in Pipelines : /\ pipeline'[p].heap = pipeline[p].heap
                            /\ pipeline'[p].session_id = pipeline[p].session_id
                            /\ pipeline'[p].joinable = pipeline[p].joinable
                            /\ pipeline'[p].thread = pipeline[p].thread
                            /\ pipeline'[p].retries = pipeline[p].retries

LEMMA SamePullsKeep ==
    ASSUME PullInv, SamePulls, AssignersStay, ffmpegs' = ffmpegs,
           pull_pipelines' = pull_pipelines
    PROVE  /\ \A p \in Pipelines : PipelineOK(p)'
           /\ OneEach'
           /\ \A s : Pull(s)' = Pull(s)
<1>1. \A p \in Pipelines : PipelineOK(p)'
  BY PipelineStays DEF PullInv, SamePulls
<1>2. OneEach' /\ \A s : Pull(s)' = Pull(s)
  BY DEF PullInv, OneEach, SamePulls, Pull, TypeOK
<1>3. QED
  BY <1>1, <1>2

\* A step of c that leaves the pipelines as they were keeps the other callers.
LEMMA OthersStay ==
    ASSUME PullInv, SamePulls, NEW c \in Callers, Others(c),
           pull_pipelines' = pull_pipelines,
           NEW d \in Callers \ {c}, at[d] \in {"join", "erase"} => holder' = d
    PROVE  CallerOK(d)'
<1>1. CallerOK(d) /\ UNCHANGED <<at[d], want[d], restart[d], it[d]>>
  BY DEF PullInv, Others
<1>2. \A s : Pull(s)' = Pull(s)
  BY DEF Pull, SamePulls, PullInv, TypeOK
<1>3. QED
  BY <1>1, <1>2, CallerStays DEF SamePulls, CallerOK

LEMMA BeginStep ==
    ASSUME PullInv, NEW c \in Callers, NEW s \in Sessions, NEW again \in BOOLEAN,
           again => c = s, Begin(c, s, again)
    PROVE  PullInv'
<1>1. /\ at[c] = "idle"
      /\ UNCHANGED <<pull_pipelines, pipeline, ffmpegs, hung, holder, it, main, left, late,
                     aborted>>
  BY DEF Begin, shutdown
<1>2. at' = [at EXCEPT ![c] = "stop"] /\ want' = [want EXCEPT ![c] = s]
      /\ restart' = [restart EXCEPT ![c] = again]
  BY DEF Begin
<1>3. /\ at' \in [Callers -> Places] /\ at'[c] = "stop"
      /\ want' \in [Callers -> Sessions \cup {None}] /\ want'[c] = s
      /\ restart' \in [Callers -> BOOLEAN] /\ restart'[c] = again
      /\ Others(c) /\ AssignersStay
  BY <1>1, <1>2, CallEffect DEF PullInv, Others, AssignersStay, Places
<1>4. SamePulls
  BY <1>1 DEF SamePulls, PullInv, TypeOK
<1>5. (\A p \in Pipelines : PipelineOK(p)') /\ OneEach' /\ \A u : Pull(u)' = Pull(u)
  BY <1>1, <1>3, <1>4, SamePullsKeep
<1>6. \A d \in Callers : CallerOK(d)'
  <2>1. CallerOK(c)'
    BY <1>3 DEF CallerOK
  <2>2. ASSUME NEW d \in Callers \ {c} PROVE CallerOK(d)'
    <3>1. at[d] \in {"join", "erase"} => holder' = d
      BY <1>1 DEF PullInv, CallerOK
    <3>2. QED
      BY <3>1, <1>1, <1>3, <1>4, OthersStay
  <2>3. QED
    BY <2>1, <2>2
<1>7. TypeOK'
  BY <1>1, <1>3 DEF PullInv, TypeOK, Places
<1>8. QED
  BY <1>1, <1>5, <1>6, <1>7 DEF PullInv

LEMMA FindPullStep ==
    ASSUME PullInv, NEW c \in Callers, FindPull(c)
    PROVE  PullInv'
<1>1. PICK p \in Pull(want[c]) : /\ pipeline' = [pipeline EXCEPT ![p].need_exit = TRUE]
                                 /\ it' = [it EXCEPT ![c] = p]
  BY DEF FindPull
<1>2. /\ at[c] = "stop" /\ holder = None /\ at' = [at EXCEPT ![c] = "join"] /\ holder' = c
      /\ UNCHANGED <<pull_pipelines, ffmpegs, hung, want, restart, main, left, late, aborted>>
  BY DEF FindPull, shutdown
<1>3. p \in pull_pipelines /\ p \in Pipelines /\ pipeline[p].session_id = want[c]
  BY <1>1 DEF Pull, PullInv, TypeOK
<1>4. SamePulls
  <2> DEFINE r == [pipeline[p] EXCEPT !.need_exit = TRUE]
  <2>1. pipeline[p] \in Pipeline
    BY <1>3 DEF PullInv, TypeOK
  <2>2. /\ r \in Pipeline /\ r.heap = pipeline[p].heap
        /\ r.session_id = pipeline[p].session_id /\ r.joinable = pipeline[p].joinable
        /\ r.thread = pipeline[p].thread /\ r.retries = pipeline[p].retries
    BY <2>1 DEF Pipeline
  <2>3. pipeline' = [pipeline EXCEPT ![p] = r]
    BY <1>1
  <2> HIDE DEF r
  <2>4. Becomes(p, r)
    BY <1>3, <2>2, <2>3, PutEffect DEF PullInv
  <2>5. QED
    BY <2>2, <2>4 DEF SamePulls, Becomes
<1>5. /\ at' \in [Callers -> Places] /\ at'[c] = "join"
      /\ \A d \in Callers \ {c} : at'[d] = at[d]
  BY <1>2, CallMoves DEF PullInv, Places
<1>6. /\ it' \in [Callers -> Pipelines \cup {None}] /\ it'[c] = p
      /\ Others(c) /\ AssignersStay
  BY <1>1, <1>2, <1>3, <1>5 DEF PullInv, TypeOK, Others, AssignersStay
<1>7. (\A q \in Pipelines : PipelineOK(q)') /\ OneEach' /\ \A u : Pull(u)' = Pull(u)
  BY <1>2, <1>4, <1>6, SamePullsKeep
<1>8. \A d \in Callers : CallerOK(d)'
  <2>1. CallerOK(c)'
    BY <1>2, <1>3, <1>4, <1>5, <1>6 DEF CallerOK, PullInv, SamePulls
  <2>2. ASSUME NEW d \in Callers \ {c} PROVE CallerOK(d)'
    <3>1. at[d] \notin {"join", "erase"}
      BY <1>2, NamesAssumption DEF PullInv, CallerOK, Callers
    <3>2. QED
      BY <3>1, <1>2, <1>4, <1>6, OthersStay
  <2>3. QED
    BY <2>1, <2>2
<1>9. TypeOK'
  BY <1>2, <1>4, <1>5, <1>6 DEF PullInv, TypeOK, Places, SamePulls
<1>10. holder' # Main /\ main' # "joining"
  BY <1>2, NamesAssumption DEF PullInv, Callers
<1>11. QED
  BY <1>7, <1>8, <1>9, <1>10 DEF PullInv

LEMMA FindNothingStep ==
    ASSUME PullInv, NEW c \in Callers, FindNothing(c)
    PROVE  PullInv'
<1>1. /\ at[c] = "stop" /\ Pull(want[c]) = {} /\ AfterStop(c)
      /\ UNCHANGED <<pull_pipelines, pipeline, ffmpegs, hung, holder, it, main, left, late,
                     aborted>>
  BY DEF FindNothing, shutdown
<1>2. /\ at' \in [Callers -> Places] /\ want' \in [Callers -> Sessions \cup {None}]
      /\ restart' \in [Callers -> BOOLEAN] /\ Others(c) /\ AssignersStay
      /\ \/ at'[c] = "push" /\ restart[c] /\ restart'[c] /\ want'[c] = want[c]
         \/ at'[c] = "idle" /\ ~restart'[c]
  BY <1>1, AfterStopEffect DEF PullInv, Others, AssignersStay
<1>3. SamePulls
  BY <1>1 DEF SamePulls, PullInv, TypeOK
<1>4. (\A p \in Pipelines : PipelineOK(p)') /\ OneEach' /\ \A u : Pull(u)' = Pull(u)
  BY <1>1, <1>2, <1>3, SamePullsKeep
<1>5. \A d \in Callers : CallerOK(d)'
  <2>1. CallerOK(c)'
    BY <1>1, <1>2, <1>4 DEF PullInv, CallerOK
  <2>2. ASSUME NEW d \in Callers \ {c} PROVE CallerOK(d)'
    <3>1. at[d] \in {"join", "erase"} => holder' = d
      BY <1>1 DEF PullInv, CallerOK
    <3>2. QED
      BY <3>1, <1>1, <1>2, <1>3, OthersStay
  <2>3. QED
    BY <2>1, <2>2
<1>6. TypeOK'
  BY <1>1, <1>2 DEF PullInv, TypeOK, Places
<1>7. QED
  BY <1>1, <1>4, <1>5, <1>6 DEF PullInv

\* A thread that has been joined has ended, or nobody has assigned it.
LEMMA JoinedEffect ==
    ASSUME PullInv, NEW p \in Pipelines, Exited(p), AssignersStay,
           pipeline' = [pipeline EXCEPT ![p] = Joined(p)],
           ffmpegs' = ffmpegs, pull_pipelines' = pull_pipelines
    PROVE  /\ Becomes(p, Joined(p))
           /\ \A q \in Pipelines : /\ pipeline'[q].heap = pipeline[q].heap
                                   /\ pipeline'[q].session_id = pipeline[q].session_id
                                   /\ pipeline'[q].thread = pipeline[q].thread
           /\ \A q \in Pipelines : PipelineOK(q)'
           /\ OneEach' /\ \A u : Pull(u)' = Pull(u)
<1>1. /\ PipelineOK(p) /\ pipeline[p] \in Pipeline
  BY DEF PullInv, TypeOK
<1>2. /\ Joined(p) \in Pipeline /\ ~Joined(p).joinable
      /\ Joined(p).heap = pipeline[p].heap /\ Joined(p).session_id = pipeline[p].session_id
      /\ Joined(p).thread = pipeline[p].thread /\ Joined(p).retries = pipeline[p].retries
  BY <1>1 DEF Joined, Pipeline
<1>3. Becomes(p, Joined(p))
  BY <1>2, PutEffect DEF PullInv
<1>4. PipelineOK(p)'
  <2>1. Active(p) => \E c \in Callers : at'[c] = "assign" /\ it'[c] = p
    BY <1>1 DEF PipelineOK, AssignersStay, Exited, Active
  <2>2. QED
    BY <1>1, <1>2, <1>3, <2>1, Zenon DEF PipelineOK, Becomes, Active
<1>5. ASSUME NEW q \in Pipelines \ {p} PROVE PipelineOK(q)'
  BY <1>3, PipelineStays DEF PullInv, Becomes
<1>6. \A q \in Pipelines : /\ pipeline'[q].heap = pipeline[q].heap
                           /\ pipeline'[q].session_id = pipeline[q].session_id
                           /\ pipeline'[q].thread = pipeline[q].thread
  BY <1>2, <1>3 DEF Becomes
<1>7. OneEach' /\ \A u : Pull(u)' = Pull(u)
  BY <1>6 DEF PullInv, OneEach, Pull, TypeOK
<1>8. QED
  BY <1>3, <1>4, <1>5, <1>6, <1>7

LEMMA JoinThreadStep ==
    ASSUME PullInv, NEW c \in Callers, JoinThread(c)
    PROVE  PullInv'
<1>0. PICK p : p = it[c]
  OBVIOUS
<1>1. /\ at[c] = "join" /\ Exited(p) /\ pipeline' = [pipeline EXCEPT ![p] = Joined(p)]
      /\ at' = [at EXCEPT ![c] = "erase"]
      /\ UNCHANGED <<pull_pipelines, ffmpegs, hung, holder, want, restart, it, main, left,
                     late, aborted>>
  BY <1>0 DEF JoinThread, shutdown
<1>2. /\ CallerOK(c) /\ holder = c /\ p \in pull_pipelines /\ p \in Pipelines
      /\ pipeline[p].session_id = want[c]
  BY <1>0, <1>1 DEF PullInv, CallerOK, TypeOK
<1>3. /\ at' \in [Callers -> Places] /\ at'[c] = "erase" /\ Others(c) /\ AssignersStay
  BY <1>1, CallMoves DEF PullInv, Places, Others, AssignersStay
<1>4. /\ pipeline' \in [Pipelines -> Pipeline]
      /\ \A q \in Pipelines : /\ pipeline'[q].heap = pipeline[q].heap
                              /\ pipeline'[q].session_id = pipeline[q].session_id
                              /\ pipeline'[q].thread = pipeline[q].thread
      /\ \A q \in Pipelines : PipelineOK(q)'
      /\ OneEach' /\ \A u : Pull(u)' = Pull(u)
  BY <1>1, <1>2, <1>3, JoinedEffect DEF Becomes
<1>5. \A d \in Callers : CallerOK(d)'
  <2>1. CallerOK(c)'
    BY <1>0, <1>1, <1>2, <1>3, <1>4 DEF CallerOK
  <2>2. ASSUME NEW d \in Callers \ {c} PROVE CallerOK(d)'
    <3>1. CallerOK(d) /\ UNCHANGED <<at[d], want[d], restart[d], it[d]>>
      BY <1>3 DEF PullInv, Others
    <3>2. at[d] \in {"spawn", "assign"} => it[d] \in Pipelines
      BY <3>1 DEF CallerOK
    <3>3. QED
      BY <3>1, <3>2, <1>1, <1>4, CallerStays DEF CallerOK
  <2>3. QED
    BY <2>1, <2>2
<1>6. TypeOK'
  BY <1>1, <1>3, <1>4 DEF PullInv, TypeOK, Places
<1>7. QED
  BY <1>1, <1>4, <1>5, <1>6 DEF PullInv

LEMMA FreeEffect ==
    ASSUME PullInv, NEW p \in Pipelines
    PROVE  /\ Free(p) \in Pipeline /\ Free(p).heap = "freed"
           /\ Free(p).joinable = pipeline[p].joinable
           /\ Free(p).session_id = pipeline[p].session_id
           /\ Free(p).thread = pipeline[p].thread /\ Free(p).retries = pipeline[p].retries
<1>1. pipeline[p] \in Pipeline
  BY DEF PullInv, TypeOK
<1>2. QED
  BY <1>1 DEF Free, Pipeline

\* A pipeline that is not torn may be destroyed.
LEMMA FreedOK ==
    ASSUME PullInv, NEW p \in pull_pipelines, ~Torn(p), AssignersStay,
           pipeline'[p] = Free(p), p \notin pull_pipelines', ffmpegs' = ffmpegs
    PROVE  PipelineOK(p)'
<1>1. PipelineOK(p) /\ p \in Pipelines /\ ~pipeline[p].joinable
  BY DEF PullInv, TypeOK, Torn
<1>2. /\ pipeline'[p].heap = "freed" /\ ~pipeline'[p].joinable
      /\ pipeline'[p].thread = pipeline[p].thread
      /\ pipeline'[p].retries = pipeline[p].retries
  BY <1>1, FreeEffect
<1>3. Active(p) => \E c \in Callers : at'[c] = "assign" /\ it'[c] = p
  BY <1>1 DEF PipelineOK, AssignersStay
<1>4. QED
  BY <1>1, <1>2, <1>3, Zenon DEF PipelineOK, Active

LEMMA ErasePullStep ==
    ASSUME PullInv, NEW c \in Callers, ErasePull(c)
    PROVE  PullInv'
<1>0. PICK p : p = it[c]
  OBVIOUS
<1>1. /\ at[c] = "erase" /\ ~Torn(p) /\ pipeline' = [pipeline EXCEPT ![p] = Free(p)]
      /\ pull_pipelines' = pull_pipelines \ {p} /\ it' = [it EXCEPT ![c] = None]
      /\ holder' = None /\ AfterStop(c)
      /\ UNCHANGED <<ffmpegs, hung, main, left, late, aborted>>
  BY <1>0 DEF ErasePull, shutdown
<1>2. /\ CallerOK(c) /\ holder = c /\ p \in pull_pipelines /\ p \in Pipelines
      /\ pipeline[p].session_id = want[c] /\ want[c] \in Sessions
  BY <1>0, <1>1 DEF PullInv, CallerOK, TypeOK
<1>3. /\ at' \in [Callers -> Places] /\ want' \in [Callers -> Sessions \cup {None}]
      /\ restart' \in [Callers -> BOOLEAN] /\ it' \in [Callers -> Pipelines \cup {None}]
      /\ Others(c) /\ AssignersStay
      /\ \/ at'[c] = "push" /\ restart[c] /\ restart'[c] /\ want'[c] = want[c]
         \/ at'[c] = "idle" /\ ~restart'[c]
  BY <1>1, AfterStopEffect DEF PullInv, Others, TypeOK, AssignersStay
<1>4. Becomes(p, Free(p))
  BY <1>1, <1>2, FreeEffect, PutEffect DEF PullInv
<1>5. \A q \in Pipelines : PipelineOK(q)'
  <2>1. PipelineOK(p)'
    BY <1>1, <1>2, <1>3, <1>4, FreedOK DEF Becomes
  <2>2. ASSUME NEW q \in Pipelines \ {p} PROVE PipelineOK(q)'
    <3>1. PipelineOK(q) /\ pipeline'[q] = pipeline[q] /\ ffmpegs'[q] = ffmpegs[q]
          /\ (q \in pull_pipelines' <=> q \in pull_pipelines)
      BY <1>1, <1>4 DEF PullInv, Becomes
    <3>2. QED
      BY <3>1, <1>3, PipelineStays
  <2>3. QED
    BY <2>1, <2>2
<1>6. \A q \in Pipelines :
        /\ pipeline'[q].session_id = pipeline[q].session_id
        /\ pipeline'[q].thread = pipeline[q].thread
        /\ pipeline[q].heap # "unborn" => pipeline'[q].heap # "unborn"
  BY <1>2, <1>4, FreeEffect DEF Becomes
<1>7. OneEach' /\ \A u : Pull(u)' = Pull(u) \ {p}
  BY <1>1, <1>6 DEF PullInv, OneEach, Pull, TypeOK
<1>8. Pull(want[c]) = {p}
  BY <1>2 DEF Pull, PullInv, OneEach
<1>9. \A d \in Callers : CallerOK(d)'
  <2>1. CallerOK(c)'
    BY <1>1, <1>2, <1>3, <1>7, <1>8 DEF CallerOK
  <2>2. ASSUME NEW d \in Callers \ {c} PROVE CallerOK(d)'
    <3>1. CallerOK(d) /\ UNCHANGED <<at[d], want[d], restart[d], it[d]>>
      BY <1>3 DEF PullInv, Others
    <3>2. at[d] \in {"spawn", "assign"} => it[d] \in Pipelines
      BY <3>1 DEF CallerOK
    <3>3. at[d] \notin {"join", "erase"}
      BY <3>1, <1>2 DEF CallerOK
    <3>4. QED
      BY <3>1, <3>2, <3>3, <1>6, <1>7, CallerStays
  <2>3. QED
    BY <2>1, <2>2
<1>10. TypeOK'
  BY <1>1, <1>3, <1>4 DEF PullInv, TypeOK, Places, Becomes
<1>11. holder' # Main /\ main' # "joining"
  BY <1>1, <1>2, NamesAssumption DEF PullInv, Callers
<1>12. QED
  BY <1>5, <1>7, <1>9, <1>10, <1>11 DEF PullInv

LEMMA PushPullStep ==
    ASSUME PullInv, NEW c \in Callers, PushPull(c)
    PROVE  PullInv'
<1>1. PICK p \in Pipelines :
        /\ pipeline[p].heap = "unborn"
        /\ pipeline' = [pipeline EXCEPT ![p].heap = "live", ![p].session_id = want[c]]
        /\ pull_pipelines' = pull_pipelines \cup {p}
        /\ it' = [it EXCEPT ![c] = p]
        /\ late' \in {late \cup {p}, late}
  BY DEF PushPull
<1>2. /\ at[c] = "push" /\ holder = None /\ at' = [at EXCEPT ![c] = "spawn"]
      /\ UNCHANGED <<ffmpegs, hung, holder, want, restart, main, left, aborted>>
  BY DEF PushPull
<1>3. c \in Sessions /\ want[c] = c /\ restart[c] /\ Pull(c) = {}
  BY <1>2 DEF PullInv, CallerOK
<1>4. PipelineOK(p) /\ pipeline[p] \in Pipeline /\ pipeline \in [Pipelines -> Pipeline]
  BY DEF PullInv, TypeOK
<1>5. /\ p \notin pull_pipelines /\ pipeline[p].thread = "none" /\ ~pipeline[p].joinable
      /\ ffmpegs[p] = 0
  BY <1>1, <1>4 DEF PipelineOK, Piped
<1>6. /\ pipeline' \in [Pipelines -> Pipeline]
      /\ \A q \in Pipelines \ {p} : pipeline'[q] = pipeline[q]
      /\ pipeline'[p].heap = "live" /\ pipeline'[p].session_id = c
      /\ pipeline'[p].thread = "none" /\ ~pipeline'[p].joinable
  <2> DEFINE r1 == [pipeline[p] EXCEPT !.heap = "live"]
             r2 == [r1 EXCEPT !.session_id = c]
  <2>1. pipeline' = [pipeline EXCEPT ![p] = r2]
    BY <1>1, <1>3, <1>4 DEF Pipeline
  <2>2. /\ r1 \in Pipeline /\ r1.heap = "live" /\ r1.thread = pipeline[p].thread
        /\ r1.joinable = pipeline[p].joinable
    BY <1>4 DEF Pipeline
  <2> HIDE DEF r1
  <2>3. /\ r2 \in Pipeline /\ r2.heap = "live" /\ r2.thread = pipeline[p].thread
        /\ r2.joinable = pipeline[p].joinable /\ r2.session_id = c
    BY <1>3, <2>2 DEF Pipeline
  <2> HIDE DEF r2
  <2>4. Becomes(p, r2)
    BY <2>1, <2>3, PutEffect DEF PullInv
  <2>5. QED
    BY <1>5, <2>3, <2>4 DEF Becomes
<1>7. /\ at' \in [Callers -> Places] /\ at'[c] = "spawn"
      /\ \A d \in Callers \ {c} : at'[d] = at[d]
  BY <1>2, CallMoves DEF PullInv, Places
<1>8. /\ it' \in [Callers -> Pipelines \cup {None}] /\ it'[c] = p
      /\ Others(c) /\ AssignersStay
  BY <1>1, <1>2, <1>7 DEF PullInv, TypeOK, Others, AssignersStay
<1>9. \A q \in Pipelines : PipelineOK(q)'
  <2>1. PipelineOK(p)'
    <3>1. p \in pull_pipelines' /\ ffmpegs'[p] = 0
      BY <1>1, <1>2, <1>5
    <3>2. QED
      BY <1>6, <3>1 DEF PipelineOK, Piped, Active
  <2>2. ASSUME NEW q \in Pipelines \ {p} PROVE PipelineOK(q)'
    <3>1. PipelineOK(q) /\ pipeline'[q] = pipeline[q] /\ ffmpegs' = ffmpegs
          /\ (q \in pull_pipelines' <=> q \in pull_pipelines)
      BY <1>1, <1>2, <1>6 DEF PullInv
    <3>2. QED
      BY <3>1, <1>8, PipelineStays
  <2>3. QED
    BY <2>1, <2>2
<1>10. \A q \in pull_pipelines : pipeline[q].session_id # c /\ pipeline'[q] = pipeline[q]
  BY <1>3, <1>5, <1>6 DEF Pull, PullInv, TypeOK
<1>11. OneEach'
  <2> SUFFICES ASSUME NEW q \in pull_pipelines', NEW r \in pull_pipelines',
                      pipeline'[q].session_id = pipeline'[r].session_id
               PROVE  q = r
    BY DEF OneEach
  <2>1. (q = p \/ q \in pull_pipelines) /\ (r = p \/ r \in pull_pipelines)
    BY <1>1
  <2>2. QED
    BY <2>1, <1>6, <1>10 DEF PullInv, OneEach
<1>12. Pull(c)' = {p} /\ \A u : u # c => Pull(u)' = Pull(u)
  BY <1>1, <1>6, <1>10 DEF Pull
<1>13. \A d \in Callers : CallerOK(d)'
  <2>1. CallerOK(c)'
    BY <1>2, <1>3, <1>6, <1>7, <1>8, <1>12 DEF CallerOK
  <2>2. ASSUME NEW d \in Callers \ {c} PROVE CallerOK(d)'
    <3>1. CallerOK(d) /\ UNCHANGED <<at[d], want[d], restart[d], it[d]>>
      BY <1>8 DEF PullInv, Others
    <3>2. at[d] \notin {"join", "erase"}
      BY <3>1, <1>2, NamesAssumption DEF CallerOK, Callers
    <3>3. \A q \in Pipelines : pipeline[q].heap # "unborn" => pipeline'[q] = pipeline[q]
      BY <1>1, <1>6
    <3>4. at[d] \in {"spawn", "assign"} => pipeline'[it[d]] = pipeline[it[d]]
      BY <3>1, <3>3 DEF CallerOK
    <3>5. QED
      BY <3>1, <3>2, <3>3, <3>4, <1>12, CallerStays
  <2>3. QED
    BY <2>1, <2>2
<1>14. TypeOK'
  BY <1>1, <1>2, <1>6, <1>7, <1>8 DEF PullInv, TypeOK, Places
<1>15. QED
  BY <1>2, <1>9, <1>11, <1>13, <1>14 DEF PullInv

LEMMA SpawnThreadStep ==
    ASSUME PullInv, NEW c \in Callers, SpawnThread(c)
    PROVE  PullInv'
<1>0. PICK p : p = it[c]
  OBVIOUS
<1>1. /\ at[c] = "spawn" /\ pipeline[p].heap = "live"
      /\ pipeline' = [pipeline EXCEPT ![p].thread = "launch"]
      /\ at' = [at EXCEPT ![c] = "assign"]
      /\ UNCHANGED <<pull_pipelines, ffmpegs, hung, holder, want, restart, it, main, left,
                     late, aborted>>
  BY <1>0 DEF SpawnThread, shutdown
<1>2. CallerOK(c) /\ p \in Pipelines /\ pipeline[p].session_id = c /\ pipeline[p].thread = "none"
  BY <1>0, <1>1 DEF PullInv, CallerOK
<1>3. /\ at' \in [Callers -> Places] /\ at'[c] = "assign" /\ Others(c) /\ AssignersStay
  BY <1>1, CallMoves DEF PullInv, Places, Others, AssignersStay
<1>4. Steps(p, "launch", pipeline[p].retries)
  BY <1>1, <1>2, LoopGotoEffect DEF PullInv, LoopGoto
<1>5. \A q \in Pipelines : PipelineOK(q)'
  <2>1. PipelineOK(p)'
    <3>1. PipelineOK(p)
      BY <1>2 DEF PullInv
    <3>2. \E d \in Callers : at'[d] = "assign" /\ it'[d] = p
      BY <1>0, <1>1, <1>3
    <3>3. ffmpegs'[p] = 0
      BY <1>1, <1>2, <3>1 DEF PipelineOK, Piped
    <3>4. QED
      BY <1>1, <1>4, <3>1, <3>2, <3>3 DEF PipelineOK, Steps, Piped
  <2>2. ASSUME NEW q \in Pipelines \ {p} PROVE PipelineOK(q)'
    BY <1>1, <1>3, <1>4, PipelineStays DEF PullInv, Steps
  <2>3. QED
    BY <2>1, <2>2
<1>6. \A q \in Pipelines : pipeline'[q].session_id = pipeline[q].session_id
                           /\ pipeline'[q].heap = pipeline[q].heap
  BY <1>4 DEF Steps
<1>7. OneEach' /\ \A u : Pull(u)' = Pull(u)
  BY <1>1, <1>6 DEF PullInv, OneEach, Pull, TypeOK
<1>8. \A d \in Callers : CallerOK(d)'
  <2>1. CallerOK(c)'
    BY <1>0, <1>1, <1>2, <1>3, <1>4, <1>6, <1>7 DEF CallerOK, Steps
  <2>2. ASSUME NEW d \in Callers \ {c} PROVE CallerOK(d)'
    <3>1. CallerOK(d) /\ UNCHANGED <<at[d], want[d], restart[d], it[d]>>
      BY <1>3 DEF PullInv, Others
    <3>2. at[d] \in {"spawn", "assign"} => it[d] \in Pipelines \ {p}
      BY <3>1, <1>2 DEF CallerOK
    <3>3. QED
      BY <3>1, <3>2, <1>1, <1>4, <1>6, <1>7, CallerStays DEF CallerOK, Steps
  <2>3. QED
    BY <2>1, <2>2
<1>9. TypeOK'
  BY <1>1, <1>3, <1>4 DEF PullInv, TypeOK, Places, Steps
<1>10. QED
  BY <1>1, <1>5, <1>7, <1>8, <1>9 DEF PullInv

LEMMA AssignThreadStep ==
    ASSUME PullInv, NEW c \in Callers, AssignThread(c)
    PROVE  PullInv'
<1>0. PICK p : p = it[c]
  OBVIOUS
<1>1. /\ at[c] = "assign" /\ pipeline[p].heap = "live"
      /\ pipeline' = [pipeline EXCEPT ![p].joinable = TRUE]
      /\ UNCHANGED <<pull_pipelines, ffmpegs, hung, holder, main, left, late, aborted>>
  BY <1>0 DEF AssignThread, shutdown
<1>2. /\ at' = [at EXCEPT ![c] = "idle"] /\ it' = [it EXCEPT ![c] = None]
      /\ want' = [want EXCEPT ![c] = None] /\ restart' = [restart EXCEPT ![c] = FALSE]
  BY DEF AssignThread
<1>3. CallerOK(c) /\ p \in Pipelines /\ pipeline[p].thread # "none"
  BY <1>0, <1>1 DEF PullInv, CallerOK
<1>4. /\ Becomes(p, pipeline'[p]) /\ pipeline'[p].joinable
      /\ pipeline'[p].heap = pipeline[p].heap
      /\ pipeline'[p].session_id = pipeline[p].session_id
      /\ pipeline'[p].thread = pipeline[p].thread
      /\ pipeline'[p].retries = pipeline[p].retries
  <2> DEFINE r == [pipeline[p] EXCEPT !.joinable = TRUE]
  <2>1. pipeline[p] \in Pipeline
    BY <1>3 DEF PullInv, TypeOK
  <2>2. /\ r \in Pipeline /\ r.joinable /\ r.heap = pipeline[p].heap
        /\ r.session_id = pipeline[p].session_id
        /\ r.thread = pipeline[p].thread /\ r.retries = pipeline[p].retries
    BY <2>1 DEF Pipeline
  <2>3. pipeline' = [pipeline EXCEPT ![p] = r]
    BY <1>1
  <2> HIDE DEF r
  <2>4. Becomes(p, r)
    BY <1>3, <2>2, <2>3, PutEffect DEF PullInv
  <2>5. QED
    BY <2>2, <2>4 DEF Becomes
<1>5. /\ at' \in [Callers -> Places] /\ want' \in [Callers -> Sessions \cup {None}]
      /\ restart' \in [Callers -> BOOLEAN] /\ at'[c] = "idle" /\ ~restart'[c]
      /\ \A d \in Callers \ {c} : at'[d] = at[d] /\ want'[d] = want[d]
                                  /\ restart'[d] = restart[d]
  BY <1>2, CallEffect DEF PullInv, Places
<1>6. it' \in [Callers -> Pipelines \cup {None}] /\ Others(c)
  BY <1>2, <1>5 DEF PullInv, TypeOK, Others
<1>7. \A q \in Pipelines : PipelineOK(q)'
  <2>1. PipelineOK(p)'
    <3>1. PipelineOK(p) /\ p \in pull_pipelines' /\ ffmpegs' = ffmpegs
      BY <1>1, <1>3 DEF PullInv, PipelineOK
    <3>2. QED
      BY <3>1, <1>1, <1>3, <1>4 DEF PipelineOK
  <2>2. ASSUME NEW q \in Pipelines \ {p} PROVE PipelineOK(q)'
    <3>1. PipelineOK(q) /\ pipeline'[q] = pipeline[q]
          /\ ffmpegs' = ffmpegs /\ pull_pipelines' = pull_pipelines
      BY <1>1, <1>4 DEF PullInv, Becomes
    <3>2. Active(q) /\ ~pipeline[q].joinable =>
            \E d \in Callers : at'[d] = "assign" /\ it'[d] = q
      BY <3>1, <1>0, <1>6 DEF PipelineOK, Others
    <3>3. QED
      BY <3>1, <3>2, Zenon DEF PipelineOK, Active
  <2>3. QED
    BY <2>1, <2>2
<1>8. \A q \in Pipelines : /\ pipeline'[q].session_id = pipeline[q].session_id
                           /\ pipeline'[q].heap = pipeline[q].heap
                           /\ pipeline'[q].thread = pipeline[q].thread
  BY <1>4 DEF Becomes
<1>9. OneEach' /\ \A u : Pull(u)' = Pull(u)
  BY <1>1, <1>8 DEF PullInv, OneEach, Pull, TypeOK
<1>10. \A d \in Callers : CallerOK(d)'
  <2>1. CallerOK(c)'
    BY <1>5 DEF CallerOK
  <2>2. ASSUME NEW d \in Callers \ {c} PROVE CallerOK(d)'
    <3>1. CallerOK(d) /\ UNCHANGED <<at[d], want[d], restart[d], it[d]>>
      BY <1>6 DEF PullInv, Others
    <3>2. at[d] \in {"spawn", "assign"} => it[d] \in Pipelines
      BY <3>1 DEF CallerOK
    <3>3. QED
      BY <3>1, <3>2, <1>1, <1>8, <1>9, CallerStays DEF CallerOK
  <2>3. QED
    BY <2>1, <2>2
<1>11. TypeOK'
  BY <1>1, <1>4, <1>5, <1>6 DEF PullInv, TypeOK, Places, Becomes
<1>12. QED
  BY <1>1, <1>7, <1>9, <1>10, <1>11 DEF PullInv

-----------------------------------------------------------------------------
\* Stop leaves the callers where they are.
LEMMA SignalStep == PullInv /\ Signal => PullInv'
<1> SUFFICES ASSUME PullInv, Signal PROVE PullInv'
  OBVIOUS
<1>1. /\ main = "up" /\ main' = "signalled" /\ holder = None
      /\ UNCHANGED <<pull_pipelines, ffmpegs, hung, holder, at, want, restart, it, left, late,
                     aborted>>
      /\ pipeline' = [p \in Pipelines |->
           [pipeline[p] EXCEPT !.need_exit = @ \/ p \in pull_pipelines]]
  BY DEF Signal, call
<1>2. SamePulls
  <2>1. ASSUME NEW p \in Pipelines, NEW b \in BOOLEAN
        PROVE  LET r == [pipeline[p] EXCEPT !.need_exit = b] IN
               /\ r \in Pipeline /\ r.heap = pipeline[p].heap
               /\ r.session_id = pipeline[p].session_id /\ r.joinable = pipeline[p].joinable
               /\ r.thread = pipeline[p].thread /\ r.retries = pipeline[p].retries
    <3>1. pipeline[p] \in Pipeline
      BY DEF PullInv, TypeOK
    <3>2. QED
      BY <3>1 DEF Pipeline
  <2>2. \A p \in Pipelines : \E b \in BOOLEAN :
          pipeline'[p] = [pipeline[p] EXCEPT !.need_exit = b]
    <3> TAKE p \in Pipelines
    <3>1. pipeline'[p] = [pipeline[p] EXCEPT !.need_exit = @ \/ p \in pull_pipelines]
      BY <1>1
    <3>2. (pipeline[p].need_exit \/ p \in pull_pipelines) \in BOOLEAN
      OBVIOUS
    <3>3. QED
      BY <3>1, <3>2, Zenon
  <2>3. pipeline' = [p \in Pipelines |-> pipeline'[p]]
    BY <1>1
  <2>4. ASSUME NEW p \in Pipelines
        PROVE  /\ pipeline'[p] \in Pipeline /\ pipeline'[p].heap = pipeline[p].heap
               /\ pipeline'[p].session_id = pipeline[p].session_id
               /\ pipeline'[p].joinable = pipeline[p].joinable
               /\ pipeline'[p].thread = pipeline[p].thread
               /\ pipeline'[p].retries = pipeline[p].retries
    <3>1. PICK b \in BOOLEAN : pipeline'[p] = [pipeline[p] EXCEPT !.need_exit = b]
      BY <2>2
    <3>2. QED
      BY <2>1, <3>1
  <2>5. pipeline' \in [Pipelines -> Pipeline]
    BY <2>3, <2>4
  <2>6. QED
    BY <2>4, <2>5 DEF SamePulls
<1>3. AssignersStay
  BY <1>1 DEF AssignersStay
<1>4. (\A p \in Pipelines : PipelineOK(p)') /\ OneEach' /\ \A u : Pull(u)' = Pull(u)
  BY <1>1, <1>2, <1>3, SamePullsKeep
<1>5. \A c \in Callers : CallerOK(c)'
  BY <1>1, <1>2, <1>4, CallerStays DEF PullInv, CallerOK, SamePulls
<1>6. TypeOK'
  BY <1>1, <1>2 DEF PullInv, TypeOK, SamePulls
<1>7. QED
  BY <1>1, <1>4, <1>5, <1>6 DEF PullInv

LEMMA LockAgainStep == PullInv /\ LockAgain => PullInv'
<1> SUFFICES ASSUME PullInv, LockAgain PROVE PullInv'
  OBVIOUS
<1>1. /\ main' = "joining" /\ holder = None /\ holder' = Main /\ left' = pull_pipelines
      /\ UNCHANGED <<pull_pipelines, pipeline, ffmpegs, hung, at, want, restart, it, late,
                     aborted>>
  BY DEF LockAgain, call
<1>2. SamePulls /\ AssignersStay
  BY <1>1 DEF SamePulls, PullInv, TypeOK, AssignersStay
<1>3. (\A p \in Pipelines : PipelineOK(p)') /\ OneEach' /\ \A u : Pull(u)' = Pull(u)
  BY <1>1, <1>2, SamePullsKeep
<1>4. \A c \in Callers : at[c] \notin {"join", "erase"}
  BY <1>1, NamesAssumption DEF PullInv, CallerOK, Callers
<1>5. \A c \in Callers : CallerOK(c)'
  BY <1>1, <1>3, <1>4, CallerStays
<1>6. TypeOK'
  BY <1>1 DEF PullInv, TypeOK
<1>7. QED
  BY <1>1, <1>3, <1>5, <1>6 DEF PullInv

LEMMA JoinOneStep ==
    ASSUME PullInv, NEW p \in Pipelines, JoinOne(p)
    PROVE  PullInv'
<1>1. /\ Exited(p) /\ pipeline' = [pipeline EXCEPT ![p] = Joined(p)] /\ left' = left \ {p}
      /\ UNCHANGED <<pull_pipelines, ffmpegs, hung, holder, at, want, restart, it, main, late,
                     aborted>>
  BY DEF JoinOne, call
<1>2. AssignersStay
  BY <1>1 DEF AssignersStay
<1>3. /\ pipeline' \in [Pipelines -> Pipeline]
      /\ \A q \in Pipelines : /\ pipeline'[q].heap = pipeline[q].heap
                              /\ pipeline'[q].session_id = pipeline[q].session_id
                              /\ pipeline'[q].thread = pipeline[q].thread
      /\ \A q \in Pipelines : PipelineOK(q)'
      /\ OneEach' /\ \A u : Pull(u)' = Pull(u)
  BY <1>1, <1>2, JoinedEffect DEF Becomes
<1>4. ASSUME NEW c \in Callers PROVE CallerOK(c)'
  <2>1. CallerOK(c)
    BY DEF PullInv
  <2>2. QED
    BY <2>1, <1>1, <1>3, CallerStays DEF CallerOK
<1>5. TypeOK'
  BY <1>1, <1>3 DEF PullInv, TypeOK
<1>6. QED
  BY <1>1, <1>3, <1>4, <1>5 DEF PullInv

LEMMA ClearAllStep == PullInv /\ ClearAll => PullInv'
<1> SUFFICES ASSUME PullInv, ClearAll PROVE PullInv'
  OBVIOUS
<1>1. /\ main = "joining" /\ main' = "done" /\ holder' = None /\ pull_pipelines' = {}
      /\ \A p \in pull_pipelines : ~Torn(p)
      /\ pipeline' = [p \in Pipelines |->
           IF p \in pull_pipelines THEN Free(p) ELSE pipeline[p]]
      /\ UNCHANGED <<ffmpegs, hung, at, want, restart, it, left, late, aborted>>
  BY DEF ClearAll, call
<1>2. AssignersStay
  BY <1>1 DEF AssignersStay
<1>3. \A c \in Callers : at[c] \notin {"join", "erase"}
  BY <1>1, NamesAssumption DEF PullInv, CallerOK, Callers
<1>4. pipeline' \in [Pipelines -> Pipeline]
  BY <1>1, FreeEffect DEF PullInv, TypeOK
<1>5. \A p \in Pipelines : PipelineOK(p)'
  <2> TAKE p \in Pipelines
  <2>1. CASE p \in pull_pipelines
    BY <1>1, <1>2, <2>1, FreedOK
  <2>2. CASE p \notin pull_pipelines
    <3>1. PipelineOK(p) /\ pipeline'[p] = pipeline[p] /\ ffmpegs' = ffmpegs
          /\ (p \in pull_pipelines' <=> p \in pull_pipelines)
      BY <1>1, <2>2 DEF PullInv
    <3>2. QED
      BY <3>1, <1>2, PipelineStays
  <2>3. QED
    BY <2>1, <2>2
<1>6. OneEach' /\ \A u : Pull(u)' = {}
  BY <1>1 DEF OneEach, Pull
<1>7. \A p \in Pipelines :
        /\ pipeline'[p].session_id = pipeline[p].session_id
        /\ pipeline'[p].thread = pipeline[p].thread
        /\ pipeline[p].heap # "unborn" => pipeline'[p].heap # "unborn"
  BY <1>1, FreeEffect
<1>8. ASSUME NEW c \in Callers PROVE CallerOK(c)'
  <2>1. CallerOK(c)
    BY DEF PullInv
  <2>2. at[c] \in {"spawn", "assign"} => it[c] \in Pipelines
    BY <2>1 DEF CallerOK
  <2>3. QED
    BY <2>2, <1>1, <1>3, <1>6, <1>7, CallerStays
<1>9. TypeOK'
  BY <1>1, <1>4 DEF PullInv, TypeOK
<1>10. None # Main
  BY NamesAssumption
<1>11. QED
  BY <1>1, <1>5, <1>6, <1>8, <1>9, <1>10 DEF PullInv

-----------------------------------------------------------------------------
LEMMA PullInvHolds == Spec => []PullInv
<1>1. Init => PullInv
  <2> SUFFICES ASSUME Init PROVE PullInv
    OBVIOUS
  <2>1. TypeOK
    <3>1. pipeline \in [Pipelines -> Pipeline] /\ ffmpegs \in [Pipelines -> Nat]
      BY RetriesAssumption DEF Init, Pipeline
    <3>2. /\ at \in [Callers -> {"idle", "stop", "join", "erase", "push", "spawn", "assign"}]
          /\ want \in [Callers -> Sessions \cup {None}]
          /\ it \in [Callers -> Pipelines \cup {None}]
      BY DEF Init
    <3>3. restart \in [Callers -> BOOLEAN] /\ aborted \in BOOLEAN
      BY DEF Init
    <3>4. QED
      BY <3>1, <3>2, <3>3 DEF Init, TypeOK
  <2>2. \A p \in Pipelines : PipelineOK(p)
    BY DEF Init, PipelineOK, Piped, Active
  <2>3. OneEach /\ \A c \in Callers : CallerOK(c)
    BY DEF Init, OneEach, CallerOK
  <2>4. holder # Main /\ main # "joining"
    BY NamesAssumption DEF Init
  <2>5. QED
    BY <2>1, <2>2, <2>3, <2>4 DEF PullInv
<1>2. PullInv /\ [Next]_pullVars => PullInv'
  <2> SUFFICES ASSUME PullInv, [Next]_pullVars PROVE PullInv'
    OBVIOUS
  <2>1. ASSUME NEW s \in Sessions, StartCall(s) PROVE PullInv'
    BY <2>1, BeginStep DEF StartCall, Callers
  <2>2. ASSUME NEW c \in Callers, NEW s \in Sessions, StopCall(c, s) PROVE PullInv'
    BY <2>2, BeginStep DEF StopCall
  <2>3. ASSUME NEW c \in Callers, CallGoesOn(c) PROVE PullInv'
    BY <2>3, FindPullStep, FindNothingStep, JoinThreadStep, ErasePullStep, PushPullStep,
       SpawnThreadStep, AssignThreadStep DEF CallGoesOn
  <2>4. ASSUME NEW p \in Pipelines, LoopGoesOn(p) PROVE PullInv'
    BY <2>4, LoopStep
  <2>5. CASE StopGoesOn
    BY <2>5, LockAgainStep, JoinOneStep, ClearAllStep DEF StopGoesOn
  <2>6. ASSUME \/ \E p \in Pipelines : Abort(p)
               \/ UNCHANGED pullVars
        PROVE  PullInv'
    <3>1. /\ UNCHANGED <<pull_pipelines, pipeline, ffmpegs, hung, holder, at, want, restart,
                         it, main, left, late>>
          /\ aborted' \in {TRUE, aborted}
      BY <2>6 DEF Abort, pullVars, call, shutdown
    <3>2. TypeOK'
      BY <3>1 DEF PullInv, TypeOK
    <3>3. QED
      BY <3>1, <3>2 DEF PullInv, PipelineOK, OneEach, CallerOK, Pull, Active
  <2>7. QED
    BY <2>1, <2>2, <2>3, <2>4, <2>5, <2>6, SignalStep DEF Next
<1>3. QED
  BY <1>1, <1>2, PTL DEF Spec

\* The values of all variables of RtspManager and its threads stay in range:
\* in particular no retry is counted beyond kMaxRetries.
THEOREM PullTypes == Spec => []TypeOK
BY PullInvHolds, PTL DEF PullInv

\* Two pull threads never deliver audio to one session, not even while a thread
\* whose pipeline was freed before it could be joined goes on.
THEOREM SessionHasOnePull == Spec => []OnePullPerSession
<1>1. PullInv => OnePullPerSession
  <2> SUFFICES ASSUME PullInv, NEW p \in Pipelines, NEW q \in Pipelines,
                      Active(p), Active(q),
                      pipeline[p].session_id = pipeline[q].session_id
               PROVE  p = q
    BY DEF OnePullPerSession
  <2>1. \A r \in Pipelines : Active(r) =>
          \/ r \in pull_pipelines
          \/ \E c \in Callers : at[c] = "assign" /\ it[c] = r
    BY DEF PullInv, PipelineOK
  <2>2. \A c \in Callers, r \in Pipelines : at[c] = "assign" /\ it[c] = r =>
          pipeline[r].session_id = c /\ Pull(c) \subseteq {r}
    BY DEF PullInv, CallerOK
  <2>3. QED
    BY <2>1, <2>2 DEF PullInv, OneEach, Pull
<1>2. QED
  BY <1>1, PullInvHolds, PTL

\* A pull thread works on a pipeline that exists and that Stop can reach, from the
\* moment its starter has assigned it.
THEOREM PullThreadHasPipeline == Spec => []ThreadHasPipeline
<1>1. PullInv => ThreadHasPipeline
  BY DEF PullInv, PipelineOK, ThreadHasPipeline, Starting
<1>2. QED
  BY <1>1, PullInvHolds, PTL

\* A pull has at most one ffmpeg child, and none when it is destroyed.
THEOREM PullLeavesNoFfmpeg == Spec => []NoStrayFfmpeg
<1>1. PullInv => NoStrayFfmpeg
  BY DEF PullInv, PipelineOK, NoStrayFfmpeg, Piped
<1>2. QED
  BY <1>1, PullInvHolds, PTL

-----------------------------------------------------------------------------
(***************************************************************************)
(* The manager implements AudioPulls                                       *)
(***************************************************************************)
\* A thread of a pipeline that lives.
Runs(p) == pipeline[p].heap = "live" /\ Active(p)

\* What a pull does, over the pipelines as they are or as they will be.
LEMMA PullOfCases ==
    ASSUME NEW s
    PROVE  /\ PullOf(s) = "callback" <=>
                \E p \in Pipelines : pipeline[p].session_id = s /\ pipeline[p].heap = "live"
                                     /\ pipeline[p].thread = "callback"
           /\ PullOf(s) = "none" <=>
                \A p \in Pipelines : pipeline[p].session_id = s => ~Runs(p)
           /\ PullOf(s) \in {"none", "reading", "callback"}
BY DEF PullOf, Runs, Active

LEMMA PullOfCasesNext ==
    ASSUME NEW s
    PROVE  /\ PullOf(s)' = "callback" <=>
                \E p \in Pipelines : pipeline'[p].session_id = s /\ pipeline'[p].heap = "live"
                                     /\ pipeline'[p].thread = "callback"
           /\ PullOf(s)' = "none" <=>
                \A p \in Pipelines : pipeline'[p].session_id = s => ~Runs(p)'
           /\ PullOf(s)' \in {"none", "reading", "callback"}
BY DEF PullOf, Runs, Active

\* A session's pull does what its one running thread does.
Does(thread) == IF thread = "callback" THEN "callback"
                ELSE IF thread \in {"none", "ended"} THEN "none"
                ELSE "reading"

\* Steps that change the pull of no session but perhaps that of s.
LEMMA OtherPullsStay ==
    ASSUME NEW s,
           \A p \in Pipelines :
             \/ ~Runs(p) /\ ~Runs(p)'
             \/ /\ pipeline'[p].thread = pipeline[p].thread
                /\ pipeline'[p].heap = pipeline[p].heap
                /\ pipeline'[p].session_id = pipeline[p].session_id
             \/ pipeline[p].session_id = s /\ pipeline'[p].session_id = s
    PROVE  \A r \in Sessions \ {s} : PullOf(r)' = PullOf(r)
<1> TAKE r \in Sessions \ {s}
<1>1. PullOf(r)' = "callback" <=> PullOf(r) = "callback"
  BY PullOfCases, PullOfCasesNext DEF Runs, Active
<1>2. PullOf(r)' = "none" <=> PullOf(r) = "none"
  BY PullOfCases, PullOfCasesNext DEF Runs, Active
<1>3. QED
  BY <1>1, <1>2, PullOfCases, PullOfCasesNext

\* Steps that move no pull thread.
LEMMA IdleSteps ==
    ASSUME \A p \in Pipelines :
             \/ ~Runs(p) /\ ~Runs(p)'
             \/ /\ pipeline'[p].thread = pipeline[p].thread
                /\ pipeline'[p].heap = pipeline[p].heap
                /\ pipeline'[p].session_id = pipeline[p].session_id
    PROVE  \A s \in Sessions : PullOf(s)' = PullOf(s)
<1> TAKE s \in Sessions
<1>1. PullOf(s)' = "callback" <=> PullOf(s) = "callback"
  BY PullOfCases, PullOfCasesNext DEF Runs, Active
<1>2. PullOf(s)' = "none" <=> PullOf(s) = "none"
  BY PullOfCases, PullOfCasesNext DEF Runs, Active
<1>3. QED
  BY <1>1, <1>2, PullOfCases, PullOfCasesNext

\* A step of one pull thread, which is the only one of its session to run.
LEMMA OneStep ==
    ASSUME NEW p \in Pipelines, NEW step, NEW n, Steps(p, step, n),
           pipeline[p].heap = "live", NEW s, s = pipeline[p].session_id,
           \A q \in Pipelines \ {p} : pipeline[q].session_id = s => ~Runs(q)
    PROVE  /\ PullOf(s) = Does(pipeline[p].thread) /\ PullOf(s)' = Does(step)
           /\ \A r \in Sessions \ {s} : PullOf(r)' = PullOf(r)
<1>1. PullOf(s) = Does(pipeline[p].thread)
  BY PullOfCases DEF Does, Runs, Active
<1>2. PullOf(s)' = Does(step)
  BY PullOfCasesNext DEF Does, Runs, Active, Steps
<1>3. \A r \in Sessions \ {s} : PullOf(r)' = PullOf(r)
  BY OtherPullsStay DEF Steps
<1>4. QED
  BY <1>1, <1>2, <1>3

\* Nobody else of the session of a listed pipeline runs.
LEMMA OneRuns ==
    ASSUME PullInv, NEW p \in pull_pipelines, NEW q \in Pipelines \ {p},
           pipeline[p].session_id = pipeline[q].session_id
    PROVE  ~Runs(q)
BY DEF PullInv, PipelineOK, OneEach, Runs

LEMMA PullGoesOn ==
    ASSUME NEW s \in Sessions, \A r \in Sessions \ {s} : PullOf(r)' = PullOf(r)
    PROVE  [r \in Sessions |-> PullOf(r)'] =
             [[r \in Sessions |-> PullOf(r)] EXCEPT ![s] = PullOf(s)']
OBVIOUS

LEMMA PullsAreKept ==
    ASSUME \A r \in Sessions : PullOf(r)' = PullOf(r)
    PROVE  [r \in Sessions |-> PullOf(r)'] = [r \in Sessions |-> PullOf(r)]
OBVIOUS

\* The session a caller has asked something for.
AskedFor(c) == IF at[c] = "assign" THEN None ELSE want[c]

\* What a caller asks for, when it alone moves.
LEMMA AskingMoves ==
    ASSUME NEW c \in Callers,
           \A d \in Callers \ {c} : at'[d] = at[d] /\ want'[d] = want[d]
    PROVE  /\ [d \in Callers |-> StageOf(d)'] =
                [[d \in Callers |-> StageOf(d)] EXCEPT ![c] = StageOf(c)']
           /\ [d \in Callers |-> AskedFor(d)'] =
                [[d \in Callers |-> AskedFor(d)] EXCEPT ![c] = AskedFor(c)']
<1>1. \A d \in Callers \ {c} : StageOf(d)' = StageOf(d) /\ AskedFor(d)' = AskedFor(d)
  BY DEF StageOf, AskedFor
<1>2. QED
  BY <1>1

\* Steps in which nobody asks or is answered.
LEMMA AskingIsKept ==
    ASSUME \A d \in Callers : StageOf(d)' = StageOf(d) /\ AskedFor(d)' = AskedFor(d)
    PROVE  UNCHANGED Pulls!asking
BY DEF Pulls!asking, AskedFor

LEMMA CallersRest ==
    ASSUME UNCHANGED <<at, want>>
    PROVE  UNCHANGED Pulls!asking
<1>1. \A d \in Callers : StageOf(d)' = StageOf(d) /\ AskedFor(d)' = AskedFor(d)
  BY DEF StageOf, AskedFor
<1>2. QED
  BY <1>1, AskingIsKept

-----------------------------------------------------------------------------
\* PullLoop.
LEMMA LoopEffect ==
    ASSUME PullInv, NEW p \in Pipelines, LoopGoesOn(p), ~Hang(p)
    PROVE  \E step, n :
             /\ Steps(p, step, n)
             /\ \/ Does(step) = Does(pipeline[p].thread)
                \/ Does(pipeline[p].thread) = "reading" /\ Does(step) \in {"none", "callback"}
                \/ Does(pipeline[p].thread) = "callback" /\ Does(step) = "reading"
<1>1. /\ TypeOK /\ PipelineOK(p) /\ pipeline[p] \in Pipeline /\ MaxRetries \in Nat
  BY RetriesAssumption DEF PullInv, TypeOK
<1>2. CASE CallbackReturns(p)
  <2>1. 0 \in 0 .. MaxRetries
    BY <1>1
  <2>2. Steps(p, "check", 0)
    BY <1>1, <1>2, <2>1, RetryEffect DEF CallbackReturns
  <2>3. QED
    BY <1>2, <2>2 DEF CallbackReturns, Does
<1>3. CASE ClosePipe(p) /\ ~pipeline[p].need_exit
  <2>1. pipeline[p].retries + 1 \in 0 .. MaxRetries
    BY <1>1, <1>3 DEF ClosePipe, PipelineOK, Piped, Pipeline
  <2>2. pipeline' = [pipeline EXCEPT ![p].thread = "sleep",
                                     ![p].retries = pipeline[p].retries + 1]
    BY <1>1, <1>3 DEF ClosePipe, TypeOK
  <2>3. Steps(p, "sleep", pipeline[p].retries + 1)
    BY <1>1, <2>1, <2>2, RetryEffect
  <2>4. QED
    BY <1>3, <2>3 DEF ClosePipe, Does
<1>4. CASE ~CallbackReturns(p) /\ ~(ClosePipe(p) /\ ~pipeline[p].need_exit)
  <2>1. PICK step \in {"launch", "check", "fread", "callback", "close", "ended"} :
          /\ LoopGoto(p, step)
          /\ pipeline[p].thread \notin {"none", "ended", "callback"}
    BY <1>4 DEF LoopGoesOn, LoopExits, LaunchFails, Launch, CheckExit, ReadReturns,
            ReadAudio, ReadEnds, ClosePipe, Wake
  <2>2. Steps(p, step, pipeline[p].retries)
    BY <1>1, <2>1, LoopGotoEffect
  <2>3. QED
    BY <2>1, <2>2 DEF Does
<1>5. QED
  BY <1>2, <1>3, <1>4

LEMMA LoopIsPullStep ==
    ASSUME PullInv, NEW p \in Pipelines, LoopGoesOn(p)
    PROVE  [Pulls!Next]_(Pulls!pullsVars)
<1>0. PICK s : s = pipeline[p].session_id
  OBVIOUS
<1>1. UNCHANGED Pulls!asking
  <2>1. UNCHANGED <<at, want>>
    BY DEF LoopGoesOn, LoopExits, LaunchFails, Launch, CheckExit, ReadReturns,
           ReadAudio, ReadEnds, CallbackReturns, ClosePipe, Wake, Hang, KeepCallers, call
  <2>2. QED
    BY <2>1, CallersRest
<1>2. CASE Hang(p)
  <2>1. \A r \in Sessions : PullOf(r)' = PullOf(r)
    BY <1>2, IdleSteps DEF Hang
  <2>2. QED
    BY <1>1, <2>1, PullsAreKept DEF Pulls!pullsVars
<1>3. CASE ~Hang(p)
  <2>1. PICK step, n :
          /\ Steps(p, step, n)
          /\ \/ Does(step) = Does(pipeline[p].thread)
             \/ Does(pipeline[p].thread) = "reading" /\ Does(step) \in {"none", "callback"}
             \/ Does(pipeline[p].thread) = "callback" /\ Does(step) = "reading"
    BY <1>3, LoopEffect
  <2>2. pipeline[p].heap = "live" /\ p \in pull_pipelines
    BY DEF LoopGoesOn, PullInv, PipelineOK
  <2>3. \A q \in Pipelines \ {p} : pipeline[q].session_id = s => ~Runs(q)
    BY <1>0, <2>2, OneRuns
  <2>4. /\ PullOf(s) = Does(pipeline[p].thread) /\ PullOf(s)' = Does(step)
        /\ \A r \in Sessions \ {s} : PullOf(r)' = PullOf(r)
    BY <1>0, <2>1, <2>2, <2>3, OneStep
  <2>5. CASE s \notin Sessions \/ Does(step) = Does(pipeline[p].thread)
    <3>1. \A r \in Sessions : PullOf(r)' = PullOf(r)
      BY <2>4, <2>5
    <3>2. QED
      BY <1>1, <3>1, PullsAreKept DEF Pulls!pullsVars
  <2>6. CASE s \in Sessions /\ Does(step) # Does(pipeline[p].thread)
    <3>1. [r \in Sessions |-> PullOf(r)'] =
            [[r \in Sessions |-> PullOf(r)] EXCEPT ![s] = PullOf(s)']
      BY <2>4, <2>6, PullGoesOn
    <3>2. Pulls!AudioComes(s) \/ Pulls!CallbackReturns(s) \/ Pulls!PullEnds(s)
      BY <1>1, <2>1, <2>4, <2>6, <3>1
         DEF Pulls!AudioComes, Pulls!CallbackReturns, Pulls!PullEnds, Pulls!PullGoes
    <3>3. QED
      BY <2>6, <3>2 DEF Pulls!Next
  <2>7. QED
    BY <2>5, <2>6
<1>4. QED
  BY <1>2, <1>3

-----------------------------------------------------------------------------
LEMMA BeginIsAsk ==
    ASSUME TypeOK, NEW c \in Callers, NEW s \in Sessions, NEW again \in BOOLEAN,
           Begin(c, s, again)
    PROVE  Pulls!Next
<1>1. /\ at[c] = "idle" /\ pipeline' = pipeline /\ at'[c] = "stop" /\ want'[c] = s
      /\ \A d \in Callers \ {c} : at'[d] = at[d] /\ want'[d] = want[d]
  BY CallEffect DEF Begin, Places
<1>2. \A r \in Sessions : PullOf(r)' = PullOf(r)
  BY <1>1, IdleSteps
<1>3. StageOf(c) = "idle" /\ StageOf(c)' = "stopping" /\ AskedFor(c)' = s
  BY <1>1 DEF StageOf, AskedFor
<1>4. Pulls!Ask(c, s)
  BY <1>1, <1>2, <1>3, AskingMoves, PullsAreKept DEF Pulls!Ask, AskedFor
<1>5. QED
  BY <1>4 DEF Pulls!Next

\* Steps that a caller takes on its way through a stop or a start.
LEMMA OnTheWay ==
    ASSUME NEW c \in Callers,
           \A d \in Callers \ {c} : at'[d] = at[d] /\ want'[d] = want[d],
           StageOf(c)' = StageOf(c), AskedFor(c)' = AskedFor(c),
           \A r \in Sessions : PullOf(r)' = PullOf(r)
    PROVE  UNCHANGED Pulls!pullsVars
<1>1. \A d \in Callers : StageOf(d)' = StageOf(d) /\ AskedFor(d)' = AskedFor(d)
  BY DEF StageOf, AskedFor
<1>2. QED
  BY <1>1, AskingIsKept, PullsAreKept DEF Pulls!pullsVars

LEMMA StopReturnsTo ==
    ASSUME TypeOK, NEW c \in Callers, AfterStop(c), at[c] \in {"stop", "erase"},
           NEW s \in Sessions, want[c] = s, PullOf(s) # "callback", PullOf(s)' = "none",
           \A r \in Sessions \ {s} : PullOf(r)' = PullOf(r)
    PROVE  Pulls!Next
<1>1. /\ \A d \in Callers \ {c} : at'[d] = at[d] /\ want'[d] = want[d]
      /\ \/ at'[c] = "push" /\ want'[c] = want[c]
         \/ at'[c] = "idle" /\ want'[c] = None
  <2>1. CASE restart[c]
    BY <2>1, CallMoves DEF AfterStop, Places
  <2>2. CASE ~restart[c]
    BY <2>2, CallEffect DEF AfterStop, Places
  <2>3. QED
    BY <2>1, <2>2
<1>2. StageOf(c) = "stopping" /\ AskedFor(c) = s
  BY DEF StageOf, AskedFor
<1>3. \/ StageOf(c)' = "starting" /\ AskedFor(c)' = AskedFor(c)
      \/ StageOf(c)' = "idle" /\ AskedFor(c)' = None
  BY <1>1 DEF StageOf, AskedFor
<1>4. [r \in Sessions |-> PullOf(r)'] =
        [[r \in Sessions |-> PullOf(r)] EXCEPT ![s] = "none"]
  BY PullGoesOn
<1>5. /\ [d \in Callers |-> StageOf(d)'] =
           [[d \in Callers |-> StageOf(d)] EXCEPT ![c] = StageOf(c)']
      /\ [d \in Callers |-> AskedFor(d)'] =
           [[d \in Callers |-> AskedFor(d)] EXCEPT ![c] = AskedFor(c)']
  BY <1>1, AskingMoves
<1>6. [d \in Callers |-> AskedFor(d)][c] = s
  BY <1>2
<1>7. CASE StageOf(c)' = "idle" /\ AskedFor(c)' = None
  BY <1>2, <1>4, <1>5, <1>6, <1>7 DEF Pulls!StopReturns, Pulls!Next, AskedFor
<1>8. CASE StageOf(c)' = "starting" /\ AskedFor(c)' = AskedFor(c)
  <2>1. [d \in Callers |-> AskedFor(d)'] = [d \in Callers |-> AskedFor(d)]
    BY <1>5, <1>8
  <2>2. QED
    BY <1>2, <1>4, <1>5, <1>6, <1>8, <2>1 DEF Pulls!StopReturns, Pulls!Next, AskedFor
<1>9. QED
  BY <1>3, <1>7, <1>8

LEMMA FindNothingIsReturn ==
    ASSUME PullInv, NEW c \in Callers, FindNothing(c)
    PROVE  Pulls!Next
<1>1. PICK s \in Sessions : s = want[c]
  BY DEF FindNothing, PullInv, CallerOK
<1>2. at[c] = "stop" /\ Pull(s) = {} /\ AfterStop(c) /\ pipeline' = pipeline
  BY <1>1 DEF FindNothing
<1>3. \A p \in Pipelines : pipeline[p].session_id = s => ~Runs(p)
  BY <1>2 DEF Pull, PullInv, PipelineOK, Runs
<1>4. PullOf(s) = "none" /\ \A r \in Sessions : PullOf(r)' = PullOf(r)
  BY <1>2, <1>3, PullOfCases, IdleSteps
<1>5. QED
  BY <1>1, <1>2, <1>4, StopReturnsTo DEF PullInv

LEMMA ErasePullIsReturn ==
    ASSUME PullInv, NEW c \in Callers, ErasePull(c)
    PROVE  Pulls!Next
<1>0. PICK p : p = it[c]
  OBVIOUS
<1>1. PICK s \in Sessions : s = want[c]
  BY DEF ErasePull, PullInv, CallerOK
<1>2. /\ at[c] = "erase" /\ ~Torn(p) /\ AfterStop(c)
      /\ pipeline' = [pipeline EXCEPT ![p] = Free(p)]
  BY <1>0 DEF ErasePull
<1>3. p \in pull_pipelines /\ p \in Pipelines /\ pipeline[p].session_id = s
  BY <1>0, <1>1, <1>2 DEF PullInv, CallerOK, TypeOK
<1>4. Becomes(p, Free(p)) /\ pipeline'[p].heap = "freed" /\ pipeline'[p].session_id = s
  BY <1>2, <1>3, FreeEffect, PutEffect DEF PullInv, Becomes
<1>5. \A q \in Pipelines \ {p} : pipeline[q].session_id = s => ~Runs(q)
  BY <1>3, OneRuns
<1>6. PullOf(s) # "callback"
  <2>1. pipeline[p].thread # "callback"
    BY <1>2, <1>3 DEF PullInv, PipelineOK, Torn, Piped
  <2>2. QED
    BY <1>5, <2>1, PullOfCases DEF Runs, Active
<1>7. PullOf(s)' = "none"
  BY <1>4, <1>5, PullOfCasesNext DEF Becomes, Runs, Active
<1>8. \A r \in Sessions \ {s} : PullOf(r)' = PullOf(r)
  BY <1>3, <1>4, OtherPullsStay DEF Becomes
<1>9. QED
  BY <1>1, <1>2, <1>6, <1>7, <1>8, StopReturnsTo DEF PullInv

LEMMA SpawnThreadIsReturn ==
    ASSUME PullInv, NEW c \in Callers, SpawnThread(c)
    PROVE  Pulls!Next
<1>0. PICK p : p = it[c]
  OBVIOUS
<1>1. /\ at[c] = "spawn" /\ at'[c] = "assign" /\ want' = want
      /\ \A d \in Callers \ {c} : at'[d] = at[d]
      /\ pipeline[p].heap = "live" /\ pipeline' = [pipeline EXCEPT ![p].thread = "launch"]
  BY <1>0, CallMoves DEF SpawnThread, PullInv, Places
<1>2. /\ p \in Pipelines /\ pipeline[p].session_id = c /\ pipeline[p].thread = "none"
      /\ c \in Sessions /\ want[c] = c /\ p \in pull_pipelines
  BY <1>0, <1>1 DEF CallerOK, PullInv, PipelineOK
<1>3. \A q \in Pipelines \ {p} : pipeline[q].session_id = c => ~Runs(q)
  BY <1>2, OneRuns
<1>4. Steps(p, "launch", pipeline[p].retries)
  BY <1>1, <1>2, LoopGotoEffect DEF PullInv, LoopGoto
<1>5. /\ PullOf(c) = "none" /\ PullOf(c)' = "reading"
      /\ \A r \in Sessions \ {c} : PullOf(r)' = PullOf(r)
  BY <1>1, <1>2, <1>3, <1>4, OneStep DEF Does
<1>6. [r \in Sessions |-> PullOf(r)'] =
        [[r \in Sessions |-> PullOf(r)] EXCEPT ![c] = "reading"]
  BY <1>2, <1>5, PullGoesOn
<1>7. /\ StageOf(c) = "starting" /\ StageOf(c)' = "idle"
      /\ AskedFor(c) = c /\ AskedFor(c)' = None
  BY <1>1, <1>2 DEF StageOf, AskedFor
<1>8. /\ [d \in Callers |-> StageOf(d)'] =
           [[d \in Callers |-> StageOf(d)] EXCEPT ![c] = "idle"]
      /\ [d \in Callers |-> AskedFor(d)'] =
           [[d \in Callers |-> AskedFor(d)] EXCEPT ![c] = None]
  BY <1>1, <1>7, AskingMoves
<1>9. [d \in Callers |-> AskedFor(d)][c] = c /\ [r \in Sessions |-> PullOf(r)][c] = "none"
  BY <1>2, <1>5, <1>7
<1>10. Pulls!StartReturns(c)
  BY <1>6, <1>7, <1>8, <1>9 DEF Pulls!StartReturns, AskedFor
<1>11. QED
  BY <1>10 DEF Pulls!Next

LEMMA CallIsPullStep ==
    ASSUME PullInv, NEW c \in Callers, CallGoesOn(c)
    PROVE  [Pulls!Next]_(Pulls!pullsVars)
<1>1. /\ TypeOK /\ CallerOK(c) /\ pipeline \in [Pipelines -> Pipeline]
  BY DEF PullInv, TypeOK
<1>2. CASE FindPull(c)
  <2>1. PICK p \in Pipelines : pipeline' = [pipeline EXCEPT ![p].need_exit = TRUE]
    BY <1>1, <1>2 DEF FindPull, Pull, TypeOK
  <2>2. \A q \in Pipelines : /\ pipeline'[q].thread = pipeline[q].thread
                             /\ pipeline'[q].heap = pipeline[q].heap
                             /\ pipeline'[q].session_id = pipeline[q].session_id
    BY <1>1, <2>1 DEF Pipeline
  <2>3. \A r \in Sessions : PullOf(r)' = PullOf(r)
    BY <2>2, IdleSteps
  <2>4. /\ at[c] = "stop" /\ at'[c] = "join" /\ want' = want
        /\ \A d \in Callers \ {c} : at'[d] = at[d]
    BY <1>1, <1>2, CallMoves DEF FindPull, Places
  <2>5. StageOf(c)' = StageOf(c) /\ AskedFor(c)' = AskedFor(c)
    BY <2>4 DEF StageOf, AskedFor
  <2>6. QED
    BY <2>3, <2>4, <2>5, OnTheWay
<1>3. CASE JoinThread(c)
  <2>0. PICK p : p = it[c]
    OBVIOUS
  <2>1. p \in Pipelines
    BY <1>1, <1>3, <2>0 DEF JoinThread, CallerOK, TypeOK
  <2>2. \A q \in Pipelines : /\ pipeline'[q].thread = pipeline[q].thread
                             /\ pipeline'[q].heap = pipeline[q].heap
                             /\ pipeline'[q].session_id = pipeline[q].session_id
    BY <1>1, <1>3, <2>0, <2>1 DEF JoinThread, Joined, Pipeline
  <2>3. \A r \in Sessions : PullOf(r)' = PullOf(r)
    BY <2>2, IdleSteps
  <2>4. /\ at[c] = "join" /\ at'[c] = "erase" /\ want' = want
        /\ \A d \in Callers \ {c} : at'[d] = at[d]
    BY <1>1, <1>3, CallMoves DEF JoinThread, Places
  <2>5. StageOf(c)' = StageOf(c) /\ AskedFor(c)' = AskedFor(c)
    BY <2>4 DEF StageOf, AskedFor
  <2>6. QED
    BY <2>3, <2>4, <2>5, OnTheWay
<1>4. CASE PushPull(c)
  <2>1. PICK p \in Pipelines :
          /\ pipeline[p].heap = "unborn"
          /\ pipeline' = [pipeline EXCEPT ![p].heap = "live", ![p].session_id = want[c]]
    BY <1>4 DEF PushPull
  <2>2. /\ pipeline'[p].thread = "none"
        /\ \A q \in Pipelines \ {p} : pipeline'[q] = pipeline[q]
    BY <1>1, <2>1 DEF Pipeline, PullInv, PipelineOK
  <2>3. ~Runs(p) /\ ~Runs(p)'
    BY <2>1, <2>2 DEF Runs, Active
  <2>4. \A r \in Sessions : PullOf(r)' = PullOf(r)
    BY <2>2, <2>3, IdleSteps
  <2>5. /\ at[c] = "push" /\ at'[c] = "spawn" /\ want' = want
        /\ \A d \in Callers \ {c} : at'[d] = at[d]
    BY <1>1, <1>4, CallMoves DEF PushPull, Places
  <2>6. StageOf(c)' = StageOf(c) /\ AskedFor(c)' = AskedFor(c)
    BY <2>5 DEF StageOf, AskedFor
  <2>7. QED
    BY <2>4, <2>5, <2>6, OnTheWay
<1>5. CASE AssignThread(c)
  <2>0. PICK p : p = it[c]
    OBVIOUS
  <2>1. p \in Pipelines
    BY <1>1, <1>5, <2>0 DEF AssignThread, CallerOK
  <2>2. \A q \in Pipelines : /\ pipeline'[q].thread = pipeline[q].thread
                             /\ pipeline'[q].heap = pipeline[q].heap
                             /\ pipeline'[q].session_id = pipeline[q].session_id
    BY <1>1, <1>5, <2>0, <2>1 DEF AssignThread, Pipeline
  <2>3. \A r \in Sessions : PullOf(r)' = PullOf(r)
    BY <2>2, IdleSteps
  <2>4. /\ at[c] = "assign" /\ at'[c] = "idle" /\ want'[c] = None
        /\ \A d \in Callers \ {c} : at'[d] = at[d] /\ want'[d] = want[d]
    BY <1>1, <1>5, CallEffect DEF AssignThread, Places
  <2>5. StageOf(c)' = StageOf(c) /\ AskedFor(c)' = AskedFor(c)
    BY <2>4 DEF StageOf, AskedFor
  <2>6. QED
    BY <2>3, <2>4, <2>5, OnTheWay
<1>6. QED
  BY <1>2, <1>3, <1>4, <1>5, FindNothingIsReturn, ErasePullIsReturn, SpawnThreadIsReturn
     DEF CallGoesOn

LEMMA StopIsPullStep ==
    ASSUME PullInv, Signal \/ StopGoesOn
    PROVE  [Pulls!Next]_(Pulls!pullsVars)
<1>1. UNCHANGED Pulls!asking /\ pipeline \in [Pipelines -> Pipeline]
  <2>1. UNCHANGED <<at, want>> /\ pipeline \in [Pipelines -> Pipeline]
    BY DEF Signal, StopGoesOn, LockAgain, JoinOne, ClearAll, call, PullInv, TypeOK
  <2>2. QED
    BY <2>1, CallersRest
<1>2. CASE Signal \/ LockAgain \/ \E p \in Pipelines : JoinOne(p)
  <2>1. \A q \in Pipelines : /\ pipeline'[q].thread = pipeline[q].thread
                             /\ pipeline'[q].heap = pipeline[q].heap
                             /\ pipeline'[q].session_id = pipeline[q].session_id
    <3>1. CASE Signal
      <4>1. pipeline' = [p \in Pipelines |->
              [pipeline[p] EXCEPT !.need_exit = @ \/ p \in pull_pipelines]]
        BY <3>1 DEF Signal
      <4>2. QED
        BY <1>1, <4>1 DEF Pipeline
    <3>2. CASE LockAgain
      BY <3>2 DEF LockAgain
    <3>3. ASSUME NEW p \in Pipelines, JoinOne(p)
          PROVE  \A q \in Pipelines : /\ pipeline'[q].thread = pipeline[q].thread
                                      /\ pipeline'[q].heap = pipeline[q].heap
                                      /\ pipeline'[q].session_id = pipeline[q].session_id
      BY <1>1, <3>3 DEF JoinOne, Joined, Pipeline
    <3>4. QED
      BY <1>2, <3>1, <3>2, <3>3
  <2>2. \A r \in Sessions : PullOf(r)' = PullOf(r)
    BY <2>1, IdleSteps
  <2>3. QED
    BY <1>1, <2>2, PullsAreKept DEF Pulls!pullsVars
<1>3. CASE ClearAll
  <2>1. /\ \A p \in pull_pipelines : ~Torn(p)
        /\ pipeline' = [p \in Pipelines |->
             IF p \in pull_pipelines THEN Free(p) ELSE pipeline[p]]
    BY <1>3 DEF ClearAll
  <2>2. \A s \in Sessions : PullOf(s) # "callback"
    <3>1. \A p \in Pipelines : pipeline[p].heap = "live" => pipeline[p].thread # "callback"
      BY <2>1 DEF PullInv, PipelineOK, Torn, Piped
    <3>2. QED
      BY <3>1, PullOfCases
  <2>3. \A p \in Pipelines : pipeline'[p].heap # "live"
    BY <2>1, FreeEffect DEF PullInv, PipelineOK
  <2>4. \A s \in Sessions : PullOf(s)' = "none"
    BY <2>3, PullOfCasesNext DEF Runs
  <2>5. [s \in Sessions |-> PullOf(s)'] = [s \in Sessions |-> "none"]
    BY <2>4
  <2>6. Pulls!Stop
    BY <1>1, <2>2, <2>5 DEF Pulls!Stop
  <2>7. QED
    BY <2>6 DEF Pulls!Next
<1>4. QED
  BY <1>2, <1>3 DEF StopGoesOn

\* RtspManager keeps the promises of AudioPulls: a stop waits for the callback and
\* leaves nothing running, a start finds nothing running, and the shutdown does
\* with all pulls there are what a stop does with one.
THEOREM PullsImplementAudioPulls == Spec => ImplementsAudioPulls
<1>1. Init => Pulls!Init
  <2> SUFFICES ASSUME Init PROVE Pulls!Init
    OBVIOUS
  <2>1. \A s \in Sessions : PullOf(s) = "none"
    BY PullOfCases DEF Init, Runs
  <2>2. \A c \in Callers : StageOf(c) = "idle" /\ AskedFor(c) = None
    BY DEF Init, StageOf, AskedFor
  <2>3. QED
    BY <2>1, <2>2 DEF Pulls!Init, AskedFor
<1>2. PullInv /\ [Next]_pullVars => [Pulls!Next]_(Pulls!pullsVars)
  <2> SUFFICES ASSUME PullInv, [Next]_pullVars
               PROVE  [Pulls!Next]_(Pulls!pullsVars)
    OBVIOUS
  <2>1. TypeOK
    BY DEF PullInv
  <2>2. ASSUME NEW c \in Callers, NEW s \in Sessions, NEW again \in BOOLEAN, Begin(c, s, again)
        PROVE  Pulls!Next
    BY <2>1, <2>2, BeginIsAsk
  <2>3. CASE (\E p \in Pipelines : Abort(p)) \/ UNCHANGED pullVars
    <3>1. UNCHANGED <<pipeline, at, want>>
      BY <2>3 DEF Abort, pullVars, call
    <3>2. \A r \in Sessions : PullOf(r)' = PullOf(r)
      BY <3>1, IdleSteps
    <3>3. QED
      BY <3>1, <3>2, CallersRest, PullsAreKept DEF Pulls!pullsVars
  <2>4. QED
    BY <2>2, <2>3, CallIsPullStep, LoopIsPullStep, StopIsPullStep
       DEF Next, StartCall, StopCall, Callers
<1>3. QED
  BY <1>1, <1>2, PullInvHolds, PTL DEF Spec, ImplementsAudioPulls, Pulls!Spec
=============================================================================
