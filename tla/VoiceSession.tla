---------------------------- MODULE VoiceSession ----------------------------
(***************************************************************************)
(* One voice session of the RTSP server (non-streaming TTS), as three      *)
(* kinds of thread drive it:                                               *)
(*                                                                         *)
(*   ws     the read thread of the robot's WebSocket connection, which     *)
(*          runs HandleWsMessage, one message at a time;                   *)
(*   audio  the RTSP pull thread, which runs the PCM callback, one chunk   *)
(*          at a time;                                                     *)
(*   pc     the detached threads the callback starts, one per closed       *)
(*          utterance, which run ASR, the LLM and TTS and queue the reply. *)
(*                                                                         *)
(* The threads share one Session.  Each handler is cut into steps where    *)
(* another thread can get in between: at a mutex it has to wait for, and   *)
(* between a check and the act that relies on it.  The two mutexes are     *)
(* predicates on the program counters (AsrFree, TtsFree).                  *)
(*                                                                         *)
(* Audio, text and time are abstracted: a chunk is speech, silence or in   *)
(* between, a transcript is empty or not, a reply has audio or not.  The   *)
(* timing guards (0.5 s of audio, 0.8 s cooldown, 0.5 s after TTS) only    *)
(* delay, so a chunk they reject is a step that is not taken.              *)
(***************************************************************************)
EXTENDS Naturals, Sequences, FiniteSets

CONSTANTS
    Threads,                 \* slots for concurrent pipeline threads
    MaxGeneration,           \* bound on generation_id
    MaxTts,                  \* bound on tts_seq
    SilenceFramesThreshold,  \* kSilenceFramesThreshold
    InterruptType            \* interrupt_type of req_stream: 0 off, 1 on

ASSUME ThresholdAssumption == SilenceFramesThreshold \in Nat \ {0}
ASSUME BoundsAssumption == MaxGeneration \in Nat /\ MaxTts \in Nat
ASSUME InterruptTypeAssumption == InterruptType \in {0, 1}

VARIABLES
    state,             \* Session::state
    generation_id,     \* Session::generation_id
    cancel_pipeline,   \* Session::cancel_pipeline
    asr_finalized,     \* Session::asr_finalized, under asr_mutex
    speech_detected,   \* Session::speech_detected, under asr_mutex
    silence_frames,    \* Session::silence_frames, under asr_mutex
    llm_triggered,     \* Session::llm_triggered, under no mutex
    tts_queue,         \* Session::tts_queue, under tts_mutex
    current_tts_id,    \* Session::current_tts_id, 0 when empty
    tts_seq,           \* Session::tts_seq
    pulling,           \* the RTSP pull of this session has been started
    ws,                \* where the handler of the current message stands
    audio,             \* where the PCM callback stands
    pc,                \* where each pipeline thread stands
    my_generation      \* each thread's my_generation

genVars   == <<generation_id, cancel_pipeline>>
asrVars   == <<asr_finalized, speech_detected, silence_frames>>
ttsVars   == <<tts_queue, current_tts_id, tts_seq>>
threads   == <<pc, my_generation>>
vars == <<state, genVars, asrVars, llm_triggered, ttsVars, pulling, ws, audio,
          threads>>

-----------------------------------------------------------------------------
SessionState == {"Idle", "Streaming", "Playing"}

\* A queued reply.  gen is the generation of the thread that produced it: the
\* code does not keep it, the properties need it.
TtsItem == [id : Nat, gen : 0 .. MaxGeneration]

WsStep == {"idle", "start_generation", "start_asr", "start_ready", "start_pull",
           "completed_next", "started_playing",
           "interrupt_generation", "interrupt_queue", "interrupt_current", "interrupt_asr",
           "stop_generation", "stop_queue", "stop_finish"}
AudioStep == {"idle", "checked", "barge_in", "generation", "clear_queue",
              "clear_current", "relock"}

\* Before the thread has emptied the ASR buffer.
Waiting   == {"born", "arm", "wait_asr", "asr"}
Answering == {"heard", "fresh", "trigger", "asked", "llm", "tts", "text",
              "audio", "send_text", "deliver", "set_current"}
ThreadStep == {"none"} \cup Waiting \cup Answering

FlagsOK ==
    /\ cancel_pipeline \in BOOLEAN
    /\ asr_finalized \in BOOLEAN
    /\ speech_detected \in BOOLEAN
    /\ llm_triggered \in BOOLEAN
    /\ pulling \in BOOLEAN

DataOK ==
    /\ state \in SessionState
    /\ generation_id \in 0 .. MaxGeneration
    /\ silence_frames \in 0 .. SilenceFramesThreshold
    /\ tts_queue \in Seq(TtsItem)
    /\ current_tts_id \in Nat
    /\ tts_seq \in Nat

StepsOK ==
    /\ ws \in WsStep
    /\ audio \in AudioStep
    /\ pc \in [Threads -> ThreadStep]
    /\ my_generation \in [Threads -> 0 .. MaxGeneration]

TypeOK == FlagsOK /\ DataOK /\ StepsOK

Init ==
    /\ state = "Idle"
    /\ generation_id = 0
    /\ cancel_pipeline = FALSE
    /\ asr_finalized = FALSE
    /\ speech_detected = FALSE
    /\ silence_frames = 0
    /\ llm_triggered = FALSE
    /\ tts_queue = <<>>
    /\ current_tts_id = 0
    /\ tts_seq = 0
    /\ pulling = FALSE
    /\ ws = "idle"
    /\ audio = "idle"
    /\ pc = [t \in Threads |-> "none"]
    /\ my_generation = [t \in Threads |-> 0]

-----------------------------------------------------------------------------
\* asr_mutex: a pipeline thread holds it for the whole transcription, the
\* callback past AudioInterrupt holds it while it clears the session.
AsrFree == /\ audio \in {"idle", "checked"}
           /\ \A t \in Threads : pc[t] # "asr"

\* tts_mutex: held across steps only by a thread that has queued its reply.
TtsFree == \A t \in Threads : pc[t] # "set_current"

\* The handler or the callback is between the two lines of NewGeneration.
Overtaking == ws \in {"start_generation", "interrupt_generation", "stop_generation"}
              \/ audio = "generation"

\* MaxGeneration leaves room for one more, and for one that is under way.
RoomForGeneration ==
    generation_id + (IF Overtaking \/ audio = "barge_in" THEN 1 ELSE 0) < MaxGeneration

\* Mutant of NewGeneration: the generation first, then the flag.
NewGenerationFlagLast(line) ==
    IF line = "fetch_add"
      THEN cancel_pipeline' = TRUE /\ UNCHANGED generation_id
      ELSE /\ generation_id < MaxGeneration
           /\ generation_id' = generation_id + 1
           /\ UNCHANGED cancel_pipeline

\* Two atomics, under no lock: cancel_pipeline.store(true), then
\* generation_id.fetch_add(1).
NewGeneration(line) ==
    IF line = "store"
      THEN cancel_pipeline' = TRUE /\ UNCHANGED generation_id
      ELSE /\ generation_id < MaxGeneration
           /\ generation_id' = generation_id + 1
           /\ UNCHANGED cancel_pipeline

\* Mutant of ResetAsr: the gate is forgotten.
ResetAsrKeepsGate ==
    /\ UNCHANGED asr_finalized
    /\ speech_detected' = FALSE
    /\ silence_frames' = 0

ResetAsr ==
    /\ asr_finalized' = FALSE
    /\ speech_detected' = FALSE
    /\ silence_frames' = 0

(***************************************************************************)
(* HandleWsMessage.  A message begins when no other is being handled; the  *)
(* robot may send any message at any time.                                 *)
(***************************************************************************)
\* start_push_audio
StartPush ==
    /\ ws = "idle"
    /\ RoomForGeneration
    /\ NewGeneration("store")
    /\ ws' = "start_generation"
    /\ UNCHANGED <<state, asrVars, llm_triggered, ttsVars, pulling, audio, threads>>

StartGeneration ==
    /\ ws = "start_generation"
    /\ NewGeneration("fetch_add")
    /\ ws' = "start_asr"
    /\ UNCHANGED <<state, asrVars, llm_triggered, ttsVars, pulling, audio, threads>>

StartResetAsr ==
    /\ ws = "start_asr"
    /\ AsrFree
    /\ ResetAsr
    /\ ws' = "start_ready"
    /\ UNCHANGED <<state, genVars, llm_triggered, ttsVars, pulling, audio, threads>>

StartStreaming ==
    /\ ws = "start_ready"
    /\ llm_triggered' = FALSE
    /\ state' = "Streaming"
    /\ ws' = "start_pull"
    /\ UNCHANGED <<genVars, asrVars, ttsVars, pulling, audio, threads>>

\* StartAudioPull stops an earlier pull first and joins its thread, so it
\* waits for the callback to return; then stream_ready is sent.
StartAudioPull ==
    /\ ws = "start_pull"
    /\ audio = "idle"
    /\ pulling' = TRUE
    /\ ws' = "idle"
    /\ UNCHANGED <<state, genVars, asrVars, llm_triggered, ttsVars, audio, threads>>

\* playback_status(completed)
Completed ==
    /\ ws = "idle"
    /\ llm_triggered' = FALSE
    /\ state' = "Streaming"
    /\ current_tts_id' = 0
    /\ ws' = "completed_next"
    /\ UNCHANGED <<genVars, asrVars, tts_queue, tts_seq, pulling, audio, threads>>

\* Mutant of NextReply: read before the head is dropped.
NextReplyTooEarly == tts_queue[1]

NextReply == tts_queue[2]

\* The rest under tts_mutex: drop the head and announce the next reply.
CompletedNext ==
    /\ ws = "completed_next"
    /\ TtsFree
    /\ tts_queue' = IF tts_queue = <<>> THEN <<>> ELSE Tail(tts_queue)
    /\ IF Len(tts_queue) > 1
         THEN current_tts_id' = NextReply.id /\ state' = "Playing"
         ELSE UNCHANGED <<current_tts_id, state>>
    /\ ws' = "idle"
    /\ UNCHANGED <<genVars, asrVars, llm_triggered, tts_seq, pulling, audio, threads>>

\* playback_status(started): silence_frames is left alone
StartedResetAsr ==
    /\ ws = "idle"
    /\ AsrFree
    /\ asr_finalized' = FALSE
    /\ speech_detected' = FALSE
    /\ ws' = "started_playing"
    /\ UNCHANGED <<state, genVars, silence_frames, llm_triggered, ttsVars, pulling,
                   audio, threads>>

StartedPlaying ==
    /\ ws = "started_playing"
    /\ state' = "Playing"
    /\ ws' = "idle"
    /\ UNCHANGED <<genVars, asrVars, llm_triggered, ttsVars, pulling, audio, threads>>

\* Mutant of TtsStateEnded: enters a state no handler leaves.
TtsStateEndedInterrupted ==
    /\ ws = "idle"
    /\ llm_triggered' = FALSE
    /\ state' = "Interrupted"
    /\ UNCHANGED <<genVars, asrVars, ttsVars, pulling, ws, audio, threads>>

\* tts_state with is_playing = false and one of the four closing reasons.  Any
\* other tts_state only refreshes the activity time.
TtsStateEnded ==
    /\ ws = "idle"
    /\ llm_triggered' = FALSE
    /\ state' = "Streaming"
    /\ UNCHANGED <<genVars, asrVars, ttsVars, pulling, ws, audio, threads>>

\* interrupt, cancel_pipeline, stop_generation
Interrupt ==
    /\ ws = "idle"
    /\ RoomForGeneration
    /\ NewGeneration("store")
    /\ ws' = "interrupt_generation"
    /\ UNCHANGED <<state, asrVars, llm_triggered, ttsVars, pulling, audio, threads>>

InterruptGeneration ==
    /\ ws = "interrupt_generation"
    /\ NewGeneration("fetch_add")
    /\ ws' = "interrupt_queue"
    /\ UNCHANGED <<state, asrVars, llm_triggered, ttsVars, pulling, audio, threads>>

InterruptClearQueue ==
    /\ ws = "interrupt_queue"
    /\ TtsFree
    /\ tts_queue' = <<>>
    /\ ws' = "interrupt_current"
    /\ UNCHANGED <<state, genVars, asrVars, llm_triggered, current_tts_id, tts_seq,
                   pulling, audio, threads>>

InterruptClearCurrent ==
    /\ ws = "interrupt_current"
    /\ current_tts_id' = 0
    /\ ws' = "interrupt_asr"
    /\ UNCHANGED <<state, genVars, asrVars, llm_triggered, tts_queue, tts_seq,
                   pulling, audio, threads>>

\* ... and interrupt_ack is sent
InterruptResetAsr ==
    /\ ws = "interrupt_asr"
    /\ AsrFree
    /\ ResetAsr
    /\ llm_triggered' = FALSE
    /\ ws' = "idle"
    /\ UNCHANGED <<state, genVars, ttsVars, pulling, audio, threads>>

\* stop_tts
StopTts ==
    /\ ws = "idle"
    /\ RoomForGeneration
    /\ NewGeneration("store")
    /\ ws' = "stop_generation"
    /\ UNCHANGED <<state, asrVars, llm_triggered, ttsVars, pulling, audio, threads>>

StopGeneration ==
    /\ ws = "stop_generation"
    /\ NewGeneration("fetch_add")
    /\ ws' = "stop_queue"
    /\ UNCHANGED <<state, asrVars, llm_triggered, ttsVars, pulling, audio, threads>>

StopClearQueue ==
    /\ ws = "stop_queue"
    /\ TtsFree
    /\ tts_queue' = <<>>
    /\ ws' = "stop_finish"
    /\ UNCHANGED <<state, genVars, asrVars, llm_triggered, current_tts_id, tts_seq,
                   pulling, audio, threads>>

StopFinish ==
    /\ ws = "stop_finish"
    /\ current_tts_id' = 0
    /\ llm_triggered' = FALSE
    /\ state' = "Streaming"
    /\ ws' = "idle"
    /\ UNCHANGED <<genVars, asrVars, tts_queue, tts_seq, pulling, audio, threads>>

MessageArrives == StartPush \/ Completed \/ StartedResetAsr \/ TtsStateEnded
                  \/ Interrupt \/ StopTts
MessageStep == \/ StartGeneration \/ InterruptGeneration \/ StopGeneration
               \/ StartResetAsr \/ StartStreaming \/ StartAudioPull
               \/ CompletedNext \/ StartedPlaying
               \/ InterruptClearQueue \/ InterruptClearCurrent \/ InterruptResetAsr
               \/ StopClearQueue \/ StopFinish

(***************************************************************************)
(* The PCM callback                                                        *)
(***************************************************************************)
\* The checks made before asr_mutex is requested.  A chunk that fails them is
\* dropped without effect.
AudioCheck ==
    /\ pulling
    /\ audio = "idle"
    /\ state # "Playing"
    /\ audio' = "checked"
    /\ UNCHANGED <<state, genVars, asrVars, llm_triggered, ttsVars, pulling, ws, threads>>

\* Speech that begins while a reply plays; the callback looks, under tts_mutex,
\* for a reply to stop.
BargesIn == ~speech_detected /\ state = "Playing" /\ InterruptType = 1
HasReply == tts_queue # <<>> \/ current_tts_id # 0

\* The 60 s overflow reset at the end of the callback; it keeps silence_frames.
Overflow == asr_finalized' = FALSE /\ speech_detected' = FALSE

AudioSpeech ==
    /\ audio = "checked"
    /\ AsrFree
    /\ BargesIn => TtsFree /\ ~HasReply
    /\ silence_frames' = 0
    /\ \/ speech_detected' = TRUE /\ UNCHANGED asr_finalized
       \/ Overflow
    /\ audio' = "idle"
    /\ UNCHANGED <<state, genVars, llm_triggered, ttsVars, pulling, ws, threads>>

\* There is a reply to stop; asr_mutex stays locked from here on.
AudioInterrupt ==
    /\ audio = "checked"
    /\ AsrFree
    /\ TtsFree
    /\ BargesIn /\ HasReply
    /\ RoomForGeneration
    /\ speech_detected' = TRUE
    /\ silence_frames' = 0
    /\ audio' = "barge_in"
    /\ UNCHANGED <<state, genVars, asr_finalized, llm_triggered, ttsVars, pulling, ws,
                   threads>>

AudioCancel ==
    /\ audio = "barge_in"
    /\ NewGeneration("store")
    /\ audio' = "generation"
    /\ UNCHANGED <<state, asrVars, llm_triggered, ttsVars, pulling, ws, threads>>

\* ... and stop_tts and interrupt are sent
AudioGeneration ==
    /\ audio = "generation"
    /\ NewGeneration("fetch_add")
    /\ audio' = "clear_queue"
    /\ UNCHANGED <<state, asrVars, llm_triggered, ttsVars, pulling, ws, threads>>

AudioClearQueue ==
    /\ audio = "clear_queue"
    /\ TtsFree
    /\ tts_queue' = <<>>
    /\ audio' = "clear_current"
    /\ UNCHANGED <<state, genVars, asrVars, llm_triggered, current_tts_id, tts_seq,
                   pulling, ws, threads>>

\* The callback then locks asr_mutex again, which it holds: a std::mutex is not
\* recursive, so no step leaves "relock".
AudioClearCurrent ==
    /\ audio = "clear_current"
    /\ current_tts_id' = 0
    /\ audio' = "relock"
    /\ UNCHANGED <<state, genVars, asrVars, llm_triggered, tts_queue, tts_seq,
                   pulling, ws, threads>>

\* A chunk between the two thresholds is appended and changes no flag.
AudioBetween ==
    /\ audio = "checked"
    /\ AsrFree
    /\ \/ UNCHANGED <<asr_finalized, speech_detected>>
       \/ Overflow
    /\ audio' = "idle"
    /\ UNCHANGED <<state, genVars, silence_frames, llm_triggered, ttsVars, pulling,
                   ws, threads>>

SilenceCount ==
    IF speech_detected /\ silence_frames < SilenceFramesThreshold
      THEN silence_frames + 1 ELSE silence_frames

\* Silence that closes no utterance: none is open, it is too short, one is
\* already being handed over, or a timing guard holds it back.
AudioSilence ==
    /\ audio = "checked"
    /\ AsrFree
    /\ silence_frames' = SilenceCount
    /\ \/ UNCHANGED <<asr_finalized, speech_detected>>
       \/ Overflow
    /\ audio' = "idle"
    /\ UNCHANGED <<state, genVars, llm_triggered, ttsVars, pulling, ws, threads>>

\* Silence that closes the utterance and starts a pipeline thread for it.
AudioFinalize(t) ==
    /\ audio = "checked"
    /\ AsrFree
    /\ speech_detected
    /\ SilenceCount = SilenceFramesThreshold
    /\ ~asr_finalized
    /\ silence_frames' = SilenceCount
    /\ pc[t] = "none"
    /\ pc' = [pc EXCEPT ![t] = "born"]
    /\ \/ asr_finalized' = TRUE /\ UNCHANGED speech_detected
       \/ Overflow
    /\ audio' = "idle"
    /\ UNCHANGED <<state, genVars, llm_triggered, ttsVars, pulling, ws, my_generation>>

(***************************************************************************)
(* A pipeline thread                                                       *)
(***************************************************************************)
Goto(t, step) == pc' = [pc EXCEPT ![t] = step]

Exit(t) == /\ Goto(t, "none")
           /\ my_generation' = [my_generation EXCEPT ![t] = 0]

Stale(t) == my_generation[t] # generation_id

Capture(t) ==
    /\ pc[t] = "born"
    /\ Goto(t, "arm")
    /\ my_generation' = [my_generation EXCEPT ![t] = generation_id]
    /\ UNCHANGED <<state, genVars, asrVars, llm_triggered, ttsVars, pulling, ws, audio>>

\* ResetPipelineCancel, under pipeline_mutex, which nothing else takes
Arm(t) ==
    /\ pc[t] = "arm"
    /\ Goto(t, "wait_asr")
    /\ cancel_pipeline' = FALSE
    /\ UNCHANGED <<state, generation_id, asrVars, llm_triggered, ttsVars, pulling, ws,
                   audio, my_generation>>

BeginAsr(t) ==
    /\ pc[t] = "wait_asr"
    /\ AsrFree
    /\ Goto(t, "asr")
    /\ UNCHANGED <<state, genVars, asrVars, llm_triggered, ttsVars, pulling, ws, audio,
                   my_generation>>

\* TranscribeAudio returns and the buffer is emptied.  A thread whose text is
\* empty ends at its next check whatever the generation.
EndAsr(t) ==
    /\ pc[t] = "asr"
    /\ ResetAsr
    /\ \/ Goto(t, "heard") /\ UNCHANGED my_generation
       \/ Exit(t)
    /\ UNCHANGED <<state, genVars, llm_triggered, ttsVars, pulling, ws, audio>>

CheckAfterAsr(t) ==
    /\ pc[t] = "heard"
    /\ IF Stale(t) THEN Exit(t) ELSE Goto(t, "fresh") /\ UNCHANGED my_generation
    /\ UNCHANGED <<state, genVars, asrVars, llm_triggered, ttsVars, pulling, ws, audio>>

CheckDedup(t) ==
    /\ pc[t] = "fresh"
    /\ IF llm_triggered THEN Exit(t) ELSE Goto(t, "trigger") /\ UNCHANGED my_generation
    /\ UNCHANGED <<state, genVars, asrVars, llm_triggered, ttsVars, pulling, ws, audio>>

\* ... and asr_result is sent
Trigger(t) ==
    /\ pc[t] = "trigger"
    /\ llm_triggered' = TRUE
    /\ Goto(t, "asked")
    /\ UNCHANGED <<state, genVars, asrVars, ttsVars, pulling, ws, audio, my_generation>>

CheckBeforeLlm(t) ==
    /\ pc[t] = "asked"
    /\ IF Stale(t) THEN Exit(t) ELSE Goto(t, "llm") /\ UNCHANGED my_generation
    /\ UNCHANGED <<state, genVars, asrVars, llm_triggered, ttsVars, pulling, ws, audio>>

\* ProcessText up to the synthesis: cancelled at one of its checks, no answer,
\* a filler word answered without audio, or an answer to be spoken.
Llm(t) ==
    /\ pc[t] = "llm"
    /\ IF cancel_pipeline
         THEN Exit(t)
         ELSE \/ Exit(t)
              \/ \E step \in {"text", "tts"} : Goto(t, step) /\ UNCHANGED my_generation
    /\ UNCHANGED <<state, genVars, asrVars, llm_triggered, ttsVars, pulling, ws, audio>>

\* SynthesizeTts.  Audio is produced only while MaxTts leaves an id for it.
Synthesize(t) ==
    /\ pc[t] = "tts"
    /\ \/ Goto(t, "text")
       \/ /\ tts_seq + Cardinality({u \in Threads : pc[u] \in {"audio", "deliver"}})
                < MaxTts
          /\ Goto(t, "audio")
    /\ UNCHANGED <<state, genVars, asrVars, llm_triggered, ttsVars, pulling, ws, audio,
                   my_generation>>

\* The checks between the return of ProcessText and the first message.
CheckBeforeSend(t) ==
    /\ pc[t] \in {"text", "audio"}
    /\ IF Stale(t)
         THEN Exit(t)
         ELSE /\ Goto(t, IF pc[t] = "text" THEN "send_text" ELSE "deliver")
              /\ UNCHANGED my_generation
    /\ UNCHANGED <<state, genVars, asrVars, llm_triggered, ttsVars, pulling, ws, audio>>

\* llm_result, for a reply without audio
SendText(t) ==
    /\ pc[t] = "send_text"
    /\ Exit(t)
    /\ UNCHANGED <<state, genVars, asrVars, llm_triggered, ttsVars, pulling, ws, audio>>

\* Mutant of Enqueue: the newest reply first.
EnqueueFront(item) == <<item>> \o tts_queue

Enqueue(item) == Append(tts_queue, item)

\* llm_result, then under tts_mutex: queue the reply, send tts_start, go to
\* Playing ...
Deliver(t) ==
    /\ pc[t] = "deliver"
    /\ TtsFree
    /\ tts_seq' = tts_seq + 1
    /\ tts_queue' = Enqueue([id |-> tts_seq', gen |-> my_generation[t]])
    /\ state' = "Playing"
    /\ Goto(t, "set_current")
    /\ UNCHANGED <<genVars, asrVars, llm_triggered, current_tts_id, pulling, ws, audio,
                   my_generation>>

\* Mutant of SetCurrent: it also looks at the ASR state, under asr_mutex.
SetCurrentLocksAsr(t) ==
    /\ pc[t] = "set_current"
    /\ AsrFree
    /\ current_tts_id' = tts_seq
    /\ Exit(t)
    /\ UNCHANGED <<state, genVars, asrVars, llm_triggered, tts_queue, tts_seq, pulling,
                   ws, audio>>

\* ... and make it the current one, where the thread ends.
SetCurrent(t) ==
    /\ pc[t] = "set_current"
    /\ current_tts_id' = tts_seq
    /\ Exit(t)
    /\ UNCHANGED <<state, genVars, asrVars, llm_triggered, tts_queue, tts_seq, pulling,
                   ws, audio>>

\* A callback that holds asr_mutex across steps.
AudioGoesOn == AudioCancel \/ AudioGeneration \/ AudioClearQueue \/ AudioClearCurrent

AudioStepTaken == \/ AudioCheck \/ AudioSpeech \/ AudioInterrupt \/ AudioGoesOn
                  \/ AudioBetween \/ AudioSilence
                  \/ \E t \in Threads : AudioFinalize(t)

ThreadStepTaken(t) ==
    \/ Capture(t) \/ Arm(t) \/ BeginAsr(t) \/ EndAsr(t) \/ CheckAfterAsr(t)
    \/ CheckDedup(t) \/ Trigger(t) \/ CheckBeforeLlm(t) \/ Llm(t) \/ Synthesize(t)
    \/ CheckBeforeSend(t) \/ SendText(t) \/ Deliver(t) \/ SetCurrent(t)

Next == \/ MessageArrives
        \/ MessageStep
        \/ AudioStepTaken
        \/ \E t \in Threads : ThreadStepTaken(t)

Spec == Init /\ [][Next]_vars

\* Threads that are not waiting for a mutex are scheduled, and ASR, the LLM and
\* TTS return: each of their requests has a timeout.
FairSpec == /\ Spec
            /\ \A t \in Threads : WF_vars(ThreadStepTaken(t))
            /\ WF_vars(AudioGoesOn)

-----------------------------------------------------------------------------
(***************************************************************************)
(* Properties                                                              *)
(***************************************************************************)
\* An utterance that has been closed is always in the hands of a thread that
\* has yet to empty the ASR buffer and re-open the gate.  Were asr_finalized
\* left TRUE with no such thread, whichever handler or overflow cleared and set
\* it in between, the condition at main.cpp:515 would never hold again and the
\* session would be deaf.
ClosedUtteranceHasThread ==
    asr_finalized => \E t \in Threads : pc[t] \in Waiting

\* The cancel flag is shared by all threads of the session and carries no
\* generation, yet a thread that has armed itself and sees it raised has been
\* overtaken by an interrupt, a stop or a new wake-up, or is about to be: whoever
\* raised the flag has the increment as its next line.  So ProcessText never throws
\* away an answer that anybody still waits for.
NoSpuriousCancel ==
    \A t \in Threads :
        pc[t] \notin {"none", "born", "arm"} /\ cancel_pipeline => Stale(t) \/ Overtaking

\* current_tts_id is what a barge-in falls back on when it names the reply to
\* stop.  It is cleared outside tts_mutex and apart from the queue, and a
\* completion report may take away a reply announced a moment ago; still it
\* never names a reply that is both gone from the queue and superseded by a
\* newer one, unless a handler stands between its two clearings or a thread
\* is about to overwrite it.
CurrentIsLive ==
    current_tts_id # 0 =>
        \/ \E i \in DOMAIN tts_queue : tts_queue[i].id = current_tts_id
        \/ current_tts_id = tts_seq
        \/ ~TtsFree
        \/ ws \in {"interrupt_current", "stop_finish"}
        \/ audio = "clear_current"

\* Replies are queued in the order their ids were drawn and no id is queued
\* twice, although several threads may be delivering at once.
QueueInOrder ==
    /\ \A i, j \in DOMAIN tts_queue : i < j => tts_queue[i].id < tts_queue[j].id
    /\ \A i \in DOMAIN tts_queue : tts_queue[i].id <= tts_seq

\* Liveness.  A closed utterance re-opens the gate: the next one can be closed.
ClosedUtteranceReopens == []<>~asr_finalized

\* Liveness.  A turn ends, with or without a reply: again and again its thread is
\* gone.  It waits for asr_mutex and for tts_mutex, which the callback takes inside
\* the other; neither wait lasts for ever, but for a callback that stands at
\* "relock" and for turns after turns of the same session that get asr_mutex first
\* (a std::mutex is not fair).
TurnEnds ==
    \A t \in Threads :
        []<>(\/ pc[t] = "none"
             \/ audio = "relock"
             \/ \E u \in Threads \ {t} : pc[u] = "asr")
=============================================================================
