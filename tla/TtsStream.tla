------------------------------ MODULE TtsStream ------------------------------
(***************************************************************************)
(* The voice session with streaming TTS.  Messages, the PCM callback and   *)
(* the front of a pipeline thread are those of VoiceSession; from the LLM  *)
(* on, the thread announces a stream, sends tokens and chunks of audio     *)
(* from callbacks while they are made, then the end of the stream and the  *)
(* full text.                                                              *)
(*                                                                         *)
(* pc stays at "llm" meanwhile and stream tells where the thread is.  A    *)
(* callback compares generations and then sends: two steps.  A thread that *)
(* gives up does so without a word, whatever the reason.                   *)
(***************************************************************************)
EXTENDS VoiceSession

CONSTANT MaxChunks  \* bound on the chunks of a reply

ASSUME ChunksAssumption == MaxChunks \in Nat

VARIABLES
    stream,  \* the stream of each thread
    late     \* the threads that have sent a frame after they were overtaken

streamVars == <<vars, stream, late>>

\* id: tts_id; total: total_audio_samples, in chunks; made: what the synthesis
\* handed over; cached: it came from the TTS cache; holed: the send queue has
\* refused a chunk.
NoStream == [at |-> "idle", id |-> 0, total |-> 0, made |-> 0, cached |-> FALSE,
             holed |-> FALSE]

StreamStep == {"idle", "number", "start", "playing", "current", "process", "llm",
               "token", "synth", "chunk", "end", "returned", "text"}

StreamTypeOK ==
    /\ TypeOK
    /\ stream \in [Threads -> [at : StreamStep, id : 0 .. MaxTts, total : Nat,
                               made : 0 .. MaxChunks, cached : BOOLEAN,
                               holed : BOOLEAN]]
    /\ \A t \in Threads : stream[t].at = "idle" <=> stream[t].id = 0
    /\ \A t \in Threads : stream[t].at # "idle" => pc[t] = "llm"
    /\ late \subseteq Threads

StreamInit ==
    /\ Init
    /\ stream = [t \in Threads |-> NoStream]
    /\ late = {}

-----------------------------------------------------------------------------
StreamAt(t, step) == stream' = [stream EXCEPT ![t].at = step]

\* ProcessTextStream returns; what its callbacks have counted is of no further use.
Return(t) == stream' = [stream EXCEPT ![t] = [NoStream EXCEPT !.at = "returned",
                                                              !.id = stream[t].id]]

KeepSession == UNCHANGED <<state, genVars, asrVars, llm_triggered, ttsVars, pulling, ws,
                           audio, threads>>

\* Hand a frame to the send queue.  A full queue refuses it, which no caller looks
\* at: the thread goes on either way.
Send(t) == late' = IF Stale(t) THEN late \cup {t} ELSE late

\* The thread ends.
Leave(t) ==
    /\ Exit(t)
    /\ stream' = [stream EXCEPT ![t] = NoStream]
    /\ late' = late \ {t}
    /\ UNCHANGED <<state, genVars, asrVars, llm_triggered, ttsVars, pulling, ws, audio>>

(***************************************************************************)
(* Announcing the stream                                                   *)
(***************************************************************************)
\* GenerateTtsId reads tts_seq ...
BeginStream(t) ==
    /\ pc[t] = "llm" /\ stream[t].at = "idle"
    /\ tts_seq < MaxTts
    /\ stream' = [stream EXCEPT ![t] = [NoStream EXCEPT !.at = "number", !.id = tts_seq + 1]]
    /\ KeepSession /\ UNCHANGED late

\* ... and writes it, here under no mutex: the increments of two threads race, and
\* one may be lost.
NumberStream(t) ==
    /\ stream[t].at = "number"
    /\ tts_seq' = stream[t].id
    /\ StreamAt(t, "start")
    /\ UNCHANGED <<state, genVars, asrVars, llm_triggered, tts_queue, current_tts_id,
                   pulling, ws, audio, threads, late>>

\* tts_stream_start, with no look at the generation
SendStart(t) ==
    /\ stream[t].at = "start"
    /\ Send(t)
    /\ StreamAt(t, "playing")
    /\ KeepSession

GoPlaying(t) ==
    /\ stream[t].at = "playing"
    /\ state' = "Playing"
    /\ StreamAt(t, "current")
    /\ UNCHANGED <<genVars, asrVars, llm_triggered, ttsVars, pulling, ws, audio, threads,
                   late>>

MakeCurrent(t) ==
    /\ stream[t].at = "current"
    /\ current_tts_id' = stream[t].id
    /\ StreamAt(t, "process")
    /\ UNCHANGED <<state, genVars, asrVars, llm_triggered, tts_queue, tts_seq, pulling, ws,
                   audio, threads, late>>

(***************************************************************************)
(* ProcessTextStream                                                       *)
(***************************************************************************)
\* Cancelled at one of the checks before the LLM, of which the last one passed
\* decides; or a filler word or a skill's answer, spoken without the LLM.
Process(t) ==
    /\ stream[t].at = "process"
    /\ IF cancel_pipeline
         THEN Leave(t)
         ELSE /\ \E step \in {"synth", "llm"} : StreamAt(t, step)
              /\ KeepSession /\ UNCHANGED late

\* Mutant of Token: the generation is not compared.
TokenUnchecked(t) ==
    /\ stream[t].at = "llm"
    /\ StreamAt(t, "token")
    /\ KeepSession /\ UNCHANGED late

\* ChatStream delivers a token; that of an overtaken thread has no effect.  The
\* cancel flag is tested only before each batch of tokens, so not here.
Token(t) ==
    /\ stream[t].at = "llm"
    /\ ~Stale(t)
    /\ StreamAt(t, "token")
    /\ KeepSession /\ UNCHANGED late

SendToken(t) ==
    /\ stream[t].at = "token"
    /\ Send(t)
    /\ StreamAt(t, "llm")
    /\ KeepSession

\* Cancelled, no answer, nothing but emoji, or an answer to be spoken.
LlmReturns(t) ==
    /\ stream[t].at = "llm"
    /\ \/ Leave(t)
       \/ /\ ~cancel_pipeline
          /\ StreamAt(t, "synth")
          /\ KeepSession /\ UNCHANGED late

(***************************************************************************)
(* SynthesizeTtsStream, which never looks at cancel_pipeline               *)
(***************************************************************************)
\* The reply is in the cache: all of it is handed over, as final.
CacheHit(t) ==
    /\ stream[t].at = "synth" /\ stream[t].made = 0
    /\ MaxChunks > 0
    /\ IF Stale(t)
         THEN Return(t)
         ELSE stream' = [stream EXCEPT ![t].made = 1, ![t].cached = TRUE, ![t].at = "end"]
    /\ KeepSession /\ UNCHANGED late

\* piper is missing, cannot be started, or fails before it has made anything.
\* ProcessTextStream does not look at the result.
SynthesisFails(t) ==
    /\ stream[t].at = "synth" /\ stream[t].made = 0
    /\ Return(t)
    /\ KeepSession /\ UNCHANGED late

\* piper has made a chunk; that of an overtaken thread is dropped.
Chunk(t) ==
    /\ stream[t].at = "synth"
    /\ stream[t].made < MaxChunks
    /\ stream' = [stream EXCEPT ![t].made = @ + 1,
                                ![t].at = IF Stale(t) THEN "synth" ELSE "chunk"]
    /\ KeepSession /\ UNCHANGED late

\* A refused chunk is counted all the same.
SendChunk(t) ==
    /\ stream[t].at = "chunk"
    /\ Send(t)
    /\ \E refused \in BOOLEAN :
         stream' = [stream EXCEPT ![t].total = @ + 1, ![t].at = "synth",
                                  ![t].holed = @ \/ refused]
    /\ KeepSession

\* Mutant of SynthesisEnds: the end is sent whatever the generation.
SynthesisEndsUnchecked(t) ==
    /\ stream[t].at = "synth"
    /\ StreamAt(t, "end")
    /\ KeepSession /\ UNCHANGED late

\* piper is done, perhaps without a chunk.
SynthesisEnds(t) ==
    /\ stream[t].at = "synth"
    /\ IF Stale(t) THEN Return(t) ELSE StreamAt(t, "end")
    /\ KeepSession /\ UNCHANGED late

\* tts_stream_end
SendEnd(t) ==
    /\ stream[t].at = "end"
    /\ Send(t)
    /\ Return(t)
    /\ KeepSession

(***************************************************************************)
(* Back in the thread                                                      *)
(***************************************************************************)
CheckResult(t) ==
    /\ stream[t].at = "returned"
    /\ IF Stale(t)
         THEN Leave(t)
         ELSE StreamAt(t, "text") /\ KeepSession /\ UNCHANGED late

\* llm_result, which is the thread's last word
SendResult(t) == stream[t].at = "text" /\ Leave(t)

ThreadStreams(t) ==
    \/ BeginStream(t) \/ NumberStream(t) \/ SendStart(t) \/ GoPlaying(t)
    \/ MakeCurrent(t) \/ Process(t) \/ Token(t) \/ SendToken(t) \/ LlmReturns(t)
    \/ CacheHit(t) \/ SynthesisFails(t) \/ Chunk(t) \/ SendChunk(t)
    \/ SynthesisEnds(t) \/ SendEnd(t) \/ CheckResult(t) \/ SendResult(t)

ThreadFront(t) ==
    \/ Capture(t) \/ Arm(t) \/ BeginAsr(t) \/ EndAsr(t) \/ CheckAfterAsr(t)
    \/ CheckDedup(t) \/ Trigger(t) \/ CheckBeforeLlm(t)

StreamNext ==
    \/ /\ \/ MessageArrives
          \/ MessageStep
          \/ AudioStepTaken
          \/ \E t \in Threads : ThreadFront(t)
       /\ UNCHANGED <<stream, late>>
    \/ \E t \in Threads : ThreadStreams(t)

StreamSpec == StreamInit /\ [][StreamNext]_streamVars

-----------------------------------------------------------------------------
(***************************************************************************)
(* Properties                                                              *)
(***************************************************************************)
\* An overtaken thread falls silent.  From the announcement of its stream on it
\* sends at most one more frame: the one it was about to send when the interrupt,
\* the stop or the new wake-up came.  The announcement is made without a look at
\* the generation, and binary frames carry no id, so a second one would end up in
\* the robot's next reply.
OvertakenFallsSilent ==
    \A t \in late : stream[t].at \notin {"start", "token", "chunk", "end", "text"}

\* The end message tells the robot how many samples the stream had: all that were
\* synthesised for it, although an interrupt may come between any two chunks, each
\* callback decides on its own, and an overtaken thread drops chunks.
EndTellsWhatWasMade ==
    \A t \in Threads :
        stream[t].at = "end" /\ ~stream[t].cached => stream[t].total = stream[t].made
=============================================================================
