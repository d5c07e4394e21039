--------------------------- MODULE TtsStreamProofs ---------------------------
(***************************************************************************)
(* Proofs about TtsStream.  A step of the session's front is a step of     *)
(* VoiceSession, so the lemmas of VoiceSessionProofs give the types; what  *)
(* is new are the steps of a thread that streams.                          *)
(***************************************************************************)
EXTENDS TtsStream, VoiceSessionProofs

\* A step of the front: of the messages, the callback, or a thread before the LLM.
FrontStep ==
    /\ \/ MessageArrives \/ MessageStep \/ AudioStepTaken
       \/ \E t \in Threads : ThreadFront(t)
    /\ UNCHANGED <<stream, late>>

LEMMA StreamSteps ==
    [StreamNext]_streamVars =>
        FrontStep \/ (\E t \in Threads : ThreadStreams(t)) \/ UNCHANGED streamVars
  BY DEF StreamNext, FrontStep

LEMMA FrontIsSession == FrontStep => [Next]_vars
  BY DEF FrontStep, Next, ThreadFront, ThreadStepTaken

\* A step of the front never takes the generation back, and leaves a thread that
\* has reached the LLM alone.
LEMMA FrontSparesStreams ==
    ASSUME DataOK, StepsOK, FrontStep
    PROVE  /\ generation_id' >= generation_id
           /\ \A u \in Threads : pc[u] = "llm" =>
                pc'[u] = "llm" /\ my_generation'[u] = my_generation[u]
<1> USE DEF genVars, asrVars, ttsVars, threads
<1>0. generation_id \in Nat
  BY BoundsAssumption DEF DataOK
<1>1. CASE MessageArrives
  BY <1>0, <1>1 DEF MessageArrives, StartPush, Completed, StartedResetAsr, TtsStateEnded,
                    Interrupt, StopTts, NewGeneration
<1>2. CASE MessageStep
  BY <1>0, <1>2 DEF MessageStep, StartGeneration, InterruptGeneration, StopGeneration,
              NewGeneration, StartResetAsr, StartStreaming, StartAudioPull,
              CompletedNext, StartedPlaying, InterruptClearQueue, InterruptClearCurrent,
              InterruptResetAsr, StopClearQueue, StopFinish
<1>3. CASE AudioStepTaken
  <2>1. ASSUME NEW t \in Threads, AudioFinalize(t)
        PROVE  /\ generation_id' >= generation_id
               /\ \A u \in Threads : pc[u] = "llm" =>
                    pc'[u] = "llm" /\ my_generation'[u] = my_generation[u]
    BY <1>0, <2>1 DEF AudioFinalize, StepsOK
  <2>2. CASE AudioCheck \/ AudioSpeech \/ AudioInterrupt \/ AudioClearQueue
    BY <1>0, <2>2 DEF AudioCheck, AudioSpeech, AudioInterrupt, AudioClearQueue,
                      NewGeneration
  <2>3. CASE AudioClearCurrent \/ AudioBetween \/ AudioSilence
    BY <1>0, <2>3 DEF AudioClearCurrent, AudioBetween, AudioSilence
  <2>4. CASE AudioCancel \/ AudioGeneration
    BY <1>0, <2>4 DEF AudioCancel, AudioGeneration, NewGeneration
  <2>5. QED
    BY <1>3, <2>1, <2>2, <2>3, <2>4 DEF AudioStepTaken, AudioGoesOn
<1>4. ASSUME NEW t \in Threads, ThreadFront(t)
      PROVE  /\ generation_id' >= generation_id
             /\ \A u \in Threads : pc[u] = "llm" =>
                  pc'[u] = "llm" /\ my_generation'[u] = my_generation[u]
  <2>1. CASE Capture(t) \/ Arm(t) \/ BeginAsr(t) \/ EndAsr(t)
    BY <1>0, <2>1 DEF Capture, Arm, BeginAsr, EndAsr, Goto, Exit, StepsOK
  <2>2. CASE CheckAfterAsr(t) \/ CheckDedup(t) \/ Trigger(t) \/ CheckBeforeLlm(t)
    BY <1>0, <2>2 DEF CheckAfterAsr, CheckDedup, Trigger, CheckBeforeLlm, Goto, Exit,
                      StepsOK
  <2>3. QED
    BY <1>4, <2>1, <2>2 DEF ThreadFront
<1>5. QED
  BY <1>1, <1>2, <1>3, <1>4 DEF FrontStep

-----------------------------------------------------------------------------
\* What a step of a streaming thread does to the session.
LEMMA StreamingStep ==
    ASSUME DataOK, StepsOK, NEW t \in Threads, ThreadStreams(t)
    PROVE  /\ UNCHANGED <<genVars, asrVars, llm_triggered, tts_queue, pulling, ws, audio>>
           /\ \/ UNCHANGED threads
              \/ Exit(t) /\ stream' = [stream EXCEPT ![t] = NoStream] /\ late' = late \ {t}
           /\ \A u \in Threads \ {t} : pc'[u] = pc[u] /\ my_generation'[u] = my_generation[u]
<1> USE DEF threads, ttsVars, KeepSession
<1>0. Exit(t) => \A u \in Threads \ {t} :
                    pc'[u] = pc[u] /\ my_generation'[u] = my_generation[u]
  BY DEF Exit, Goto, StepsOK
<1>1. CASE \/ BeginStream(t) \/ NumberStream(t) \/ SendStart(t)
           \/ GoPlaying(t) \/ MakeCurrent(t)
  BY <1>1 DEF BeginStream, NumberStream, SendStart, GoPlaying, MakeCurrent
<1>2. CASE Process(t)
  BY <1>0, <1>2 DEF Process, Leave
<1>3. CASE LlmReturns(t) \/ CheckResult(t) \/ SendResult(t)
  BY <1>0, <1>3 DEF LlmReturns, CheckResult, SendResult, Leave
<1>4. CASE Token(t) \/ SendToken(t) \/ CacheHit(t) \/ SynthesisFails(t)
  BY <1>4 DEF Token, SendToken, CacheHit, SynthesisFails
<1>5. CASE Chunk(t) \/ SendChunk(t) \/ SynthesisEnds(t) \/ SendEnd(t)
  BY <1>5 DEF Chunk, SendChunk, SynthesisEnds, SendEnd
<1>6. QED
  BY <1>1, <1>2, <1>3, <1>4, <1>5 DEF ThreadStreams

\* The types that are new, and that a thread streams only past the LLM's door.
Stream == [at : StreamStep, id : 0 .. MaxTts, total : Nat, made : 0 .. MaxChunks,
           cached : BOOLEAN, holed : BOOLEAN]

StreamsOK ==
    /\ stream \in [Threads -> Stream]
    /\ \A t \in Threads : stream[t].at = "idle" <=> stream[t].id = 0
    /\ \A t \in Threads : stream[t].at # "idle" => pc[t] = "llm"
    /\ late \subseteq Threads

\* What is left of a stream whose synthesis has returned.
LEMMA ReturnedStream ==
    ASSUME StreamsOK, NEW t \in Threads, Return(t), stream[t].at # "idle"
    PROVE  /\ stream' \in [Threads -> Stream]
           /\ stream'[t].at = "returned" /\ stream'[t].id # 0
           /\ \A u \in Threads \ {t} : stream'[u] = stream[u]
<1>0. PICK new : /\ new = [NoStream EXCEPT !.at = "returned", !.id = stream[t].id]
                 /\ stream' = [stream EXCEPT ![t] = new]
  BY DEF Return
<1>1. stream[t] \in Stream /\ stream[t].id \in 0 .. MaxTts /\ stream[t].id # 0
  BY DEF StreamsOK, Stream
<1>2. new = [at |-> "returned", id |-> stream[t].id, total |-> 0, made |-> 0,
             cached |-> FALSE, holed |-> FALSE]
  BY <1>0 DEF NoStream
<1>3. 0 \in 0 .. MaxChunks /\ 0 \in Nat
  BY ChunksAssumption
<1>4. new \in Stream /\ new.at = "returned" /\ new.id # 0
  BY <1>1, <1>2, <1>3 DEF Stream, StreamStep
<1>5. stream \in [Threads -> Stream]
  BY DEF StreamsOK
<1>6. QED
  BY <1>0, <1>4, <1>5

LEMMA StreamTypeParts == StreamTypeOK <=> TypeOK /\ StreamsOK
  BY DEF StreamTypeOK, StreamsOK, Stream

LEMMA SessionTypesStep == TypeOK /\ StreamsOK /\ [StreamNext]_streamVars => TypeOK'
<1> SUFFICES ASSUME TypeOK, StreamsOK, [StreamNext]_streamVars PROVE TypeOK'
  OBVIOUS
<1> USE DEF TypeOK
<1>1. CASE [Next]_vars
  BY <1>1, FlagsStep, DataStep, StepsStep
<1>2. ASSUME NEW t \in Threads, ThreadStreams(t)
      PROVE  TypeOK'
  <2> USE DEF genVars, asrVars, ttsVars, threads, KeepSession, Leave
  <2>0. UNCHANGED <<genVars, asrVars, llm_triggered, tts_queue, pulling, ws, audio>>
    BY <1>2, StreamingStep
  <2>1. FlagsOK'
    BY <2>0 DEF FlagsOK
  <2>2. state' \in SessionState /\ current_tts_id' \in Nat /\ tts_seq' \in Nat
    <3>1. stream[t] \in Stream
      BY DEF StreamsOK
    <3>2. state \in SessionState /\ current_tts_id \in Nat /\ tts_seq \in Nat
      BY DEF DataOK
    <3>3. CASE \/ BeginStream(t) \/ NumberStream(t) \/ SendStart(t)
               \/ GoPlaying(t) \/ MakeCurrent(t)
      BY <3>1, <3>2, <3>3, BoundsAssumption DEF BeginStream, NumberStream, SendStart,
         GoPlaying, MakeCurrent, Stream, SessionState
    <3>4. CASE Process(t) \/ Token(t) \/ SendToken(t) \/ LlmReturns(t)
      BY <3>2, <3>4 DEF Process, Token, SendToken, LlmReturns
    <3>5. CASE CacheHit(t) \/ SynthesisFails(t) \/ Chunk(t) \/ SendChunk(t)
      BY <3>2, <3>5 DEF CacheHit, SynthesisFails, Chunk, SendChunk
    <3>6. CASE SynthesisEnds(t) \/ SendEnd(t) \/ CheckResult(t) \/ SendResult(t)
      BY <3>2, <3>6 DEF SynthesisEnds, SendEnd, CheckResult, SendResult
    <3>7. QED
      BY <1>2, <3>3, <3>4, <3>5, <3>6 DEF ThreadStreams
  <2>3. DataOK'
    BY <2>0, <2>2 DEF DataOK
  <2>4. StepsOK'
    <3>1. UNCHANGED threads \/ Exit(t)
      BY <1>2, StreamingStep
    <3>2. QED
      BY <2>0, <3>1, BoundsAssumption DEF StepsOK, Exit, Goto, ThreadStep
  <2>5. QED
    BY <2>1, <2>3, <2>4
<1>3. QED
  BY <1>1, <1>2, StreamSteps, FrontIsSession DEF streamVars

LEMMA StreamsStep == TypeOK /\ StreamsOK /\ [StreamNext]_streamVars => StreamsOK'
<1> SUFFICES ASSUME TypeOK, StreamsOK, [StreamNext]_streamVars PROVE StreamsOK'
  OBVIOUS
<1>0. DataOK /\ StepsOK
  BY DEF TypeOK
<1>1. CASE FrontStep
  BY <1>0, <1>1, FrontSparesStreams DEF StreamsOK, FrontStep
<1>2. ASSUME NEW t \in Threads, ThreadStreams(t)
      PROVE  StreamsOK'
  <2> USE DEF StreamsOK
  <2>0. stream[t] \in Stream
    OBVIOUS
  <2>1. CASE Leave(t)
    <3>1. \A u \in Threads \ {t} : pc'[u] = pc[u]
      BY <1>0, <1>2, StreamingStep
    <3>2. NoStream \in Stream /\ NoStream.at = "idle" /\ NoStream.id = 0
      BY BoundsAssumption, ChunksAssumption DEF NoStream, Stream, StreamStep
    <3>3. QED
      BY <2>1, <3>1, <3>2 DEF Leave
  <2>2. CASE BeginStream(t)
    <3>1. tts_seq \in Nat /\ MaxTts \in Nat
      BY <1>0, BoundsAssumption DEF DataOK
    <3>2. tts_seq + 1 \in 1 .. MaxTts /\ UNCHANGED <<pc, late>> /\ pc[t] = "llm"
      BY <2>2, <3>1 DEF BeginStream, KeepSession, threads
    <3>3. PICK new : /\ new = [NoStream EXCEPT !.at = "number", !.id = tts_seq + 1]
                     /\ stream' = [stream EXCEPT ![t] = new]
      BY <2>2 DEF BeginStream
    <3>4. new \in Stream /\ new.at # "idle" /\ new.id # 0
      <4>1. new = [at |-> "number", id |-> tts_seq + 1, total |-> 0, made |-> 0,
                   cached |-> FALSE, holed |-> FALSE]
        BY <3>3 DEF NoStream
      <4>2. tts_seq + 1 \in 0 .. MaxTts /\ tts_seq + 1 # 0
        BY <3>1, <3>2
      <4>3. 0 \in 0 .. MaxChunks /\ 0 \in Nat
        BY ChunksAssumption
      <4>4. QED
        BY <4>1, <4>2, <4>3 DEF Stream, StreamStep
    <3>5. QED
      BY <3>2, <3>3, <3>4
  <2> USE DEF KeepSession, threads, StreamAt, Send, Stream, StreamStep
  <2>3. CASE NumberStream(t) \/ SendStart(t) \/ GoPlaying(t) \/ MakeCurrent(t)
    BY <2>0, <2>3 DEF NumberStream, SendStart, GoPlaying, MakeCurrent
  <2>4. CASE ~Leave(t) /\ (Process(t) \/ LlmReturns(t) \/ CheckResult(t))
    BY <2>0, <2>4 DEF Process, LlmReturns, CheckResult
  <2>5. CASE Token(t) \/ SendToken(t)
    BY <2>0, <2>5 DEF Token, SendToken
  <2>6. CASE CacheHit(t) \/ SynthesisFails(t)
    BY <2>0, <2>6, ChunksAssumption, ReturnedStream DEF CacheHit, SynthesisFails
  <2>7. CASE Chunk(t) \/ SendChunk(t)
    BY <2>0, <2>7, ChunksAssumption DEF Chunk, SendChunk
  <2>8. CASE SynthesisEnds(t) \/ SendEnd(t)
    BY <2>0, <2>8, ReturnedStream DEF SynthesisEnds, SendEnd
  <2>9. QED
    BY <1>2, <2>1, <2>2, <2>3, <2>4, <2>5, <2>6, <2>7, <2>8 DEF ThreadStreams, SendResult
<1>3. CASE UNCHANGED streamVars
  BY <1>3 DEF streamVars, vars, threads, StreamsOK
<1>4. QED
  BY <1>1, <1>2, <1>3, StreamSteps

LEMMA StreamTypesInit == StreamInit => TypeOK /\ StreamsOK
  BY InitTypes, BoundsAssumption, ChunksAssumption
     DEF StreamInit, StreamsOK, Stream, NoStream, StreamStep

\* The session with streams keeps its types, and a thread has a stream exactly
\* while it is past the LLM's door with an id of its own.
THEOREM StreamTypesCorrect == StreamSpec => []StreamTypeOK
<1>1. StreamInit => TypeOK /\ StreamsOK
  BY StreamTypesInit
<1>2. TypeOK /\ StreamsOK /\ [StreamNext]_streamVars => (TypeOK /\ StreamsOK)'
  BY SessionTypesStep, StreamsStep
<1>3. QED
  BY <1>1, <1>2, StreamTypeParts, PTL DEF StreamSpec

-----------------------------------------------------------------------------
Sending == {"start", "token", "chunk", "end", "text"}

\* A thread that has sent a frame too many stays overtaken, since generations
\* only grow, and stands where it cannot send.
Quiet(t) ==
    t \in late => Stale(t) /\ stream[t].at \notin Sending \cup {"idle", "number"}

\* What a thread has made it has counted, but for the chunk in its hands.  Once it is
\* overtaken chunks are dropped, and then it sends no end either.
Whole(t) ==
    LET s == stream[t] IN
    /\ s.at = "idle" => s.total = s.made
    /\ s.at = "chunk" => s.total + 1 = s.made
    /\ s.at = "end" /\ ~s.cached => s.total = s.made
    /\ s.at \notin {"chunk", "end", "returned", "text"} /\ ~Stale(t) => s.total = s.made

StreamInv == CancelInv /\ \A t \in Threads : Quiet(t) /\ Whole(t)

\* A streaming thread that is overtaken stays overtaken, whatever the front does.
LEMMA FrontKeepsStreamInv ==
    ASSUME TypeOK, StreamsOK, StreamInv, FrontStep
    PROVE  StreamInv'
<1>0. DataOK /\ StepsOK
  BY DEF TypeOK
<1>1. CancelInv'
  BY <1>0, FrontIsSession, CancelStep DEF StreamInv
<1>2. ASSUME NEW t \in Threads PROVE Quiet(t)' /\ Whole(t)'
  <2>1. Quiet(t) /\ Whole(t) /\ UNCHANGED <<stream, late>>
    BY DEF StreamInv, FrontStep
  <2>2. stream[t].at # "idle" /\ Stale(t) => Stale(t)'
    <3>1. generation_id' \in Nat /\ generation_id \in Nat /\ my_generation[t] \in Nat
      BY <1>0, FrontIsSession, DataStep, BoundsAssumption DEF DataOK, StepsOK
    <3>2. my_generation[t] <= generation_id
      BY DEF StreamInv, CancelInv, GenerationsPast
    <3>3. stream[t].at # "idle" => pc[t] = "llm"
      BY DEF StreamsOK
    <3>4. QED
      BY <1>0, <3>1, <3>2, <3>3, FrontSparesStreams DEF Stale
  <2>3. QED
    BY <2>1, <2>2 DEF Quiet, Whole
<1>3. QED
  BY <1>1, <1>2 DEF StreamInv

\* The steps of a streaming thread touch its own stream only.
LEMMA OthersUntouched ==
    ASSUME TypeOK, StreamsOK, NEW t \in Threads, ThreadStreams(t), NEW u \in Threads \ {t}
    PROVE  stream'[u] = stream[u] /\ (u \in late' <=> u \in late)
<1> USE DEF StreamsOK, StreamAt, Send, Return, KeepSession
<1>1. CASE Leave(t)
  BY <1>1 DEF Leave
<1>2. CASE \/ BeginStream(t) \/ NumberStream(t) \/ SendStart(t)
           \/ GoPlaying(t) \/ MakeCurrent(t)
  BY <1>2 DEF BeginStream, NumberStream, SendStart, GoPlaying, MakeCurrent
<1>3. CASE ~Leave(t) /\ (Process(t) \/ LlmReturns(t) \/ CheckResult(t))
  BY <1>3 DEF Process, LlmReturns, CheckResult
<1>4. CASE Token(t) \/ SendToken(t) \/ CacheHit(t) \/ SynthesisFails(t)
  BY <1>4 DEF Token, SendToken, CacheHit, SynthesisFails
<1>5. CASE Chunk(t) \/ SendChunk(t) \/ SynthesisEnds(t) \/ SendEnd(t)
  BY <1>5 DEF Chunk, SendChunk, SynthesisEnds, SendEnd
<1>6. QED
  BY <1>1, <1>2, <1>3, <1>4, <1>5 DEF ThreadStreams, SendResult

LEMMA OwnStreamKept ==
    ASSUME TypeOK, StreamsOK, NEW t \in Threads, ThreadStreams(t), Quiet(t), Whole(t)
    PROVE  Quiet(t)' /\ Whole(t)'
<1>0. DataOK /\ StepsOK
  BY DEF TypeOK
<1>1. CASE Leave(t)
  BY <1>1 DEF Leave, StreamsOK, NoStream, Quiet, Whole
<1>2. CASE ~Leave(t)
  <2>1. UNCHANGED <<generation_id, my_generation>> /\ (Stale(t)' <=> Stale(t))
    BY <1>0, <1>2, StreamingStep
       DEF Leave, genVars, threads, Stale, ThreadStreams, BeginStream, NumberStream, SendStart,
           GoPlaying, MakeCurrent, Process, Token, SendToken, LlmReturns, CacheHit,
           SynthesisFails, Chunk, SendChunk, SynthesisEnds, SendEnd, CheckResult, SendResult,
           KeepSession
  <2>2. stream[t] \in Stream /\ stream \in [Threads -> Stream]
    BY DEF StreamsOK
  <2> USE DEF Quiet, Whole, Sending, StreamAt, Send, Stream
  <2>3. CASE BeginStream(t)
    BY <2>1, <2>2, <2>3 DEF BeginStream, NoStream
  <2>4. CASE NumberStream(t) \/ SendStart(t) \/ GoPlaying(t) \/ MakeCurrent(t)
    BY <2>1, <2>2, <2>4 DEF NumberStream, SendStart, GoPlaying, MakeCurrent
  <2>5. CASE Process(t) \/ LlmReturns(t) \/ CheckResult(t)
    BY <1>2, <2>1, <2>2, <2>5 DEF Process, LlmReturns, CheckResult
  <2>6. CASE Token(t) \/ SendToken(t)
    BY <2>1, <2>2, <2>6 DEF Token, SendToken
  <2>7. CASE CacheHit(t) \/ SynthesisFails(t)
    BY <2>1, <2>2, <2>7, ReturnedStream DEF CacheHit, SynthesisFails
  <2>8. CASE Chunk(t)
    BY <2>1, <2>2, <2>8, ChunksAssumption DEF Chunk
  <2>9. CASE SendChunk(t)
    BY <2>1, <2>2, <2>9, ChunksAssumption DEF SendChunk
  <2>10. CASE SynthesisEnds(t) \/ SendEnd(t)
    BY <2>1, <2>2, <2>10, ReturnedStream DEF SynthesisEnds, SendEnd
  <2>11. QED
    BY <1>2, <2>3, <2>4, <2>5, <2>6, <2>7, <2>8, <2>9, <2>10 DEF ThreadStreams, SendResult
<1>3. QED
  BY <1>1, <1>2

LEMMA StreamInvStep ==
    TypeOK /\ StreamsOK /\ StreamInv /\ [StreamNext]_streamVars => StreamInv'
<1> SUFFICES ASSUME TypeOK, StreamsOK, StreamInv, [StreamNext]_streamVars
             PROVE  StreamInv'
  OBVIOUS
<1>0. DataOK /\ StepsOK
  BY DEF TypeOK
<1>1. CASE FrontStep
  BY <1>1, FrontKeepsStreamInv
<1>2. ASSUME NEW t \in Threads, ThreadStreams(t)
      PROVE  StreamInv'
  <2>1. UNCHANGED genVars /\ (UNCHANGED threads \/ Exit(t))
    BY <1>0, <1>2, StreamingStep
  <2>2. CancelInv'
    <3>1. generation_id \in Nat
      BY <1>0, BoundsAssumption DEF DataOK
    <3>2. QED
      BY <1>0, <1>2, <2>1, <3>1, StreamingStep
         DEF StreamInv, CancelInv, GenerationsPast, NoSpuriousCancel, Stale, Overtaking, Exit,
             Goto, genVars, threads, StepsOK
  <2>3. ASSUME NEW u \in Threads \ {t} PROVE Quiet(u)' /\ Whole(u)'
    <3>1. stream'[u] = stream[u] /\ (u \in late' <=> u \in late)
      BY <1>2, OthersUntouched
    <3>2. Stale(u)' <=> Stale(u)
      BY <1>0, <1>2, <2>1, StreamingStep DEF Stale, genVars
    <3>3. QED
      BY <3>1, <3>2 DEF StreamInv, Quiet, Whole
  <2>4. Quiet(t)' /\ Whole(t)'
    BY <1>2, OwnStreamKept DEF StreamInv
  <2>5. QED
    BY <2>2, <2>3, <2>4 DEF StreamInv
<1>3. CASE UNCHANGED streamVars
  BY <1>3 DEF streamVars, vars, genVars, threads, StreamInv, CancelInv, GenerationsPast,
              NoSpuriousCancel, Stale, Overtaking, Quiet, Whole
<1>4. QED
  BY <1>1, <1>2, <1>3, StreamSteps

LEMMA StreamInvAlways == StreamSpec => [](StreamsOK /\ StreamInv)
<1>1. StreamInit => TypeOK /\ StreamsOK /\ StreamInv
  <2>1. StreamInit => TypeOK /\ StreamsOK
    BY StreamTypesInit
  <2>2. StreamInit => StreamInv
    BY DEF StreamInit, StreamInv, Init, CancelInv, GenerationsPast, NoSpuriousCancel,
           Quiet, Whole, NoStream
  <2>3. QED
    BY <2>1, <2>2
<1>2. /\ TypeOK /\ StreamsOK /\ StreamInv /\ [StreamNext]_streamVars
      => (TypeOK /\ StreamsOK /\ StreamInv)'
  BY SessionTypesStep, StreamsStep, StreamInvStep
<1>3. QED
  BY <1>1, <1>2, PTL DEF StreamSpec

\* A thread that is overtaken after it has announced its stream sends at most one
\* more frame, for any number of threads, generations and chunks.
THEOREM OvertakenIsSilent == StreamSpec => []OvertakenFallsSilent
<1>1. StreamsOK /\ StreamInv => OvertakenFallsSilent
  BY DEF StreamsOK, StreamInv, Quiet, Sending, OvertakenFallsSilent
<1>2. QED
  BY <1>1, StreamInvAlways, PTL

\* The end of a stream announces all that was synthesised for it, for any number
\* of threads, generations and chunks.
THEOREM EndTellsAll == StreamSpec => []EndTellsWhatWasMade
<1>1. StreamInv => EndTellsWhatWasMade
  BY DEF StreamInv, Whole, EndTellsWhatWasMade
<1>2. QED
  BY <1>1, StreamInvAlways, PTL

\* With streaming too, the shared cancel flag hits the thread of the current
\* utterance only while whoever raised it stands before the increment that
\* overtakes the thread.
THEOREM StreamsNeverSpuriouslyCancelled == StreamSpec => []NoSpuriousCancel
<1>1. StreamInv => NoSpuriousCancel
  BY DEF StreamInv, CancelInv
<1>2. QED
  BY <1>1, StreamInvAlways, PTL
=============================================================================
