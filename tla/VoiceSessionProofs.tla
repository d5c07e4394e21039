------------------------- MODULE VoiceSessionProofs -------------------------
(***************************************************************************)
(* Machine-checked proofs about VoiceSession, for every set of threads and *)
(* every value of the bounds.                                              *)
(***************************************************************************)
EXTENDS VoiceSession, TLAPS

\* Every step keeps the boolean flags boolean.
LEMMA FlagsStep == FlagsOK /\ [Next]_vars => FlagsOK'
<1> SUFFICES ASSUME FlagsOK, [Next]_vars
             PROVE  FlagsOK'
  OBVIOUS
<1> USE DEF FlagsOK, genVars, asrVars, ttsVars, threads
<1>1. CASE MessageArrives
  BY <1>1 DEF MessageArrives, StartPush, Completed, StartedResetAsr, TtsStateEnded,
              Interrupt, StopTts, NewGeneration
<1>2. CASE MessageStep
  BY <1>2 DEF MessageStep, StartGeneration, InterruptGeneration, StopGeneration,
              NewGeneration, StartResetAsr, StartStreaming, StartAudioPull,
              CompletedNext, StartedPlaying, InterruptClearQueue,
              InterruptClearCurrent, InterruptResetAsr, StopClearQueue, StopFinish,
              ResetAsr
<1>3. CASE AudioStepTaken
  BY <1>3 DEF AudioStepTaken, AudioCheck, AudioSpeech, AudioInterrupt,
              AudioGoesOn, AudioCancel, AudioGeneration, AudioClearQueue,
              AudioClearCurrent, AudioBetween, AudioSilence, AudioFinalize, Overflow,
              NewGeneration
<1>4. ASSUME NEW t \in Threads, ThreadStepTaken(t)
      PROVE  FlagsOK'
  BY <1>4 DEF ThreadStepTaken, Capture, Arm, BeginAsr, EndAsr, CheckAfterAsr,
              CheckDedup, Trigger, CheckBeforeLlm, Llm, Synthesize, CheckBeforeSend,
              SendText, Deliver, SetCurrent, ResetAsr
<1>5. CASE UNCHANGED vars
  BY <1>5 DEF vars
<1>6. QED
  BY <1>1, <1>2, <1>3, <1>4, <1>5 DEF Next

\* Every step keeps the counters, the state and the queue in range.
LEMMA DataStep == DataOK /\ StepsOK /\ [Next]_vars => DataOK'
<1> SUFFICES ASSUME DataOK, StepsOK, [Next]_vars
             PROVE  DataOK'
  OBVIOUS
<1> USE ThresholdAssumption, BoundsAssumption
    DEF DataOK, SessionState, genVars, asrVars, ttsVars, threads
<1>1. CASE MessageArrives
  BY <1>1 DEF MessageArrives, StartPush, Completed, StartedResetAsr, TtsStateEnded,
              Interrupt, StopTts, NewGeneration
<1>2. CASE MessageStep
  <2>1. CASE CompletedNext
    <3>1. tts_queue' \in Seq(TtsItem)
      BY <2>1 DEF CompletedNext
    <3>2. CASE Len(tts_queue) > 1
      <4>1. NextReply \in TtsItem
        BY <3>2 DEF NextReply
      <4>2. current_tts_id' \in Nat
        BY <2>1, <3>2, <4>1 DEF CompletedNext, TtsItem
      <4>3. QED
        BY <2>1, <3>1, <3>2, <4>2 DEF CompletedNext
    <3>3. CASE ~(Len(tts_queue) > 1)
      BY <2>1, <3>1, <3>3 DEF CompletedNext
    <3>4. QED
      BY <3>2, <3>3
  <2>2. CASE StartResetAsr \/ StartStreaming \/ StartAudioPull \/ StartedPlaying
    BY <2>2 DEF StartResetAsr, StartStreaming, StartAudioPull, StartedPlaying,
                ResetAsr
  <2>3. CASE InterruptClearQueue
    BY <2>3 DEF InterruptClearQueue
  <2>4. CASE StopClearQueue
    BY <2>4 DEF StopClearQueue
  <2>5. CASE InterruptClearCurrent \/ InterruptResetAsr \/ StopFinish
    BY <2>5 DEF InterruptClearCurrent, InterruptResetAsr, StopFinish, ResetAsr
  <2>6. CASE StartGeneration \/ InterruptGeneration \/ StopGeneration
    BY <2>6 DEF StartGeneration, InterruptGeneration, StopGeneration, NewGeneration
  <2>7. QED
    BY <1>2, <2>1, <2>2, <2>3, <2>4, <2>5, <2>6 DEF MessageStep
<1>3. CASE AudioStepTaken
  <2>1. SilenceCount \in 0 .. SilenceFramesThreshold
    BY DEF SilenceCount
  <2>2. CASE AudioSilence \/ \E t \in Threads : AudioFinalize(t)
    BY <2>1, <2>2 DEF AudioSilence, AudioFinalize
  <2>3. CASE AudioInterrupt \/ AudioCancel \/ AudioGeneration
    BY <2>3 DEF AudioInterrupt, AudioCancel, AudioGeneration, NewGeneration
  <2>4. CASE AudioCheck \/ AudioSpeech
    BY <2>4 DEF AudioCheck, AudioSpeech
  <2>5. CASE AudioBetween
    BY <2>5 DEF AudioBetween
  <2>6. CASE AudioClearQueue
    BY <2>6 DEF AudioClearQueue
  <2>7. CASE AudioClearCurrent
    BY <2>7 DEF AudioClearCurrent
  <2>8. QED
    BY <1>3, <2>2, <2>3, <2>4, <2>5, <2>6, <2>7 DEF AudioStepTaken, AudioGoesOn
<1>4. ASSUME NEW t \in Threads, ThreadStepTaken(t)
      PROVE  DataOK'
  <2>1. CASE Deliver(t)
    <3>1. [id |-> tts_seq', gen |-> my_generation[t]] \in TtsItem
      BY <2>1 DEF Deliver, TtsItem, StepsOK
    <3>2. QED
      BY <2>1, <3>1 DEF Deliver, Enqueue
  <2>2. CASE Arm(t) \/ EndAsr(t) \/ SetCurrent(t)
    BY <2>2 DEF Arm, EndAsr, SetCurrent, ResetAsr
  <2>3. CASE ~(Deliver(t) \/ Arm(t) \/ EndAsr(t) \/ SetCurrent(t))
    BY <1>4, <2>3 DEF ThreadStepTaken, Capture, BeginAsr, CheckAfterAsr, CheckDedup,
              Trigger, CheckBeforeLlm, Llm, Synthesize, CheckBeforeSend, SendText
  <2>4. QED
    BY <2>1, <2>2, <2>3
<1>5. CASE UNCHANGED vars
  BY <1>5 DEF vars
<1>6. QED
  BY <1>1, <1>2, <1>3, <1>4, <1>5 DEF Next

\* Every step moves each actor to one of its steps.
LEMMA StepsStep == DataOK /\ StepsOK /\ [Next]_vars => StepsOK'
<1> SUFFICES ASSUME DataOK, StepsOK, [Next]_vars
             PROVE  StepsOK'
  OBVIOUS
<1> USE BoundsAssumption
    DEF StepsOK, WsStep, AudioStep, genVars, asrVars, ttsVars, threads
<1>1. CASE MessageArrives
  BY <1>1 DEF MessageArrives, StartPush, Completed, StartedResetAsr, TtsStateEnded,
              Interrupt, StopTts
<1>2. CASE MessageStep
  BY <1>2 DEF MessageStep, StartGeneration, InterruptGeneration, StopGeneration,
              NewGeneration, StartResetAsr, StartStreaming, StartAudioPull,
              CompletedNext, StartedPlaying, InterruptClearQueue,
              InterruptClearCurrent, InterruptResetAsr, StopClearQueue, StopFinish
<1>3. CASE AudioStepTaken
  BY <1>3 DEF AudioStepTaken, AudioCheck, AudioSpeech, AudioInterrupt,
              AudioGoesOn, AudioCancel, AudioGeneration, AudioClearQueue,
              AudioClearCurrent, AudioBetween, AudioSilence, AudioFinalize,
              ThreadStep, Waiting
<1>4. ASSUME NEW t \in Threads, ThreadStepTaken(t)
      PROVE  StepsOK'
  <2> USE DEF Goto, Exit, ThreadStep, Waiting, Answering
  <2>1. CASE Capture(t)
    BY <2>1 DEF Capture, DataOK
  <2>2. CASE Arm(t) \/ BeginAsr(t) \/ EndAsr(t)
    BY <2>2 DEF Arm, BeginAsr, EndAsr
  <2>3. CASE CheckAfterAsr(t) \/ CheckDedup(t) \/ Trigger(t) \/ CheckBeforeLlm(t)
    BY <2>3 DEF CheckAfterAsr, CheckDedup, Trigger, CheckBeforeLlm
  <2>4. CASE Llm(t) \/ Synthesize(t)
    BY <2>4 DEF Llm, Synthesize
  <2>5. CASE CheckBeforeSend(t) \/ SendText(t) \/ Deliver(t) \/ SetCurrent(t)
    BY <2>5 DEF CheckBeforeSend, SendText, Deliver, SetCurrent
  <2>6. QED
    BY <1>4, <2>1, <2>2, <2>3, <2>4, <2>5 DEF ThreadStepTaken
<1>5. CASE UNCHANGED vars
  BY <1>5 DEF vars
<1>6. QED
  BY <1>1, <1>2, <1>3, <1>4, <1>5 DEF Next

LEMMA InitTypes == Init => TypeOK
<1> SUFFICES ASSUME Init PROVE TypeOK
  OBVIOUS
<1> USE ThresholdAssumption, BoundsAssumption DEF Init
<1>1. FlagsOK
  BY DEF FlagsOK
<1>2. DataOK
  BY DEF DataOK, SessionState
<1>3. StepsOK
  BY DEF StepsOK, WsStep, AudioStep, ThreadStep
<1>4. QED
  BY <1>1, <1>2, <1>3 DEF TypeOK

\* The session keeps its types in every run: no handler and no thread leaves it
\* in a state, or stands at a step, that the others do not know.
THEOREM TypeCorrect == Spec => []TypeOK
<1>1. TypeOK /\ [Next]_vars => TypeOK'
  BY FlagsStep, DataStep, StepsStep DEF TypeOK
<1>2. QED
  BY InitTypes, <1>1, PTL DEF Spec

-----------------------------------------------------------------------------
\* A thread that leaves Waiting re-opens the gate in the same step, and no other
\* step of a thread touches the gate.
LEMMA ThreadKeepsUtterance ==
    ASSUME StepsOK, ClosedUtteranceHasThread, NEW t \in Threads, ThreadStepTaken(t)
    PROVE  ClosedUtteranceHasThread'
<1> USE DEF ClosedUtteranceHasThread, genVars, asrVars, ttsVars, threads
<1>1. CASE EndAsr(t)
  BY <1>1 DEF EndAsr, ResetAsr
<1>2. CASE Capture(t) \/ Arm(t) \/ BeginAsr(t)
  <2>1. pc'[t] \in Waiting
    BY <1>2 DEF Capture, Arm, BeginAsr, Goto, Waiting, StepsOK
  <2>2. QED
    BY <2>1
<1>3. CASE ~(EndAsr(t) \/ Capture(t) \/ Arm(t) \/ BeginAsr(t))
  <2>1. pc[t] \notin Waiting
    BY <1>3 DEF ThreadStepTaken, CheckAfterAsr, CheckDedup, Trigger,
          CheckBeforeLlm, Llm, Synthesize, CheckBeforeSend, SendText, Deliver,
          SetCurrent, Waiting
  <2>2. UNCHANGED asr_finalized
    BY <1>3 DEF ThreadStepTaken, CheckAfterAsr, CheckDedup, Trigger,
          CheckBeforeLlm, Llm, Synthesize, CheckBeforeSend, SendText, Deliver,
          SetCurrent
  <2>3. \A u \in Threads : u # t => pc'[u] = pc[u]
    BY <1>3 DEF ThreadStepTaken, CheckAfterAsr, CheckDedup, Trigger,
          CheckBeforeLlm, Llm, Synthesize, CheckBeforeSend, SendText, Deliver,
          SetCurrent, Goto, Exit, StepsOK
  <2>4. QED
    BY <2>1, <2>2, <2>3
<1>4. QED
  BY <1>1, <1>2, <1>3

\* Handlers open the gate if they touch it; the callback shuts it and starts a
\* thread for the utterance in one step.
LEMMA UtteranceStaysHeld ==
    ASSUME StepsOK, ClosedUtteranceHasThread, [Next]_vars
    PROVE  ClosedUtteranceHasThread'
<1> USE DEF ClosedUtteranceHasThread, genVars, asrVars, ttsVars, threads
<1>1. CASE MessageArrives
  BY <1>1 DEF MessageArrives, StartPush, Completed, StartedResetAsr, TtsStateEnded,
              Interrupt, StopTts
<1>2. CASE MessageStep
  BY <1>2 DEF MessageStep, StartGeneration, InterruptGeneration, StopGeneration,
              NewGeneration, StartResetAsr, StartStreaming, StartAudioPull,
              CompletedNext, StartedPlaying, InterruptClearQueue,
              InterruptClearCurrent, InterruptResetAsr, StopClearQueue, StopFinish,
              ResetAsr
<1>3. CASE AudioStepTaken
  <2>1. ASSUME NEW t \in Threads, AudioFinalize(t)
        PROVE  ClosedUtteranceHasThread'
    <3>1. pc'[t] = "born"
      BY <2>1 DEF AudioFinalize, StepsOK
    <3>2. QED
      BY <3>1 DEF Waiting
  <2>2. CASE AudioCheck \/ AudioSpeech \/ AudioInterrupt \/ AudioClearQueue
    BY <2>2 DEF AudioCheck, AudioSpeech, AudioInterrupt, AudioClearQueue, Overflow
  <2>3. CASE AudioClearCurrent \/ AudioBetween \/ AudioSilence
    BY <2>3 DEF AudioClearCurrent, AudioBetween, AudioSilence, Overflow
  <2>4. CASE AudioCancel \/ AudioGeneration
    BY <2>4 DEF AudioCancel, AudioGeneration
  <2>5. QED
    BY <1>3, <2>1, <2>2, <2>3, <2>4 DEF AudioStepTaken, AudioGoesOn
<1>4. QED
  BY ThreadKeepsUtterance, <1>1, <1>2, <1>3 DEF Next, vars

\* A closed utterance is always in the hands of a thread that has yet to empty
\* the ASR buffer: the gate asr_finalized cannot stay shut with nobody left to
\* open it, however handlers, overflows and threads interleave.
THEOREM ClosedUtteranceIsHeld == Spec => []ClosedUtteranceHasThread
<1>1. Init => ClosedUtteranceHasThread
  BY DEF Init, ClosedUtteranceHasThread
<1>2. TypeOK => StepsOK
  BY DEF TypeOK
<1>3. QED
  BY <1>1, <1>2, UtteranceStaysHeld, TypeCorrect, PTL DEF Spec

-----------------------------------------------------------------------------
\* No thread belongs to a generation still to come.
GenerationsPast == \A t \in Threads : my_generation[t] <= generation_id

\* NoSpuriousCancel is not inductive by itself: raising the flag must make
\* every running thread stale, which holds because their generations are past.
CancelInv == GenerationsPast /\ NoSpuriousCancel

LEMMA NewGenerationStales ==
    ASSUME DataOK, StepsOK, GenerationsPast, NewGeneration("fetch_add"),
           UNCHANGED threads
    PROVE  CancelInv'
<1>1. generation_id \in Nat /\ \A t \in Threads : my_generation[t] \in Nat
  BY BoundsAssumption DEF DataOK, StepsOK
<1>2. \A t \in Threads : my_generation'[t] < generation_id'
  BY <1>1 DEF NewGeneration, GenerationsPast, threads
<1>3. \A t \in Threads : my_generation'[t] \in Nat
  BY <1>1 DEF threads
<1>4. generation_id' \in Nat
  BY <1>1 DEF NewGeneration
<1>5. QED
  BY <1>2, <1>3, <1>4 DEF CancelInv, GenerationsPast, NoSpuriousCancel, Stale

LEMMA CancelStep == DataOK /\ StepsOK /\ CancelInv /\ [Next]_vars => CancelInv'
<1> SUFFICES ASSUME DataOK, StepsOK, CancelInv, [Next]_vars
             PROVE  CancelInv'
  OBVIOUS
<1>0. CASE UNCHANGED <<genVars, threads>> /\ (Overtaking => Overtaking')
  BY <1>0 DEF genVars, threads, CancelInv, GenerationsPast, NoSpuriousCancel, Stale
<1>1. CASE NewGeneration("fetch_add") /\ UNCHANGED threads
  BY <1>1, NewGenerationStales DEF CancelInv
<1>8. CASE NewGeneration("store") /\ UNCHANGED threads /\ Overtaking'
  BY <1>8 DEF NewGeneration, threads, CancelInv, GenerationsPast, NoSpuriousCancel
<1>2. CASE MessageArrives
  BY <1>0, <1>8, <1>2 DEF MessageArrives, StartPush, Completed, StartedResetAsr,
          TtsStateEnded, Interrupt, StopTts, threads, Overtaking
<1>3. CASE MessageStep
  BY <1>0, <1>1, <1>3 DEF MessageStep, StartGeneration, InterruptGeneration,
          StopGeneration, StartResetAsr, StartStreaming, StartAudioPull,
          CompletedNext, StartedPlaying, InterruptClearQueue, InterruptClearCurrent,
          InterruptResetAsr, StopClearQueue, StopFinish, Overtaking
<1>4. CASE AudioStepTaken
  <2>1. ASSUME NEW t \in Threads, AudioFinalize(t)
        PROVE  CancelInv'
    BY <2>1 DEF AudioFinalize, StepsOK, genVars, CancelInv, GenerationsPast,
            NoSpuriousCancel, Stale, Overtaking
  <2>2. CASE AudioCancel \/ AudioGeneration
    BY <1>1, <1>8, <2>2 DEF AudioCancel, AudioGeneration, Overtaking
  <2>3. QED
    BY <1>0, <1>4, <2>1, <2>2 DEF AudioStepTaken, AudioCheck, AudioSpeech,
          AudioInterrupt, AudioGoesOn, AudioClearQueue, AudioClearCurrent,
          AudioBetween, AudioSilence, Overtaking
<1>5. ASSUME NEW t \in Threads, ThreadStepTaken(t)
      PROVE  CancelInv'
  <2>1. CASE Capture(t)
    <3>1. generation_id \in Nat
      BY BoundsAssumption DEF DataOK
    <3>2. QED
      BY <2>1, <3>1 DEF Capture, Goto, StepsOK, genVars, CancelInv,
            GenerationsPast, NoSpuriousCancel, Stale, Overtaking
  <2>2. CASE Arm(t)
    BY <2>2 DEF Arm, CancelInv, GenerationsPast, NoSpuriousCancel
  <2>3. CASE ~(Capture(t) \/ Arm(t))
    <3>1. /\ UNCHANGED <<genVars, ws, audio>>
          /\ pc[t] \notin {"none", "born", "arm"}
      BY <1>5, <2>3 DEF ThreadStepTaken, BeginAsr, EndAsr, CheckAfterAsr,
            CheckDedup, Trigger, CheckBeforeLlm, Llm, Synthesize, CheckBeforeSend,
            SendText, Deliver, SetCurrent
    <3>2. Exit(t) \/ \E step \in ThreadStep : Goto(t, step) /\ UNCHANGED my_generation
      BY <1>5, <2>3 DEF ThreadStepTaken, BeginAsr, EndAsr, CheckAfterAsr,
            CheckDedup, Trigger, CheckBeforeLlm, Llm, Synthesize, CheckBeforeSend,
            SendText, Deliver, SetCurrent, ThreadStep, Waiting, Answering
    <3>3. generation_id \in Nat
      BY BoundsAssumption DEF DataOK
    <3>4. CASE Exit(t)
      BY <3>1, <3>3, <3>4 DEF Exit, Goto, StepsOK, genVars, CancelInv,
            GenerationsPast, NoSpuriousCancel, Stale, Overtaking
    <3>5. CASE \E step \in ThreadStep : Goto(t, step) /\ UNCHANGED my_generation
      BY <3>1, <3>5 DEF Goto, StepsOK, genVars, CancelInv, GenerationsPast,
            NoSpuriousCancel, Stale, Overtaking
    <3>6. QED
      BY <3>2, <3>4, <3>5
  <2>4. QED
    BY <2>1, <2>2, <2>3
<1>6. CASE UNCHANGED vars
  BY <1>0, <1>6 DEF vars, Overtaking
<1>7. QED
  BY <1>2, <1>3, <1>4, <1>5, <1>6 DEF Next

\* A thread of the current generation that has armed itself sees the cancel flag
\* raised only while whoever raised it stands before the increment that overtakes
\* the thread, whatever other threads of the session do to the flag.
THEOREM CancelIsNeverSpurious == Spec => []NoSpuriousCancel
<1>1. Init => CancelInv
  BY DEF Init, CancelInv, GenerationsPast, NoSpuriousCancel
<1>2. DataOK /\ StepsOK /\ CancelInv /\ [Next]_vars => CancelInv'
  BY CancelStep
<1>3. TypeOK => DataOK /\ StepsOK
  BY DEF TypeOK
<1>4. CancelInv => NoSpuriousCancel
  BY DEF CancelInv
<1>5. QED
  BY <1>1, <1>2, <1>3, <1>4, TypeCorrect, PTL DEF Spec

-----------------------------------------------------------------------------
\* Dropping the head of an ordered queue leaves it ordered.
LEMMA TailInOrder ==
    ASSUME DataOK, QueueInOrder, tts_queue # <<>>,
           tts_queue' = Tail(tts_queue), UNCHANGED tts_seq
    PROVE  QueueInOrder'
<1>1. /\ Len(tts_queue') = Len(tts_queue) - 1
      /\ \A i \in 1 .. Len(tts_queue') : tts_queue'[i] = tts_queue[i + 1]
      /\ tts_queue \in Seq(TtsItem) /\ tts_queue' \in Seq(TtsItem)
  BY DEF DataOK
<1>2. DOMAIN tts_queue = 1 .. Len(tts_queue) /\ DOMAIN tts_queue' = 1 .. Len(tts_queue')
  BY <1>1
<1>3. \A i \in DOMAIN tts_queue' :
          i + 1 \in DOMAIN tts_queue /\ tts_queue'[i] = tts_queue[i + 1]
  BY <1>1, <1>2
<1>4. \A i, j \in DOMAIN tts_queue' : i < j => i + 1 < j + 1
  BY <1>2
<1>5. QED
  BY <1>3, <1>4 DEF QueueInOrder

\* Appending the reply whose id has just been drawn leaves it ordered.
LEMMA EnqueueInOrder ==
    ASSUME DataOK, StepsOK, QueueInOrder, NEW t \in Threads, Deliver(t)
    PROVE  QueueInOrder'
<1> DEFINE item == [id |-> tts_seq', gen |-> my_generation[t]]
<1>1. /\ tts_seq' = tts_seq + 1
      /\ tts_queue' = Append(tts_queue, item)
      /\ tts_queue \in Seq(TtsItem)
      /\ tts_seq \in Nat
  BY DEF Deliver, Enqueue, DataOK
<1>2. item \in TtsItem /\ item.id = tts_seq + 1
  BY <1>1 DEF TtsItem, StepsOK
<1>3. /\ Len(tts_queue') = Len(tts_queue) + 1
      /\ \A i \in 1 .. Len(tts_queue) : tts_queue'[i] = tts_queue[i]
      /\ tts_queue'[Len(tts_queue) + 1] = item
      /\ tts_queue' \in Seq(TtsItem)
      /\ Len(tts_queue) \in Nat
  BY <1>1, <1>2
<1>4. /\ DOMAIN tts_queue = 1 .. Len(tts_queue)
      /\ DOMAIN tts_queue' = 1 .. Len(tts_queue) + 1
  BY <1>1, <1>3
<1>5. \A i \in DOMAIN tts_queue : tts_queue[i].id \in Nat
  <2> TAKE i \in DOMAIN tts_queue
  <2>1. tts_queue[i] \in TtsItem
    BY <1>1, <1>3, <1>4
  <2>2. QED
    BY <2>1 DEF TtsItem
<1>6. \A i \in DOMAIN tts_queue' : tts_queue'[i].id <= tts_seq'
  <2> TAKE i \in DOMAIN tts_queue'
  <2>1. CASE i = Len(tts_queue) + 1
    BY <1>1, <1>2, <1>3, <2>1
  <2>2. CASE i \in 1 .. Len(tts_queue)
    BY <1>1, <1>3, <1>4, <1>5, <2>2 DEF QueueInOrder
  <2>3. QED
    BY <1>3, <1>4, <2>1, <2>2
<1>7. \A i, j \in DOMAIN tts_queue' : i < j => tts_queue'[i].id < tts_queue'[j].id
  <2> SUFFICES ASSUME NEW i \in DOMAIN tts_queue', NEW j \in DOMAIN tts_queue', i < j
               PROVE  tts_queue'[i].id < tts_queue'[j].id
    OBVIOUS
  <2>1. i \in 1 .. Len(tts_queue) /\ tts_queue'[i] = tts_queue[i]
    BY <1>3, <1>4
  <2>2. CASE j = Len(tts_queue) + 1
    BY <1>1, <1>2, <1>3, <1>4, <1>5, <2>1, <2>2 DEF QueueInOrder
  <2>3. CASE j \in 1 .. Len(tts_queue)
    BY <1>3, <1>4, <2>1, <2>3 DEF QueueInOrder
  <2>4. QED
    BY <1>3, <1>4, <2>2, <2>3
<1>8. QED
  BY <1>6, <1>7 DEF QueueInOrder

\* CurrentIsLive is inductive once it is known what a completion report may
\* find between its two steps: nothing, or the newest reply.
CurrentInv ==
    /\ CurrentIsLive
    /\ ws = "completed_next" => \/ current_tts_id \in {0, tts_seq}
                                \/ ~TtsFree

QueueInv == QueueInOrder /\ CurrentInv

LEMMA QueueStep == DataOK /\ StepsOK /\ QueueInv /\ [Next]_vars => QueueInv'
<1> SUFFICES ASSUME DataOK, StepsOK, QueueInv, [Next]_vars
             PROVE  QueueInv'
  OBVIOUS
<1> USE DEF QueueInv
<1>0. CASE UNCHANGED <<ttsVars, pc, ws, audio>>
  BY <1>0 DEF ttsVars, QueueInOrder, CurrentInv, CurrentIsLive, TtsFree
<1>1. CASE UNCHANGED <<ttsVars, pc, audio>> /\ ws' # "completed_next"
           /\ ws \notin {"interrupt_current", "stop_finish"}
  <2>1. QueueInOrder'
    BY <1>1 DEF ttsVars, QueueInOrder
  <2>2. CurrentIsLive'
    BY <1>1 DEF ttsVars, CurrentInv, CurrentIsLive, TtsFree
  <2>3. QED
    BY <1>1, <2>1, <2>2 DEF CurrentInv
<1>2. CASE UNCHANGED <<ttsVars, pc, ws>> /\ audio # "clear_current"
  BY <1>2 DEF ttsVars, QueueInOrder, CurrentInv, CurrentIsLive, TtsFree
<1>3. ASSUME tts_queue' = <<>>, UNCHANGED <<tts_seq, current_tts_id, pc>>,
             \/ ws' \in {"interrupt_current", "stop_finish"} /\ UNCHANGED audio
             \/ audio' = "clear_current" /\ UNCHANGED ws
      PROVE  QueueInv'
  BY <1>3 DEF QueueInOrder, CurrentInv, CurrentIsLive, TtsFree
<1>4. ASSUME current_tts_id' = 0, UNCHANGED <<tts_queue, tts_seq, pc>>
      PROVE  QueueInv'
  BY <1>4 DEF QueueInOrder, CurrentInv, CurrentIsLive
<1>5. CASE MessageArrives
  BY <1>0, <1>1, <1>4, <1>5 DEF MessageArrives, StartPush, Completed, StartedResetAsr,
          TtsStateEnded, Interrupt, StopTts, threads, ttsVars
<1>6. CASE CompletedNext
  <2>1. ws = "completed_next" /\ ws' = "idle" /\ TtsFree /\ UNCHANGED <<tts_seq, pc>>
    BY <1>6 DEF CompletedNext, threads
  <2>2. current_tts_id \in {0, tts_seq}
    BY <2>1 DEF CurrentInv
  <2>3. QueueInOrder'
    <3>1. CASE tts_queue = <<>>
      BY <1>6, <2>1, <3>1 DEF CompletedNext, QueueInOrder
    <3>2. CASE tts_queue # <<>>
      BY <1>6, <2>1, <3>2, TailInOrder DEF CompletedNext
    <3>3. QED
      BY <3>1, <3>2
  <2>4. CASE Len(tts_queue) > 1
    <3>1. /\ tts_queue # <<>>
          /\ tts_queue' = Tail(tts_queue)
          /\ current_tts_id' = tts_queue[2].id
      BY <1>6, <2>4 DEF CompletedNext, NextReply, DataOK
    <3>2. 1 \in DOMAIN tts_queue' /\ tts_queue'[1] = tts_queue[2]
      BY <2>4, <3>1 DEF DataOK
    <3>3. QED
      BY <2>1, <2>3, <3>1, <3>2 DEF CurrentInv, CurrentIsLive
  <2>5. CASE ~(Len(tts_queue) > 1)
    BY <1>6, <2>1, <2>2, <2>3, <2>5 DEF CompletedNext, CurrentInv, CurrentIsLive
  <2>6. QED
    BY <2>4, <2>5
<1>7. CASE \/ StartResetAsr \/ StartStreaming \/ StartAudioPull \/ StartedPlaying
           \/ StartGeneration \/ InterruptGeneration \/ StopGeneration
           \/ InterruptResetAsr
  BY <1>1, <1>7 DEF StartResetAsr, StartStreaming, StartAudioPull, StartedPlaying,
          StartGeneration, InterruptGeneration, StopGeneration, InterruptResetAsr,
          threads
<1>8. CASE InterruptClearQueue \/ StopClearQueue \/ AudioClearQueue
  BY <1>3, <1>8 DEF InterruptClearQueue, StopClearQueue, AudioClearQueue, threads
<1>9. CASE InterruptClearCurrent \/ StopFinish \/ AudioClearCurrent
  BY <1>4, <1>9 DEF InterruptClearCurrent, StopFinish, AudioClearCurrent, threads
<1>10. CASE \/ AudioCheck \/ AudioSpeech \/ AudioInterrupt \/ AudioCancel
            \/ AudioGeneration \/ AudioBetween \/ AudioSilence
  BY <1>2, <1>10 DEF AudioCheck, AudioSpeech, AudioInterrupt, AudioCancel,
          AudioGeneration, AudioBetween, AudioSilence, threads
<1>11. ASSUME NEW t \in Threads, AudioFinalize(t)
       PROVE  QueueInv'
  <2>1. TtsFree' = TtsFree
    BY <1>11 DEF AudioFinalize, TtsFree, StepsOK
  <2>2. QED
    BY <1>11, <2>1 DEF AudioFinalize, ttsVars, QueueInOrder, CurrentInv, CurrentIsLive
<1>12. ASSUME NEW t \in Threads, ThreadStepTaken(t)
       PROVE  QueueInv'
  <2>1. CASE Deliver(t)
    <3>1. ~TtsFree'
      BY <2>1 DEF Deliver, Goto, TtsFree, StepsOK
    <3>2. QED
      BY <2>1, <3>1, EnqueueInOrder DEF CurrentInv, CurrentIsLive
  <2>2. CASE SetCurrent(t)
    BY <2>2 DEF SetCurrent, QueueInOrder, CurrentInv, CurrentIsLive
  <2>3. CASE ~(Deliver(t) \/ SetCurrent(t))
    <3>1. /\ UNCHANGED <<ttsVars, ws, audio>>
          /\ pc[t] # "set_current"
          /\ \E step \in ThreadStep \ {"set_current"} : Goto(t, step)
      BY <1>12, <2>3 DEF ThreadStepTaken, Capture, Arm, BeginAsr, EndAsr,
            CheckAfterAsr, CheckDedup, Trigger, CheckBeforeLlm, Llm, Synthesize,
            CheckBeforeSend, SendText, Exit, ThreadStep, Waiting, Answering
    <3>2. TtsFree' = TtsFree
      BY <3>1 DEF TtsFree, Goto, StepsOK
    <3>3. QED
      BY <3>1, <3>2 DEF ttsVars, QueueInOrder, CurrentInv, CurrentIsLive
  <2>4. QED
    BY <2>1, <2>2, <2>3
<1>13. CASE UNCHANGED vars
  BY <1>0, <1>13 DEF vars, threads
<1>14. QED
  BY <1>5, <1>6, <1>7, <1>8, <1>9, <1>10, <1>11, <1>12, <1>13
     DEF Next, MessageStep, AudioStepTaken, AudioGoesOn

\* Replies are queued in the order of their ids, and the id a barge-in falls
\* back on is never one that is both gone from the queue and superseded.
THEOREM QueueIsCoherent == Spec => [](QueueInOrder /\ CurrentIsLive)
<1>1. Init => QueueInv
  BY DEF Init, QueueInv, QueueInOrder, CurrentInv, CurrentIsLive
<1>2. TypeOK => DataOK /\ StepsOK
  BY DEF TypeOK
<1>3. QueueInv => QueueInOrder /\ CurrentIsLive
  BY DEF QueueInv, CurrentInv
<1>4. QED
  BY <1>1, QueueStep, <1>2, <1>3, TypeCorrect, PTL DEF Spec

\* The id of the current reply is never left pointing at a reply that is gone
\* from the queue and superseded.
THEOREM CurrentReplyIsLive == Spec => []CurrentIsLive
<1>1. QueueInOrder /\ CurrentIsLive => CurrentIsLive
  OBVIOUS
<1>2. QED
  BY <1>1, QueueIsCoherent, PTL
=============================================================================
