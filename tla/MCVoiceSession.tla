--------------------------- MODULE MCVoiceSession ---------------------------
(***************************************************************************)
(* Model checking of VoiceSession: the symmetry of the thread slots, what  *)
(* comments in the code promise of a session and the model refutes, and    *)
(* the mutants.                                                            *)
(***************************************************************************)
EXTENDS VoiceSession, TLC

ThreadSymmetry == Permutations(Threads)

-----------------------------------------------------------------------------
\* main.cpp:602-604: the cancel flag is set when an interrupt occurs, so that
\* ProcessText gives up.  Claim: a thread overtaken by an interrupt while it is
\* in the LLM or TTS sees the flag raised.
OvertakenIsCancelled ==
    \A t \in Threads : pc[t] \in {"llm", "tts"} /\ Stale(t) => cancel_pipeline

\* main.cpp:520-522: when the generation changes, a thread's results are
\* discarded.  Claim: what is queued for the robot was asked in the current
\* generation.
StaleReplyDiscarded ==
    [][Len(tts_queue') > Len(tts_queue) =>
         tts_queue'[Len(tts_queue')].gen = generation_id]_vars

\* main.cpp:356-357: after start_push_audio old results must not be sent.
\* Claim: a wake-up leaves no older reply in the queue that completion reports
\* work off.
WakeDropsOldReplies ==
    [][ws = "start_ready" /\ ws' = "start_pull" =>
         \A i \in DOMAIN tts_queue : tts_queue[i].gen = generation_id]_vars

\* session_manager.h:14: an interrupted Playing session goes to Streaming.
\* Claim: it does, when the interrupt has left it no reply to play.
InterruptedGoesStreaming ==
    [][ws = "interrupt_asr" /\ ws' = "idle" /\ tts_queue = <<>> =>
         state' # "Playing"]_vars

\* main.cpp:482: a barge-in resets the ASR state for the new utterance.  Claim:
\* the callback gets that far, and does not wait for a mutex it already holds.
BargeInFinishes == audio # "relock"

\* main.cpp:571: only one LLM call per conversation turn.  Claim: two threads
\* are never both past the test of llm_triggered and short of setting it.
OneLlmCallPerTurn ==
    \A t, u \in Threads : pc[t] = "trigger" /\ pc[u] = "trigger" => t = u
=============================================================================
