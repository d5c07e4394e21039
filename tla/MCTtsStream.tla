----------------------------- MODULE MCTtsStream -----------------------------
(***************************************************************************)
(* Model checking of TtsStream: the symmetry of the thread slots, and what *)
(* comments in the code promise and the model refutes.                     *)
(***************************************************************************)
EXTENDS TtsStream, TLC

ThreadSymmetry == Permutations(Threads)

-----------------------------------------------------------------------------
\* pipeline_bridge.cpp:1387: a cached reply is served as a single chunk.  Claim:
\* a stream that is ended has sent what the cache handed over.
CachedReplyIsSent ==
    \A t \in Threads : stream[t].at = "end" => stream[t].total = stream[t].made

\* main.cpp:646: the end message carries the number of samples of the stream.
\* Claim: that many are in the send queue or have gone through it.
EndedStreamIsWhole ==
    \A t \in Threads : stream[t].at = "end" => ~stream[t].holed

\* main.cpp:520-522: the results of an overtaken thread are discarded.  Claim:
\* a thread that has been overtaken does not turn the session to Playing.
OvertakenStaysQuiet ==
    [][\A t \in Threads : stream[t].at = "playing" /\ stream'[t].at = "current" =>
         ~Stale(t)]_streamVars

\* session_manager.h:55: a tts_id is unique.  Claim: two threads never have one at
\* the same time.
StreamIdsDiffer ==
    \A t, u \in Threads :
        stream[t].id # 0 /\ stream[t].id = stream[u].id => t = u
=============================================================================
