--------------------------- MODULE MCTtsSynthesis ---------------------------
(***************************************************************************)
(* Model checking of TtsSynthesis: three texts, two of which have the same *)
(* hash, and what comments promise and the model refutes.                  *)
(***************************************************************************)
EXTENDS TtsSynthesis, TLC

CONSTANTS t1, t2, x1, x2, x3, p1, p2

MCBlocks == x1 :> 2 @@ x2 :> 1 @@ x3 :> 2
MCHash == x1 :> p1 @@ x2 :> p2 @@ x3 :> p2

ThreadSymmetry == Permutations(Threads)

-----------------------------------------------------------------------------
\* pipeline_bridge.cpp:79-80: the buffer of libespeak-ng is not thread-safe, but
\* TTS calls are serialised by the pipeline design.  Claim: what a thread takes
\* from the buffer is the audio of its own text.
TtsCallsAreSerialised ==
    \A t \in Threads : pc[t] = "take" => g_tts_audio = Audio(text[t])

\* pipeline_bridge.cpp:1200: a cache hit.  Claim: what a hit serves is the whole
\* audio of the text.
CacheHitIsWhole ==
    backend # "espeak" =>
    \A t \in Threads : pc[t] = "served" /\ hit[t] => out[t] = Audio(text[t])
=============================================================================
