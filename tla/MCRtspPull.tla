------------------------------ MODULE MCRtspPull ------------------------------
(***************************************************************************)
(* Model checking of RtspPull: what comments in rtsp_manager.cpp           *)
(* promise and the model refutes.                                          *)
(***************************************************************************)
EXTENDS RtspPull

-----------------------------------------------------------------------------
\* rtsp_manager.cpp:219: the pipe is closed and the pipeline erased after its
\* thread has definitely exited.  Claim: when a pipeline is destroyed its thread
\* is not running.
DestroyedAfterExit ==
    \A p \in Pipelines : pipeline[p].heap = "freed" \/ Destroying(p) => ~ Active(p)

\* rtsp_manager.h:88 and rtsp_manager.cpp:71: Stop stops all pipelines, whose
\* loops will exit.  Claim: once it has returned no pull is left or comes back.
StopEndsAllPulls == main = "done" => \A s \in Sessions : PullOf(s) = "none"

\* rtsp_manager.cpp:71: it is safe to join, the loops will exit.  Claim: Stop joins
\* only threads that were told to end.
StopJoinsTheTold ==
    \A p \in left : pipeline[p].joinable => pipeline[p].need_exit
=============================================================================
