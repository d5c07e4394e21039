-------------------------- MODULE MCSessionRegistry --------------------------
(***************************************************************************)
(* Model checking of SessionRegistry: what comments in the code promise    *)
(* and the model refutes.                                                  *)
(***************************************************************************)
EXTENDS SessionRegistry

-----------------------------------------------------------------------------
\* session_manager.h:5: each connected robot gets one Session.  Claim: no two
\* registered sessions were created for one connection.
OneSessionPerRobot ==
    \A r, s \in Registered : owner[r] = owner[s] => r = s

\* main.cpp:728-729: the session may have been removed while ProcessText was
\* running, so it is looked up again.  Claim: a worker never uses a session
\* that has been removed.
WorkerSessionAlive == \A s \in Sessions : worker[s] = "using" => s \in Registered

\* main.cpp:1091-1093: the pull of a session is stopped before it is purged, so
\* that no stale ffmpeg is left running.  Claim: a session removed by the purge
\* has no pull.
PurgeLeavesNoPull ==
    \A s \in Sessions : remover[s] = Cleanup => pull[s] = "none"

\* main.cpp:397-398: audio keeps the session alive and prevents a premature
\* timeout.  Claim: a session that is purged is expired at that moment.
ActiveSessionKept ==
    [][\A s \in Registered :
         s \notin expired /\ remover'[s] = Cleanup => s \notin Registered]_registryVars

\* main.cpp:960-962: a ping updates the heartbeat timestamp of the session.
\* Claim: when a ping has been answered no session of the connection counts as
\* idle.
PingKeepsAlive ==
    [][\A c \in Conns : step[c] = "ping" /\ step'[c] = "idle" =>
         \A s \in Registered : owner[s] = c => s \notin expired']_registryVars

\* session_manager.h:200: RemoveSession means that the robot disconnected.
\* Claim: a disconnect removes only sessions of the connection that ended.
DisconnectRemovesOwn ==
    \A s \in Sessions : remover[s] \in Conns => remover[s] = owner[s]
=============================================================================
