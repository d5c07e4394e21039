--------------------------- MODULE MCWsConnections ---------------------------
(***************************************************************************)
(* Model checking of WsConnections, and what comments in ws_server.cpp     *)
(* promise and the model refutes.                                          *)
(***************************************************************************)
EXTENDS WsConnections, TLC

-----------------------------------------------------------------------------
\* ws_server.cpp:433-436: the read thread detaches itself first so that the
\* destructor of the connection is safe.  Claim: the connection it erases has no
\* joinable thread left.
DestructorIsSafe ==
    \A c \in Conns :
        readThread[c] = "erase" /\ connections[fd[c]] # None =>
            ~Joinable(connections[fd[c]])

\* ws_server.cpp:79-80: Stop moves the connections out of the map, which avoids a
\* double join.  Claim: what Stop has found joinable still is when it joins it.
JoinFindsThread == stop = "join_reader" => readHandle[victim]

\* ws_server.cpp:433-437: a read thread can detach itself.  Claim: its handle has
\* been assigned by then.
DetachFindsThread == \A c \in Conns : readThread[c] = "detach" => readHandle[c]

\* ws_server.cpp:68: Stop closes all client connections and moves them out of
\* the map.  Claim: when Stop has returned no client connection is left.
StopClosesAll == stop = "done" => Registered = {} /\ fdOpen = {}
=============================================================================
