----------------------------- MODULE MCWsFrames -----------------------------
(***************************************************************************)
(* Model checking of WsFrames: frames at the boundaries of the length      *)
(* codes, and what comments in the code promise and the model refutes.     *)
(***************************************************************************)
EXTENDS WsFrames

MCFrame(opcode, says, len) ==
    [opcode |-> opcode, masked |-> TRUE, says |-> says, len |-> len]

MCMaxSize == 65536

MCFrames ==
    { [MCFrame(Text, "message", 125) EXCEPT !.masked = FALSE],
      MCFrame(Binary, "message", 126),
      MCFrame(Binary, "message", 65536),
      MCFrame(Text, "message", 65537),
      MCFrame(Text, "ping", 16), MCFrame(Text, "nothing", 0),
      MCFrame(Ping, "ping", 4), MCFrame(Pong_, "nothing", 0),
      MCFrame(Close, "nothing", 0) }

-----------------------------------------------------------------------------
\* ws_server.cpp:303: the receive timeout is cleared for a long-lived
\* connection.  Claim: a connection is given up only because the robot went,
\* closed it or stopped in the middle of a frame, a frame was too long, or a
\* flag was raised; not because an idle robot has nothing to say.
IdleRobotIsKept ==
    [][arrived = <<>> /\ at \in Reads /\ at' = "lost" =>
         \/ sending # <<>>
         \/ robot = "closed" \/ stop = "cleared" \/ ~ active]_wireVars

\* ws_server.h:59: the queue is there for the send thread to write.  Claim: no
\* two threads write to the socket at the same time.
OneWriter == ~ (read = "reading" /\ at = "pong" /\ send = "write")

\* ws_server.h:59 and ws_server.cpp:491: a connection whose send thread has
\* failed is no longer active.  Claim: its read thread ends soon, whatever the
\* robot sends, so long as no message handler hangs.
LostIsNoticed ==
    []<>(active \/ read = "erased" \/ at = "message")
=============================================================================
