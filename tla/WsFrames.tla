------------------------------ MODULE WsFrames ------------------------------
(***************************************************************************)
(* The receiving side of one WebSocket connection, composed with its       *)
(* sending side (SendQueue): the robot sends frames, their fields arrive   *)
(* one by one, and the read thread polls the socket, takes each frame      *)
(* apart field by field (ReceiveFrame), answers pings and hands messages   *)
(* to the session logic.                                                   *)
(*                                                                         *)
(* A field is what one call of ReadExact asks for.  Lengths are real       *)
(* numbers and are coded in real bytes; a payload is what it says and      *)
(* whether it is in the clear.  The robot codes its frames as RFC 6455     *)
(* asks, which is also how BuildFrame codes those of the server.           *)
(***************************************************************************)
EXTENDS SendQueue

CONSTANTS
    Frames,    \* what the robot may send: [opcode, masked, says, len]
    MaxSize,   \* WsServerConfig::max_message_size
    Window,    \* the fields the socket holds, then the robot has to wait
    MaxSent    \* bound on the frames the robot sends, pings and pongs aside

Text == 1
Binary == 2
Close == 8
Ping == 9
Pong_ == 10

\* Shifted(n)[k] is n >> (8 * k).
Shifted(n) ==
    LET shifted[k \in 0 .. 8] == IF k = 0 THEN n ELSE shifted[k - 1] \div 256
    IN  shifted

\* Of the opcodes of RFC 6455 all but that of a continuation, which the server does
\* not tell from a message; the length fits in the eight bytes there are for it.
ASSUME FramesAssumption ==
    /\ MaxSize \in Nat /\ MaxSent \in Nat /\ Window \in Nat \ {0}
    /\ \A f \in Frames : /\ f.opcode \in {Text, Binary, Close, Ping, Pong_}
                         /\ f.len \in Nat /\ Shifted(f.len)[8] = 0
                         /\ f.masked \in BOOLEAN
                         /\ f.says \in {"message", "ping", "nothing"}
                         /\ f.says = "nothing" <=> f.len = 0

VARIABLES
    robot,     \* the robot's end of the socket is "up" or "closed"
    frames,    \* the frames the robot has begun, pings and pongs aside
    sent,      \* the messages among them
    sending,   \* the fields of a frame that have not arrived
    arrived,   \* the fields that have arrived and have not been read
    at,        \* where the read thread stands while read = "reading"
    frame,     \* the frame ReceiveFrame is reading
    delivered  \* the messages handed to on_message_, 0 for an unreadable one

client == <<robot, frames, sent, sending>>
receiver == <<arrived, at, frame, delivered>>
wireVars == <<sendQueueVars, client, receiver>>

\* The fields of a frame.
LengthBytes(len) == IF len < 126 THEN 0 ELSE IF len <= 65535 THEN 2 ELSE 8

Code(len) == CASE LengthBytes(len) = 0 -> len
               [] LengthBytes(len) = 2 -> 126
               [] LengthBytes(len) = 8 -> 127

BigEndian(len, bytes) == [i \in 1 .. bytes |-> Shifted(len)[bytes - i] % 256]

\* What the server reads from them.
Number(bytes) ==
    LET number[i \in 0 .. Len(bytes)] ==
            IF i = 0 THEN 0 ELSE number[i - 1] * 256 + bytes[i]
    IN  number[Len(bytes)]

Field(bytes, value) == [bytes |-> bytes, value |-> value]

Encode(f, payload) ==
    << Field(2, <<128 + f.opcode, (IF f.masked THEN 128 ELSE 0) + Code(f.len)>>) >>
    \o (IF LengthBytes(f.len) = 0 THEN <<>>
        ELSE << Field(LengthBytes(f.len), BigEndian(f.len, LengthBytes(f.len))) >>)
    \o (IF f.masked THEN << Field(4, <<>>) >> ELSE <<>>)
    \o (IF f.len = 0 THEN <<>> ELSE << Field(f.len, payload) >>)

NoPayload == [says |-> "nothing", number |-> 0, clear |-> TRUE]
NoFrame == [opcode |-> 0, masked |-> FALSE, len |-> 0, payload |-> NoPayload]

Reads == {"header", "length", "key", "payload"}

\* How many bytes the next ReadExact asks for.
Wanted == CASE at = "header" -> 2
            [] at = "length" -> IF frame.len = 126 THEN 2 ELSE 8
            [] at = "key" -> 4
            [] at = "payload" -> frame.len

\* Every ReadExact asks for the field that comes next, whatever was in the
\* frames before it: a length of 125, 126, 65535 or 65536 bytes, a mask, no
\* payload at all, or a ping in between.
InStep == at \in Reads /\ arrived # <<>> => Head(arrived).bytes = Wanted

WireTypeOK ==
    /\ TypeOK
    /\ robot \in {"up", "closed"}
    /\ frames \in 0 .. MaxSent /\ sent \in 0 .. frames
    /\ at \in Reads \cup {"poll", "frame", "pong", "message", "lost"}
    /\ delivered \in Seq(0 .. sent)
    /\ InStep

WireInit ==
    /\ Init
    /\ robot = "up" /\ frames = 0 /\ sent = 0 /\ sending = <<>>
    /\ arrived = <<>> /\ at = "poll" /\ frame = NoFrame /\ delivered = <<>>

-----------------------------------------------------------------------------
(* The robot and the network.                                              *)

\* A robot may go on with pings and pongs for ever.
KeepAlive == {Ping, Pong_}

\* Only text and binary frames carry messages.
RobotSends(f) ==
    LET number == IF f.says = "message" /\ f.opcode \in {Text, Binary} THEN sent + 1 ELSE 0
    IN  /\ robot = "up" /\ sending = <<>>
        /\ f.opcode \in KeepAlive \/ frames < MaxSent
        /\ frames' = IF f.opcode \in KeepAlive THEN frames ELSE frames + 1
        /\ sent' = IF number = 0 THEN sent ELSE number
        /\ sending' = Encode(f, [says |-> f.says, number |-> number, clear |-> ~ f.masked])
        /\ UNCHANGED <<sendQueueVars, robot, receiver>>

\* Also while the server no longer reads, until Stop shuts the socket down.
Arrive ==
    /\ sending # <<>> /\ Len(arrived) < Window /\ stop # "cleared"
    /\ arrived' = Append(arrived, Head(sending))
    /\ sending' = Tail(sending)
    /\ UNCHANGED <<sendQueueVars, robot, frames, sent, at, frame, delivered>>

\* The robot goes, perhaps in the middle of a frame.
RobotCloses ==
    /\ robot = "up"
    /\ robot' = "closed" /\ sending' = <<>>
    /\ UNCHANGED <<sendQueueVars, frames, sent, receiver>>

-----------------------------------------------------------------------------
(* The read thread.                                                        *)

Reading(step) == read = "reading" /\ at = step
KeepOthers == UNCHANGED <<client, delivered>>

\* poll returns when there are bytes, perhaps not a whole field, or no more to
\* come; it looks at the flags again at least every second.
Poll ==
    /\ Reading("poll") /\ active /\ ~ need_exit
    /\ arrived # <<>> \/ sending # <<>> \/ robot = "closed" \/ stop = "cleared"
    /\ at' = "header"
    /\ KeepOthers /\ UNCHANGED <<sendQueueVars, arrived, frame>>

SeesFlag ==
    /\ Reading("poll") /\ (~ active \/ need_exit)
    /\ ReadLoopEnds
    /\ UNCHANGED <<client, receiver>>

\* One ReadExact that gets all it asked for.
Take(step) ==
    /\ Reading(step)
    /\ arrived # <<>> /\ Head(arrived).bytes = Wanted
    /\ arrived' = Tail(arrived)
    /\ KeepOthers /\ UNCHANGED sendQueueVars

\* Where reading goes on once the key, or the whole header, is known.
AfterKey(len) == IF len > 0 THEN "payload" ELSE "frame"
AfterLength(len, masked) ==
    IF len > MaxSize THEN "lost" ELSE IF masked THEN "key" ELSE AfterKey(len)

\* Mutant of ReadHeader: a length code of 126 is taken for a length.
ReadHeaderNoShortLength ==
    LET b == Head(arrived).value
        masked == b[2] >= 128
        len == b[2] % 128
    IN  /\ Take("header")
        /\ frame' = [frame EXCEPT !.opcode = b[1] % 16, !.masked = masked, !.len = len]
        /\ at' = IF len = 127 THEN "length" ELSE AfterLength(len, masked)

ReadHeader ==
    LET b == Head(arrived).value
        masked == b[2] >= 128
        len == b[2] % 128
    IN  /\ Take("header")
        /\ frame' = [frame EXCEPT !.opcode = b[1] % 16, !.masked = masked, !.len = len]
        /\ at' = IF len >= 126 THEN "length" ELSE AfterLength(len, masked)

ReadLength ==
    LET len == Number(Head(arrived).value)
    IN  /\ Take("length")
        /\ frame' = [frame EXCEPT !.len = len]
        /\ at' = AfterLength(len, frame.masked)

ReadKey ==
    /\ Take("key")
    /\ at' = AfterKey(frame.len)
    /\ UNCHANGED frame

\* The mask is taken off, or put on if the payload had none.
ReadPayload ==
    LET payload == Head(arrived).value
    IN  /\ Take("payload")
        /\ frame' = [frame EXCEPT !.payload =
                       [payload EXCEPT !.clear = payload.clear # frame.masked]]
        /\ at' = "frame"

\* Mutant of ReadFails: without a timeout only a closed socket ends recv.
ReadFailsClosedOnly ==
    /\ read = "reading" /\ at \in Reads
    /\ (arrived = <<>> /\ robot = "closed") \/ stop = "cleared"
    /\ at' = "lost" /\ frame' = NoFrame
    /\ KeepOthers /\ UNCHANGED <<sendQueueVars, arrived>>

\* recv returns nothing: the robot has closed its end, or the field did not
\* arrive within the five seconds that ReadExact allows, or Stop has shut the
\* descriptor down and closed it.
ReadFails ==
    /\ read = "reading" /\ at \in Reads
    /\ arrived = <<>> \/ stop = "cleared"
    /\ at' = "lost" /\ frame' = NoFrame
    /\ KeepOthers /\ UNCHANGED <<sendQueueVars, arrived>>

\* ReceiveFrame returns FALSE.
ConnectionLost ==
    /\ Reading("lost")
    /\ ReadLoopEnds
    /\ UNCHANGED <<client, receiver>>

\* A whole frame has been read.
CloseFrame ==
    /\ Reading("frame") /\ frame.opcode = Close
    /\ at' = "lost" /\ frame' = NoFrame
    /\ KeepOthers /\ UNCHANGED <<sendQueueVars, arrived>>

PingFrame ==
    /\ Reading("frame") /\ frame.opcode = Ping
    /\ at' = "pong" /\ frame' = NoFrame
    /\ KeepOthers /\ UNCHANGED <<sendQueueVars, arrived>>

\* The pong is written past the queue, and whether that succeeds is not looked
\* at.  Then ReceiveFrame calls itself: it waits for the next frame in recv and
\* not in poll.
WritePong ==
    /\ Reading("pong")
    /\ at' = "header"
    /\ KeepOthers /\ UNCHANGED <<sendQueueVars, arrived, frame>>

PongFrame ==
    /\ Reading("frame") /\ frame.opcode = Pong_
    /\ at' = "header" /\ frame' = NoFrame
    /\ KeepOthers /\ UNCHANGED <<sendQueueVars, arrived>>

\* Any other opcode is a text or binary frame.
IsMessage == frame.opcode \notin {Close, Ping, Pong_}

EmptyFrame ==
    /\ Reading("frame") /\ IsMessage /\ frame.len = 0
    /\ at' = "poll" /\ frame' = NoFrame
    /\ KeepOthers /\ UNCHANGED <<sendQueueVars, arrived>>

\* {"event":"ping"} is answered through the queue.
IsJsonPing == frame.payload.clear /\ frame.payload.says = "ping"

JsonPing ==
    /\ Reading("frame") /\ IsMessage /\ frame.len > 0 /\ IsJsonPing
    /\ Pong
    /\ at' = "poll" /\ frame' = NoFrame
    /\ KeepOthers /\ UNCHANGED arrived

\* Mutant of Deliver: what does not parse as JSON is dropped.
DeliverTextOnly ==
    /\ Reading("frame") /\ IsMessage /\ frame.len > 0 /\ ~ IsJsonPing
    /\ at' = "message" /\ frame' = NoFrame
    /\ delivered' = IF frame.opcode = Text /\ frame.payload.clear
                    THEN Append(delivered, frame.payload.number) ELSE delivered
    /\ UNCHANGED <<sendQueueVars, client, arrived>>

\* Mutant of Deliver: the payload is handed over as it came.
DeliverMasked ==
    /\ Reading("frame") /\ IsMessage /\ frame.len > 0 /\ ~ IsJsonPing
    /\ at' = "message" /\ frame' = NoFrame
    /\ delivered' = Append(delivered, IF frame.masked THEN 0 ELSE frame.payload.number)
    /\ UNCHANGED <<sendQueueVars, client, arrived>>

\* on_message_ is called on the read thread.
Deliver ==
    /\ Reading("frame") /\ IsMessage /\ frame.len > 0 /\ ~ IsJsonPing
    /\ at' = "message" /\ frame' = NoFrame
    /\ delivered' = Append(delivered, IF frame.payload.clear THEN frame.payload.number ELSE 0)
    /\ UNCHANGED <<sendQueueVars, client, arrived>>

MessageReturns ==
    /\ Reading("message")
    /\ at' = "poll"
    /\ KeepOthers /\ UNCHANGED <<sendQueueVars, arrived, frame>>

ReadStep ==
    \/ Poll \/ SeesFlag
    \/ ReadHeader \/ ReadLength \/ ReadKey \/ ReadPayload \/ ReadFails
    \/ CloseFrame \/ PingFrame \/ WritePong \/ PongFrame
    \/ EmptyFrame \/ JsonPing \/ Deliver
    \/ ConnectionLost

\* The sending side goes on as in SendQueue.  Room is kept for an answer to
\* every JSON ping of the robot.
Caller == SendMessage /\ accepted + MaxSent < MaxFrames
SendingSide ==
    /\ Caller \/ SendEnqueue \/ ReadLoopExit \/ StopNeedExit \/ StopClear \/ SendLoopStep
    /\ UNCHANGED <<client, receiver>>

WireNext ==
    \/ \E f \in Frames : RobotSends(f)
    \/ Arrive \/ RobotCloses
    \/ ReadStep \/ MessageReturns
    \/ SendingSide

WireSpec == WireInit /\ [][WireNext]_wireVars

\* Each thread runs on: poll, recv and send have timeouts.  Of the handler of
\* messages nothing is assumed: it may never return.  Of the robot only this,
\* that a frame it has begun arrives unless it goes.
FairWireSpec ==
    /\ WireSpec
    /\ WF_wireVars(ReadStep)
    /\ WF_wireVars(Arrive)
    /\ WF_wireVars(SendLoopStep /\ UNCHANGED <<client, receiver>>)
    /\ WF_wireVars(ReadLoopExit /\ UNCHANGED <<client, receiver>>)
    /\ WF_wireVars(SendEnqueue /\ UNCHANGED <<client, receiver>>)
    /\ WF_wireVars(StopClear /\ UNCHANGED <<client, receiver>>)

-----------------------------------------------------------------------------
(* Properties                                                              *)

\* The receiving side is an ordered channel too: the session logic gets the
\* robot's messages in order, each once and readable, whatever control frames,
\* pings and empty frames are between them, until the read loop ends.
Incoming == INSTANCE FrameChannel WITH
    accepted <- sent,
    open     <- read = "reading"
ReceivesInOrder == Incoming!Spec

\* Liveness.  A message that the robot has begun to send reaches the session
\* logic, or the robot has gone, or the read loop has ended, or the handler of
\* an earlier message never returns.
SentIsDelivered ==
    \A n \in 1 .. MaxSent :
        sent >= n ~> \/ Len(delivered) >= n \/ robot = "closed" \/ read # "reading"
                     \/ [](at = "message")

\* The robot holds the read thread: a ping or a pong has come in time, and
\* ReceiveFrame waits for yet another frame without a look at the flags.
KeptReading == at = "frame" /\ frame.opcode \in KeepAlive

\* Liveness.  Once a flag is up, whoever raised it, the read thread ends and
\* takes the connection out of the registry, also when the robot is silent in
\* the middle of a frame (Stop waits for that, ws_server.cpp:92-95).  There are
\* two exceptions: a handler that never returns, and, when it was the send
\* thread that gave the connection up (ws_server.cpp:491), a robot that sends
\* nothing but pings and pongs for ever.  After Stop there is only the first.
EndingReachesReader ==
    []<>(\/ active /\ ~ need_exit
         \/ read = "erased" \/ at = "message"
         \/ KeptReading /\ stop = "none")
=============================================================================
