------------------------------ MODULE SendQueue ------------------------------
(***************************************************************************)
(* The send side of one WebSocket connection: callers of SendMessage and   *)
(* SendBinary on any thread, and the read thread answering pings, push     *)
(* frames on a bounded queue which the send thread writes to the socket.   *)
(* The read thread, the send thread and Stop may each bring the connection *)
(* down, by two flags that are raised one after the other.                 *)
(*                                                                         *)
(* conn_mutex_ is held by a caller between its check of the connection and *)
(* its push, and by Stop between its two flags; send_mutex is held within  *)
(* single steps only.  Frames are numbered as they enter the queue.        *)
(***************************************************************************)
EXTENDS Naturals, Sequences

CONSTANTS
    MaxQueueSize,  \* WsConnection::kMaxQueueSize
    MaxFrames      \* bound on the frames accepted

ASSUME QueueAssumption == MaxQueueSize \in Nat \ {0} /\ MaxFrames \in Nat

VARIABLES
    send_queue,  \* WsConnection::send_queue
    active,      \* WsConnection::active
    need_exit,   \* WsConnection::need_exit
    accepted,    \* frames that entered the queue so far
    wire,        \* frames written to the socket
    caller,      \* where the SendMessage call that holds conn_mutex_ stands
    read,        \* where ClientReadLoop stands
    send,        \* where ClientSendLoop stands
    hand,        \* the frame ClientSendLoop has popped, 0 for none
    stop         \* where Stop stands

flags   == <<active, need_exit>>
sendQueueVars == <<send_queue, flags, accepted, wire, caller, read, send, hand, stop>>

FlagsOK == active \in BOOLEAN /\ need_exit \in BOOLEAN

FramesOK ==
    /\ send_queue \in Seq(Nat \ {0}) /\ Len(send_queue) <= MaxQueueSize
    /\ accepted \in Nat /\ wire \in Seq(Nat) /\ hand \in Nat

StepsOK ==
    /\ caller \in {"none", "checked"}
    /\ read \in {"reading", "leaving", "joining", "erased"}
    /\ send \in {"check", "wait", "popped", "write", "drain", "done"}
    /\ stop \in {"none", "half", "cleared"}

TypeOK == FlagsOK /\ FramesOK /\ StepsOK

Init ==
    /\ send_queue = <<>>
    /\ active = TRUE /\ need_exit = FALSE
    /\ accepted = 0 /\ wire = <<>>
    /\ caller = "none" /\ read = "reading" /\ stop = "none"
    /\ send = "check" /\ hand = 0

-----------------------------------------------------------------------------
ConnMutexFree == caller = "none" /\ stop # "half"
Registered == read # "erased" /\ stop # "cleared"

\* MaxFrames bounds the frames accepted and the one about to be.
Room == accepted + (IF caller = "checked" THEN 1 ELSE 0) < MaxFrames

\* Mutant of EnqueueFrame: a full queue makes room by dropping its head.
EnqueueFrameDropsOldest ==
    /\ accepted' = accepted + 1
    /\ send_queue' = IF Len(send_queue) < MaxQueueSize
                       THEN Append(send_queue, accepted + 1)
                       ELSE Append(Tail(send_queue), accepted + 1)

\* A frame that finds the queue full is refused and is no frame of the channel.
EnqueueFrame ==
    \/ /\ Len(send_queue) < MaxQueueSize
       /\ accepted' = accepted + 1
       /\ send_queue' = Append(send_queue, accepted + 1)
    \/ /\ Len(send_queue) >= MaxQueueSize
       /\ UNCHANGED <<accepted, send_queue>>

\* SendMessage, SendBinary
SendMessage ==
    /\ ConnMutexFree
    /\ Registered /\ active
    /\ Room
    /\ caller' = "checked"
    /\ UNCHANGED <<send_queue, flags, accepted, wire, read, send, hand, stop>>

SendEnqueue ==
    /\ caller = "checked"
    /\ EnqueueFrame
    /\ caller' = "none"
    /\ UNCHANGED <<flags, wire, read, send, hand, stop>>

\* The read thread answers a ping whatever the state of the connection.
Pong ==
    /\ read = "reading"
    /\ Room
    /\ EnqueueFrame
    /\ UNCHANGED <<flags, wire, caller, read, send, hand, stop>>

\* The read loop ends: the peer is gone, or it sees one of the flags.
ReadLoopEnds ==
    /\ read = "reading"
    /\ active' = FALSE
    /\ read' = "leaving"
    /\ UNCHANGED <<send_queue, need_exit, accepted, wire, caller, send, hand, stop>>

SignalSendThread ==
    /\ read = "leaving"
    /\ need_exit' = TRUE
    /\ read' = "joining"
    /\ UNCHANGED <<send_queue, active, accepted, wire, caller, send, hand, stop>>

\* join the send thread, then erase the connection under conn_mutex_
EraseConnection ==
    /\ read = "joining"
    /\ send = "done"
    /\ ConnMutexFree
    /\ read' = "erased"
    /\ UNCHANGED <<send_queue, flags, accepted, wire, caller, send, hand, stop>>

\* Stop, under conn_mutex_
StopNeedExit ==
    /\ ConnMutexFree
    /\ stop = "none" /\ Registered
    /\ need_exit' = TRUE
    /\ stop' = "half"
    /\ UNCHANGED <<send_queue, active, accepted, wire, caller, read, send, hand>>

StopClear ==
    /\ stop = "half"
    /\ active' = FALSE
    /\ stop' = "cleared"
    /\ UNCHANGED <<send_queue, need_exit, accepted, wire, caller, read, send, hand>>

(***************************************************************************)
(* ClientSendLoop                                                          *)
(***************************************************************************)
SendGoto(step) ==
    /\ send' = step
    /\ UNCHANGED <<accepted, caller, read, stop>>

CheckExit ==
    /\ send = "check"
    /\ SendGoto(IF need_exit THEN "drain" ELSE "wait")
    /\ UNCHANGED <<send_queue, flags, wire, hand>>

WaitExit ==
    /\ send = "wait" /\ send_queue = <<>> /\ need_exit
    /\ SendGoto("drain")
    /\ UNCHANGED <<send_queue, flags, wire, hand>>

\* A frame that is there is taken even after need_exit was raised.
Pop ==
    /\ send = "wait" /\ send_queue # <<>>
    /\ hand' = Head(send_queue)
    /\ send_queue' = Tail(send_queue)
    /\ SendGoto("popped")
    /\ UNCHANGED <<flags, wire>>

CheckActive ==
    /\ send = "popped" /\ active
    /\ SendGoto("write")
    /\ UNCHANGED <<send_queue, flags, wire, hand>>

Discard ==
    /\ send = "popped" /\ ~active
    /\ hand' = 0
    /\ SendGoto("check")
    /\ UNCHANGED <<send_queue, flags, wire>>

Write ==
    /\ send = "write"
    /\ wire' = Append(wire, hand)
    /\ hand' = 0
    /\ SendGoto("check")
    /\ UNCHANGED <<send_queue, flags>>

\* Mutant of WriteFails: the loop goes on with the next frame.
WriteFailsGoesOn ==
    /\ send = "write"
    /\ hand' = 0
    /\ SendGoto("check")
    /\ UNCHANGED <<send_queue, flags, wire>>

\* Mutant of WriteFails: the connection is not marked as lost.
WriteFailsStaysActive ==
    /\ send = "write"
    /\ hand' = 0
    /\ SendGoto("drain")
    /\ UNCHANGED <<send_queue, flags, wire>>

WriteFails ==
    /\ send = "write"
    /\ active' = FALSE
    /\ hand' = 0
    /\ SendGoto("drain")
    /\ UNCHANGED <<send_queue, need_exit, wire>>

Drain ==
    /\ send = "drain"
    /\ send_queue' = <<>>
    /\ SendGoto("done")
    /\ UNCHANGED <<flags, wire, hand>>

SendLoopStep == CheckExit \/ WaitExit \/ Pop \/ CheckActive \/ Discard
                \/ Write \/ WriteFails \/ Drain

ReadLoopExit == SignalSendThread \/ EraseConnection

Next == \/ SendMessage \/ SendEnqueue \/ Pong
        \/ ReadLoopEnds \/ ReadLoopExit
        \/ StopNeedExit \/ StopClear
        \/ SendLoopStep

Spec == Init /\ [][Next]_sendQueueVars

-----------------------------------------------------------------------------
(***************************************************************************)
(* Properties                                                              *)
(***************************************************************************)
\* The accepted frames, in order and without a gap or a repetition, are those
\* on the wire, the one in the hands of the send thread, and those queued.
InHand == IF hand = 0 THEN 0 ELSE 1
InSequence ==
    /\ accepted = Len(wire) + InHand + Len(send_queue)
    /\ \A i \in 1 .. Len(wire) : wire[i] = i
    /\ hand # 0 => hand = Len(wire) + 1
    /\ \A i \in 1 .. Len(send_queue) : send_queue[i] = Len(wire) + InHand + i

\* While nobody has raised a flag no accepted frame is lost, although callers
\* on any thread, the ping answers and the send thread share the queue and
\* a full queue refuses frames.
NothingLostWhileUp == active /\ ~need_exit => InSequence

\* The send side implements the ordered channel that fails at most once: no
\* frame is skipped, repeated or overtaken, whoever brings the connection down
\* and whenever.
Channel == INSTANCE FrameChannel WITH
    delivered <- wire,
    open      <- active \/ send = "write"
ImplementsChannel == Channel!Spec

\* Liveness.  An accepted frame reaches the socket or the connection goes down.
AcceptedIsSent ==
    \A n \in 1 .. MaxFrames :
        accepted >= n ~> Len(wire) >= n \/ ~active \/ need_exit
=============================================================================
