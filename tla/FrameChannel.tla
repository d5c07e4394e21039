---------------------------- MODULE FrameChannel ----------------------------
(***************************************************************************)
(* What the send side of one WebSocket connection promises the session     *)
(* logic: a frame that SendMessage or SendBinary accepted is delivered     *)
(* once, in the order of acceptance, until the connection fails; from then *)
(* on nothing more is.  Frames are numbered as they are accepted.          *)
(***************************************************************************)
EXTENDS Naturals, Sequences

VARIABLES
    accepted,   \* how many frames have been accepted
    delivered,  \* the frames written to the socket, in order
    open        \* the connection may still deliver

channelVars == <<accepted, delivered, open>>

Init == accepted = 0 /\ delivered = <<>> /\ open = TRUE

Accept == /\ accepted' = accepted + 1
          /\ UNCHANGED <<delivered, open>>

\* The frame in the hands of the sender when the connection fails may still
\* reach the peer; it is the last.
Deliver == /\ open
           /\ Len(delivered) < accepted
           /\ delivered' = Append(delivered, Len(delivered) + 1)
           /\ open' \in BOOLEAN
           /\ UNCHANGED accepted

Fail == /\ open
        /\ open' = FALSE
        /\ UNCHANGED <<accepted, delivered>>

Next == Accept \/ Deliver \/ Fail

Spec == Init /\ [][Next]_channelVars
=============================================================================
