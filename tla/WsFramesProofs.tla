--------------------------- MODULE WsFramesProofs ---------------------------
(***************************************************************************)
(* Machine-checked proofs about the two directions of a connection: first  *)
(* the sending side, SendQueue, for every queue size and every number of   *)
(* frames; then its composition with the reading side, every step of which *)
(* is a step of SendQueue or leaves it alone, so that what is proved of    *)
(* SendQueue carries over; then the reading side itself, for frames of     *)
(* every length, opcode and mask: the fields that are on their way are     *)
(* parts of frames, and the read thread stands where they go on.           *)
(***************************************************************************)
EXTENDS WsFrames, SequenceTheorems, WellFoundedInduction, TLAPS

(***************************************************************************)
(* The sending side                                                        *)
(***************************************************************************)
\* Both flags stay boolean, and every thread stays at one of its steps.
LEMMA StepsStep == FlagsOK /\ StepsOK /\ [Next]_sendQueueVars => FlagsOK' /\ StepsOK'
<1> SUFFICES ASSUME FlagsOK, StepsOK, [Next]_sendQueueVars
             PROVE  FlagsOK' /\ StepsOK'
  OBVIOUS
<1> USE DEF FlagsOK, StepsOK, flags
<1>1. CASE SendMessage \/ SendEnqueue \/ Pong \/ ReadLoopEnds
  BY <1>1 DEF SendMessage, SendEnqueue, Pong, ReadLoopEnds
<1>2. CASE ReadLoopExit \/ StopNeedExit \/ StopClear
  BY <1>2 DEF ReadLoopExit, SignalSendThread, EraseConnection, StopNeedExit, StopClear
<1>3. CASE SendLoopStep
  BY <1>3 DEF SendLoopStep, CheckExit, WaitExit, Pop, CheckActive, Discard, Write,
          WriteFails, Drain, SendGoto
<1>4. CASE UNCHANGED sendQueueVars
  BY <1>4 DEF sendQueueVars
<1>5. QED
  BY <1>1, <1>2, <1>3, <1>4 DEF Next

\* Pushing a frame keeps the queue within its bound.
LEMMA EnqueueBounded ==
    ASSUME FramesOK, EnqueueFrame, UNCHANGED <<wire, hand>>
    PROVE  FramesOK'
<1> USE QueueAssumption DEF FramesOK
<1>1. CASE UNCHANGED <<accepted, send_queue>>
  BY <1>1
<1>2. CASE /\ Len(send_queue) < MaxQueueSize
           /\ accepted' = accepted + 1
           /\ send_queue' = Append(send_queue, accepted + 1)
  <2>1. accepted' \in Nat /\ accepted + 1 \in Nat \ {0} /\ send_queue' \in Seq(Nat \ {0})
    BY <1>2
  <2>2. Len(send_queue') = Len(send_queue) + 1 /\ Len(send_queue) \in Nat
    BY <1>2
  <2>3. QED
    BY <1>2, <2>1, <2>2
<1>3. QED
  BY <1>1, <1>2 DEF EnqueueFrame

LEMMA FramesStep == FramesOK /\ [Next]_sendQueueVars => FramesOK'
<1> SUFFICES ASSUME FramesOK, [Next]_sendQueueVars
             PROVE  FramesOK'
  OBVIOUS
<1>0. CASE UNCHANGED <<send_queue, accepted, wire, hand>>
  BY <1>0 DEF FramesOK
<1>1. CASE SendEnqueue \/ Pong
  BY <1>1, EnqueueBounded DEF SendEnqueue, Pong
<1>2. CASE SendMessage \/ ReadLoopEnds \/ ReadLoopExit \/ StopNeedExit \/ StopClear
  BY <1>0, <1>2 DEF SendMessage, ReadLoopEnds, ReadLoopExit, SignalSendThread,
          EraseConnection, StopNeedExit, StopClear
<1>3. CASE Pop
  <2>1. /\ Head(send_queue) \in Nat
        /\ Tail(send_queue) \in Seq(Nat \ {0})
        /\ Len(Tail(send_queue)) = Len(send_queue) - 1
        /\ Len(send_queue) \in Nat
    BY <1>3 DEF Pop, FramesOK
  <2>2. QED
    BY <1>3, <2>1, QueueAssumption DEF Pop, SendGoto, FramesOK
<1>4. CASE Write
  BY <1>4 DEF Write, SendGoto, FramesOK
<1>5. CASE CheckExit \/ WaitExit \/ CheckActive
  BY <1>0, <1>5 DEF CheckExit, WaitExit, CheckActive, SendGoto
<1>6. CASE Discard \/ WriteFails
  BY <1>6 DEF Discard, WriteFails, SendGoto, FramesOK
<1>7. CASE Drain
  BY <1>7, QueueAssumption DEF Drain, SendGoto, FramesOK
<1>8. CASE UNCHANGED sendQueueVars
  BY <1>0, <1>8 DEF sendQueueVars
<1>9. QED
  BY <1>1, <1>2, <1>3, <1>4, <1>5, <1>6, <1>7, <1>8 DEF Next, SendLoopStep

\* In every run the variables stay in range; the queue never outgrows its bound.
THEOREM SendQueueTypes == Spec => []TypeOK
<1>1. Init => FlagsOK /\ StepsOK
  BY DEF Init, FlagsOK, StepsOK
<1>2. Init => FramesOK
  BY QueueAssumption DEF Init, FramesOK
<1>3. TypeOK /\ [Next]_sendQueueVars => TypeOK'
  BY StepsStep, FramesStep DEF TypeOK
<1>4. Init => TypeOK
  BY <1>1, <1>2 DEF TypeOK
<1>5. QED
  BY <1>3, <1>4, PTL DEF Spec

-----------------------------------------------------------------------------
\* The sequence holds as long as a frame can still be written; the frame being
\* written stays the next one even when the connection goes down meanwhile.
SendInv ==
    /\ active /\ send \notin {"drain", "done"} => InSequence
    /\ send = "write" => Len(wire) < accepted /\ hand = Len(wire) + 1
    /\ hand # 0 <=> send \in {"popped", "write"}
    /\ send \in {"drain", "done"} => need_exit \/ ~active

LEMMA EnqueueKeepsSequence ==
    ASSUME FramesOK, InSequence, EnqueueFrame, UNCHANGED <<wire, hand>>
    PROVE  InSequence'
<1> USE DEF FramesOK
<1>0. InHand \in Nat /\ InHand' = InHand
  BY DEF InHand
<1>1. CASE UNCHANGED <<accepted, send_queue>>
  BY <1>0, <1>1 DEF InSequence
<1>2. CASE accepted' = accepted + 1 /\ send_queue' = Append(send_queue, accepted + 1)
  <2>1. /\ Len(send_queue') = Len(send_queue) + 1
        /\ \A i \in 1 .. Len(send_queue) : send_queue'[i] = send_queue[i]
        /\ send_queue'[Len(send_queue) + 1] = accepted + 1
    BY <1>2
  <2>2. \A i \in 1 .. Len(send_queue') : send_queue'[i] = Len(wire) + InHand + i
    <3> TAKE i \in 1 .. Len(send_queue')
    <3>1. CASE i = Len(send_queue) + 1
      BY <1>0, <2>1, <3>1 DEF InSequence
    <3>2. CASE i \in 1 .. Len(send_queue)
      BY <2>1, <3>2 DEF InSequence
    <3>3. QED
      BY <2>1, <3>1, <3>2
  <2>3. accepted' = Len(wire) + InHand + Len(send_queue')
    BY <1>0, <1>2, <2>1 DEF InSequence
  <2>4. QED
    BY <1>0, <2>2, <2>3 DEF InSequence
<1>3. QED
  BY <1>1, <1>2 DEF EnqueueFrame

\* What popping does to the three parts of the sequence.
LEMMA PopKeepsSequence ==
    ASSUME FramesOK, InSequence, Pop, hand = 0
    PROVE  InSequence' /\ hand' # 0
<1> USE DEF FramesOK
<1>1. /\ hand' = send_queue[1] /\ send_queue' = Tail(send_queue)
      /\ send_queue # <<>> /\ UNCHANGED <<wire, accepted>>
  BY DEF Pop, SendGoto
<1>2. /\ Len(send_queue') = Len(send_queue) - 1 /\ Len(send_queue) >= 1
      /\ \A i \in 1 .. Len(send_queue') : send_queue'[i] = send_queue[i + 1]
  BY <1>1
<1>3. hand' = Len(wire) + 1 /\ InHand = 0 /\ InHand' = 1
  BY <1>1, <1>2 DEF InSequence, InHand
<1>4. \A i \in 1 .. Len(send_queue') : send_queue'[i] = Len(wire') + InHand' + i
  BY <1>1, <1>2, <1>3 DEF InSequence
<1>5. QED
  BY <1>1, <1>2, <1>3, <1>4 DEF InSequence

\* What a successful write does to them.
LEMMA WriteKeepsSequence ==
    ASSUME FramesOK, InSequence, Write, hand # 0
    PROVE  InSequence'
<1> USE DEF FramesOK
<1>1. /\ wire' = Append(wire, hand) /\ hand' = 0 /\ UNCHANGED <<send_queue, accepted>>
  BY DEF Write, SendGoto
<1>2. /\ Len(wire') = Len(wire) + 1
      /\ \A i \in 1 .. Len(wire) : wire'[i] = wire[i]
      /\ wire'[Len(wire) + 1] = hand
  BY <1>1
<1>3. InHand = 1 /\ InHand' = 0 /\ hand = Len(wire) + 1
  BY <1>1 DEF InHand, InSequence
<1>4. \A i \in 1 .. Len(wire') : wire'[i] = i
  <2> TAKE i \in 1 .. Len(wire')
  <2>1. CASE i = Len(wire) + 1
    BY <1>2, <1>3, <2>1
  <2>2. CASE i \in 1 .. Len(wire)
    BY <1>2, <2>2 DEF InSequence
  <2>3. QED
    BY <1>2, <2>1, <2>2
<1>5. QED
  BY <1>1, <1>2, <1>3, <1>4 DEF InSequence

LEMMA SendInvStep == FramesOK /\ SendInv /\ [Next]_sendQueueVars => SendInv'
<1> SUFFICES ASSUME FramesOK, SendInv, [Next]_sendQueueVars
             PROVE  SendInv'
  OBVIOUS
<1> USE DEF flags
<1>1. ASSUME EnqueueFrame, UNCHANGED <<flags, wire, send, hand>>
      PROVE  SendInv'
  <2>1. accepted' >= accepted /\ accepted \in Nat /\ accepted' \in Nat /\ Len(wire) \in Nat
    BY <1>1 DEF EnqueueFrame, FramesOK
  <2>2. InSequence => InSequence'
    BY <1>1, EnqueueKeepsSequence
  <2>3. QED
    BY <1>1, <2>1, <2>2 DEF SendInv
<1>2. ASSUME UNCHANGED <<send_queue, accepted, wire, send, hand>>,
             active' => active, need_exit \/ ~active => need_exit' \/ ~active'
      PROVE  SendInv'
  BY <1>2 DEF SendInv, InSequence, InHand
<1>3. CASE SendEnqueue \/ Pong
  BY <1>1, <1>3 DEF SendEnqueue, Pong
<1>4. CASE SendMessage \/ ReadLoopEnds \/ ReadLoopExit \/ StopNeedExit \/ StopClear
  BY <1>2, <1>4 DEF SendMessage, ReadLoopEnds, ReadLoopExit, SignalSendThread,
          EraseConnection, StopNeedExit, StopClear
<1>5. CASE Pop
  <2>1. hand = 0 /\ send' = "popped" /\ UNCHANGED active
    BY <1>5 DEF Pop, SendInv, SendGoto
  <2>2. InSequence => InSequence'
    BY <1>5, <2>1, PopKeepsSequence
  <2>3. CASE active
    BY <1>5, <2>1, <2>2, <2>3, PopKeepsSequence DEF Pop, SendInv
  <2>4. CASE ~active /\ hand' # 0
    BY <2>1, <2>4 DEF SendInv
  <2>5. hand' # 0
    BY <1>5 DEF Pop, FramesOK
  <2>6. QED
    BY <2>3, <2>4, <2>5
<1>6. CASE Write
  <2>1. hand # 0 /\ hand' = 0 /\ send' = "check" /\ UNCHANGED active
    BY <1>6 DEF Write, SendInv, SendGoto
  <2>2. InSequence => InSequence'
    BY <1>6, <2>1, WriteKeepsSequence
  <2>3. QED
    BY <1>6, <2>1, <2>2 DEF Write, SendInv
<1>7. CASE CheckActive
  <2>1. InSequence /\ hand # 0 /\ InHand = 1
    BY <1>7 DEF CheckActive, SendInv, InHand
  <2>2. Len(wire) < accepted /\ hand = Len(wire) + 1
    BY <2>1 DEF InSequence, FramesOK
  <2>3. QED
    BY <1>7, <2>1, <2>2 DEF CheckActive, SendGoto, SendInv, InSequence, InHand
<1>8. CASE CheckExit \/ WaitExit
  <2>1. /\ UNCHANGED <<send_queue, accepted, wire, hand, active, need_exit>>
        /\ send \in {"check", "wait"}
        /\ send' = "wait" \/ (send' = "drain" /\ need_exit)
    <3>1. CASE CheckExit /\ need_exit
      BY <3>1 DEF CheckExit, SendGoto
    <3>2. CASE CheckExit /\ ~need_exit
      BY <3>2 DEF CheckExit, SendGoto
    <3>3. CASE WaitExit
      BY <3>3 DEF WaitExit, SendGoto
    <3>4. QED
      BY <1>8, <3>1, <3>2, <3>3
  <2>2. InSequence => InSequence'
    BY <2>1 DEF InSequence, InHand
  <2>3. QED
    BY <2>1, <2>2 DEF SendInv
<1>9. CASE Discard \/ WriteFails
  <2>1. ~active' /\ hand' = 0 /\ send' \in {"check", "drain"}
    BY <1>9 DEF Discard, WriteFails, SendGoto
  <2>2. QED
    BY <2>1 DEF SendInv
<1>10. CASE Drain
  BY <1>10 DEF Drain, SendGoto, SendInv
<1>11. CASE UNCHANGED sendQueueVars
  BY <1>2, <1>11 DEF sendQueueVars
<1>12. QED
  BY <1>3, <1>4, <1>5, <1>6, <1>7, <1>8, <1>9, <1>10, <1>11 DEF Next, SendLoopStep

LEMMA SendInvInit == Init => SendInv
  BY DEF Init, SendInv, InSequence, InHand

\* As long as neither flag is raised, the frames on the wire, in hand and queued
\* are exactly the accepted ones in order: nothing is lost, repeated, overtaken.
THEOREM NoFrameLost == Spec => []NothingLostWhileUp
<1>1. SendInv => NothingLostWhileUp
  BY DEF SendInv, NothingLostWhileUp
<1>2. TypeOK => FramesOK
  BY DEF TypeOK
<1>3. QED
  BY <1>1, <1>2, SendInvInit, SendInvStep, SendQueueTypes, PTL DEF Spec

\* The send side implements the channel that is ordered and fails at most once.
THEOREM SendQueueImplementsChannel == Spec => ImplementsChannel
<1>1. Init => Channel!Init
  BY DEF Init, Channel!Init
<1>2. FlagsOK /\ FramesOK /\ SendInv /\ [Next]_sendQueueVars
        => [Channel!Next]_(Channel!channelVars)
  <2> SUFFICES ASSUME FlagsOK, FramesOK, SendInv, [Next]_sendQueueVars
               PROVE  Channel!Next \/ UNCHANGED Channel!channelVars
    OBVIOUS
  <2> USE DEF flags, Channel!channelVars
  <2>1. CASE SendEnqueue \/ Pong
    BY <2>1 DEF SendEnqueue, Pong, EnqueueFrame, Channel!Next, Channel!Accept
  <2>2. CASE Write
    <3>1. Len(wire) < accepted /\ hand = Len(wire) + 1
      BY <2>2 DEF Write, SendInv
    <3>2. wire' = Append(wire, Len(wire) + 1) /\ send = "write" /\ UNCHANGED accepted
      BY <2>2, <3>1 DEF Write, SendGoto
    <3>3. (active \/ send = "write")' \in BOOLEAN
      BY Zenon DEF FlagsOK
    <3>4. QED
      BY <3>1, <3>2, <3>3 DEF Channel!Next, Channel!Deliver
  <2>3. CASE ReadLoopEnds \/ StopClear \/ WriteFails
    BY <2>3 DEF ReadLoopEnds, StopClear, WriteFails, SendGoto, FlagsOK, Channel!Next,
            Channel!Fail
  <2>4. CASE SendMessage \/ ReadLoopExit \/ StopNeedExit
    BY <2>4 DEF SendMessage, ReadLoopExit, SignalSendThread, EraseConnection,
            StopNeedExit
  <2>5. CASE CheckExit \/ WaitExit \/ Pop \/ CheckActive \/ Discard \/ Drain
    BY <2>5 DEF CheckExit, WaitExit, Pop, CheckActive, Discard, Drain, SendGoto,
            FlagsOK
  <2>6. CASE UNCHANGED sendQueueVars
    BY <2>6 DEF sendQueueVars
  <2>7. QED
    BY <2>1, <2>2, <2>3, <2>4, <2>5, <2>6 DEF Next, SendLoopStep
<1>3. TypeOK => FlagsOK /\ FramesOK
  BY DEF TypeOK
<1>4. QED
  BY <1>1, <1>2, <1>3, SendInvInit, SendInvStep, SendQueueTypes, PTL
     DEF Spec, ImplementsChannel, Channel!Spec

(***************************************************************************)
(* Both directions together                                                *)
(***************************************************************************)
\* What the robot and the network do is nothing to the sending side.
LEMMA OutsideStep ==
    ASSUME (\E f \in Frames : RobotSends(f)) \/ Arrive \/ RobotCloses
    PROVE  UNCHANGED sendQueueVars
BY DEF RobotSends, Arrive, RobotCloses

\* The read thread meets the sending side in two places: it answers a ping
\* through the queue, and it leaves its loop.
LEMMA ReadStepIsSendStep ==
    ASSUME ReadStep
    PROVE  [Next]_sendQueueVars
<1>1. CASE SeesFlag \/ ConnectionLost
  BY <1>1 DEF SeesFlag, ConnectionLost, Next
<1>2. CASE JsonPing
  BY <1>2 DEF JsonPing, Next
<1>3. CASE Poll \/ ReadHeader \/ ReadLength \/ ReadKey \/ ReadPayload \/ ReadFails
  <2>1. UNCHANGED sendQueueVars
    BY <1>3 DEF Poll, ReadHeader, ReadLength, ReadKey, ReadPayload, Take, ReadFails
  <2>2. QED
    BY <2>1
<1>4. CASE CloseFrame \/ PingFrame \/ WritePong \/ PongFrame \/ EmptyFrame \/ Deliver
  <2>1. UNCHANGED sendQueueVars
    BY <1>4 DEF CloseFrame, PingFrame, WritePong, PongFrame, EmptyFrame, Deliver
  <2>2. QED
    BY <2>1
<1>5. QED
  BY <1>1, <1>2, <1>3, <1>4 DEF ReadStep

LEMMA SendingSideIsSendStep ==
    ASSUME SendingSide
    PROVE  Next
BY DEF SendingSide, Caller, Next

\* A connection whose frames are taken apart by the read thread is a connection
\* of SendQueue, in which the read loop merely ends at some moment.
THEOREM WireImplementsSendQueue == WireSpec => Spec
<1>1. WireInit => Init
  BY DEF WireInit
<1>2. [WireNext]_wireVars => [Next]_sendQueueVars
  <2> SUFFICES ASSUME [WireNext]_wireVars
               PROVE  [Next]_sendQueueVars
    OBVIOUS
  <2>1. CASE (\E f \in Frames : RobotSends(f)) \/ Arrive \/ RobotCloses
    BY <2>1, OutsideStep
  <2>2. CASE ReadStep
    BY <2>2, ReadStepIsSendStep
  <2>3. CASE SendingSide
    BY <2>3, SendingSideIsSendStep
  <2>4. CASE MessageReturns
    BY <2>4 DEF MessageReturns
  <2>5. CASE UNCHANGED wireVars
    BY <2>5 DEF wireVars
  <2>6. QED
    BY <2>1, <2>2, <2>3, <2>4, <2>5 DEF WireNext
<1>3. QED
  BY <1>1, <1>2, PTL DEF WireSpec, Spec

\* While no flag is raised no accepted frame is lost, whatever the robot sends
\* and however the read thread answers its pings, for every size of the queue.
THEOREM WireLosesNoFrame == WireSpec => []NothingLostWhileUp
BY WireImplementsSendQueue, NoFrameLost, PTL

\* In the composition too the send side is an ordered channel that fails at most
\* once.
THEOREM WireImplementsChannel == WireSpec => ImplementsChannel
BY WireImplementsSendQueue, SendQueueImplementsChannel, PTL
(***************************************************************************)
(* The receiving side: numbers                                             *)
(***************************************************************************)
LEMMA LeastNat ==
    ASSUME NEW T, T \subseteq Nat, T # {}
    PROVE  \E k \in T : \A l \in T : k <= l
<1> DEFINE R == OpToRel(<, Nat)
<1>1. \E x \in T : \A y \in T : ~ (<<y, x>> \in R)
  <2>1. IsWellFoundedOn(R, Nat)
    BY NatLessThanWellFounded
  <2> HIDE DEF R
  <2>2. QED
    BY <2>1, WFMin
<1>2. ASSUME NEW x \in T, NEW y \in T, ~ (<<y, x>> \in R)
      PROVE  x <= y
  <2>1. <<y, x>> \in Nat \X Nat
    OBVIOUS
  <2>2. ~ (y < x)
    BY <1>2, <2>1 DEF OpToRel
  <2>3. QED
    BY <2>2
<1>3. QED
  BY <1>1, <1>2

\* The recursive functions exist: the least length for which there is none would
\* have a predecessor that can be extended.
LEMMA ShiftedIsDefined ==
    ASSUME NEW n \in Nat
    PROVE  /\ Shifted(n)[0] = n
           /\ \A k \in 1 .. 8 : Shifted(n)[k] = Shifted(n)[k - 1] \div 256
           /\ \A k \in 0 .. 8 : Shifted(n)[k] \in Nat
<1> DEFINE Body(f, k) == IF k = 0 THEN n ELSE f[k - 1] \div 256
           Shifts(f, m) == f = [k \in 0 .. m |-> Body(f, k)]
           Missing == {m \in Nat : \A f : ~ Shifts(f, m)}
<1>1. ASSUME NEW m \in Nat \ {0}, NEW f, Shifts(f, m - 1)
      PROVE  \E g : Shifts(g, m)
  <2> DEFINE g == [k \in 0 .. m |-> IF k = m THEN Body(f, m) ELSE f[k]]
  <2>1. ASSUME NEW k \in 0 .. m
        PROVE  g[k] = Body(g, k)
    <3>1. CASE k = m
      <4>1. g[k] = Body(f, m) /\ g[m - 1] = f[m - 1] /\ m # 0
        BY <3>1
      <4>2. QED
        BY <3>1, <4>1
    <3>2. CASE k = 0
      BY <1>1, <3>2
    <3>3. CASE k \in 1 .. m - 1
      <4>1. k \in 0 .. m - 1 /\ k - 1 \in 0 .. m - 1 /\ k # m /\ k - 1 # m
        BY <3>3
      <4>2. g[k] = f[k] /\ g[k - 1] = f[k - 1]
        BY <4>1
      <4>3. f[k] = Body(f, k)
        BY <1>1, <4>1
      <4>4. QED
        BY <4>2, <4>3
    <3>4. QED
      BY <3>1, <3>2, <3>3
  <2>2. g = [k \in 0 .. m |-> Body(g, k)]
    <3> HIDE DEF Body
    <3>1. QED
      BY <2>1
  <2>3. QED
    BY <2>2
<1>2. Shifts([k \in 0 .. 0 |-> n], 0)
  OBVIOUS
<1>3. Missing = {}
  <2> SUFFICES ASSUME Missing # {} PROVE FALSE
    OBVIOUS
  <2> HIDE DEF Shifts
  <2>1. PICK m \in Missing : \A l \in Missing : m <= l
    <3>1. Missing \subseteq Nat
      OBVIOUS
    <3> HIDE DEF Missing
    <3>2. QED
      BY <3>1, LeastNat
  <2>2. m \in Nat \ {0} /\ m - 1 \in Nat
    BY <1>2
  <2>3. m - 1 \notin Missing
    BY <2>1, <2>2
  <2>4. \E f : Shifts(f, m - 1)
    BY <2>2, <2>3
  <2>5. QED
    BY <1>1, <2>1, <2>2, <2>4
<1>4. \E f : Shifts(f, 8)
  <2> HIDE DEF Shifts
  <2>1. QED
    BY <1>3
<1> DEFINE shifted == CHOOSE f : f = [k \in 0 .. 8 |-> IF k = 0 THEN n ELSE f[k - 1] \div 256]
<1>5. shifted = [k \in 0 .. 8 |-> IF k = 0 THEN n ELSE shifted[k - 1] \div 256]
  BY <1>4
<1>6. Shifted(n) = shifted
  BY DEF Shifted
<1> HIDE DEF shifted
<1>7. shifted[0] = n
  BY <1>5
<1>8. \A k \in 1 .. 8 : shifted[k] = shifted[k - 1] \div 256
  BY <1>5
<1>9. /\ shifted[1] \in Nat /\ shifted[2] \in Nat /\ shifted[3] \in Nat /\ shifted[4] \in Nat
      /\ shifted[5] \in Nat /\ shifted[6] \in Nat /\ shifted[7] \in Nat /\ shifted[8] \in Nat
  <2>0. \A x \in Nat : x \div 256 \in Nat
    OBVIOUS
  <2>1. \A k \in 1 .. 8 : shifted[k - 1] \in Nat => shifted[k] \in Nat
    BY <1>8, <2>0
  <2>2. /\ 1 - 1 = 0 /\ 2 - 1 = 1 /\ 3 - 1 = 2 /\ 4 - 1 = 3 /\ 5 - 1 = 4
        /\ 6 - 1 = 5 /\ 7 - 1 = 6 /\ 8 - 1 = 7
    OBVIOUS
  <2>3. shifted[1] \in Nat /\ shifted[2] \in Nat /\ shifted[3] \in Nat
    BY <1>7, <2>1, <2>2
  <2>4. shifted[4] \in Nat /\ shifted[5] \in Nat /\ shifted[6] \in Nat
    BY <2>1, <2>2, <2>3
  <2>5. shifted[7] \in Nat /\ shifted[8] \in Nat
    BY <2>1, <2>2, <2>4
  <2>6. QED
    BY <2>3, <2>4, <2>5
<1>10. \A k \in 0 .. 8 : shifted[k] \in Nat
  <2>1. \A k \in 0 .. 8 : k \in {0, 1, 2, 3, 4, 5, 6, 7, 8}
    OBVIOUS
  <2>2. QED
    BY <1>7, <1>9, <2>1
<1>11. QED
  BY <1>6, <1>7, <1>8, <1>10

LEMMA NumberIsDefined ==
    ASSUME NEW bytes, Len(bytes) \in Nat
    PROVE  \E f : /\ Number(bytes) = f[Len(bytes)] /\ f[0] = 0
                  /\ \A i \in 1 .. Len(bytes) : f[i] = f[i - 1] * 256 + bytes[i]
<1> DEFINE N == Len(bytes)
           Body(f, i) == IF i = 0 THEN 0 ELSE f[i - 1] * 256 + bytes[i]
           Numbers(f, n) == f = [i \in 0 .. n |-> Body(f, i)]
           Missing == {n \in Nat : \A f : ~ Numbers(f, n)}
<1>1. ASSUME NEW n \in Nat \ {0}, NEW f, Numbers(f, n - 1)
      PROVE  \E g : Numbers(g, n)
  <2> DEFINE g == [i \in 0 .. n |-> IF i = n THEN Body(f, n) ELSE f[i]]
  <2>1. ASSUME NEW i \in 0 .. n
        PROVE  g[i] = Body(g, i)
    <3>1. CASE i = n
      <4>1. g[i] = Body(f, n) /\ g[n - 1] = f[n - 1] /\ n # 0
        BY <3>1
      <4>2. QED
        BY <3>1, <4>1
    <3>2. CASE i = 0
      BY <1>1, <3>2
    <3>3. CASE i \in 1 .. n - 1
      <4>1. i \in 0 .. n - 1 /\ i - 1 \in 0 .. n - 1 /\ i # n /\ i - 1 # n
        BY <3>3
      <4>2. g[i] = f[i] /\ g[i - 1] = f[i - 1]
        BY <4>1
      <4>3. f[i] = Body(f, i)
        BY <1>1, <4>1
      <4>4. QED
        BY <4>2, <4>3
    <3>4. QED
      BY <3>1, <3>2, <3>3
  <2>2. g = [i \in 0 .. n |-> Body(g, i)]
    <3> HIDE DEF Body
    <3>1. QED
      BY <2>1
  <2>3. QED
    BY <2>2
<1>2. Numbers([i \in 0 .. 0 |-> 0], 0)
  OBVIOUS
<1>3. Missing = {}
  <2> SUFFICES ASSUME Missing # {} PROVE FALSE
    OBVIOUS
  <2> HIDE DEF Numbers
  <2>1. PICK n \in Missing : \A m \in Missing : n <= m
    <3>1. Missing \subseteq Nat
      OBVIOUS
    <3> HIDE DEF Missing
    <3>2. QED
      BY <3>1, LeastNat
  <2>2. n \in Nat \ {0} /\ n - 1 \in Nat
    BY <1>2
  <2>3. n - 1 \notin Missing
    BY <2>1, <2>2
  <2>4. \E f : Numbers(f, n - 1)
    BY <2>2, <2>3
  <2>5. QED
    BY <1>1, <2>1, <2>2, <2>4
<1>4. \E f : Numbers(f, N)
  <2> HIDE DEF Numbers
  <2>1. QED
    BY <1>3
<1> DEFINE f == CHOOSE f : f = [i \in 0 .. N |-> IF i = 0 THEN 0 ELSE f[i - 1] * 256 + bytes[i]]
<1>5. f = [i \in 0 .. N |-> IF i = 0 THEN 0 ELSE f[i - 1] * 256 + bytes[i]]
  BY <1>4
<1>6. Number(bytes) = f[N]
  BY DEF Number
<1> HIDE DEF f
<1>7. f[0] = 0 /\ \A i \in 1 .. N : f[i] = f[i - 1] * 256 + bytes[i]
  BY <1>5
<1>8. QED
  BY <1>6, <1>7

\* What is read is the length that was coded, if it has no more bytes.
LEMMA LengthIsRead ==
    ASSUME NEW len \in Nat, NEW bytes \in 1 .. 8, Shifted(len)[bytes] = 0
    PROVE  Number(BigEndian(len, bytes)) = len
<1> DEFINE s == Shifted(len)
           b == BigEndian(len, bytes)
<1>1. Len(b) = bytes /\ \A i \in 1 .. bytes : b[i] = s[bytes - i] % 256
  <2>1. b = [i \in 1 .. bytes |-> s[bytes - i] % 256]
    BY DEF BigEndian
  <2> HIDE DEF s, b
  <2> DEFINE T == {b[i] : i \in 1 .. bytes}
  <2>2. b \in [1 .. bytes -> T] /\ bytes \in Nat
    BY <2>1
  <2> HIDE DEF T
  <2>3. Len(b) = bytes
    BY <2>2, SeqDef, LenProperties
  <2>4. QED
    BY <2>1, <2>3
<1> HIDE DEF s, b
<1>2. PICK f : /\ Number(b) = f[bytes] /\ f[0] = 0
               /\ \A i \in 1 .. bytes : f[i] = f[i - 1] * 256 + b[i]
  BY <1>1, NumberIsDefined
<1>3. /\ s[0] = len /\ s[bytes] = 0
      /\ \A k \in 1 .. 8 : s[k] = s[k - 1] \div 256
      /\ \A k \in 0 .. 8 : s[k] \in Nat
  BY ShiftedIsDefined DEF s
<1> DEFINE Wrong == {i \in 0 .. bytes : f[i] # s[bytes - i]}
<1>4. Wrong = {}
  <2> SUFFICES ASSUME Wrong # {} PROVE FALSE
    OBVIOUS
  <2>1. PICK i \in Wrong : \A j \in Wrong : i <= j
    <3>1. Wrong \subseteq Nat
      OBVIOUS
    <3> HIDE DEF Wrong
    <3>2. QED
      BY <3>1, LeastNat
  <2>2. i # 0
    BY <1>2, <1>3, <2>1
  <2>3. /\ i \in 1 .. bytes /\ i - 1 \in 0 .. bytes /\ ~ (i <= i - 1)
        /\ bytes - i \in 0 .. 8 /\ bytes - (i - 1) \in 1 .. 8
        /\ (bytes - (i - 1)) - 1 = bytes - i
    BY <2>2
  <2>4. f[i - 1] = s[bytes - (i - 1)]
    BY <2>1, <2>3
  <2>5. s[bytes - (i - 1)] = s[bytes - i] \div 256
    BY <1>3, <2>3
  <2>6. b[i] = s[bytes - i] % 256 /\ s[bytes - i] \in Nat
    BY <1>1, <1>3, <2>3
  <2>7. f[i] = f[i - 1] * 256 + b[i]
    BY <1>2, <2>3
  <2>8. \A x \in Nat : ((x \div 256) * 256) + (x % 256) = x
    OBVIOUS
  <2>9. f[i] = s[bytes - i]
    BY <2>4, <2>5, <2>6, <2>7, <2>8
  <2>10. QED
    BY <2>1, <2>9
<1>5. bytes \in 0 .. bytes /\ bytes - bytes = 0
  OBVIOUS
<1>6. f[bytes] = s[0]
  BY <1>4, <1>5
<1>7. QED
  BY <1>2, <1>3, <1>6 DEF b
(***************************************************************************)
(* The receiving side: the fields on their way                             *)
(***************************************************************************)
Parts == {"header", "length", "key", "payload"}

Numbered(f) == f.says = "message" /\ f.opcode \in {Text, Binary}

\* A field is a part of a frame; before and after count the messages that the robot
\* has sent without the frame and with it.
Piece(f, part, n) ==
    [frame |-> f, part |-> part, before |-> n, after |-> IF Numbered(f) THEN n + 1 ELSE n]

Pieces == {Piece(f, part, n) : f \in Frames, part \in Parts, n \in Nat}

\* Between two frames, n messages after the beginning.
Done(n) == [part |-> "done", after |-> n]

PayloadOf(g) ==
    [says |-> g.frame.says, number |-> IF Numbered(g.frame) THEN g.after ELSE 0,
     clear |-> ~ g.frame.masked]

FieldOf(g) ==
    CASE g.part = "header" ->
            Field(2, <<128 + g.frame.opcode,
                       (IF g.frame.masked THEN 128 ELSE 0) + Code(g.frame.len)>>)
      [] g.part = "length" ->
            Field(LengthBytes(g.frame.len), BigEndian(g.frame.len, LengthBytes(g.frame.len)))
      [] g.part = "key" -> Field(4, <<>>)
      [] g.part = "payload" -> Field(g.frame.len, PayloadOf(g))

Fields == {FieldOf(g) : g \in Pieces}

PartAfterKey(f) == IF f.len > 0 THEN "payload" ELSE "done"
PartAfterLength(f) == IF f.masked THEN "key" ELSE PartAfterKey(f)
NextPart(g) ==
    CASE g.part = "header" -> IF LengthBytes(g.frame.len) = 0 THEN PartAfterLength(g.frame)
                              ELSE "length"
      [] g.part = "length" -> PartAfterLength(g.frame)
      [] g.part = "key" -> PartAfterKey(g.frame)
      [] g.part \in {"payload", "done"} -> "done"

\* Frames are sent one after the other, and their messages are numbered so.
Follows(g, h) ==
    IF NextPart(g) = "done" THEN h.part = "header" /\ h.before = g.after
    ELSE h.part = NextPart(g) /\ h.frame = g.frame /\ h.before = g.before /\ h.after = g.after

\* The stream is the fields of these pieces; the piece before them is the one that
\* was read last.  The robot that is up leaves no frame unfinished.
StreamOf(G, stream, count, up) ==
    /\ \A i \in 1 .. Len(stream) :
         G[i] \in Pieces /\ stream[i] = FieldOf(G[i]) /\ Follows(G[i - 1], G[i])
    /\ \A i \in 0 .. Len(stream) : G[i].after \in Nat /\ G[i].after <= count
    /\ up => NextPart(G[Len(stream)]) = "done" /\ G[Len(stream)].after = count

LEMMA Singletons ==
    ASSUME NEW a, NEW b, NEW c, NEW d
    PROVE  /\ <<a>> \o <<>> = <<a>> /\ <<a>> \o <<b>> = <<a, b>>
           /\ <<a, b>> \o <<>> = <<a, b>> /\ <<a, b>> \o <<c>> = <<a, b, c>>
           /\ <<a, b, c>> \o <<>> = <<a, b, c>> /\ <<a, b, c>> \o <<d>> = <<a, b, c, d>>
<1> DEFINE T == {a, b, c, d}
<1>0. /\ <<a, b>> \in Seq(T) /\ <<a, b, c>> \in Seq(T) /\ <<a, b, c, d>> \in Seq(T)
      /\ Len(<<a>>) = 1 /\ Len(<<a, b>>) = 2 /\ Len(<<a, b, c>>) = 3 /\ Len(<<a, b, c, d>>) = 4
  OBVIOUS
<1>1. /\ a \in T /\ b \in T /\ c \in T /\ d \in T
      /\ <<a>> \in Seq(T) /\ <<a, b>> \in Seq(T) /\ <<a, b, c>> \in Seq(T)
  OBVIOUS
<1> HIDE DEF T
<1>2. /\ <<a>> \o <<>> = <<a>> /\ <<a, b>> \o <<>> = <<a, b>>
      /\ <<a, b, c>> \o <<>> = <<a, b, c>>
  BY <1>1, ConcatEmptySeq
<1>3. /\ <<a>> \o <<b>> = Append(<<a>>, b) /\ <<a, b>> \o <<c>> = Append(<<a, b>>, c)
      /\ <<a, b, c>> \o <<d>> = Append(<<a, b, c>>, d)
  BY <1>1, AppendIsConcat
<1>4. Append(<<a>>, b) = <<a, b>>
  <2>1. Append(<<a>>, b) \in Seq(T) /\ Len(Append(<<a>>, b)) = 2
    BY <1>0, <1>1, AppendProperties
  <2>2. \A i \in 1 .. 2 : Append(<<a>>, b)[i] = <<a, b>>[i]
    <3>1. \A i \in 1 .. 1 : Append(<<a>>, b)[i] = <<a>>[i]
      BY <1>0, <1>1, AppendProperties
    <3>2. Append(<<a>>, b)[2] = b
      BY <1>0, <1>1, AppendProperties
    <3>3. \A i \in 1 .. 1 : <<a>>[i] = <<a, b>>[i]
      OBVIOUS
    <3>4. <<a, b>>[2] = b /\ \A i \in 1 .. 2 : i = 2 \/ i \in 1 .. 1
      OBVIOUS
    <3>5. QED
      BY <3>1, <3>2, <3>3, <3>4
  <2>3. QED
    BY <1>0, <2>1, <2>2, SeqEqual
<1>5. Append(<<a, b>>, c) = <<a, b, c>>
  <2>1. Append(<<a, b>>, c) \in Seq(T) /\ Len(Append(<<a, b>>, c)) = 3
    BY <1>0, <1>1, AppendProperties
  <2>2. \A i \in 1 .. 3 : Append(<<a, b>>, c)[i] = <<a, b, c>>[i]
    <3>1. \A i \in 1 .. 2 : Append(<<a, b>>, c)[i] = <<a, b>>[i]
      BY <1>0, <1>1, AppendProperties
    <3>2. Append(<<a, b>>, c)[3] = c
      BY <1>0, <1>1, AppendProperties
    <3>3. \A i \in 1 .. 2 : <<a, b>>[i] = <<a, b, c>>[i]
      OBVIOUS
    <3>4. <<a, b, c>>[3] = c /\ \A i \in 1 .. 3 : i = 3 \/ i \in 1 .. 2
      OBVIOUS
    <3>5. QED
      BY <3>1, <3>2, <3>3, <3>4
  <2>3. QED
    BY <1>0, <2>1, <2>2, SeqEqual
<1>6. Append(<<a, b, c>>, d) = <<a, b, c, d>>
  <2>1. Append(<<a, b, c>>, d) \in Seq(T) /\ Len(Append(<<a, b, c>>, d)) = 4
    BY <1>0, <1>1, AppendProperties
  <2>2. \A i \in 1 .. 4 : Append(<<a, b, c>>, d)[i] = <<a, b, c, d>>[i]
    <3>1. \A i \in 1 .. 3 : Append(<<a, b, c>>, d)[i] = <<a, b, c>>[i]
      BY <1>0, <1>1, AppendProperties
    <3>2. Append(<<a, b, c>>, d)[4] = d
      BY <1>0, <1>1, AppendProperties
    <3>3. \A i \in 1 .. 3 : <<a, b, c>>[i] = <<a, b, c, d>>[i]
      OBVIOUS
    <3>4. <<a, b, c, d>>[4] = d /\ \A i \in 1 .. 4 : i = 4 \/ i \in 1 .. 3
      OBVIOUS
    <3>5. QED
      BY <3>1, <3>2, <3>3, <3>4
  <2>3. QED
    BY <1>0, <2>1, <2>2, SeqEqual
<1>7. QED
  BY <1>2, <1>3, <1>4, <1>5, <1>6

LEMMA HeadIsFirst ==
    ASSUME NEW T, NEW s \in Seq(T), s # <<>>
    PROVE  <<Head(s)>> \o Tail(s) = s
<1> DEFINE x == Head(s)
<1>1. /\ x \in T /\ Tail(s) \in Seq(T) /\ Len(Tail(s)) = Len(s) - 1
      /\ \A i \in 1 .. Len(s) - 1 : Tail(s)[i] = s[i + 1]
  BY HeadTailProperties
<1>2. x = s[1] /\ Len(s) \in Nat \ {0}
  BY EmptySeq
<1>3. <<x>> \in Seq(T) /\ Len(<<x>>) = 1 /\ <<x>>[1] = x
  BY <1>1
<1> DEFINE long == <<x>> \o Tail(s)
<1>4. /\ long \in Seq(T) /\ Len(long) = Len(s)
      /\ \A i \in 1 .. Len(s) : long[i] = IF i <= 1 THEN <<x>>[i] ELSE Tail(s)[i - 1]
  BY <1>1, <1>2, <1>3, ConcatProperties
<1> HIDE DEF long, x
<1>5. ASSUME NEW i \in 1 .. Len(s)
      PROVE  long[i] = s[i]
  <2>1. CASE i = 1
    BY <1>2, <1>3, <1>4, <2>1
  <2>2. CASE i # 1
    <3>1. i - 1 \in 1 .. Len(s) - 1 /\ (i - 1) + 1 = i /\ ~ (i <= 1)
      BY <1>2, <2>2
    <3>2. QED
      BY <1>1, <1>4, <3>1
  <2>3. QED
    BY <2>1, <2>2
<1>6. long = s
  BY <1>4, <1>5, SeqEqual
<1>7. QED
  BY <1>6 DEF long, x

LEMMA FrameIsTyped ==
    ASSUME NEW f \in Frames
    PROVE  /\ f.opcode \in {1, 2, 8, 9, 10} /\ f.len \in Nat /\ f.masked \in BOOLEAN
           /\ LengthBytes(f.len) = 0 => Code(f.len) = f.len /\ f.len < 126
           /\ LengthBytes(f.len) # 0 =>
                /\ LengthBytes(f.len) \in {2, 8} /\ f.len > 0
                /\ Code(f.len) = IF LengthBytes(f.len) = 2 THEN 126 ELSE 127
           /\ Code(f.len) \in 0 .. 127
  BY FramesAssumption DEF LengthBytes, Code, Text, Binary, Close, Ping, Pong_

LEMMA PieceIsTyped ==
    ASSUME NEW g \in Pieces
    PROVE  /\ g.frame \in Frames /\ g.part \in Parts /\ g.before \in Nat /\ g.after \in Nat
           /\ g.after = IF Numbered(g.frame) THEN g.before + 1 ELSE g.before
  BY DEF Pieces, Piece

\* What the robot sends for a frame are its parts in order.
LEMMA EncodeIsPieces ==
    ASSUME NEW f \in Frames, NEW n \in Nat
    PROVE  LET payload == PayloadOf(Piece(f, "payload", n))
               fields == Encode(f, payload)
           IN  \E m \in Nat \ {0} : \E P :
                 /\ fields \in Seq(Fields) /\ Len(fields) = m
                 /\ \A i \in 1 .. m : P[i] \in Pieces /\ fields[i] = FieldOf(P[i])
                 /\ \A i \in 2 .. m : Follows(P[i - 1], P[i])
                 /\ P[1].part = "header" /\ P[1].before = n
                 /\ \A i \in 1 .. m : P[i].after = IF Numbered(f) THEN n + 1 ELSE n
                 /\ NextPart(P[m]) = "done"
<1> DEFINE payload == PayloadOf(Piece(f, "payload", n))
           fields == Encode(f, payload)
           h == Piece(f, "header", n)
           l == Piece(f, "length", n)
           k == Piece(f, "key", n)
           p == Piece(f, "payload", n)
           fh == FieldOf(h)
           fl == FieldOf(l)
           fk == FieldOf(k)
           fp == FieldOf(p)
           after == IF Numbered(f) THEN n + 1 ELSE n
           Right(P, F, m) ==
               /\ F \in Seq(Fields) /\ Len(F) = m
               /\ \A i \in 1 .. m : P[i] \in Pieces /\ F[i] = FieldOf(P[i])
               /\ \A i \in 2 .. m : Follows(P[i - 1], P[i])
               /\ P[1].part = "header" /\ P[1].before = n
               /\ \A i \in 1 .. m : P[i].after = after
               /\ NextPart(P[m]) = "done"
<1> SUFFICES \E m \in Nat \ {0} : \E P : Right(P, fields, m)
  OBVIOUS
<1>1. fields = <<fh>> \o (IF LengthBytes(f.len) = 0 THEN <<>> ELSE <<fl>>)
                      \o (IF f.masked THEN <<fk>> ELSE <<>>)
                      \o (IF f.len = 0 THEN <<>> ELSE <<fp>>)
  BY DEF Encode, FieldOf, Piece
<1>2. /\ h \in Pieces /\ l \in Pieces /\ k \in Pieces /\ p \in Pieces
      /\ fh \in Fields /\ fl \in Fields /\ fk \in Fields /\ fp \in Fields
  BY DEF Pieces, Parts, Fields
<1>3. /\ h.after = after /\ l.after = after /\ k.after = after /\ p.after = after
      /\ h.before = n /\ l.before = n /\ k.before = n /\ p.before = n
      /\ h.part = "header" /\ l.part = "length" /\ k.part = "key" /\ p.part = "payload"
      /\ h.frame = f /\ l.frame = f /\ k.frame = f /\ p.frame = f
  BY DEF Piece
<1> HIDE DEF fields, h, l, k, p, fh, fl, fk, fp, after, Right
<1>4. /\ NextPart(h) = IF LengthBytes(f.len) = 0 THEN PartAfterLength(f) ELSE "length"
      /\ NextPart(l) = PartAfterLength(f)
      /\ NextPart(k) = PartAfterKey(f)
      /\ NextPart(p) = "done"
  BY <1>3 DEF NextPart
<1>5. /\ f.len \in Nat /\ f.masked \in BOOLEAN
      /\ f.len = 0 => LengthBytes(f.len) = 0
  BY FrameIsTyped
<1>6. \A g, o \in {h, l, k, p} : NextPart(g) = o.part => Follows(g, o)
  BY <1>3 DEF Follows
<1>7. CASE LengthBytes(f.len) = 0 /\ ~ f.masked /\ f.len = 0
  <2>1. fields = <<fh>>
    <3>1. fields = <<fh>> \o <<>> \o <<>> \o <<>>
      BY <1>1, <1>7
    <3>2. QED
      BY <3>1, Singletons
  <2>2. NextPart(h) = "done"
    BY <1>4, <1>7 DEF PartAfterLength, PartAfterKey
  <2>3. Right(<<h>>, <<fh>>, 1)
    BY <1>2, <1>3, <2>2 DEF Right, fh
  <2>4. QED
    BY <2>1, <2>3
<1>8. CASE LengthBytes(f.len) = 0 /\ ~ f.masked /\ f.len # 0
  <2>1. fields = <<fh, fp>>
    <3>1. fields = <<fh>> \o <<>> \o <<>> \o <<fp>>
      BY <1>1, <1>8
    <3>2. QED
      BY <3>1, Singletons
  <2>2. Follows(h, p)
    BY <1>3, <1>4, <1>5, <1>6, <1>8 DEF PartAfterLength, PartAfterKey
  <2>3. Right(<<h, p>>, <<fh, fp>>, 2)
    BY <1>2, <1>3, <1>4, <2>2 DEF Right, fh, fp
  <2>4. QED
    BY <2>1, <2>3
<1>9. CASE LengthBytes(f.len) = 0 /\ f.masked /\ f.len = 0
  <2>1. fields = <<fh, fk>>
    <3>1. fields = <<fh>> \o <<>> \o <<fk>> \o <<>>
      BY <1>1, <1>9
    <3>2. QED
      BY <3>1, Singletons
  <2>2. Follows(h, k) /\ NextPart(k) = "done"
    BY <1>3, <1>4, <1>5, <1>6, <1>9 DEF PartAfterLength, PartAfterKey
  <2>3. Right(<<h, k>>, <<fh, fk>>, 2)
    BY <1>2, <1>3, <2>2 DEF Right, fh, fk
  <2>4. QED
    BY <2>1, <2>3
<1>10. CASE LengthBytes(f.len) = 0 /\ f.masked /\ f.len # 0
  <2>1. fields = <<fh, fk, fp>>
    <3>1. fields = <<fh>> \o <<>> \o <<fk>> \o <<fp>>
      BY <1>1, <1>10
    <3>2. QED
      BY <3>1, Singletons
  <2>2. Follows(h, k) /\ Follows(k, p)
    BY <1>3, <1>4, <1>5, <1>6, <1>10 DEF PartAfterLength, PartAfterKey
  <2>3. Right(<<h, k, p>>, <<fh, fk, fp>>, 3)
    BY <1>2, <1>3, <1>4, <2>2 DEF Right, fh, fk, fp
  <2>4. QED
    BY <2>1, <2>3
<1>11. CASE LengthBytes(f.len) # 0 /\ ~ f.masked
  <2>1. fields = <<fh, fl, fp>>
    <3>1. fields = <<fh>> \o <<fl>> \o <<>> \o <<fp>>
      BY <1>1, <1>5, <1>11
    <3>2. QED
      BY <3>1, Singletons
  <2>2. Follows(h, l) /\ Follows(l, p)
    BY <1>3, <1>4, <1>5, <1>6, <1>11 DEF PartAfterLength, PartAfterKey
  <2>3. Right(<<h, l, p>>, <<fh, fl, fp>>, 3)
    BY <1>2, <1>3, <1>4, <2>2 DEF Right, fh, fl, fp
  <2>4. QED
    BY <2>1, <2>3
<1>12. CASE LengthBytes(f.len) # 0 /\ f.masked
  <2>1. fields = <<fh, fl, fk, fp>>
    <3>1. fields = <<fh>> \o <<fl>> \o <<fk>> \o <<fp>>
      BY <1>1, <1>5, <1>12
    <3>2. <<fh>> \o <<fl>> = <<fh, fl>> /\ <<fh, fl>> \o <<fk>> = <<fh, fl, fk>>
      BY Singletons
    <3>3. <<fh, fl, fk>> \o <<fp>> = <<fh, fl, fk, fp>>
      BY Singletons
    <3>4. QED
      BY <3>1, <3>2, <3>3
  <2>2. Follows(h, l) /\ Follows(l, k) /\ Follows(k, p)
    BY <1>3, <1>4, <1>5, <1>6, <1>12 DEF PartAfterLength, PartAfterKey
  <2>3. Right(<<h, l, k, p>>, <<fh, fl, fk, fp>>, 4)
    BY <1>2, <1>3, <1>4, <2>2 DEF Right, fh, fl, fk, fp
  <2>4. QED
    BY <2>1, <2>3
<1>13. QED
  BY <1>5, <1>7, <1>8, <1>9, <1>10, <1>11, <1>12

\* A frame is appended to the stream.
LEMMA SendExtendsStream ==
    ASSUME NEW stream \in Seq(Fields), NEW n \in Nat, NEW G, StreamOf(G, stream, n, TRUE),
           NEW f \in Frames
    PROVE  LET fields == Encode(f, PayloadOf(Piece(f, "payload", n)))
               count == IF Numbered(f) THEN n + 1 ELSE n
           IN  /\ fields \in Seq(Fields)
               /\ \E H : H[0] = G[0] /\ StreamOf(H, stream \o fields, count, TRUE)
<1> DEFINE fields == Encode(f, PayloadOf(Piece(f, "payload", n)))
           count == IF Numbered(f) THEN n + 1 ELSE n
           N == Len(stream)
<1>0. PICK m \in Nat \ {0} : \E P :
          /\ fields \in Seq(Fields) /\ Len(fields) = m
          /\ \A i \in 1 .. m : P[i] \in Pieces /\ fields[i] = FieldOf(P[i])
          /\ \A i \in 2 .. m : Follows(P[i - 1], P[i])
          /\ P[1].part = "header" /\ P[1].before = n
          /\ \A i \in 1 .. m : P[i].after = count
          /\ NextPart(P[m]) = "done"
  BY EncodeIsPieces
<1>1. PICK P :
        /\ fields \in Seq(Fields) /\ Len(fields) = m
        /\ \A i \in 1 .. m : P[i] \in Pieces /\ fields[i] = FieldOf(P[i])
        /\ \A i \in 2 .. m : Follows(P[i - 1], P[i])
        /\ P[1].part = "header" /\ P[1].before = n
        /\ \A i \in 1 .. m : P[i].after = count
        /\ NextPart(P[m]) = "done"
  BY <1>0
<1>2. count \in Nat /\ n <= count /\ N \in Nat
  BY LenProperties
<1> HIDE DEF fields, count
<1> DEFINE H == [i \in 0 .. N + m |-> IF i <= N THEN G[i] ELSE P[i - N]]
           long == stream \o fields
<1>3. /\ Len(long) = N + m
      /\ \A i \in 1 .. N + m : long[i] = IF i <= N THEN stream[i] ELSE fields[i - N]
  BY <1>1, ConcatProperties
<1> HIDE DEF long
<1>4. ASSUME NEW i \in 1 .. N + m
      PROVE  H[i] \in Pieces /\ long[i] = FieldOf(H[i]) /\ Follows(H[i - 1], H[i])
  <2>1. CASE i <= N
    <3>1. i \in 1 .. N /\ i - 1 <= N /\ i - 1 \in 0 .. N + m /\ i \in 0 .. N + m
      BY <1>2, <2>1
    <3>2. H[i] = G[i] /\ H[i - 1] = G[i - 1]
      BY <2>1, <3>1
    <3>3. QED
      BY <1>3, <2>1, <3>1, <3>2 DEF StreamOf
  <2>2. CASE i = N + 1
    <3>1. i - N = 1 /\ 1 \in 1 .. m /\ i - 1 = N /\ ~ (i <= N) /\ N \in 0 .. N + m /\ i \in 0 .. N + m
      BY <1>1, <1>2, <2>2
    <3>2. H[i] = P[1] /\ H[i - 1] = G[N] /\ long[i] = fields[1]
      BY <1>3, <3>1
    <3>3. NextPart(G[N]) = "done" /\ G[N].after = n
      BY DEF StreamOf
    <3> HIDE DEF H
    <3>4. QED
      BY <1>1, <3>1, <3>2, <3>3 DEF Follows
  <2>3. CASE i > N + 1
    <3>1. /\ i - N \in 2 .. m /\ i - N \in 1 .. m /\ (i - N) - 1 = (i - 1) - N
          /\ ~ (i <= N) /\ ~ (i - 1 <= N) /\ i - 1 \in 0 .. N + m /\ i \in 0 .. N + m
      BY <1>1, <1>2, <2>3
    <3>2. H[i] = P[i - N] /\ H[i - 1] = P[(i - N) - 1] /\ long[i] = fields[i - N]
      BY <1>3, <3>1
    <3> HIDE DEF H
    <3>3. QED
      BY <1>1, <3>1, <3>2
  <2>4. QED
    BY <1>2, <2>1, <2>2, <2>3
<1>5. ASSUME NEW i \in 0 .. N + m
      PROVE  H[i].after \in Nat /\ H[i].after <= count
  <2>1. CASE i <= N
    <3>1. i \in 0 .. N
      BY <1>2, <2>1
    <3>2. H[i] = G[i] /\ G[i].after \in Nat /\ G[i].after <= n
      BY <2>1, <3>1 DEF StreamOf
    <3> HIDE DEF H
    <3>3. QED
      BY <1>2, <3>2
  <2>2. CASE ~ (i <= N)
    <3>1. i - N \in 1 .. m
      BY <1>1, <1>2, <2>2
    <3>2. H[i] = P[i - N]
      BY <2>2
    <3> HIDE DEF H
    <3>3. QED
      BY <1>1, <1>2, <3>1, <3>2
  <2>3. QED
    BY <2>1, <2>2
<1>6. NextPart(H[N + m]) = "done" /\ H[N + m].after = count
  <2>1. N + m \in 0 .. N + m /\ ~ (N + m <= N) /\ (N + m) - N = m /\ m \in 1 .. m
    BY <1>1, <1>2
  <2>2. H[N + m] = P[m]
    BY <2>1
  <2> HIDE DEF H
  <2>3. QED
    BY <1>1, <2>1, <2>2
<1>7. H[0] = G[0]
  BY <1>2
<1> HIDE DEF H
<1>8. StreamOf(H, long, count, TRUE)
  BY <1>3, <1>4, <1>5, <1>6 DEF StreamOf
<1>9. QED
  BY <1>1, <1>7, <1>8 DEF long, fields, count

\* The robot goes: what has not arrived is lost.
LEMMA CloseCutsStream ==
    ASSUME NEW s \in Seq(Fields), NEW q \in Seq(Fields), NEW n, NEW up, NEW G,
           StreamOf(G, s \o q, n, up)
    PROVE  StreamOf(G, s \o <<>>, n, FALSE)
<1>1. /\ Len(s) \in Nat /\ Len(q) \in Nat /\ s \o <<>> = s
      /\ Len(s \o q) = Len(s) + Len(q)
      /\ \A i \in 1 .. Len(s) : (s \o q)[i] = s[i]
  BY ConcatProperties, ConcatEmptySeq, LenProperties
<1>2. \A i \in 1 .. Len(s) : i \in 1 .. Len(s \o q)
  BY <1>1
<1>3. \A i \in 0 .. Len(s) : i \in 0 .. Len(s \o q)
  BY <1>1
<1>4. QED
  BY <1>1, <1>2, <1>3 DEF StreamOf

\* The first field that has arrived is the part that comes next.
LEMMA FirstField ==
    ASSUME NEW s \in Seq(Fields), s # <<>>, NEW q \in Seq(Fields), NEW n, NEW up, NEW G,
           StreamOf(G, s \o q, n, up)
    PROVE  G[1] \in Pieces /\ Head(s) = FieldOf(G[1]) /\ Follows(G[0], G[1])
<1>1. Len(s) \in Nat /\ Len(q) \in Nat /\ Len(s) >= 1
  BY LenProperties, EmptySeq
<1>2. 1 \in 1 .. Len(s \o q) /\ (s \o q)[1] = Head(s) /\ 1 - 1 = 0
  BY <1>1, ConcatProperties
<1>3. QED
  BY <1>2 DEF StreamOf

\* It is read.
LEMMA TakeShiftsStream ==
    ASSUME NEW s \in Seq(Fields), s # <<>>, NEW q \in Seq(Fields), NEW n, NEW up, NEW G,
           StreamOf(G, s \o q, n, up)
    PROVE  \E H : H[0] = G[1] /\ StreamOf(H, Tail(s) \o q, n, up)
<1> DEFINE old == s \o q
           new == Tail(s) \o q
           N == Len(old)
<1>1. Len(s) \in Nat /\ Len(q) \in Nat /\ Len(s) >= 1
  BY LenProperties, EmptySeq
<1>2. /\ Tail(s) \in Seq(Fields) /\ Len(Tail(s)) = Len(s) - 1
      /\ \A i \in 1 .. Len(s) - 1 : Tail(s)[i] = s[i + 1]
  BY HeadTailProperties
<1>3. /\ N = Len(s) + Len(q) /\ Len(new) = N - 1 /\ N \in Nat /\ N >= 1
      /\ \A i \in 1 .. N - 1 : new[i] = old[i + 1]
  BY <1>1, <1>2, ConcatProperties
<1> HIDE DEF old, new
<1> DEFINE H == [i \in 0 .. N - 1 |-> G[i + 1]]
<1>4. ASSUME NEW i \in 1 .. N - 1
      PROVE  H[i] \in Pieces /\ new[i] = FieldOf(H[i]) /\ Follows(H[i - 1], H[i])
  <2>1. i + 1 \in 1 .. N /\ (i + 1) - 1 = (i - 1) + 1 /\ i \in 0 .. N - 1 /\ i - 1 \in 0 .. N - 1
    BY <1>3
  <2>2. H[i] = G[i + 1] /\ H[i - 1] = G[(i + 1) - 1]
    BY <2>1
  <2> HIDE DEF H
  <2>3. QED
    BY <1>3, <2>1, <2>2 DEF StreamOf, old
<1>5. ASSUME NEW i \in 0 .. N - 1
      PROVE  H[i].after \in Nat /\ H[i].after <= n
  <2>1. i + 1 \in 0 .. N /\ H[i] = G[i + 1]
    BY <1>3
  <2> HIDE DEF H
  <2>2. QED
    BY <2>1 DEF StreamOf, old
<1>6. H[N - 1] = G[N] /\ H[0] = G[1]
  BY <1>3
<1> HIDE DEF H
<1>7. StreamOf(H, new, n, up)
  BY <1>3, <1>4, <1>5, <1>6 DEF StreamOf, old
<1>8. QED
  BY <1>6, <1>7 DEF new

\* A frame that has been read to its end has been dealt with.
LEMMA FrameIsDone ==
    ASSUME NEW stream \in Seq(Fields), NEW n, NEW up, NEW G, StreamOf(G, stream, n, up),
           NextPart(G[0]) = "done"
    PROVE  \E H : H[0] = Done(G[0].after) /\ StreamOf(H, stream, n, up)
<1> DEFINE N == Len(stream)
           d == Done(G[0].after)
           H == [i \in 0 .. N |-> IF i = 0 THEN d ELSE G[i]]
<1>1. N \in Nat
  BY LenProperties
<1>2. NextPart(d) = "done" /\ d.after = G[0].after
  BY DEF NextPart, Done
<1> HIDE DEF d
<1>3. H[0] = d /\ \A i \in 1 .. N : H[i] = G[i]
  BY <1>1
<1> HIDE DEF H
<1>4. ASSUME NEW i \in 1 .. N
      PROVE  H[i] \in Pieces /\ stream[i] = FieldOf(H[i]) /\ Follows(H[i - 1], H[i])
  <2>1. G[i] \in Pieces /\ stream[i] = FieldOf(G[i]) /\ Follows(G[i - 1], G[i])
    BY DEF StreamOf
  <2>2. CASE i = 1
    BY <1>2, <1>3, <2>1, <2>2 DEF Follows
  <2>3. CASE i # 1
    <3>1. i - 1 \in 1 .. N
      BY <1>1, <2>3
    <3>2. QED
      BY <1>3, <2>1, <3>1
  <2>4. QED
    BY <2>2, <2>3
<1>5. ASSUME NEW i \in 0 .. N PROVE H[i].after \in Nat /\ H[i].after <= n
  <2>1. G[i].after \in Nat /\ G[i].after <= n
    BY DEF StreamOf
  <2>2. i = 0 \/ i \in 1 .. N
    BY <1>1
  <2>3. QED
    BY <1>2, <1>3, <2>1, <2>2
<1>6. up => NextPart(H[N]) = "done" /\ H[N].after = n
  <2>1. N = 0 \/ N \in 1 .. N
    BY <1>1
  <2>2. QED
    BY <1>2, <1>3, <2>1 DEF StreamOf
<1>7. QED
  BY <1>3, <1>4, <1>5, <1>6 DEF StreamOf, d

(***************************************************************************)
(* The receiving side: the read thread                                     *)
(***************************************************************************)
\* What ReceiveFrame knows of a frame, g being the part of it that was read last.
FrameRead(g) ==
    [opcode  |-> g.frame.opcode, masked |-> g.frame.masked,
     len     |-> IF at = "length" THEN Code(g.frame.len) ELSE g.frame.len,
     payload |-> IF at = "frame" /\ g.frame.len > 0
                 THEN [says |-> g.frame.says,
                       number |-> IF Numbered(g.frame) THEN g.after ELSE 0, clear |-> TRUE]
                 ELSE NoPayload]

\* Where the read thread stands: between two frames, with every message before it
\* delivered, or in a frame whose parts up to g it has read.
Reader(g) ==
    /\ at \in {"poll", "header", "pong", "message"} =>
         g.part = "done" /\ g.after = Len(delivered) /\ frame = NoFrame
    /\ at \in {"length", "key", "payload", "frame"} =>
         /\ g \in Pieces /\ g.before = Len(delivered)
         /\ NextPart(g) = IF at = "frame" THEN "done" ELSE at
         /\ frame = FrameRead(g)

\* What is under way goes on where the read thread stands.
InPlace == \E G : StreamOf(G, arrived \o sending, sent, robot = "up") /\ Reader(G[0])

WireTypes ==
    /\ robot \in {"up", "closed"}
    /\ frames \in 0 .. MaxSent /\ sent \in 0 .. frames
    /\ at \in Reads \cup {"poll", "frame", "pong", "message", "lost"}
    /\ delivered \in Seq(0 .. sent)
    /\ arrived \in Seq(Fields) /\ sending \in Seq(Fields)

\* A read thread that has given up, or has left its loop, need not be in place.
WireInv ==
    /\ WireTypes
    /\ read # "reading" => at \in {"poll", "lost"}
    /\ read = "reading" /\ at # "lost" => InPlace

LEMMA WireInvInit == WireInit => WireInv
<1> SUFFICES ASSUME WireInit PROVE WireInv
  OBVIOUS
<1> DEFINE G == [i \in 0 .. 0 |-> Done(0)]
<1>1. G[0] = Done(0) /\ G[0].part = "done" /\ G[0].after = 0 /\ NextPart(G[0]) = "done"
  BY DEF Done, NextPart
<1>2. /\ arrived \o sending = <<>> /\ Len(arrived \o sending) = 0
      /\ sent = 0 /\ at = "poll" /\ frame = NoFrame /\ delivered = <<>> /\ Len(delivered) = 0
  BY DEF WireInit
<1> HIDE DEF G
<1>3. StreamOf(G, arrived \o sending, sent, robot = "up")
  <2>1. /\ \A i \in 1 .. 0 : FALSE
        /\ \A i \in 0 .. 0 : i = 0
    OBVIOUS
  <2>2. QED
    BY <1>1, <1>2, <2>1 DEF StreamOf
<1>4. Reader(G[0])
  BY <1>1, <1>2 DEF Reader
<1>5. WireTypes
  BY FramesAssumption DEF WireInit, WireTypes, Reads
<1>6. QED
  BY <1>2, <1>3, <1>4, <1>5 DEF WireInv, InPlace, WireInit, Init

\* The next field, and the stream without it.
LEMMA NextField ==
    ASSUME WireInv, read = "reading", at # "lost", arrived # <<>>
    PROVE  \E G, H : /\ Reader(G[0]) /\ Follows(G[0], G[1])
                     /\ G[1] \in Pieces /\ Head(arrived) = FieldOf(G[1])
                     /\ H[0] = G[1]
                     /\ StreamOf(H, Tail(arrived) \o sending, sent, robot = "up")
<1>1. PICK G : StreamOf(G, arrived \o sending, sent, robot = "up") /\ Reader(G[0])
  BY DEF WireInv, InPlace
<1>2. arrived \in Seq(Fields) /\ sending \in Seq(Fields)
  BY DEF WireInv, WireTypes
<1>3. G[1] \in Pieces /\ Head(arrived) = FieldOf(G[1]) /\ Follows(G[0], G[1])
  BY <1>1, <1>2, FirstField
<1>4. PICK H : H[0] = G[1] /\ StreamOf(H, Tail(arrived) \o sending, sent, robot = "up")
  BY <1>1, <1>2, TakeShiftsStream
<1>5. QED
  BY <1>1, <1>3, <1>4

\* The part that comes next is the one that is asked for.
LEMMA NextPartIsWanted ==
    ASSUME NEW g, Reader(g), NEW h \in Pieces, Follows(g, h), at \in Reads
    PROVE  /\ h.part = at /\ FieldOf(h).bytes = Wanted
           /\ h.before = Len(delivered)
           /\ at # "header" => /\ h.frame = g.frame /\ h.after = g.after
                               /\ g \in Pieces /\ frame = FrameRead(g)
           /\ at = "header" => frame = NoFrame
<1> USE DEF Reader, Reads
<1>0. h.frame \in Frames
  BY PieceIsTyped
<1>1. CASE at = "header"
  <2>1. NextPart(g) = "done"
    BY <1>1 DEF NextPart
  <2>2. h.part = "header" /\ h.before = Len(delivered)
    BY <1>1, <2>1 DEF Follows
  <2>3. QED
    BY <1>1, <2>2 DEF FieldOf, Field, Wanted
<1>2. CASE at # "header"
  <2>1. NextPart(g) = at /\ at # "done" /\ at # "frame" /\ frame = FrameRead(g)
    BY <1>2
  <2>2. /\ h.part = at /\ h.frame = g.frame /\ h.before = Len(delivered) /\ h.after = g.after
    BY <1>2, <2>1 DEF Follows
  <2>3. frame.len = IF at = "length" THEN Code(h.frame.len) ELSE h.frame.len
    <3>1. FrameRead(g).len = IF at = "length" THEN Code(g.frame.len) ELSE g.frame.len
      BY DEF FrameRead
    <3>2. QED
      BY <2>1, <2>2, <3>1
  <2>4. CASE at = "length"
    <3>1. NextPart(g) = "length"
      BY <2>1, <2>4
    <3>2. LengthBytes(g.frame.len) # 0
      <4>1. g.part \in Parts
        BY <1>2, PieceIsTyped
      <4>2. QED
        BY <3>1, <4>1 DEF NextPart, PartAfterLength, PartAfterKey, Parts
    <3>3. LengthBytes(h.frame.len) = IF Code(h.frame.len) = 126 THEN 2 ELSE 8
      BY <1>0, <2>2, <3>2, FrameIsTyped
    <3>4. FieldOf(h).bytes = LengthBytes(h.frame.len)
      BY <2>2, <2>4 DEF FieldOf, Field
    <3>5. QED
      BY <1>2, <2>1, <2>2, <2>3, <2>4, <3>3, <3>4 DEF Wanted
  <2>5. CASE at = "key"
    <3>1. FieldOf(h) = Field(4, <<>>)
      BY <2>2, <2>5 DEF FieldOf
    <3>2. FieldOf(h).bytes = 4 /\ Wanted = 4
      BY <2>5, <3>1 DEF Field, Wanted
    <3>3. QED
      BY <1>2, <2>1, <2>2, <2>5, <3>2
  <2>6. CASE at = "payload"
    BY <1>2, <2>1, <2>2, <2>3, <2>6 DEF FieldOf, Field, Wanted
  <2>7. QED
    BY <1>2, <2>4, <2>5, <2>6
<1>3. QED
  BY <1>1, <1>2

\* How far the header, the length and the key take the read thread.
LEMMA AfterLengthIsNext ==
    ASSUME NEW f \in Frames, AfterLength(f.len, f.masked) # "lost"
    PROVE  /\ PartAfterLength(f) = IF AfterLength(f.len, f.masked) = "frame" THEN "done"
                                   ELSE AfterLength(f.len, f.masked)
           /\ AfterLength(f.len, f.masked) \in {"key", "payload", "frame"}
           /\ AfterLength(f.len, f.masked) = "frame" => ~ (f.len > 0)
  BY DEF AfterLength, AfterKey, PartAfterLength, PartAfterKey

\* The header tells the opcode, the mask and the length, or which length follows.
LEMMA HeaderIsRead ==
    ASSUME WireTypes, ReadHeader, at' # "lost",
           NEW g, Reader(g), NEW h \in Pieces, Follows(g, h), Head(arrived) = FieldOf(h)
    PROVE  Reader(h)'
<1> DEFINE f == h.frame
           b == Head(arrived).value
           masked == b[2] >= 128
           len == b[2] % 128
<1>1. h.part = "header" /\ h.before = Len(delivered) /\ frame = NoFrame
  BY NextPartIsWanted DEF ReadHeader, Take, Reading, Reads
<1>2. /\ f \in Frames /\ f.opcode \in {1, 2, 8, 9, 10} /\ f.masked \in BOOLEAN
      /\ Code(f.len) \in 0 .. 127 /\ f.len \in Nat
      /\ LengthBytes(f.len) = 0 => Code(f.len) = f.len /\ f.len < 126
      /\ LengthBytes(f.len) # 0 => Code(f.len) \in {126, 127}
  BY PieceIsTyped, FrameIsTyped
<1>3. /\ frame' = [frame EXCEPT !.opcode = b[1] % 16, !.masked = masked, !.len = len]
      /\ at' = IF len >= 126 THEN "length" ELSE AfterLength(len, masked)
      /\ delivered' = delivered
  BY DEF ReadHeader, Take, KeepOthers
<1>4. b = <<128 + f.opcode, (IF f.masked THEN 128 ELSE 0) + Code(f.len)>>
  <2>1. FieldOf(h) = Field(2, <<128 + f.opcode, (IF f.masked THEN 128 ELSE 0) + Code(f.len)>>)
    BY <1>1 DEF FieldOf
  <2>2. QED
    BY <2>1 DEF Field
<1>5. b[1] = 128 + f.opcode /\ b[2] = (IF f.masked THEN 128 ELSE 0) + Code(f.len)
  BY <1>4
<1> HIDE DEF f, b
<1>6. b[1] % 16 = f.opcode
  BY <1>2, <1>5
<1>7. masked = f.masked /\ len = Code(f.len)
  <2>0. masked \in BOOLEAN
    OBVIOUS
  <2>1. CASE f.masked
    <3>1. b[2] = 128 + Code(f.len)
      BY <1>5, <2>1
    <3>2. masked /\ len = Code(f.len)
      <4>1. \A c \in 0 .. 127 : 128 + c >= 128 /\ (128 + c) % 128 = c
        OBVIOUS
      <4>2. QED
        BY <1>2, <3>1, <4>1
    <3> HIDE DEF masked
    <3>3. QED
      BY <1>2, <2>0, <2>1, <3>2
  <2>2. CASE ~ f.masked
    <3>1. b[2] = Code(f.len)
      BY <1>2, <1>5, <2>2
    <3>2. ~ masked /\ len = Code(f.len)
      BY <1>2, <3>1
    <3> HIDE DEF masked
    <3>3. QED
      BY <1>2, <2>0, <2>2, <3>2
  <2>3. QED
    BY <1>2, <2>1, <2>2
<1> HIDE DEF masked, len
<1>8. frame' = [opcode |-> f.opcode, masked |-> f.masked, len |-> Code(f.len),
                payload |-> NoPayload]
  BY <1>1, <1>3, <1>6, <1>7 DEF NoFrame
<1>9. NextPart(h) = IF LengthBytes(f.len) = 0 THEN PartAfterLength(f) ELSE "length"
  BY <1>1 DEF NextPart, f
<1>10. CASE LengthBytes(f.len) # 0
  <2>1. at' = "length" /\ NextPart(h) = "length"
    BY <1>2, <1>3, <1>7, <1>9, <1>10
  <2>2. frame' = FrameRead(h)'
    BY <1>8, <2>1 DEF FrameRead, f
  <2>3. QED
    BY <1>1, <1>3, <2>1, <2>2 DEF Reader
<1>11. CASE LengthBytes(f.len) = 0
  <2>1. at' = AfterLength(f.len, f.masked) /\ Code(f.len) = f.len
    BY <1>2, <1>3, <1>7, <1>11
  <2>2. /\ NextPart(h) = IF at' = "frame" THEN "done" ELSE at'
        /\ at' \in {"key", "payload", "frame"}
        /\ at' = "frame" => ~ (f.len > 0)
    BY <1>2, <1>9, <1>11, <2>1, AfterLengthIsNext
  <2>3. frame' = FrameRead(h)'
    BY <1>8, <2>1, <2>2 DEF FrameRead, f
  <2>4. QED
    BY <1>1, <1>3, <2>2, <2>3 DEF Reader
<1>12. QED
  BY <1>10, <1>11

\* The length is what the robot coded, in two bytes or in eight.
LEMMA LengthFieldIsRead ==
    ASSUME WireTypes, ReadLength, at' # "lost",
           NEW g, Reader(g), NEW h \in Pieces, Follows(g, h), Head(arrived) = FieldOf(h)
    PROVE  Reader(h)'
<1> DEFINE f == h.frame
           len == Number(Head(arrived).value)
<1>1. /\ at = "length" /\ h.part = "length" /\ h.before = Len(delivered)
      /\ h.frame = g.frame /\ g \in Pieces /\ frame = FrameRead(g)
  BY NextPartIsWanted DEF ReadLength, Take, Reading, Reads
<1>2. NextPart(g) = "length"
  BY <1>1 DEF Reader
<1>3. LengthBytes(f.len) # 0
  <2>1. g.part \in Parts
    BY <1>1, PieceIsTyped
  <2>2. QED
    BY <1>1, <1>2, <2>1 DEF NextPart, PartAfterLength, PartAfterKey, Parts
<1>4. f \in Frames /\ f.len \in Nat /\ LengthBytes(f.len) \in {2, 8} /\ f.len > 0
  BY <1>3, PieceIsTyped, FrameIsTyped
<1>5. Head(arrived).value = BigEndian(f.len, LengthBytes(f.len))
  <2>1. FieldOf(h) = Field(LengthBytes(f.len), BigEndian(f.len, LengthBytes(f.len)))
    BY <1>1 DEF FieldOf
  <2>2. QED
    BY <2>1 DEF Field
<1>6. Shifted(f.len)[LengthBytes(f.len)] = 0
  <2>1. CASE LengthBytes(f.len) = 8
    BY <1>4, <2>1, FramesAssumption
  <2>2. CASE LengthBytes(f.len) = 2
    <3>1. f.len \in Nat /\ f.len <= 65535
      BY <1>4, <2>2 DEF LengthBytes
    <3>2. /\ Shifted(f.len)[0] = f.len
          /\ \A k \in 1 .. 8 : Shifted(f.len)[k] = Shifted(f.len)[k - 1] \div 256
      BY <1>4, ShiftedIsDefined
    <3>3. 1 \in 1 .. 8 /\ 2 \in 1 .. 8 /\ 1 - 1 = 0 /\ 2 - 1 = 1
      OBVIOUS
    <3>4. /\ Shifted(f.len)[1] = Shifted(f.len)[0] \div 256
          /\ Shifted(f.len)[2] = Shifted(f.len)[1] \div 256
      BY <3>2, <3>3
    <3>5. (f.len \div 256) \div 256 = 0
      <4>1. f.len \div 256 \in 0 .. 255
        BY <3>1
      <4>2. \A x \in 0 .. 255 : x \div 256 = 0
        OBVIOUS
      <4>3. QED
        BY <4>1, <4>2
    <3>6. QED
      BY <2>2, <3>2, <3>4, <3>5
  <2>3. QED
    BY <1>4, <2>1, <2>2
<1>7. len = f.len
  <2>1. LengthBytes(f.len) \in 1 .. 8
    BY <1>4
  <2>2. QED
    BY <1>4, <1>5, <1>6, <2>1, LengthIsRead
<1>8. /\ frame' = [frame EXCEPT !.len = len]
      /\ at' = AfterLength(len, frame.masked)
      /\ delivered' = delivered
  BY DEF ReadLength, Take, KeepOthers
<1> HIDE DEF len
<1>9. frame = [opcode |-> f.opcode, masked |-> f.masked, len |-> Code(f.len),
               payload |-> NoPayload]
  BY <1>1 DEF FrameRead
<1> HIDE DEF f
<1>10. frame' = [opcode |-> f.opcode, masked |-> f.masked, len |-> f.len, payload |-> NoPayload]
  BY <1>7, <1>8, <1>9
<1>11. /\ NextPart(h) = IF at' = "frame" THEN "done" ELSE at'
       /\ at' \in {"key", "payload", "frame"}
       /\ at' = "frame" => ~ (f.len > 0)
  <2>1. at' = AfterLength(f.len, f.masked) /\ NextPart(h) = PartAfterLength(f)
    BY <1>1, <1>7, <1>8, <1>9 DEF NextPart, f
  <2>2. QED
    BY <1>4, <2>1, AfterLengthIsNext
<1>12. frame' = FrameRead(h)'
  BY <1>10, <1>11 DEF FrameRead, f
<1>13. QED
  BY <1>1, <1>8, <1>11, <1>12 DEF Reader

LEMMA KeyIsRead ==
    ASSUME WireTypes, ReadKey,
           NEW g, Reader(g), NEW h \in Pieces, Follows(g, h), Head(arrived) = FieldOf(h)
    PROVE  Reader(h)'
<1> DEFINE f == h.frame
<1>1. /\ at = "key" /\ h.part = "key" /\ h.before = Len(delivered)
      /\ h.frame = g.frame /\ g \in Pieces /\ frame = FrameRead(g)
  BY NextPartIsWanted DEF ReadKey, Take, Reading, Reads
<1>2. f \in Frames /\ f.len \in Nat
  BY PieceIsTyped, FrameIsTyped
<1>3. /\ at' = AfterKey(frame.len) /\ frame' = frame /\ delivered' = delivered
  BY DEF ReadKey, Take, KeepOthers
<1>4. frame = [opcode |-> f.opcode, masked |-> f.masked, len |-> f.len, payload |-> NoPayload]
  BY <1>1 DEF FrameRead
<1>5. at' = AfterKey(f.len) /\ NextPart(h) = PartAfterKey(f)
  BY <1>1, <1>3, <1>4 DEF NextPart
<1> HIDE DEF f
<1>6. /\ NextPart(h) = IF at' = "frame" THEN "done" ELSE at'
      /\ at' \in {"payload", "frame"}
      /\ at' = "frame" => ~ (f.len > 0)
  BY <1>2, <1>5 DEF AfterKey, PartAfterKey
<1>7. frame' = FrameRead(h)'
  BY <1>3, <1>4, <1>6 DEF FrameRead, f
<1>8. QED
  BY <1>1, <1>3, <1>6, <1>7 DEF Reader

\* How a payload is taken for clear.
LEMMA ClearIsSet ==
    ASSUME NEW says, NEW number, NEW old, NEW new, NEW p,
           p = [says |-> says, number |-> number, clear |-> old]
    PROVE  [p EXCEPT !.clear = new] = [says |-> says, number |-> number, clear |-> new]
<1>1. DOMAIN p = {"says", "number", "clear"} /\ p.says = says /\ p.number = number
  OBVIOUS
<1>2. p = [i \in {"says", "number", "clear"} |-> p[i]]
  OBVIOUS
<1>3. [p EXCEPT !.clear = new]
        = [i \in {"says", "number", "clear"} |-> IF i = "clear" THEN new ELSE p[i]]
  BY <1>2
<1>4. QED
  BY <1>1, <1>3

\* The mask is taken off, and the payload is in the clear.
LEMMA PayloadIsRead ==
    ASSUME WireTypes, ReadPayload,
           NEW g, Reader(g), NEW h \in Pieces, Follows(g, h), Head(arrived) = FieldOf(h)
    PROVE  Reader(h)'
<1> DEFINE f == h.frame
           p == Head(arrived).value
           clear == [says |-> f.says, number |-> IF Numbered(f) THEN h.after ELSE 0, clear |-> TRUE]
<1>1. /\ at = "payload" /\ h.part = "payload" /\ h.before = Len(delivered)
      /\ h.frame = g.frame /\ g \in Pieces /\ frame = FrameRead(g)
  BY NextPartIsWanted DEF ReadPayload, Take, Reading, Reads
<1>2. f \in Frames /\ f.len \in Nat /\ f.masked \in BOOLEAN
  BY PieceIsTyped, FrameIsTyped
<1>3. NextPart(g) = "payload" /\ g.part \in Parts
  BY <1>1, PieceIsTyped DEF Reader
<1>4. f.len > 0
  BY <1>1, <1>3, <1>2, FrameIsTyped DEF NextPart, PartAfterLength, PartAfterKey, Parts
<1>5. p = [says |-> f.says, number |-> IF Numbered(f) THEN h.after ELSE 0,
           clear |-> ~ f.masked]
  <2>1. FieldOf(h) = Field(f.len, PayloadOf(h))
    BY <1>1 DEF FieldOf
  <2>2. QED
    BY <2>1 DEF Field, PayloadOf
<1>6. /\ frame' = [frame EXCEPT !.payload = [p EXCEPT !.clear = p.clear # frame.masked]]
      /\ at' = "frame" /\ delivered' = delivered
  BY DEF ReadPayload, Take, KeepOthers
<1>7. frame = [opcode |-> f.opcode, masked |-> f.masked, len |-> f.len, payload |-> NoPayload]
  BY <1>1 DEF FrameRead
<1> HIDE DEF f, p
<1> DEFINE c == p.clear # frame.masked
<1>8. c = TRUE
  <2>1. p.clear = ~ f.masked /\ frame.masked = f.masked
    BY <1>5, <1>7
  <2>2. p.clear # frame.masked
    BY <1>2, <2>1
  <2>3. QED
    BY <2>2
<1> HIDE DEF c
<1>9. frame' = [opcode |-> f.opcode, masked |-> f.masked, len |-> f.len, payload |-> clear]
  <2>1. frame' = [frame EXCEPT !.payload = [p EXCEPT !.clear = c]]
    BY <1>6 DEF c
  <2>2. [p EXCEPT !.clear = c] = clear
    <3> DEFINE number == IF Numbered(f) THEN h.after ELSE 0
               old == ~ f.masked
    <3>1. p = [says |-> f.says, number |-> number, clear |-> old]
      BY <1>5
    <3>2. clear = [says |-> f.says, number |-> number, clear |-> c]
      BY <1>8, Zenon
    <3> HIDE DEF number, old, clear
    <3>3. [p EXCEPT !.clear = c] = [says |-> f.says, number |-> number, clear |-> c]
      BY <3>1, ClearIsSet
    <3>4. QED
      BY <3>2, <3>3
  <2> HIDE DEF clear
  <2>3. frame' = [frame EXCEPT !.payload = clear]
    BY <2>1, <2>2
  <2>4. QED
    BY <1>7, <2>3
<1>10. frame' = FrameRead(h)'
  BY <1>4, <1>6, <1>9 DEF FrameRead, f
<1>11. NextPart(h) = "done"
  BY <1>1 DEF NextPart
<1>12. QED
  BY <1>1, <1>6, <1>10, <1>11 DEF Reader

\* One field more has been read.
LEMMA ReadIsInPlace ==
    ASSUME WireInv, ReadHeader \/ ReadLength \/ ReadKey \/ ReadPayload, at' # "lost"
    PROVE  InPlace'
<1>1. /\ read = "reading" /\ at # "lost" /\ arrived # <<>>
      /\ arrived' = Tail(arrived) /\ UNCHANGED <<robot, sent, sending>>
  BY DEF ReadHeader, ReadLength, ReadKey, ReadPayload, Take, Reading, KeepOthers, client
<1>2. PICK G, H : /\ Reader(G[0]) /\ Follows(G[0], G[1])
                  /\ G[1] \in Pieces /\ Head(arrived) = FieldOf(G[1])
                  /\ H[0] = G[1]
                  /\ StreamOf(H, Tail(arrived) \o sending, sent, robot = "up")
  BY <1>1, NextField
<1>3. Reader(G[1])'
  <2>1. WireTypes
    BY DEF WireInv
  <2>2. CASE ReadHeader
    BY <1>2, <2>1, <2>2, HeaderIsRead
  <2>3. CASE ReadLength
    BY <1>2, <2>1, <2>3, LengthFieldIsRead
  <2>4. CASE ReadKey
    BY <1>2, <2>1, <2>4, KeyIsRead
  <2>5. CASE ReadPayload
    BY <1>2, <2>1, <2>5, PayloadIsRead
  <2>6. QED
    BY <2>2, <2>3, <2>4, <2>5
<1>4. Reader(H[0])'
  BY <1>2, <1>3
<1>5. StreamOf(H, arrived' \o sending', sent', robot' = "up")
  BY <1>1, <1>2
<1>6. QED
  BY <1>4, <1>5 DEF InPlace

\* A frame that has been read whole, and the stream behind it.
LEMMA WholeFrame ==
    ASSUME WireInv, Reading("frame")
    PROVE  \E g, H : /\ g \in Pieces /\ g.before = Len(delivered) /\ g.after <= sent
                     /\ frame = FrameRead(g)
                     /\ H[0] = Done(g.after)
                     /\ StreamOf(H, arrived \o sending, sent, robot = "up")
<1>1. read = "reading" /\ at = "frame"
  BY DEF Reading
<1>2. PICK G : StreamOf(G, arrived \o sending, sent, robot = "up") /\ Reader(G[0])
  BY <1>1 DEF WireInv, InPlace
<1>3. /\ G[0] \in Pieces /\ G[0].before = Len(delivered) /\ NextPart(G[0]) = "done"
      /\ frame = FrameRead(G[0])
  BY <1>1, <1>2 DEF Reader
<1>4. arrived \o sending \in Seq(Fields)
  BY ConcatProperties DEF WireInv, WireTypes
<1>5. G[0].after <= sent
  <2>1. 0 \in 0 .. Len(arrived \o sending)
    BY <1>4, LenProperties
  <2>2. QED
    BY <1>2, <2>1 DEF StreamOf
<1>6. PICK H : H[0] = Done(G[0].after) /\ StreamOf(H, arrived \o sending, sent, robot = "up")
  BY <1>2, <1>3, <1>4, FrameIsDone
<1>7. QED
  BY <1>3, <1>5, <1>6

\* It has been dealt with, and its message, if it carries one, is delivered.
LEMMA FrameLeavesInPlace ==
    ASSUME NEW g, NEW H, H[0] = Done(g.after),
           StreamOf(H, arrived \o sending, sent, robot = "up"),
           at' \in {"poll", "header", "pong", "message"}, frame' = NoFrame, Len(delivered') = g.after,
           UNCHANGED <<robot, sent, sending, arrived>>
    PROVE  InPlace'
<1>1. Reader(H[0])'
  BY DEF Reader, Done
<1>2. StreamOf(H, arrived' \o sending', sent', robot' = "up")
  OBVIOUS
<1>3. QED
  BY <1>1, <1>2 DEF InPlace

\* What the session logic is handed is the message of the frame, and a frame that
\* carries none is dealt with without it.
LEMMA FrameIsHandled ==
    ASSUME WireInv, Reading("frame")
    PROVE  /\ PingFrame \/ PongFrame \/ EmptyFrame \/ JsonPing => InPlace'
           /\ Deliver => /\ InPlace'
                         /\ delivered' = Append(delivered, Len(delivered) + 1)
                         /\ Len(delivered) + 1 <= sent
<1>1. PICK g, H : /\ g \in Pieces /\ g.before = Len(delivered) /\ g.after <= sent
                  /\ frame = FrameRead(g)
                  /\ H[0] = Done(g.after)
                  /\ StreamOf(H, arrived \o sending, sent, robot = "up")
  BY WholeFrame
<1> DEFINE f == g.frame
<1>2. /\ f \in Frames /\ g.after = IF Numbered(f) THEN Len(delivered) + 1 ELSE Len(delivered)
  BY <1>1, PieceIsTyped
<1>3. /\ frame.opcode = f.opcode /\ frame.len = f.len
      /\ f.len > 0 => /\ frame.payload.says = f.says /\ frame.payload.clear
                      /\ frame.payload.number = IF Numbered(f) THEN g.after ELSE 0
  <2>1. /\ FrameRead(g).opcode = f.opcode /\ FrameRead(g).len = f.len
        /\ f.len > 0 => FrameRead(g).payload
              = [says |-> f.says, number |-> IF Numbered(f) THEN g.after ELSE 0, clear |-> TRUE]
    BY DEF FrameRead, Reading
  <2>2. QED
    BY <1>1, <2>1
<1>4. /\ f.opcode \in {Text, Binary, Close, Ping, Pong_}
      /\ f.len \in Nat
      /\ f.says \in {"message", "ping", "nothing"}
      /\ f.says = "nothing" <=> f.len = 0
  BY <1>2, FramesAssumption
<1> HIDE DEF f
<1>5. CASE PingFrame \/ PongFrame \/ EmptyFrame \/ JsonPing
  <2>1. ~ Numbered(f)
    <3>1. CASE PingFrame \/ PongFrame
      BY <1>3, <3>1 DEF PingFrame, PongFrame, Numbered, Text, Binary, Ping, Pong_
    <3>2. CASE EmptyFrame
      BY <1>3, <1>4, <3>2 DEF EmptyFrame, Numbered
    <3>3. CASE JsonPing
      BY <1>3, <1>4, <3>3 DEF JsonPing, IsJsonPing, Numbered
    <3>4. QED
      BY <1>5, <3>1, <3>2, <3>3
  <2>2. /\ at' \in {"poll", "header", "pong", "message"} /\ frame' = NoFrame /\ delivered' = delivered
        /\ UNCHANGED <<robot, sent, sending, arrived>>
    BY <1>5 DEF PingFrame, PongFrame, EmptyFrame, JsonPing, KeepOthers, client
  <2>3. Len(delivered') = g.after
    BY <1>2, <2>1, <2>2
  <2>4. InPlace'
    BY <1>1, <2>2, <2>3, FrameLeavesInPlace
  <2>5. ~ Deliver
    BY <1>5 DEF PingFrame, PongFrame, EmptyFrame, JsonPing, Deliver, IsMessage
  <2>6. QED
    BY <2>4, <2>5
<1>6. CASE Deliver
  <2>1. /\ frame.opcode \notin {Close, Ping, Pong_} /\ frame.len > 0 /\ ~ IsJsonPing
        /\ at' = "message" /\ frame' = NoFrame
        /\ delivered' = Append(delivered,
                               IF frame.payload.clear THEN frame.payload.number ELSE 0)
        /\ UNCHANGED <<robot, sent, sending, arrived>>
    BY <1>6 DEF Deliver, IsMessage, client
  <2>2. f.len > 0 /\ f.says = "message" /\ f.opcode \in {Text, Binary}
    BY <1>3, <1>4, <2>1 DEF IsJsonPing
  <2>3. Numbered(f) /\ g.after = Len(delivered) + 1
    BY <1>2, <2>2 DEF Numbered
  <2>4. delivered' = Append(delivered, Len(delivered) + 1)
    BY <1>3, <2>1, <2>2, <2>3
  <2>5. Len(delivered') = Len(delivered) + 1
    <3>1. delivered \in Seq(Nat) /\ Len(delivered) + 1 \in Nat
      <4>1. delivered \in Seq(0 .. sent) /\ 0 .. sent \subseteq Nat
        BY DEF WireInv, WireTypes
      <4>2. delivered \in Seq(Nat)
        BY <4>1, SeqMonotonic
      <4>3. QED
        BY <4>2, LenProperties
    <3>2. QED
      BY <2>4, <3>1, AppendProperties
  <2>6. InPlace'
    BY <1>1, <2>1, <2>3, <2>5, FrameLeavesInPlace
  <2>7. ~ (PingFrame \/ PongFrame \/ EmptyFrame \/ JsonPing)
    BY <1>6 DEF PingFrame, PongFrame, EmptyFrame, JsonPing, Deliver, IsMessage
  <2>8. QED
    BY <1>1, <2>3, <2>4, <2>6
<1>7. QED
  BY <1>5, <1>6

LEMMA WireTypesStep == WireInv /\ [WireNext]_wireVars => WireTypes'
<1> SUFFICES ASSUME WireInv, [WireNext]_wireVars
             PROVE  WireTypes'
  OBVIOUS
<1>0. WireTypes
  BY DEF WireInv
<1>1. frames \in Nat /\ sent \in Nat /\ sent <= frames
  BY <1>0, FramesAssumption DEF WireTypes
<1>2. ASSUME NEW f \in Frames, RobotSends(f)
      PROVE  WireTypes'
  <2> DEFINE fields == Encode(f, PayloadOf(Piece(f, "payload", sent)))
  <2>1. sending' = fields /\ sent' = IF Numbered(f) THEN sent + 1 ELSE sent
    BY <1>1, <1>2 DEF RobotSends, PayloadOf, Piece, Numbered
  <2>2. fields \in Seq(Fields)
    BY <1>1, EncodeIsPieces
  <2> HIDE DEF fields
  <2>3. frames' \in 0 .. MaxSent /\ sent' \in 0 .. frames'
    <3>1. CASE f.opcode \in KeepAlive
      <4>1. ~ Numbered(f) /\ frames' = frames
        BY <1>2, <3>1 DEF RobotSends, Numbered, KeepAlive, Text, Binary, Ping, Pong_
      <4>2. QED
        BY <1>0, <1>1, <2>1, <4>1 DEF WireTypes
    <3>2. CASE f.opcode \notin KeepAlive
      <4>1. frames < MaxSent /\ frames' = frames + 1
        BY <1>2, <3>2 DEF RobotSends
      <4>2. QED
        BY <1>1, <2>1, <4>1, FramesAssumption
    <3>3. QED
      BY <3>1, <3>2
  <2>4. delivered' \in Seq(0 .. sent')
    <3>1. delivered' = delivered /\ 0 .. sent \subseteq 0 .. sent'
      BY <1>1, <1>2, <2>1 DEF RobotSends, receiver
    <3>2. QED
      BY <1>0, <3>1, SeqMonotonic DEF WireTypes
  <2>5. UNCHANGED <<robot, at, arrived>>
    BY <1>2 DEF RobotSends, receiver
  <2>6. QED
    BY <1>0, <2>1, <2>2, <2>3, <2>4, <2>5 DEF WireTypes
<1>3. CASE Arrive
  <2>1. Head(sending) \in Fields /\ Tail(sending) \in Seq(Fields)
    BY <1>0, <1>3, HeadTailProperties DEF Arrive, WireTypes
  <2>2. Append(arrived, Head(sending)) \in Seq(Fields)
    BY <1>0, <2>1, AppendProperties DEF WireTypes
  <2>3. QED
    BY <1>0, <1>3, <2>1, <2>2 DEF Arrive, WireTypes
<1>4. CASE RobotCloses
  BY <1>0, <1>4 DEF RobotCloses, WireTypes, receiver
<1>5. CASE ReadHeader \/ ReadLength \/ ReadKey \/ ReadPayload
  <2>1. /\ arrived # <<>> /\ arrived' = Tail(arrived)
        /\ UNCHANGED <<robot, frames, sent, sending, delivered>>
    BY <1>5 DEF ReadHeader, ReadLength, ReadKey, ReadPayload, Take, KeepOthers, client
  <2>2. arrived' \in Seq(Fields)
    BY <1>0, <2>1, HeadTailProperties DEF WireTypes
  <2>3. at' \in Reads \cup {"poll", "frame", "pong", "message", "lost"}
    BY <1>5 DEF ReadHeader, ReadLength, ReadKey, ReadPayload, AfterLength, AfterKey, Reads
  <2>4. QED
    BY <1>0, <2>1, <2>2, <2>3 DEF WireTypes
<1>6. CASE Poll \/ ReadFails \/ CloseFrame \/ PingFrame \/ WritePong \/ PongFrame
           \/ EmptyFrame \/ JsonPing \/ MessageReturns
  BY <1>0, <1>6 DEF Poll, ReadFails, CloseFrame, PingFrame, WritePong, PongFrame, EmptyFrame,
          JsonPing, MessageReturns, KeepOthers, client, Reads, WireTypes
<1>7. CASE Deliver
  <2>1. /\ delivered' = Append(delivered, Len(delivered) + 1)
        /\ Len(delivered) + 1 <= sent
    BY <1>7, FrameIsHandled DEF Deliver
  <2>2. Len(delivered) + 1 \in 0 .. sent
    BY <1>0, <1>1, <2>1, LenProperties DEF WireTypes
  <2>3. delivered' \in Seq(0 .. sent)
    BY <1>0, <2>1, <2>2, AppendProperties DEF WireTypes
  <2>4. QED
    BY <1>0, <1>7, <2>3 DEF Deliver, client, WireTypes
<1>8. CASE SeesFlag \/ ConnectionLost \/ SendingSide \/ UNCHANGED wireVars
  BY <1>0, <1>8 DEF SeesFlag, ConnectionLost, SendingSide, wireVars, client, receiver, WireTypes
<1>9. QED
  BY <1>2, <1>3, <1>4, <1>5, <1>6, <1>7, <1>8 DEF WireNext, ReadStep

\* The sending side lets the read thread go on or end, never begin again.
LEMMA ReadNeverRestarts ==
    ASSUME SendingSide
    PROVE  UNCHANGED <<client, receiver>> /\ (read # "reading" <=> read' # "reading")
<1>1. CASE Caller \/ SendEnqueue \/ StopNeedExit \/ StopClear
  BY <1>1 DEF SendingSide, Caller, SendMessage, SendEnqueue, StopNeedExit, StopClear
<1>2. CASE ReadLoopExit
  BY <1>2 DEF SendingSide, ReadLoopExit, SignalSendThread, EraseConnection
<1>3. CASE SendLoopStep
  BY <1>3 DEF SendingSide, SendLoopStep, CheckExit, WaitExit, Pop, CheckActive, Discard,
          Write, WriteFails, Drain, SendGoto
<1>4. QED
  BY <1>1, <1>2, <1>3 DEF SendingSide

LEMMA InPlaceStep ==
    ASSUME WireInv, [WireNext]_wireVars, read = "reading", at # "lost", at' # "lost"
    PROVE  InPlace'
<1>1. PICK G : StreamOf(G, arrived \o sending, sent, robot = "up") /\ Reader(G[0])
  BY DEF WireInv, InPlace
<1>2. /\ arrived \in Seq(Fields) /\ sending \in Seq(Fields) /\ sent \in Nat
  BY FramesAssumption DEF WireInv, WireTypes
<1>3. ASSUME NEW H, H[0] = G[0], StreamOf(H, arrived' \o sending', sent', robot' = "up"),
             UNCHANGED <<at, frame, delivered>>
      PROVE  InPlace'
  <2>1. Reader(H[0])'
    BY <1>1, <1>3 DEF Reader, FrameRead
  <2>2. QED
    BY <1>3, <2>1 DEF InPlace
<1>4. ASSUME NEW f \in Frames, RobotSends(f)
      PROVE  InPlace'
  <2> DEFINE fields == Encode(f, PayloadOf(Piece(f, "payload", sent)))
             count == IF Numbered(f) THEN sent + 1 ELSE sent
  <2>1. sending' = fields /\ sent' = count
    BY <1>2, <1>4 DEF RobotSends, PayloadOf, Piece, Numbered
  <2>2. arrived \o sending = arrived
    BY <1>2, <1>4, ConcatEmptySeq DEF RobotSends
  <2>3. StreamOf(G, arrived, sent, TRUE)
    <3>1. (robot = "up") = TRUE
      BY <1>4 DEF RobotSends
    <3>2. QED
      BY <1>1, <2>2, <3>1
  <2>4. PICK H : H[0] = G[0] /\ StreamOf(H, arrived \o fields, count, TRUE)
    BY <1>2, <2>3, SendExtendsStream
  <2> HIDE DEF fields, count
  <2>5. StreamOf(H, arrived' \o sending', sent', robot' = "up")
    <3>1. arrived' = arrived /\ (robot' = "up") = TRUE
      BY <1>4 DEF RobotSends, receiver
    <3>2. QED
      BY <2>1, <2>4, <3>1
  <2>6. UNCHANGED <<at, frame, delivered>>
    BY <1>4 DEF RobotSends, receiver
  <2>7. QED
    BY <1>3, <2>4, <2>5, <2>6
<1>5. CASE Arrive
  <2> DEFINE x == Head(sending)
  <2>1. x \in Fields /\ Tail(sending) \in Seq(Fields) /\ sending # <<>>
    BY <1>2, <1>5, HeadTailProperties DEF Arrive
  <2>2. /\ arrived' = Append(arrived, x) /\ sending' = Tail(sending)
        /\ UNCHANGED <<robot, sent, at, frame, delivered>>
    BY <1>5 DEF Arrive
  <2>3. Append(arrived, x) = arrived \o <<x>> /\ <<x>> \in Seq(Fields)
    BY <1>2, <2>1, AppendIsConcat
  <2>4. (arrived \o <<x>>) \o Tail(sending) = arrived \o (<<x>> \o Tail(sending))
    BY <1>2, <2>1, <2>3, ConcatAssociative
  <2>5. <<x>> \o Tail(sending) = sending
    BY <1>2, <2>1, HeadIsFirst
  <2>6. arrived' \o sending' = arrived \o sending
    BY <2>2, <2>3, <2>4, <2>5
  <2>7. StreamOf(G, arrived' \o sending', sent', robot' = "up")
    BY <1>1, <2>2, <2>6
  <2>8. QED
    BY <1>3, <2>2, <2>7
<1>6. CASE RobotCloses
  <2>1. /\ sending' = <<>> /\ UNCHANGED <<sent, arrived, at, frame, delivered>>
        /\ (robot' = "up") = FALSE
    BY <1>6 DEF RobotCloses, receiver
  <2>2. StreamOf(G, arrived \o <<>>, sent, FALSE)
    BY <1>1, <1>2, CloseCutsStream
  <2>3. StreamOf(G, arrived' \o sending', sent', robot' = "up")
    BY <2>1, <2>2
  <2>4. QED
    BY <1>3, <2>1, <2>3
<1>7. CASE ReadHeader \/ ReadLength \/ ReadKey \/ ReadPayload
  BY <1>7, ReadIsInPlace
<1>8. CASE PingFrame \/ PongFrame \/ EmptyFrame \/ JsonPing \/ Deliver
  <2>1. Reading("frame")
    BY <1>8 DEF PingFrame, PongFrame, EmptyFrame, JsonPing, Deliver
  <2>2. QED
    BY <1>8, <2>1, FrameIsHandled
<1>9. CASE Poll \/ WritePong \/ MessageReturns
  <2>1. /\ at \in {"poll", "pong", "message"} /\ at' \in {"header", "poll"}
        /\ UNCHANGED <<robot, sent, sending, arrived, frame, delivered>>
    BY <1>9 DEF Poll, WritePong, MessageReturns, Reading, KeepOthers, client
  <2>2. Reader(G[0])'
    <3>1. G[0].part = "done" /\ G[0].after = Len(delivered) /\ frame = NoFrame
      BY <1>1, <2>1 DEF Reader
    <3>2. (G[0].part = "done" /\ G[0].after = Len(delivered) /\ frame = NoFrame)'
      BY <2>1, <3>1
    <3>3. at' \in {"header", "poll"}
      BY <2>1
    <3>4. QED
      BY <3>2, <3>3 DEF Reader
  <2>3. StreamOf(G, arrived' \o sending', sent', robot' = "up")
    BY <1>1, <2>1
  <2>4. QED
    BY <2>2, <2>3 DEF InPlace
<1>10. CASE ReadFails \/ CloseFrame \/ ConnectionLost
  BY <1>10 DEF ReadFails, CloseFrame, ConnectionLost, Reading
<1>11. CASE SeesFlag \/ SendingSide \/ UNCHANGED wireVars
  <2>1. UNCHANGED <<robot, sent, sending, arrived, at, frame, delivered>>
    BY <1>11 DEF SeesFlag, SendingSide, wireVars, client, receiver
  <2>2. StreamOf(G, arrived' \o sending', sent', robot' = "up")
    BY <1>1, <2>1
  <2>3. QED
    BY <1>3, <2>1, <2>2
<1>12. QED
  BY <1>4, <1>5, <1>6, <1>7, <1>8, <1>9, <1>10, <1>11 DEF WireNext, ReadStep

LEMMA WireInvStep == WireInv /\ [WireNext]_wireVars => WireInv'
<1> SUFFICES ASSUME WireInv, [WireNext]_wireVars
             PROVE  WireInv'
  OBVIOUS
<1>1. WireTypes'
  BY WireTypesStep DEF WireInv
<1>2. /\ read' = "reading" => read = "reading"
      /\ at = "lost" => at' = "lost"
      /\ read # "reading" => at' = at
      /\ read = "reading" /\ read' # "reading" => at \in {"poll", "lost"} /\ at' = at
  <2>1. CASE (\E f \in Frames : RobotSends(f)) \/ Arrive \/ RobotCloses
    BY <2>1 DEF RobotSends, Arrive, RobotCloses, sendQueueVars, receiver
  <2>2. CASE Poll \/ ReadHeader \/ ReadLength \/ ReadKey \/ ReadPayload \/ ReadFails
    BY <2>2 DEF Poll, ReadHeader, ReadLength, ReadKey, ReadPayload, ReadFails, Take, Reading,
            Reads, sendQueueVars
  <2>3. CASE CloseFrame \/ PingFrame \/ WritePong \/ PongFrame \/ EmptyFrame \/ Deliver
             \/ MessageReturns
    BY <2>3 DEF CloseFrame, PingFrame, WritePong, PongFrame, EmptyFrame, Deliver, MessageReturns,
            Reading, sendQueueVars
  <2>4. CASE JsonPing
    BY <2>4 DEF JsonPing, Pong, Reading
  <2>5. CASE SeesFlag \/ ConnectionLost
    BY <2>5 DEF SeesFlag, ConnectionLost, Reading, ReadLoopEnds, receiver
  <2>6. CASE SendingSide
    BY <2>6, ReadNeverRestarts DEF receiver
  <2>7. CASE UNCHANGED wireVars
    BY <2>7 DEF wireVars, sendQueueVars, receiver
  <2>8. QED
    BY <2>1, <2>2, <2>3, <2>4, <2>5, <2>6, <2>7 DEF WireNext, ReadStep
<1>3. read' = "reading" /\ at' # "lost" => InPlace'
  BY <1>2, InPlaceStep
<1>4. read' # "reading" => at' \in {"poll", "lost"}
  BY <1>2 DEF WireInv
<1>5. QED
  BY <1>1, <1>3, <1>4 DEF WireInv

\* Whatever frames the robot sends and however they are cut into fields that arrive
\* late, ReceiveFrame asks for the field that comes next, and the variables stay in
\* range.
THEOREM WireIsInStep == WireSpec => []WireTypeOK
<1>1. ASSUME WireInv, arrived # <<>>, at \in Reads
      PROVE  Head(arrived).bytes = Wanted
  <2>1. read = "reading" /\ at # "lost"
    BY <1>1 DEF WireInv, Reads
  <2>2. PICK G, H : /\ Reader(G[0]) /\ Follows(G[0], G[1])
                    /\ G[1] \in Pieces /\ Head(arrived) = FieldOf(G[1])
                    /\ H[0] = G[1]
                    /\ StreamOf(H, Tail(arrived) \o sending, sent, robot = "up")
    BY <1>1, <2>1, NextField
  <2>3. QED
    BY <1>1, <2>2, NextPartIsWanted
<1>2. WireInv => InStep
  BY <1>1 DEF InStep
<1>3. WireInv => WireTypes
  BY DEF WireInv
<1>4. WireTypes /\ InStep /\ TypeOK => WireTypeOK
  BY DEF WireTypes, WireTypeOK
<1>5. QED
  BY <1>2, <1>3, <1>4, WireInvInit, WireInvStep, WireImplementsSendQueue, SendQueueTypes, PTL
     DEF WireSpec

\* The receiving side is an ordered channel that fails at most once: the session
\* logic gets each message of the robot once, in order and readable, whatever
\* control frames, pings and empty frames are between them.
THEOREM WireReceivesInOrder == WireSpec => ReceivesInOrder
<1>1. WireInit => Incoming!Init
  BY DEF WireInit, Init, Incoming!Init
<1>2. WireInv /\ [WireNext]_wireVars => [Incoming!Next]_(Incoming!channelVars)
  <2> SUFFICES ASSUME WireInv, [WireNext]_wireVars
               PROVE  Incoming!Next \/ UNCHANGED Incoming!channelVars
    OBVIOUS
  <2>1. ASSUME NEW f \in Frames, RobotSends(f)
        PROVE  Incoming!Next \/ UNCHANGED Incoming!channelVars
    <3>1. (sent' = sent + 1 \/ sent' = sent) /\ UNCHANGED <<delivered, read>>
      BY <2>1 DEF RobotSends, receiver, sendQueueVars
    <3>2. QED
      BY <3>1 DEF Incoming!Next, Incoming!Accept, Incoming!channelVars
  <2>2. CASE Arrive \/ RobotCloses
    BY <2>2 DEF Arrive, RobotCloses, sendQueueVars, receiver, Incoming!channelVars
  <2>3. CASE Poll \/ ReadHeader \/ ReadLength \/ ReadKey \/ ReadPayload \/ ReadFails
    BY <2>3 DEF Poll, ReadHeader, ReadLength, ReadKey, ReadPayload, ReadFails, Take, KeepOthers,
            client, sendQueueVars, Incoming!channelVars
  <2>4. CASE CloseFrame \/ PingFrame \/ WritePong \/ PongFrame \/ EmptyFrame
             \/ MessageReturns
    BY <2>4 DEF CloseFrame, PingFrame, WritePong, PongFrame, EmptyFrame, MessageReturns,
            KeepOthers, client, sendQueueVars, Incoming!channelVars
  <2>5. CASE JsonPing
    BY <2>5 DEF JsonPing, Pong, KeepOthers, client, Incoming!channelVars
  <2>6. CASE Deliver
    <3>1. /\ read = "reading" /\ UNCHANGED <<read, sent>>
          /\ delivered' = Append(delivered, Len(delivered) + 1)
          /\ Len(delivered) + 1 <= sent
      BY <2>6, FrameIsHandled DEF Deliver, Reading, sendQueueVars, client
    <3>2. Len(delivered) \in Nat /\ sent \in Nat
      BY FramesAssumption, LenProperties DEF WireInv, WireTypes
    <3>3. QED
      BY <3>1, <3>2 DEF Incoming!Next, Incoming!Deliver
  <2>7. CASE SeesFlag \/ ConnectionLost
    <3>1. read = "reading" /\ read' # "reading" /\ UNCHANGED <<sent, delivered>>
      BY <2>7 DEF SeesFlag, ConnectionLost, ReadLoopEnds, client, receiver
    <3>2. QED
      BY <3>1 DEF Incoming!Next, Incoming!Fail
  <2>8. CASE SendingSide
    <3>1. UNCHANGED <<sent, delivered>> /\ (read = "reading") = (read' = "reading")
      BY <2>8, ReadNeverRestarts DEF client, receiver
    <3>2. QED
      BY <3>1 DEF Incoming!channelVars
  <2>9. CASE UNCHANGED wireVars
    BY <2>9 DEF wireVars, sendQueueVars, client, receiver, Incoming!channelVars
  <2>10. QED
    BY <2>1, <2>2, <2>3, <2>4, <2>5, <2>6, <2>7, <2>8, <2>9 DEF WireNext, ReadStep
<1>3. QED
  BY <1>1, <1>2, WireInvInit, WireInvStep, PTL DEF WireSpec, ReceivesInOrder, Incoming!Spec
=============================================================================
