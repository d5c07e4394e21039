------------------------- MODULE WsConnectionsProofs -------------------------
(***************************************************************************)
(* Proofs about WsConnections: the registry holds usable connections only, *)
(* the counter is its size, and no thread is joined twice, for any number  *)
(* of clients, descriptors and connections.                                *)
(***************************************************************************)
EXTENDS WsConnections, FiniteSetTheorems, TLAPS

\* A connection is registered and not yet counted.
Uncounted == IF accept \in SettingUp THEN 1 ELSE 0

\* What the accept thread has in hand, and that there is room for it.
AcceptOK ==
    /\ accept \in {"handshake"} \cup SettingUp =>
         newFd \in Fds /\ count < MaxConnections /\ 0 < MaxConnections
    /\ accept = "handshake" => newFd \in fdOpen /\ connections[newFd] = None
    /\ accept \in SettingUp => newConn \in Conns /\ heap[newConn] # "unborn"

\* A read thread that has not come past the detachment can be joined once the
\* accept thread has assigned its handle, and every connection has one as soon as
\* the accept thread has started it.
Reading == {"loop", "message", "join", "detach"}
Left    == {"erase", "disconnect", "ended"}

ThreadOK(c) ==
    /\ heap[c] # "unborn" => fd[c] \in Fds
    /\ heap[c] = "unborn" => readThread[c] = "none"
    /\ heap[c] # "unborn" /\ readThread[c] = "none" =>
         accept = "start_reader" /\ newConn = c
    /\ readThread[c] \in Reading =>
         readHandle[c] \/ (accept = "assign_reader" /\ newConn = c)

\* Stop joins threads after the accept thread, and a send thread after the read
\* thread of the same connection has left it alone.
Joining == {"joining", "join_reader", "wait_reader", "joined_reader"}

StopOK ==
    /\ stop \in Joining \cup {"done"} => accept = "exited"
    /\ stop \in {"join_reader", "wait_reader", "joined_reader"} => victim \in Conns
    /\ stop = "joined_reader" => readThread[victim] \in Left
    /\ \A c \in pending : heap[c] # "unborn" /\ c \notin Registered

\* The counter is never less than what is registered and counted.
CountOK ==
    /\ IsFiniteSet(Registered)
    /\ count >= Cardinality(Registered) - Uncounted
    /\ CountMatches

WsInv ==
    /\ TypeOK
    /\ RegisteredIsUsable
    /\ AcceptOK
    /\ \A c \in Conns : ThreadOK(c)
    /\ StopOK
    /\ CountOK

-----------------------------------------------------------------------------
(***************************************************************************)
(* What a step leaves alone.                                               *)
(***************************************************************************)
LEMMA UsableStays ==
    ASSUME RegisteredIsUsable, UNCHANGED <<connections, heap, fd>>, fdOpen \subseteq fdOpen'
    PROVE  RegisteredIsUsable'
BY DEF RegisteredIsUsable

LEMMA CountStays ==
    ASSUME CountOK, UNCHANGED <<connections, count>>, Uncounted' = Uncounted,
           stop' \in {"no", "begun"} => stop \in {"no", "begun"}
    PROVE  CountOK'
<1>1. Registered' = Registered
  BY DEF Registered
<1>2. QED
  BY <1>1 DEF CountOK, CountMatches, Uncounted, SettingUp

LEMMA StopStays ==
    ASSUME TypeOK, StopOK, UNCHANGED <<connections, stop, pending, victim>>,
           accept' = accept \/ accept # "exited",
           \A c \in Conns : heap[c] # "unborn" => heap'[c] # "unborn",
           \A c \in Conns : readThread[c] \in Left => readThread'[c] \in Left
    PROVE  StopOK'
<1>1. Registered' = Registered
  BY DEF Registered
<1>2. QED
  BY <1>1 DEF StopOK, TypeOK, Joining

-----------------------------------------------------------------------------
(***************************************************************************)
(* AcceptLoop.                                                             *)
(***************************************************************************)
LEMMA AcceptClientStep ==
    ASSUME WsInv, NEW f \in Fds, Accept(f)
    PROVE  WsInv'
<1> USE MaxConnectionsAssumption, NoneAssumption DEF WsInv, TypeOK
<1>1. /\ accept = "poll" /\ accept' = "handshake" /\ f \notin fdOpen /\ count < MaxConnections
      /\ fdOpen' = fdOpen \cup {f} /\ newFd' = f
      /\ UNCHANGED <<aborted, running, connections, count, newConn, heap, fd, down,
                     readThread, sendThread, readHandle, sendHandle, stop, pending, toJoin,
                     victim>>
  BY DEF Accept, process, handles, stopVars
<1>2. connections[f] = None
  BY <1>1 DEF RegisteredIsUsable
<1>3. 0 < MaxConnections
  <2>1. Cardinality(Registered) \in Nat /\ Uncounted = 0
    BY <1>1, FS_CardinalityType DEF CountOK, Uncounted, SettingUp
  <2>2. QED
    BY <1>1, <2>1 DEF CountOK
<1>4. TypeOK'
  BY <1>1
<1>5. RegisteredIsUsable'
  BY <1>1, UsableStays
<1>6. AcceptOK'
  BY <1>1, <1>2, <1>3 DEF AcceptOK, SettingUp
<1>7. \A c \in Conns : ThreadOK(c)'
  BY <1>1 DEF ThreadOK
<1>8. StopOK'
  BY <1>1, StopStays
<1>9. CountOK'
  BY <1>1, CountStays DEF Uncounted, SettingUp
<1>10. QED
  BY <1>4, <1>5, <1>6, <1>7, <1>8, <1>9

LEMMA RefuseStep ==
    ASSUME WsInv, Refuse
    PROVE  WsInv'
<1> USE MaxConnectionsAssumption, NoneAssumption DEF WsInv, TypeOK
<1>1. /\ accept = "handshake" /\ accept' = "poll"
      /\ fdOpen' = fdOpen \ {newFd} /\ newFd' = None
      /\ UNCHANGED <<aborted, running, connections, count, newConn, heap, fd, down,
                     readThread, sendThread, readHandle, sendHandle, stop, pending, toJoin,
                     victim>>
  BY DEF Refuse, process, handles, stopVars
<1>2. TypeOK'
  BY <1>1
<1>3. RegisteredIsUsable'
  BY <1>1 DEF RegisteredIsUsable, AcceptOK
<1>4. AcceptOK'
  BY <1>1 DEF AcceptOK, SettingUp
<1>5. \A c \in Conns : ThreadOK(c)'
  BY <1>1 DEF ThreadOK
<1>6. StopOK'
  BY <1>1, StopStays
<1>7. CountOK'
  BY <1>1, CountStays DEF Uncounted, SettingUp
<1>8. QED
  BY <1>2, <1>3, <1>4, <1>5, <1>6, <1>7

LEMMA RegisterStep ==
    ASSUME WsInv, NEW c \in Conns, Register(c)
    PROVE  WsInv'
<1> USE MaxConnectionsAssumption, NoneAssumption DEF WsInv, TypeOK
<1>0. PICK f : f = newFd
  OBVIOUS
<1>1. /\ accept = "handshake" /\ accept' = "start_reader" /\ heap[c] = "unborn"
      /\ fd' = [fd EXCEPT ![c] = f] /\ connections' = [connections EXCEPT ![f] = c]
      /\ newConn' = c
      /\ UNCHANGED <<aborted, running, fdOpen, count, newFd, down, readThread, sendThread,
                     readHandle, sendHandle, stop, pending, toJoin, victim>>
  BY <1>0 DEF Register, process, handles, stopVars
<1>2. f \in Fds /\ f \in fdOpen /\ connections[f] = None
      /\ count < MaxConnections /\ 0 < MaxConnections
  BY <1>0, <1>1 DEF AcceptOK
<1>3. /\ heap' \in [Conns -> {"unborn", "live", "freed"}] /\ heap'[c] = "live"
      /\ \A d \in Conns \ {c} : heap'[d] = heap[d]
  BY <1>0, <1>2 DEF Register
<1>4. /\ fd' \in [Conns -> Fds \cup {None}] /\ fd'[c] = f
      /\ \A d \in Conns \ {c} : fd'[d] = fd[d]
  BY <1>1, <1>2
<1>5. /\ connections' \in [Fds -> Conns \cup {None}] /\ connections'[f] = c
      /\ \A g \in Fds \ {f} : connections'[g] = connections[g]
  BY <1>1, <1>2
<1>6. \A g \in Fds : connections[g] # c
  BY <1>1 DEF RegisteredIsUsable
<1>7. Registered' = Registered \cup {c} /\ c \notin Registered
  <2>1. c \notin Registered
    BY <1>6 DEF Registered
  <2>2. c # None
    OBVIOUS
  <2>3. ASSUME NEW d PROVE d \in Registered' <=> d \in Registered \cup {c}
    <3>1. ASSUME d \in Registered' PROVE d \in Registered \cup {c}
      BY <1>5, <3>1 DEF Registered
    <3>2. ASSUME d \in Registered PROVE d \in Registered'
      <4>1. PICK g \in Fds : connections[g] = d /\ d # None
        BY <3>2 DEF Registered
      <4>2. g # f
        BY <4>1, <1>2
      <4>3. QED
        BY <4>1, <4>2, <1>5 DEF Registered
    <3>3. c \in Registered'
      BY <1>2, <1>5, <2>2 DEF Registered
    <3>4. QED
      BY <3>1, <3>2, <3>3
  <2>4. QED
    BY <2>1, <2>3
<1>8. TypeOK'
  BY <1>1, <1>3, <1>4, <1>5
<1>9. RegisteredIsUsable'
  BY <1>1, <1>2, <1>3, <1>4, <1>5, <1>6 DEF RegisteredIsUsable
<1>10. AcceptOK'
  BY <1>0, <1>1, <1>2, <1>3 DEF AcceptOK, SettingUp
<1>11. \A d \in Conns : ThreadOK(d)'
  BY <1>1, <1>2, <1>3, <1>4 DEF ThreadOK
<1>12. StopOK'
  BY <1>1, <1>3, <1>7 DEF StopOK
<1>13. CountOK'
  <2>1. /\ IsFiniteSet(Registered') /\ Cardinality(Registered) \in Nat
        /\ Cardinality(Registered') = Cardinality(Registered) + 1
    BY <1>7, FS_AddElement, FS_CardinalityType DEF CountOK
  <2>2. Uncounted = 0 /\ Uncounted' = 1 /\ count' = count /\ stop' = stop
    BY <1>1 DEF Uncounted, SettingUp
  <2>3. QED
    BY <2>1, <2>2, <1>1 DEF CountOK, CountMatches, SettingUp
<1>14. QED
  BY <1>8, <1>9, <1>10, <1>11, <1>12, <1>13

LEMMA StartReaderStep ==
    ASSUME WsInv, StartReader \/ AssignReader
    PROVE  WsInv'
<1> USE MaxConnectionsAssumption, NoneAssumption DEF WsInv, TypeOK
<1>0. PICK c : c = newConn
  OBVIOUS
<1>1. /\ accept \in SettingUp /\ accept' \in SettingUp /\ accept # "exited"
      /\ \/ accept = "start_reader" /\ accept' = "assign_reader"
         \/ accept = "assign_reader" /\ accept' = "start_sender"
      /\ UNCHANGED <<aborted, running, fdOpen, connections, count, newFd, newConn, heap, fd,
                     down, sendThread, sendHandle, stop, pending, toJoin, victim>>
  BY DEF StartReader, AssignReader, SettingUp, process, registry, handles, stopVars
<1>2. c \in Conns /\ heap[c] # "unborn"
  BY <1>0, <1>1 DEF AcceptOK
<1>3. /\ readThread' \in [Conns -> {"none", "loop", "message", "join", "detach", "erase",
                                    "disconnect", "ended"}]
      /\ \A d \in Conns \ {c} : readThread'[d] = readThread[d]
      /\ IF accept = "start_reader" THEN readThread'[c] = "loop"
                                    ELSE UNCHANGED readThread
  BY <1>0, <1>2 DEF StartReader, AssignReader
<1>4. /\ readHandle' \in [Conns -> BOOLEAN]
      /\ \A d \in Conns \ {c} : readHandle'[d] = readHandle[d]
      /\ accept = "assign_reader" => readHandle'[c]
  <2>1. \/ accept = "start_reader" /\ UNCHANGED readHandle
        \/ readHandle' = [readHandle EXCEPT ![c] = TRUE]
    BY <1>0 DEF StartReader, AssignReader, handles
  <2>2. readHandle \in [Conns -> BOOLEAN]
    OBVIOUS
  <2>3. [readHandle EXCEPT ![c] = TRUE] \in [Conns -> BOOLEAN]
    BY <2>2, Zenon
  <2>4. QED
    BY <1>2, <2>1, <2>2, <2>3, Zenon
<1>5. TypeOK'
  <2>1. accept' \in {"assign_reader", "start_sender"}
    BY <1>1
  <2>2. QED
    BY <1>1, <1>3, <1>4, <2>1
<1>6. RegisteredIsUsable'
  BY <1>1, UsableStays
<1>7. AcceptOK'
  BY <1>1 DEF AcceptOK, SettingUp
<1>8. ASSUME NEW d \in Conns PROVE ThreadOK(d)'
  <2>1. CASE d = c
    BY <1>0, <1>1, <1>2, <1>3, <1>4, <2>1 DEF ThreadOK, Reading
  <2>2. CASE d # c
    BY <1>0, <1>1, <1>3, <1>4, <2>2 DEF ThreadOK
  <2>3. QED
    BY <2>1, <2>2
<1>9. StopOK'
  <2>1. Registered' = Registered
    BY <1>1 DEF Registered
  <2>2. stop \notin Joining
    BY <1>1 DEF StopOK
  <2>3. QED
    BY <1>1, <2>1, <2>2 DEF StopOK, Joining
<1>10. CountOK'
  BY <1>1, CountStays DEF Uncounted
<1>11. QED
  BY <1>5, <1>6, <1>7, <1>8, <1>9, <1>10

LEMMA StartSenderStep ==
    ASSUME WsInv, StartSender \/ AssignSender
    PROVE  WsInv'
<1> USE MaxConnectionsAssumption, NoneAssumption DEF WsInv, TypeOK
<1>0. PICK c : c = newConn
  OBVIOUS
<1>1. /\ accept \in {"start_sender", "assign_sender"}
      /\ accept' \in {"assign_sender", "count"}
      /\ UNCHANGED <<aborted, running, fdOpen, connections, count, newFd, newConn, heap, fd,
                     down, readThread, readHandle, stop, pending, toJoin, victim>>
  BY DEF StartSender, AssignSender, process, registry, handles, stopVars
<1>2. sendThread' \in [Conns -> {"none", "loop", "ended"}]
  BY DEF StartSender, AssignSender
<1>3. sendHandle' \in [Conns -> BOOLEAN]
  BY DEF StartSender, AssignSender, handles
<1>4. TypeOK'
  BY <1>1, <1>2, <1>3
<1>5. RegisteredIsUsable'
  BY <1>1, UsableStays
<1>6. AcceptOK'
  BY <1>1 DEF AcceptOK, SettingUp
<1>7. \A d \in Conns : ThreadOK(d)'
  BY <1>1 DEF ThreadOK
<1>8. StopOK'
  BY <1>1, StopStays
<1>9. CountOK'
  BY <1>1, CountStays DEF Uncounted, SettingUp
<1>10. QED
  BY <1>4, <1>5, <1>6, <1>7, <1>8, <1>9

LEMMA CountUpStep ==
    ASSUME WsInv, CountUp \/ AcceptLoopExits
    PROVE  WsInv'
<1> USE MaxConnectionsAssumption, NoneAssumption DEF WsInv, TypeOK
<1>1. CASE CountUp
  <2>1. /\ accept = "count" /\ accept' = "poll" /\ count' = count + 1
        /\ newFd' = None /\ newConn' = None
        /\ UNCHANGED <<aborted, running, fdOpen, connections, heap, fd, down, readThread,
                       sendThread, readHandle, sendHandle, stop, pending, toJoin, victim>>
    BY <1>1 DEF CountUp, process, handles, stopVars
  <2>2. count < MaxConnections
    BY <2>1 DEF AcceptOK, SettingUp
  <2>3. TypeOK'
    BY <2>1, <2>2
  <2>4. RegisteredIsUsable'
    BY <2>1, UsableStays
  <2>5. AcceptOK'
    BY <2>1 DEF AcceptOK, SettingUp
  <2>6. \A c \in Conns : ThreadOK(c)'
    BY <2>1 DEF ThreadOK
  <2>7. StopOK'
    BY <2>1, StopStays
  <2>8. CountOK'
    <3>1. Registered' = Registered
      BY <2>1 DEF Registered
    <3>2. Uncounted = 1 /\ Uncounted' = 0 /\ Cardinality(Registered) \in Nat
      BY <2>1, FS_CardinalityType DEF Uncounted, SettingUp, CountOK
    <3>3. QED
      BY <2>1, <3>1, <3>2 DEF CountOK, CountMatches, SettingUp
  <2>9. QED
    BY <2>3, <2>4, <2>5, <2>6, <2>7, <2>8
<1>2. CASE AcceptLoopExits
  <2>1. /\ accept = "poll" /\ accept' = "exited"
        /\ UNCHANGED <<aborted, running, fdOpen, connections, count, newFd, newConn, heap,
                       fd, down, readThread, sendThread, readHandle, sendHandle, stop,
                       pending, toJoin, victim>>
    BY <1>2 DEF AcceptLoopExits, process, registry, handles, stopVars
  <2>2. TypeOK'
    BY <2>1
  <2>3. RegisteredIsUsable'
    BY <2>1, UsableStays
  <2>4. AcceptOK'
    BY <2>1 DEF AcceptOK, SettingUp
  <2>5. \A c \in Conns : ThreadOK(c)'
    BY <2>1 DEF ThreadOK
  <2>6. StopOK'
    BY <2>1, StopStays
  <2>7. CountOK'
    BY <2>1, CountStays DEF Uncounted, SettingUp
  <2>8. QED
    BY <2>2, <2>3, <2>4, <2>5, <2>6, <2>7
<1>3. QED
  BY <1>1, <1>2

-----------------------------------------------------------------------------
(***************************************************************************)
(* The threads of a connection.                                            *)
(***************************************************************************)
LEMMA ThreadStep ==
    ASSUME WsInv, NEW c \in Conns,
           \/ SendLoopEnds(c) \/ Message(c) \/ MessageReturns(c) \/ ReadLoopEnds(c)
           \/ JoinSender(c) \/ DetachSelf(c) \/ Disconnect(c)
    PROVE  WsInv'
<1> USE MaxConnectionsAssumption, NoneAssumption DEF WsInv, TypeOK
<1>1. UNCHANGED <<aborted, running, fdOpen, connections, count, accept, newFd, newConn,
                  heap, fd, stop, pending, toJoin, victim>>
  BY DEF SendLoopEnds, Message, MessageReturns, ReadLoopEnds, JoinSender, DetachSelf,
         Disconnect, process, registry, acceptVars, stopVars
<1>2. \/ readThread' = readThread
      \/ readThread[c] = "loop" /\ readThread' = [readThread EXCEPT ![c] = "message"]
      \/ readThread[c] = "message" /\ readThread' = [readThread EXCEPT ![c] = "loop"]
      \/ readThread[c] = "loop" /\ readThread' = [readThread EXCEPT ![c] = "join"]
      \/ readThread[c] = "join" /\ readThread' = [readThread EXCEPT ![c] = "detach"]
      \/ readThread[c] = "detach" /\ readThread' = [readThread EXCEPT ![c] = "erase"]
      \/ readThread[c] = "disconnect" /\ readThread' = [readThread EXCEPT ![c] = "ended"]
  BY DEF SendLoopEnds, Message, MessageReturns, ReadLoopEnds, JoinSender, DetachSelf,
         Disconnect
<1>3. /\ readThread' \in [Conns -> {"none", "loop", "message", "join", "detach", "erase",
                                    "disconnect", "ended"}]
      /\ \A d \in Conns : readThread'[d] = "none" <=> readThread[d] = "none"
      /\ \A d \in Conns : readThread[d] \in Left => readThread'[d] \in Left
      /\ \A d \in Conns : readThread'[d] \in Reading => readThread[d] \in Reading
  BY <1>2 DEF Reading, Left
<1>4. \/ readHandle' = readHandle
      \/ readHandle' = [readHandle EXCEPT ![c] = FALSE] /\ readThread'[c] = "erase"
  BY <1>2 DEF SendLoopEnds, Message, MessageReturns, ReadLoopEnds, JoinSender, DetachSelf,
         Disconnect, handles
<1>5. /\ readHandle' \in [Conns -> BOOLEAN]
      /\ \A d \in Conns : readThread'[d] \in Reading => readHandle'[d] = readHandle[d]
  BY <1>4 DEF Reading
<1>6. /\ sendHandle' \in [Conns -> BOOLEAN] /\ down' \in [Conns -> BOOLEAN]
      /\ sendThread' \in [Conns -> {"none", "loop", "ended"}]
  BY DEF SendLoopEnds, Message, MessageReturns, ReadLoopEnds, JoinSender, DetachSelf,
         Disconnect, handles
<1>7. TypeOK'
  BY <1>1, <1>3, <1>5, <1>6
<1>8. RegisteredIsUsable'
  BY <1>1, UsableStays
<1>9. AcceptOK'
  BY <1>1 DEF AcceptOK
<1>10. \A d \in Conns : ThreadOK(d)'
  BY <1>1, <1>3, <1>5 DEF ThreadOK
<1>11. StopOK'
  BY <1>1, <1>3, StopStays
<1>12. CountOK'
  BY <1>1, CountStays DEF Uncounted
<1>13. QED
  BY <1>7, <1>8, <1>9, <1>10, <1>11, <1>12

\* A step that ends the process changes nothing else.
LEMMA TerminateStep ==
    ASSUME WsInv, Terminate
    PROVE  WsInv'
<1>1. /\ aborted' = TRUE
      /\ UNCHANGED <<running, fdOpen, connections, count, accept, newFd, newConn, heap, fd,
                     down, readThread, sendThread, readHandle, sendHandle, stop, pending,
                     toJoin, victim>>
  BY DEF Terminate, registry, acceptVars, handles, stopVars
<1>2. TypeOK'
  BY <1>1 DEF WsInv, TypeOK
<1>3. RegisteredIsUsable'
  BY <1>1, UsableStays DEF WsInv
<1>4. AcceptOK'
  BY <1>1 DEF WsInv, AcceptOK
<1>5. \A d \in Conns : ThreadOK(d)'
  BY <1>1 DEF WsInv, ThreadOK
<1>6. StopOK'
  BY <1>1, StopStays DEF WsInv
<1>7. CountOK'
  BY <1>1, CountStays DEF WsInv, Uncounted
<1>8. QED
  BY <1>2, <1>3, <1>4, <1>5, <1>6, <1>7 DEF WsInv

\* What Erase finds under the descriptor is taken out of the registry, whichever
\* connection it is.
LEMMA EraseStep ==
    ASSUME WsInv, NEW c \in Conns, Erase(c)
    PROVE  WsInv'
<1> USE MaxConnectionsAssumption, NoneAssumption DEF WsInv, TypeOK
<1>0. PICK f : f = fd[c]
  OBVIOUS
<1>1. PICK e : e = connections[f]
  OBVIOUS
<1>2. /\ readThread[c] = "erase" /\ readThread' = [readThread EXCEPT ![c] = "disconnect"]
      /\ UNCHANGED <<aborted, running, accept, newFd, newConn, fd, down, sendThread,
                     readHandle, sendHandle, stop, pending, toJoin, victim>>
  BY DEF Erase, process, acceptVars, handles, stopVars
<1>3. f \in Fds
  BY <1>0, <1>2 DEF ThreadOK
<1>4. /\ readThread' \in [Conns -> {"none", "loop", "message", "join", "detach", "erase",
                                    "disconnect", "ended"}]
      /\ readThread'[c] = "disconnect"
      /\ \A d \in Conns \ {c} : readThread'[d] = readThread[d]
  BY <1>2
<1>5. CASE e = None
  <2>1. UNCHANGED <<fdOpen, connections, count, heap>>
    BY <1>0, <1>1, <1>5 DEF Erase, registry
  <2>2. TypeOK'
    BY <1>2, <1>4, <2>1
  <2>3. RegisteredIsUsable'
    BY <1>2, <2>1, UsableStays
  <2>4. AcceptOK'
    BY <1>2, <2>1 DEF AcceptOK
  <2>5. \A d \in Conns : ThreadOK(d)'
    BY <1>2, <1>4, <2>1 DEF ThreadOK, Reading
  <2>6. StopOK'
    BY <1>2, <1>4, <2>1, StopStays DEF Left
  <2>7. CountOK'
    BY <1>2, <2>1, CountStays DEF Uncounted
  <2>8. QED
    BY <2>2, <2>3, <2>4, <2>5, <2>6, <2>7
<1>6. CASE e # None
  <2>1. /\ fdOpen' = fdOpen \ {f} /\ heap' = [heap EXCEPT ![e] = "freed"]
        /\ connections' = [connections EXCEPT ![f] = None] /\ count' = count - 1
    BY <1>0, <1>1, <1>6 DEF Erase
  <2>2. e \in Conns /\ heap[e] = "live" /\ fd[e] = f
    BY <1>1, <1>3, <1>6 DEF RegisteredIsUsable
  <2>3. /\ heap' \in [Conns -> {"unborn", "live", "freed"}] /\ heap'[e] = "freed"
        /\ \A d \in Conns \ {e} : heap'[d] = heap[d]
    BY <2>1, <2>2
  <2>4. /\ connections' \in [Fds -> Conns \cup {None}] /\ connections'[f] = None
        /\ \A g \in Fds \ {f} : connections'[g] = connections[g]
    BY <1>3, <2>1
  <2>5. \A g \in Fds \ {f} : connections[g] # e
    BY <1>6, <2>2 DEF RegisteredIsUsable
  <2>6. Registered' = Registered \ {e} /\ e \in Registered
    <3>1. e \in Registered
      BY <1>1, <1>3, <1>6 DEF Registered
    <3>2. ASSUME NEW d \in Registered' PROVE d \in Registered \ {e}
      <4>1. PICK g \in Fds : connections'[g] = d /\ d # None
        BY <3>2 DEF Registered
      <4>2. g # f /\ connections[g] = d
        BY <2>4, <4>1
      <4>3. QED
        BY <2>5, <4>1, <4>2 DEF Registered
    <3>3. ASSUME NEW d \in Registered, d # e PROVE d \in Registered'
      <4>1. PICK g \in Fds : connections[g] = d /\ d # None
        BY <3>3 DEF Registered
      <4>2. g # f
        BY <1>1, <3>3, <4>1
      <4>3. QED
        BY <2>4, <4>1, <4>2 DEF Registered
    <3>4. QED
      BY <3>1, <3>2, <3>3
  <2>7. /\ IsFiniteSet(Registered') /\ Cardinality(Registered) \in Nat
        /\ Cardinality(Registered') = Cardinality(Registered) - 1
        /\ Cardinality(Registered') \in Nat
    <3>1. IsFiniteSet(Registered)
      BY DEF CountOK
    <3>2. IsFiniteSet(Registered \ {e})
          /\ Cardinality(Registered \ {e}) = Cardinality(Registered) - 1
      BY <2>6, <3>1, FS_RemoveElement
    <3>3. QED
      BY <2>6, <3>1, <3>2, FS_CardinalityType
  <2>8. Uncounted' = Uncounted /\ Uncounted \in {0, 1}
    BY <1>2 DEF Uncounted
  <2>9. CountOK'
    BY <1>2, <2>1, <2>7, <2>8 DEF CountOK, CountMatches, Uncounted, SettingUp
  <2>10. count' \in -1 .. MaxConnections
    <3>1. count >= Cardinality(Registered) - Uncounted
      BY DEF CountOK
    <3>2. count' >= -1
      BY <2>1, <2>7, <2>8, <3>1
    <3>3. QED
      BY <2>1, <3>2
  <2>11. TypeOK'
    BY <1>2, <1>4, <2>1, <2>3, <2>4, <2>10
  <2>12. RegisteredIsUsable'
    BY <1>2, <2>1, <2>3, <2>4, <2>5 DEF RegisteredIsUsable
  <2>13. AcceptOK'
    BY <1>1, <1>2, <1>6, <2>1, <2>2, <2>3, <2>4 DEF AcceptOK, SettingUp
  <2>14. \A d \in Conns : ThreadOK(d)'
    BY <1>2, <1>4, <2>2, <2>3 DEF ThreadOK, Reading
  <2>15. StopOK'
    <3>1. \A d \in pending : heap'[d] # "unborn" /\ d \notin Registered'
      BY <2>2, <2>3, <2>6 DEF StopOK
    <3>2. QED
      BY <1>2, <1>4, <3>1 DEF StopOK, Left, Joining
  <2>16. QED
    BY <2>9, <2>11, <2>12, <2>13, <2>14, <2>15
<1>7. QED
  BY <1>5, <1>6

-----------------------------------------------------------------------------
(***************************************************************************)
(* Stop.                                                                   *)
(***************************************************************************)
\* Once the registry has been emptied the counter is held against nothing.
LEMMA StopCollectsStep ==
    ASSUME WsInv, StopCollects
    PROVE  WsInv'
<1> USE MaxConnectionsAssumption, NoneAssumption DEF WsInv, TypeOK
<1>1. /\ stop = "begun" /\ stop' = "collected" /\ count' = 0
      /\ pending' = Registered /\ toJoin' = Registered
      /\ down' = [c \in Conns |-> down[c] \/ c \in Registered]
      /\ fdOpen' = fdOpen \ {fd[c] : c \in Registered}
      /\ connections' = [f \in Fds |-> None]
      /\ UNCHANGED <<aborted, running, accept, newFd, newConn, heap, fd, readThread,
                     sendThread, readHandle, sendHandle, victim>>
  BY DEF StopCollects, process, acceptVars, handles
<1>2. Registered \subseteq Conns /\ \A c \in Registered : heap[c] = "live"
  BY DEF Registered, RegisteredIsUsable
<1>3. Registered' = {}
  BY <1>1 DEF Registered
<1>4. down' \in [Conns -> BOOLEAN]
  BY <1>1
<1>5. connections' \in [Fds -> Conns \cup {None}] /\ \A f \in Fds : connections'[f] = None
  BY <1>1
<1>6. fdOpen' \subseteq Fds
  BY <1>1
<1>7. TypeOK'
  BY <1>1, <1>2, <1>4, <1>5, <1>6
<1>8. RegisteredIsUsable'
  BY <1>5 DEF RegisteredIsUsable
<1>9. AcceptOK'
  <2>1. ASSUME accept = "handshake" PROVE newFd \in fdOpen' /\ connections'[newFd] = None
    <3>1. newFd \in Fds /\ newFd \in fdOpen /\ connections[newFd] = None
      BY <2>1 DEF AcceptOK
    <3>2. \A c \in Registered : fd[c] # newFd
      BY <3>1 DEF Registered, RegisteredIsUsable
    <3>3. QED
      BY <1>1, <1>5, <3>1, <3>2
  <2>2. QED
    BY <1>1, <2>1 DEF AcceptOK
<1>10. \A c \in Conns : ThreadOK(c)'
  BY <1>1 DEF ThreadOK
<1>11. StopOK'
  BY <1>1, <1>2, <1>3 DEF StopOK, Joining
<1>12. CountOK'
  <2>1. IsFiniteSet(Registered') /\ Cardinality(Registered') = 0
    BY <1>3, FS_EmptySet
  <2>2. Uncounted' \in {0, 1} /\ count' = 0 /\ stop' = "collected"
    BY <1>1 DEF Uncounted
  <2>3. count' >= 0 - Uncounted'
    <3>1. CASE Uncounted' = 0
      BY <2>2, <3>1
    <3>2. CASE Uncounted' = 1
      BY <2>2, <3>2
    <3>3. QED
      BY <2>2, <3>1, <3>2
  <2>4. CountMatches'
    BY <2>2 DEF CountMatches
  <2>5. QED
    BY <2>1, <2>3, <2>4 DEF CountOK
<1>13. QED
  BY <1>7, <1>8, <1>9, <1>10, <1>11, <1>12

\* The other steps of Stop leave the registry and the accept thread alone.
LEMMA StopKeepsInv ==
    ASSUME WsInv, TypeOK',
           UNCHANGED <<fdOpen, connections, count, accept, newFd, newConn, fd, readThread,
                       pending>>,
           \A c \in Conns : heap[c] = "unborn" <=> heap'[c] = "unborn",
           \A c \in Registered : heap'[c] = heap[c],
           \A c \in Conns : readThread[c] \in Reading => readHandle'[c] = readHandle[c],
           stop' \in Joining \cup {"done"} => accept = "exited",
           stop' \in {"no", "begun"} => stop \in {"no", "begun"},
           stop' \in {"join_reader", "wait_reader", "joined_reader"} => victim' \in Conns,
           stop' = "joined_reader" => readThread[victim'] \in Left
    PROVE  WsInv'
<1>1. Registered' = Registered
  BY DEF Registered
<1>2. RegisteredIsUsable'
  <2>1. \A f \in Fds : connections[f] # None => connections[f] \in Registered
    BY DEF Registered
  <2>2. QED
    BY <2>1 DEF WsInv, RegisteredIsUsable
<1>3. AcceptOK'
  BY DEF WsInv, AcceptOK
<1>4. \A c \in Conns : ThreadOK(c)'
  BY DEF WsInv, ThreadOK
<1>5. StopOK'
  BY <1>1 DEF WsInv, StopOK, TypeOK
<1>6. CountOK'
  BY CountStays DEF WsInv, Uncounted
<1>7. QED
  BY <1>2, <1>3, <1>4, <1>5, <1>6 DEF WsInv

LEMMA StopStepKeeps ==
    ASSUME WsInv, StopBegins \/ StopStep
    PROVE  WsInv'
<1> USE NoneAssumption DEF TypeOK, WsInv, process, registry, acceptVars, handles
<1>1. CASE StopBegins
  <2>1. TypeOK'
    BY <1>1 DEF StopBegins
  <2>2. QED
    BY <1>1, <2>1, StopKeepsInv DEF StopBegins, StopOK, Joining
<1>2. CASE StopJoinsAccept
  <2>1. TypeOK'
    BY <1>2 DEF StopJoinsAccept
  <2>2. QED
    BY <1>2, <2>1, StopKeepsInv DEF StopJoinsAccept, StopOK, Joining
<1>3. ASSUME NEW c \in Conns, StopTestsReader(c) PROVE WsInv'
  <2>1. /\ stop = "joining" /\ c \in toJoin /\ victim' = c
        /\ toJoin' = toJoin \ {c}
        /\ stop' = IF readHandle[c] THEN "join_reader" ELSE "joined_reader"
        /\ UNCHANGED <<aborted, running, fdOpen, connections, count, accept, newFd, newConn,
                       heap, fd, down, readThread, sendThread, readHandle, sendHandle,
                       pending>>
    BY <1>3 DEF StopTestsReader
  <2>2. accept = "exited" /\ c \in pending /\ heap[c] # "unborn"
    <3>1. stop \in Joining /\ c \in toJoin
      BY <2>1 DEF Joining
    <3>2. toJoin \subseteq pending
      OBVIOUS
    <3>3. QED
      BY <3>1, <3>2 DEF StopOK
  <2>3. ~readHandle[c] => readThread[c] \in Left
    <3>1. readThread[c] \in {"none"} \cup Reading \cup Left
      BY DEF Reading, Left
    <3>2. ThreadOK(c)
      OBVIOUS
    <3>3. QED
      BY <2>2, <3>1, <3>2 DEF ThreadOK
  <2>4. TypeOK'
    BY <2>1
  <2>5. QED
    BY <2>1, <2>2, <2>3, <2>4, StopKeepsInv
<1>7. CASE StopEntersJoin
  <2>1. TypeOK'
    BY <1>7 DEF StopEntersJoin
  <2>2. QED
    BY <1>7, <2>1, StopKeepsInv DEF StopEntersJoin, StopOK, Joining
<1>8. CASE StopJoinsReader
  <2>1. /\ stop = "wait_reader" /\ readThread[victim] = "ended" /\ stop' = "joined_reader"
        /\ readHandle' = [readHandle EXCEPT ![victim] = FALSE]
        /\ UNCHANGED <<aborted, running, fdOpen, connections, count, accept, newFd, newConn,
                       heap, fd, down, readThread, sendThread, sendHandle, pending, toJoin,
                       victim>>
    BY <1>8 DEF StopJoinsReader
  <2>2. victim \in Conns /\ accept = "exited"
    BY <2>1 DEF StopOK, Joining
  <2>3. readHandle' \in [Conns -> BOOLEAN]
        /\ \A d \in Conns \ {victim} : readHandle'[d] = readHandle[d]
    BY <2>1, <2>2
  <2>4. TypeOK'
    BY <2>1, <2>3
  <2>5. QED
    BY <2>1, <2>2, <2>3, <2>4, StopKeepsInv DEF Reading, Left
<1>9. CASE StopJoinThrows
  BY <1>9, TerminateStep DEF StopJoinThrows
<1>4. CASE StopJoinsSender
  <2>1. sendHandle' \in [Conns -> BOOLEAN]
    BY <1>4 DEF StopJoinsSender
  <2>2. TypeOK'
    BY <1>4, <2>1 DEF StopJoinsSender
  <2>3. QED
    BY <1>4, <2>2, StopKeepsInv DEF StopJoinsSender, StopOK, Joining
<1>5. CASE StopReturns
  <2>1. /\ stop = "joining" /\ stop' = "done"
        /\ heap' = [c \in Conns |-> IF c \in pending THEN "freed" ELSE heap[c]]
        /\ UNCHANGED <<aborted, running, fdOpen, connections, count, accept, newFd, newConn,
                       fd, down, readThread, sendThread, readHandle, sendHandle, pending,
                       toJoin, victim>>
    BY <1>5 DEF StopReturns
  <2>2. /\ \A c \in pending : heap[c] # "unborn" /\ c \notin Registered
        /\ accept = "exited"
    BY <2>1 DEF StopOK, Joining
  <2>3. TypeOK'
    BY <2>1
  <2>4. Registered \subseteq Conns
    BY DEF Registered
  <2>5. \A c \in Conns : heap[c] = "unborn" <=> heap'[c] = "unborn"
    BY <2>1, <2>2
  <2>6. \A c \in Registered : heap'[c] = heap[c]
    BY <2>1, <2>2, <2>4
  <2>7. QED
    BY <2>1, <2>2, <2>3, <2>5, <2>6, StopKeepsInv DEF Joining
<1>6. QED
  BY <1>1, <1>2, <1>3, <1>4, <1>5, <1>7, <1>8, <1>9, StopCollectsStep DEF StopStep

-----------------------------------------------------------------------------
LEMMA WsInvHolds == Spec => []WsInv
<1>1. Init => WsInv
  <2> SUFFICES ASSUME Init PROVE WsInv
    OBVIOUS
  <2> USE MaxConnectionsAssumption, NoneAssumption
  <2>1. TypeOK
    <3>1. count \in -1 .. MaxConnections
      BY DEF Init
    <3>2. /\ connections \in [Fds -> Conns \cup {None}]
          /\ heap \in [Conns -> {"unborn", "live", "freed"}]
          /\ fd \in [Conns -> Fds \cup {None}]
          /\ readThread \in [Conns -> {"none", "loop", "message", "join", "detach",
                                       "erase", "disconnect", "ended"}]
          /\ sendThread \in [Conns -> {"none", "loop", "ended"}]
      BY DEF Init
    <3>3. /\ down \in [Conns -> BOOLEAN]
          /\ readHandle \in [Conns -> BOOLEAN] /\ sendHandle \in [Conns -> BOOLEAN]
      BY Zenon DEF Init
    <3>4. QED
      BY <3>1, <3>2, <3>3 DEF Init, TypeOK
  <2>2. RegisteredIsUsable /\ AcceptOK
    BY DEF Init, RegisteredIsUsable, AcceptOK, SettingUp
  <2>3. \A c \in Conns : ThreadOK(c)
    BY DEF Init, ThreadOK, Reading
  <2>4. Registered = {}
    BY DEF Init, Registered
  <2>5. StopOK
    BY <2>4 DEF Init, StopOK, Joining
  <2>6. IsFiniteSet(Registered) /\ Cardinality(Registered) = 0
    BY <2>4, FS_EmptySet
  <2>7. CountOK
    <3>1. count = 0 /\ Uncounted = 0 /\ accept \notin SettingUp
      BY DEF Init, Uncounted, SettingUp
    <3>2. CountMatches
      <4>1. count = Cardinality(Registered) - 0
        BY <2>6, <3>1
      <4>2. QED
        BY <3>1, <4>1 DEF CountMatches
    <3>3. count >= Cardinality(Registered) - Uncounted
      BY <2>6, <3>1
    <3>4. QED
      BY <2>6, <3>2, <3>3 DEF CountOK
  <2>8. QED
    BY <2>1, <2>2, <2>3, <2>5, <2>7 DEF WsInv
<1>2. WsInv /\ [Next]_wsVars => WsInv'
  <2> SUFFICES ASSUME WsInv, [Next]_wsVars PROVE WsInv'
    OBVIOUS
  <2>1. ASSUME NEW f \in Fds, Accept(f) PROVE WsInv'
    BY <2>1, AcceptClientStep
  <2>2. CASE AcceptStep
    BY <2>2, StartReaderStep, StartSenderStep, CountUpStep DEF AcceptStep
  <2>7. CASE Handshake
    BY <2>7, RefuseStep, RegisterStep DEF Handshake
  <2>3. ASSUME NEW c \in Conns,
               \/ SendLoopEnds(c) \/ Message(c) \/ MessageReturns(c)
               \/ ReadLoopEnds(c) \/ ReadLoopExit(c) \/ Disconnect(c)
        PROVE  WsInv'
    BY <2>3, ThreadStep, EraseStep, TerminateStep
       DEF ReadLoopExit, DetachThrows, EraseTerminates
  <2>4. CASE StopBegins \/ StopStep
    BY <2>4, StopStepKeeps
  <2>5. CASE UNCHANGED wsVars
    <3>1. UNCHANGED <<aborted, running, fdOpen, connections, count, accept, newFd, newConn,
                      heap, fd, down, readThread, sendThread, readHandle, sendHandle, stop,
                      pending, toJoin, victim>>
      BY <2>5 DEF wsVars, process, registry, acceptVars, handles, stopVars
    <3>2. TypeOK'
      BY <3>1 DEF WsInv, TypeOK
    <3>3. QED
      BY <3>1, <3>2, StopKeepsInv DEF WsInv, StopOK, Joining
  <2>6. QED
    BY <2>1, <2>2, <2>3, <2>4, <2>5, <2>7 DEF Next
<1>3. QED
  BY <1>1, <1>2, PTL DEF Spec

\* The values of all variables stay in range; in particular the counter neither
\* exceeds max_connections nor falls below -1.
THEOREM ConnectionTypes == Spec => []TypeOK
BY WsInvHolds, PTL DEF WsInv

\* Whatever the registry maps a descriptor to can be used, although descriptors
\* are handed out again at once and three threads close them.
THEOREM RegisteredStaysUsable == Spec => []RegisteredIsUsable
BY WsInvHolds, PTL DEF WsInv

\* Until Stop the counter is the size of the registry, less the connection that
\* is still being set up.
THEOREM CounterMatchesRegistry == Spec => []CountMatches
<1>1. WsInv => CountMatches
  BY DEF WsInv, CountOK
<1>2. QED
  BY <1>1, WsInvHolds, PTL

\* The read thread and Stop never join the same send thread.
THEOREM SendThreadJoinedOnce == Spec => []NoDoubleJoin
<1>1. WsInv => NoDoubleJoin
  BY DEF WsInv, StopOK, NoDoubleJoin, Left
<1>2. QED
  BY <1>1, WsInvHolds, PTL
=============================================================================
