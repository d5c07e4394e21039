---------------------------- MODULE WsConnections ----------------------------
(***************************************************************************)
(* The life of the connections of WsSignalingServer: the accept thread     *)
(* registers a connection and then starts its two threads, the read thread *)
(* takes its own connection out of the registry when the peer is gone, and *)
(* Stop takes them all out and joins the threads.                          *)
(*                                                                         *)
(* What travels over a connection is the subject of SendQueue.  Here a     *)
(* connection object is unborn, live or freed, and each of its two         *)
(* std::thread handles is joinable or not.  conn_mutex_ is held within     *)
(* single steps only.  A thread runs from its start on, which comes before *)
(* the assignment of its handle: two steps.  To detach or to join through  *)
(* a handle that is not joinable throws, to destroy one that is joinable   *)
(* terminates; no caller catches, so either is the end of the process.     *)
(***************************************************************************)
EXTENDS Integers, FiniteSets

CONSTANTS
    Fds,             \* the descriptors the kernel hands out
    Conns,           \* connection objects
    MaxConnections,  \* cfg_.max_connections
    None             \* no connection

ASSUME MaxConnectionsAssumption == MaxConnections \in Nat
ASSUME NoneAssumption == None \notin Conns

VARIABLES
    aborted,      \* std::terminate has been called
    running,      \* running_, and the listening socket is open
    fdOpen,       \* the client sockets that are open
    connections,  \* connections_: descriptor to connection, or None
    count,        \* connection_count_
    accept,       \* where AcceptLoop stands
    newFd,        \* client_fd of AcceptLoop
    newConn,      \* conn_ptr of AcceptLoop
    heap,         \* the lifetime of each object
    fd,           \* WsConnection::fd
    down,         \* need_exit is set or active is cleared
    readThread,   \* where ClientReadLoop of each connection stands
    sendThread,   \* where ClientSendLoop of each connection stands
    readHandle,   \* read_thread.joinable()
    sendHandle,   \* send_thread.joinable()
    stop,         \* where Stop stands
    pending,      \* pending_cleanup of Stop
    toJoin,       \* those of them whose threads Stop has yet to join
    victim        \* the one whose threads Stop joins now

process    == <<aborted, running>>
acceptVars == <<accept, newFd, newConn>>
registry   == <<fdOpen, connections, count>>
handles    == <<readHandle, sendHandle>>
stopVars   == <<stop, pending, toJoin, victim>>
wsVars == <<process, registry, acceptVars, heap, fd, down, readThread, sendThread,
            handles, stopVars>>

Registered == {connections[f] : f \in Fds} \ {None}

TypeOK ==
    /\ aborted \in BOOLEAN /\ running \in BOOLEAN
    /\ fdOpen \subseteq Fds
    /\ connections \in [Fds -> Conns \cup {None}]
    /\ count \in -1 .. MaxConnections
    /\ accept \in {"poll", "handshake", "start_reader", "assign_reader", "start_sender",
                   "assign_sender", "count", "exited"}
    /\ newFd \in Fds \cup {None} /\ newConn \in Conns \cup {None}
    /\ heap \in [Conns -> {"unborn", "live", "freed"}]
    /\ fd \in [Conns -> Fds \cup {None}]
    /\ down \in [Conns -> BOOLEAN]
    /\ readThread \in [Conns -> {"none", "loop", "message", "join", "detach", "erase",
                                 "disconnect", "ended"}]
    /\ sendThread \in [Conns -> {"none", "loop", "ended"}]
    /\ readHandle \in [Conns -> BOOLEAN] /\ sendHandle \in [Conns -> BOOLEAN]
    /\ stop \in {"no", "begun", "collected", "joining", "join_reader", "wait_reader",
                 "joined_reader", "done"}
    /\ pending \subseteq Conns /\ toJoin \subseteq pending
    /\ victim \in Conns \cup {None}

Init ==
    /\ aborted = FALSE /\ running = TRUE
    /\ fdOpen = {} /\ connections = [f \in Fds |-> None] /\ count = 0
    /\ accept = "poll" /\ newFd = None /\ newConn = None
    /\ heap = [c \in Conns |-> "unborn"]
    /\ fd = [c \in Conns |-> None]
    /\ down = [c \in Conns |-> FALSE]
    /\ readThread = [c \in Conns |-> "none"]
    /\ sendThread = [c \in Conns |-> "none"]
    /\ readHandle = [c \in Conns |-> FALSE]
    /\ sendHandle = [c \in Conns |-> FALSE]
    /\ stop = "no" /\ pending = {} /\ toJoin = {} /\ victim = None

-----------------------------------------------------------------------------
Terminate ==
    /\ aborted' = TRUE
    /\ UNCHANGED <<running, registry, acceptVars, heap, fd, down, readThread, sendThread,
                   handles, stopVars>>

(***************************************************************************)
(* AcceptLoop                                                              *)
(***************************************************************************)
\* A client beyond the limit is closed at once, which changes nothing.
Accept(f) ==
    /\ accept = "poll" /\ running
    /\ f \notin fdOpen
    /\ count < MaxConnections
    /\ fdOpen' = fdOpen \cup {f}
    /\ newFd' = f
    /\ accept' = "handshake"
    /\ UNCHANGED <<process, connections, count, newConn, heap, fd, down, readThread,
                   sendThread, handles, stopVars>>

\* No request arrives in time, it is a file download, or the upgrade fails.
Refuse ==
    /\ accept = "handshake"
    /\ fdOpen' = fdOpen \ {newFd}
    /\ newFd' = None
    /\ accept' = "poll"
    /\ UNCHANGED <<process, connections, count, newConn, heap, fd, down, readThread,
                   sendThread, handles, stopVars>>

\* Assigning to the map destroys a connection already there.
Register(c) ==
    /\ accept = "handshake"
    /\ heap[c] = "unborn"
    /\ heap' = [d \in Conns |-> IF d = c THEN "live"
                                ELSE IF d = connections[newFd] THEN "freed" ELSE heap[d]]
    /\ fd' = [fd EXCEPT ![c] = newFd]
    /\ connections' = [connections EXCEPT ![newFd] = c]
    /\ newConn' = c
    /\ accept' = "start_reader"
    /\ UNCHANGED <<process, fdOpen, count, newFd, down, readThread, sendThread, handles,
                   stopVars>>

StartReader ==
    /\ accept = "start_reader"
    /\ readThread' = [readThread EXCEPT ![newConn] = "loop"]
    /\ accept' = "assign_reader"
    /\ UNCHANGED <<process, registry, newFd, newConn, heap, fd, down, sendThread, handles,
                   stopVars>>

AssignReader ==
    /\ accept = "assign_reader"
    /\ readHandle' = [readHandle EXCEPT ![newConn] = TRUE]
    /\ accept' = "start_sender"
    /\ UNCHANGED <<process, registry, newFd, newConn, heap, fd, down, readThread,
                   sendThread, sendHandle, stopVars>>

\* With the object freed under it the accept thread gets no further.
StartSender ==
    /\ accept = "start_sender"
    /\ heap[newConn] = "live"
    /\ sendThread' = [sendThread EXCEPT ![newConn] = "loop"]
    /\ accept' = "assign_sender"
    /\ UNCHANGED <<process, registry, newFd, newConn, heap, fd, down, readThread, handles,
                   stopVars>>

AssignSender ==
    /\ accept = "assign_sender"
    /\ heap[newConn] = "live"
    /\ sendHandle' = [sendHandle EXCEPT ![newConn] = TRUE]
    /\ accept' = "count"
    /\ UNCHANGED <<process, registry, newFd, newConn, heap, fd, down, readThread,
                   sendThread, readHandle, stopVars>>

\* ... and the connect callback, which only logs
CountUp ==
    /\ accept = "count"
    /\ count' = count + 1
    /\ newFd' = None /\ newConn' = None
    /\ accept' = "poll"
    /\ UNCHANGED <<process, fdOpen, connections, heap, fd, down, readThread, sendThread,
                   handles, stopVars>>

AcceptLoopExits ==
    /\ accept = "poll" /\ ~running
    /\ accept' = "exited"
    /\ UNCHANGED <<process, registry, newFd, newConn, heap, fd, down, readThread,
                   sendThread, handles, stopVars>>

(***************************************************************************)
(* The threads of connection c                                             *)
(***************************************************************************)
\* need_exit was set, or a write failed and cleared active
SendLoopEnds(c) ==
    /\ sendThread[c] = "loop"
    /\ sendThread' = [sendThread EXCEPT ![c] = "ended"]
    /\ down' = [down EXCEPT ![c] = TRUE]
    /\ UNCHANGED <<process, registry, acceptVars, heap, fd, readThread, handles,
                   stopVars>>

\* Mutant of ReadLoopEnds: the send thread is not told to end.
ReadLoopEndsQuietly(c) ==
    /\ readThread[c] = "loop"
    /\ readThread' = [readThread EXCEPT ![c] = "join"]
    /\ UNCHANGED <<process, registry, acceptVars, heap, fd, down, sendThread, handles,
                   stopVars>>

\* on_message_ is called, ...
Message(c) ==
    /\ readThread[c] = "loop"
    /\ readThread' = [readThread EXCEPT ![c] = "message"]
    /\ UNCHANGED <<process, registry, acceptVars, heap, fd, down, sendThread, handles,
                   stopVars>>

\* ... and returns.
MessageReturns(c) ==
    /\ readThread[c] = "message"
    /\ readThread' = [readThread EXCEPT ![c] = "loop"]
    /\ UNCHANGED <<process, registry, acceptVars, heap, fd, down, sendThread, handles,
                   stopVars>>

\* The peer is gone, or the connection was brought down.
ReadLoopEnds(c) ==
    /\ readThread[c] = "loop"
    /\ readThread' = [readThread EXCEPT ![c] = "join"]
    /\ down' = [down EXCEPT ![c] = TRUE]
    /\ UNCHANGED <<process, registry, acceptVars, heap, fd, sendThread, handles,
                   stopVars>>

\* Mutant of JoinSender: the socket is closed before the registry is updated.
JoinSenderCloses(c) ==
    /\ readThread[c] = "join"
    /\ sendHandle[c] => sendThread[c] = "ended"
    /\ sendHandle' = [sendHandle EXCEPT ![c] = FALSE]
    /\ fdOpen' = fdOpen \ {fd[c]}
    /\ readThread' = [readThread EXCEPT ![c] = "detach"]
    /\ UNCHANGED <<process, connections, count, acceptVars, heap, fd, down, sendThread,
                   readHandle, stopVars>>

JoinSender(c) ==
    /\ readThread[c] = "join"
    /\ sendHandle[c] => sendThread[c] = "ended"
    /\ sendHandle' = [sendHandle EXCEPT ![c] = FALSE]
    /\ readThread' = [readThread EXCEPT ![c] = "detach"]
    /\ UNCHANGED <<process, registry, acceptVars, heap, fd, down, sendThread, readHandle,
                   stopVars>>

\* While Stop waits in join() the thread can still detach itself, and Stop waits on.
DetachSelf(c) ==
    /\ readThread[c] = "detach"
    /\ readHandle[c]
    /\ readHandle' = [readHandle EXCEPT ![c] = FALSE]
    /\ readThread' = [readThread EXCEPT ![c] = "erase"]
    /\ UNCHANGED <<process, registry, acceptVars, heap, fd, down, sendThread, sendHandle,
                   stopVars>>

\* The accept thread has not assigned the handle yet: detach() throws.
DetachThrows(c) ==
    /\ readThread[c] = "detach"
    /\ ~readHandle[c]
    /\ Terminate

\* Mutant of Erase: it does not look whether Stop has collected the connection.
EraseAlways(c) ==
    /\ readThread[c] = "erase"
    /\ fdOpen' = fdOpen \ {fd[c]}
    /\ connections' = [connections EXCEPT ![fd[c]] = None]
    /\ heap' = [heap EXCEPT ![c] = "freed"]
    /\ count' = count - 1
    /\ readThread' = [readThread EXCEPT ![c] = "disconnect"]
    /\ UNCHANGED <<process, acceptVars, fd, down, sendThread, handles, stopVars>>

\* Mutant of Erase: the connection leaves the registry, the counter stays.
EraseKeepsCount(c) ==
    /\ readThread[c] = "erase"
    /\ fdOpen' = fdOpen \ {fd[c]}
    /\ connections' = [connections EXCEPT ![fd[c]] = None]
    /\ heap' = [heap EXCEPT ![c] = "freed"]
    /\ readThread' = [readThread EXCEPT ![c] = "disconnect"]
    /\ UNCHANGED <<process, count, acceptVars, fd, down, sendThread, handles,
                   stopVars>>

Joinable(c) == readHandle[c] \/ sendHandle[c]

\* The registry is looked up by descriptor; what is found there is destroyed.
Erase(c) ==
    /\ readThread[c] = "erase"
    /\ IF connections[fd[c]] # None
         THEN /\ ~Joinable(connections[fd[c]])
              /\ fdOpen' = fdOpen \ {fd[c]}
              /\ heap' = [heap EXCEPT ![connections[fd[c]]] = "freed"]
              /\ connections' = [connections EXCEPT ![fd[c]] = None]
              /\ count' = count - 1
         ELSE UNCHANGED <<registry, heap>>
    /\ readThread' = [readThread EXCEPT ![c] = "disconnect"]
    /\ UNCHANGED <<process, acceptVars, fd, down, sendThread, handles, stopVars>>

\* The send thread was assigned after the read thread had looked for it.
EraseTerminates(c) ==
    /\ readThread[c] = "erase"
    /\ connections[fd[c]] # None /\ Joinable(connections[fd[c]])
    /\ Terminate

\* on_disconnect_, outside the lock, returns.
Disconnect(c) ==
    /\ readThread[c] = "disconnect"
    /\ readThread' = [readThread EXCEPT ![c] = "ended"]
    /\ UNCHANGED <<process, registry, acceptVars, heap, fd, down, sendThread, handles,
                   stopVars>>

(***************************************************************************)
(* Stop                                                                    *)
(***************************************************************************)
StopBegins ==
    /\ stop = "no"
    /\ running' = FALSE
    /\ stop' = "begun"
    /\ UNCHANGED <<aborted, registry, acceptVars, heap, fd, down, readThread, sendThread, handles,
                   pending, toJoin, victim>>

\* Mutant of StopCollects: the threads are not told to end.
StopCollectsQuietly ==
    /\ stop = "begun"
    /\ pending' = Registered /\ toJoin' = Registered
    /\ fdOpen' = fdOpen \ {fd[c] : c \in Registered}
    /\ connections' = [f \in Fds |-> None]
    /\ count' = 0
    /\ stop' = "collected"
    /\ UNCHANGED <<process, acceptVars, heap, fd, down, readThread, sendThread, handles,
                   victim>>

StopCollects ==
    /\ stop = "begun"
    /\ pending' = Registered /\ toJoin' = Registered
    /\ down' = [c \in Conns |-> down[c] \/ c \in Registered]
    /\ fdOpen' = fdOpen \ {fd[c] : c \in Registered}
    /\ connections' = [f \in Fds |-> None]
    /\ count' = 0
    /\ stop' = "collected"
    /\ UNCHANGED <<process, acceptVars, heap, fd, readThread, sendThread, handles, victim>>

StopJoinsAccept ==
    /\ stop = "collected"
    /\ accept = "exited"
    /\ stop' = "joining"
    /\ UNCHANGED <<process, registry, acceptVars, heap, fd, down, readThread, sendThread,
                   handles, pending, toJoin, victim>>

\* Mutant of StopTestsReader: only the send threads are joined.
StopTestsReaderNever(c) ==
    /\ stop = "joining" /\ c \in toJoin
    /\ toJoin' = toJoin \ {c}
    /\ victim' = c
    /\ stop' = "joined_reader"
    /\ UNCHANGED <<process, registry, acceptVars, heap, fd, down, readThread, sendThread,
                   handles, pending>>

\* One connection of pending_cleanup at a time, in any order: is its read thread
\* joinable, or has it detached itself?
StopTestsReader(c) ==
    /\ stop = "joining" /\ c \in toJoin
    /\ toJoin' = toJoin \ {c}
    /\ victim' = c
    /\ stop' = IF readHandle[c] THEN "join_reader" ELSE "joined_reader"
    /\ UNCHANGED <<process, registry, acceptVars, heap, fd, down, readThread, sendThread,
                   handles, pending>>

\* join() looks at the handle again: it throws if the thread has detached itself
\* since, and waits for it otherwise.
StopEntersJoin ==
    /\ stop = "join_reader"
    /\ readHandle[victim]
    /\ stop' = "wait_reader"
    /\ UNCHANGED <<process, registry, acceptVars, heap, fd, down, readThread, sendThread,
                   handles, pending, toJoin, victim>>

StopJoinThrows ==
    /\ stop = "join_reader"
    /\ ~readHandle[victim]
    /\ Terminate

StopJoinsReader ==
    /\ stop = "wait_reader"
    /\ readThread[victim] = "ended"
    /\ readHandle' = [readHandle EXCEPT ![victim] = FALSE]
    /\ stop' = "joined_reader"
    /\ UNCHANGED <<process, registry, acceptVars, heap, fd, down, readThread, sendThread,
                   sendHandle, pending, toJoin, victim>>

\* ... then its send thread.
StopJoinsSender ==
    /\ stop = "joined_reader"
    /\ sendHandle[victim] => sendThread[victim] = "ended"
    /\ sendHandle' = [sendHandle EXCEPT ![victim] = FALSE]
    /\ victim' = None
    /\ stop' = "joining"
    /\ UNCHANGED <<process, registry, acceptVars, heap, fd, down, readThread, sendThread,
                   readHandle, pending, toJoin>>

\* pending_cleanup goes out of scope; none of its threads is joinable any more.
StopReturns ==
    /\ stop = "joining" /\ toJoin = {}
    /\ \A c \in pending : ~Joinable(c)
    /\ heap' = [c \in Conns |-> IF c \in pending THEN "freed" ELSE heap[c]]
    /\ stop' = "done"
    /\ UNCHANGED <<process, registry, acceptVars, fd, down, readThread, sendThread, handles,
                   pending, toJoin, victim>>

\* Objects are alike and never used again: which one is next does not matter.
IsNext(c) == heap[c] = "unborn" /\ c = CHOOSE d \in Conns : heap[d] = "unborn"

\* A client that is refused leaves no trace, so only Register needs an object.
Handshake == Refuse \/ \E c \in Conns : IsNext(c) /\ Register(c)

AcceptStep == \/ StartReader \/ AssignReader \/ StartSender \/ AssignSender \/ CountUp
              \/ AcceptLoopExits

\* From the end of the read loop to the call of on_disconnect_.
ReadLoopExit(c) == \/ JoinSender(c) \/ DetachSelf(c) \/ DetachThrows(c)
                   \/ Erase(c) \/ EraseTerminates(c)

StopStep == \/ StopCollects \/ StopJoinsAccept
            \/ \E c \in Conns : StopTestsReader(c)
            \/ StopEntersJoin \/ StopJoinThrows \/ StopJoinsReader \/ StopJoinsSender
            \/ StopReturns

Next == /\ ~aborted
        /\ \/ \E f \in Fds : Accept(f)
           \/ Handshake
           \/ AcceptStep
           \/ \E c \in Conns :
                \/ SendLoopEnds(c) \/ Message(c) \/ MessageReturns(c)
                \/ ReadLoopEnds(c) \/ ReadLoopExit(c) \/ Disconnect(c)
           \/ StopBegins
           \/ StopStep

Spec == Init /\ [][Next]_wsVars

\* Threads that wait for nothing are scheduled, a send loop sees within its
\* timeout that its connection is down, and a read loop ends once Stop has shut its
\* socket down.  Nothing makes a handshake or a callback end.
FairSpec ==
    /\ Spec
    /\ WF_wsVars(~aborted /\ AcceptStep)
    /\ WF_wsVars(~aborted /\ StopStep)
    /\ \A c \in Conns :
         /\ WF_wsVars(~aborted /\ ReadLoopExit(c))
         /\ WF_wsVars(~aborted /\ down[c] /\ c \in pending /\ ReadLoopEnds(c))
         /\ WF_wsVars(~aborted /\ down[c] /\ SendLoopEnds(c))

-----------------------------------------------------------------------------
(***************************************************************************)
(* Properties                                                              *)
(***************************************************************************)
\* Whatever the registry maps a descriptor to can be used by SendMessage: the
\* object is alive, it is the connection of that descriptor, and the socket is
\* open, although the kernel may hand the descriptor out again at once.
RegisteredIsUsable ==
    \A f \in Fds : connections[f] # None =>
        /\ heap[connections[f]] = "live"
        /\ fd[connections[f]] = f
        /\ f \in fdOpen

SettingUp == {"start_reader", "assign_reader", "start_sender", "assign_sender", "count"}

\* Until Stop empties the registry, the counter that Accept tests is the size
\* of the registry, less the connection that is still being set up.  A read
\* thread that ends before the count goes up makes it -1 for a moment.
CountMatches ==
    stop \in {"no", "begun"} =>
        count = Cardinality(Registered)
                - (IF accept \in SettingUp THEN 1 ELSE 0)

\* The read thread and Stop both join the send thread, and neither lock nor
\* flag tells them of each other; still only one of them joins it.
NoDoubleJoin ==
    \A c \in Conns :
        ~(readThread[c] = "join" /\ sendHandle[c] /\ victim = c /\ stop = "joined_reader")

\* Liveness.  When the read loop of a client has ended the disconnect callback
\* is called, which cleans its session up, or the process terminates.
DisconnectIsReported ==
    \A c \in Conns :
        readThread[c] = "join" ~> readThread[c] \in {"disconnect", "ended"} \/ aborted

\* The accept thread is about to use a connection already destroyed.
Dangling == accept \in {"start_sender", "assign_sender"} /\ heap[newConn] = "freed"

\* What Stop may wait for and nothing ends: a handshake whose client keeps sending
\* (the timeout is one of each recv), and a callback of the thread it joins.
HeldUp == \/ stop = "collected" /\ accept = "handshake"
          \/ stop = "wait_reader" /\ readThread[victim] \in {"message", "disconnect"}

\* Liveness.  Stop returns, unless the process terminates or is undefined before, or
\* a handshake or a callback holds it up: it does not wait for anything else, and
\* read threads, send threads and Stop do not wait for one another.
StopEnds == []<>(stop \in {"no", "done"} \/ aborted \/ Dangling \/ HeldUp)
=============================================================================
