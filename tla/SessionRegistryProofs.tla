------------------------ MODULE SessionRegistryProofs ------------------------
(***************************************************************************)
(* Proofs about SessionRegistry, for any number of connections, of         *)
(* descriptors, of sessions and of requests: who may have left a pull      *)
(* behind, whose session a disconnect can end, and that the pulls are used *)
(* as AudioPulls provides them.                                            *)
(***************************************************************************)
EXTENDS SessionRegistry, SequenceTheorems, WellFoundedInduction, TLAPS

-----------------------------------------------------------------------------
\* A non-empty set of natural numbers has a least element.
LEMMA LeastNat ==
    ASSUME NEW T, T \subseteq Nat, T # {}
    PROVE  \E k \in T : \A l \in T : k <= l
<1> DEFINE R == OpToRel(<, Nat)
<1>1. \E x \in T : \A y \in T : ~ (<<y, x>> \in R)
  <2>1. IsWellFoundedOn(R, Nat)
    BY NatLessThanWellFounded
  <2> HIDE DEF R
  <2>2. QED
    BY <2>1, WFMin
<1>2. ASSUME NEW x \in T, NEW y \in T, ~ (<<y, x>> \in R)
      PROVE  x <= y
  <2>1. <<y, x>> \in Nat \X Nat
    OBVIOUS
  <2>2. ~ (y < x)
    BY <1>2, <2>1 DEF OpToRel
  <2>3. QED
    BY <2>2
<1>3. QED
  BY <1>1, <1>2

-----------------------------------------------------------------------------
(* Erasing an element from a vector in which nothing is repeated.          *)

\* Where the i-th element after the erasure of the k-th stood before.
Before(k, i) == IF i < k THEN i ELSE i + 1

LEMMA RemoveAtProperties ==
    ASSUME NEW S, NEW q \in Seq(S), NEW k \in DOMAIN q
    PROVE  /\ RemoveAt(q, k) \in Seq(S)
           /\ Len(RemoveAt(q, k)) = Len(q) - 1
           /\ \A i \in 1 .. Len(q) - 1 :
                /\ RemoveAt(q, k)[i] = q[Before(k, i)]
                /\ Before(k, i) \in DOMAIN q /\ Before(k, i) # k
<1> DEFINE front == SubSeq(q, 1, k - 1)
           back == SubSeq(q, k + 1, Len(q))
<1>1. k \in 1 .. Len(q) /\ Len(q) \in Nat /\ DOMAIN q = 1 .. Len(q)
  BY LenProperties
<1>2. \A i \in 1 .. Len(q) : q[i] \in S
  BY ElementOfSeq
<1>3. /\ front \in Seq(S) /\ Len(front) = k - 1
      /\ \A i \in 1 .. k - 1 : front[i] = q[i]
  <2>1. \A i \in 1 .. k - 1 : q[i] \in S
    BY <1>1, <1>2
  <2> HIDE DEF front
  <2>2. /\ front \in Seq(S)
        /\ Len(front) = IF 1 <= k - 1 THEN (k - 1) - 1 + 1 ELSE 0
        /\ \A i \in 1 .. (k - 1) - 1 + 1 : front[i] = q[1 + i - 1]
    BY <1>1, <2>1, SubSeqProperties DEF front
  <2>3. QED
    BY <1>1, <2>2
<1>4. /\ back \in Seq(S) /\ Len(back) = Len(q) - k
      /\ \A i \in 1 .. Len(q) - k : back[i] = q[k + i]
  <2>1. \A i \in k + 1 .. Len(q) : q[i] \in S
    BY <1>1, <1>2
  <2> HIDE DEF back
  <2>2. /\ back \in Seq(S)
        /\ Len(back) = IF k + 1 <= Len(q) THEN Len(q) - (k + 1) + 1 ELSE 0
        /\ \A i \in 1 .. Len(q) - (k + 1) + 1 : back[i] = q[(k + 1) + i - 1]
    BY <1>1, <2>1, SubSeqProperties DEF back
  <2>3. Len(q) - (k + 1) + 1 = Len(q) - k
    BY <1>1
  <2>4. \A i \in 1 .. Len(q) - k : (k + 1) + i - 1 = k + i
    BY <1>1
  <2>5. QED
    BY <1>1, <2>2, <2>3, <2>4
<1> HIDE DEF front, back
<1>5. /\ RemoveAt(q, k) \in Seq(S)
      /\ Len(RemoveAt(q, k)) = Len(front) + Len(back)
      /\ \A i \in 1 .. Len(front) + Len(back) :
           RemoveAt(q, k)[i] = IF i <= Len(front) THEN front[i] ELSE back[i - Len(front)]
  BY <1>3, <1>4, ConcatProperties DEF RemoveAt, front, back
<1>6. ASSUME NEW i \in 1 .. Len(q) - 1
      PROVE  /\ RemoveAt(q, k)[i] = q[Before(k, i)]
             /\ Before(k, i) \in DOMAIN q /\ Before(k, i) # k
  <2>1. CASE i < k
    BY <1>1, <1>3, <1>4, <1>5, <2>1 DEF Before
  <2>2. CASE i >= k
    <3>1. i - (k - 1) \in 1 .. Len(q) - k /\ k + (i - (k - 1)) = i + 1
      BY <1>1, <2>2
    <3>2. RemoveAt(q, k)[i] = back[i - (k - 1)]
      BY <1>1, <1>3, <1>4, <1>5, <2>2
    <3>3. back[i - (k - 1)] = q[i + 1]
      BY <1>4, <3>1
    <3>4. QED
      BY <1>1, <2>2, <3>2, <3>3 DEF Before
  <2>3. QED
    BY <1>1, <2>1, <2>2
<1>7. QED
  BY <1>1, <1>3, <1>4, <1>5, <1>6

\* RemoveFirst takes the place of the one that is removed.
LEMMA RemoveFirstIsRemoveAt ==
    ASSUME NEW S, NEW q \in Seq(S), IsInjective(q), NEW k \in DOMAIN q
    PROVE  RemoveFirst(q, q[k]) = RemoveAt(q, k)
<1>1. DOMAIN q = 1 .. Len(q)
  BY LenProperties
<1>2. {i \in 1 .. Len(q) : q[i] = q[k]} = {k}
  BY <1>1 DEF IsInjective
<1>3. Min({k}) = k
  BY <1>1, LenProperties DEF Min
<1>4. \E i \in 1 .. Len(q) : q[i] = q[k]
  BY <1>1
<1>5. QED
  BY <1>2, <1>3, <1>4 DEF RemoveFirst, SelectInSeq

\* RemoveSession takes one session out and keeps the order of the others.
LEMMA RemoveSessionKeeps ==
    ASSUME sessions \in Seq(Sessions), IsInjective(sessions),
           NEW s, NEW who, RemoveSession(s, who)
    PROVE  /\ sessions' \in Seq(Sessions) /\ IsInjective(sessions')
           /\ Len(sessions') <= Len(sessions)
           /\ Registered' = Registered \ {s}
           /\ \A i, j \in DOMAIN sessions' : i < j =>
                \E k, l \in DOMAIN sessions :
                    k < l /\ sessions'[i] = sessions[k] /\ sessions'[j] = sessions[l]
<1>0. /\ DOMAIN sessions = 1 .. Len(sessions) /\ Len(sessions) \in Nat
      /\ sessions' = RemoveFirst(sessions, s)
  BY LenProperties DEF RemoveSession
<1>1. CASE s \notin Registered
  <2>1. sessions' = sessions
    BY <1>0, <1>1 DEF RemoveFirst, Registered
  <2>2. QED
    BY <1>0, <1>1, <2>1 DEF Registered
<1>2. CASE s \in Registered
  <2>1. PICK k \in DOMAIN sessions : s = sessions[k]
    BY <1>2 DEF Registered
  <2>2. sessions' = RemoveAt(sessions, k)
    BY <1>0, <2>1, RemoveFirstIsRemoveAt
  <2>3. /\ sessions' \in Seq(Sessions) /\ Len(sessions') = Len(sessions) - 1
        /\ \A i \in 1 .. Len(sessions) - 1 :
             /\ sessions'[i] = sessions[Before(k, i)]
             /\ Before(k, i) \in DOMAIN sessions /\ Before(k, i) # k
    BY <2>2, RemoveAtProperties
  <2>4. DOMAIN sessions' = 1 .. Len(sessions) - 1
    BY <2>3, LenProperties
  <2>5. \A i, j \in DOMAIN sessions' : i < j => Before(k, i) < Before(k, j)
    BY <1>0, <2>4 DEF Before
  <2>6. IsInjective(sessions')
    <3> SUFFICES ASSUME NEW i \in DOMAIN sessions', NEW j \in DOMAIN sessions',
                        sessions'[i] = sessions'[j]
                 PROVE  i = j
      BY DEF IsInjective
    <3>1. Before(k, i) = Before(k, j)
      BY <2>3, <2>4 DEF IsInjective
    <3>2. QED
      BY <1>0, <2>4, <3>1 DEF Before
  <2>7. Registered' = Registered \ {s}
    <3>1. ASSUME NEW i \in DOMAIN sessions'
          PROVE  sessions'[i] \in Registered \ {s}
      <4>1. sessions[Before(k, i)] # sessions[k]
        BY <2>3, <2>4 DEF IsInjective
      <4>2. QED
        BY <2>1, <2>3, <2>4, <4>1 DEF Registered
    <3>2. ASSUME NEW i \in DOMAIN sessions, sessions[i] # s
          PROVE  \E j \in DOMAIN sessions' : sessions'[j] = sessions[i]
      <4>1. CASE i < k
        BY <1>0, <2>3, <2>4, <4>1 DEF Before
      <4>2. CASE i > k
        <5>1. i - 1 \in 1 .. Len(sessions) - 1 /\ Before(k, i - 1) = i
          BY <1>0, <4>2 DEF Before
        <5>2. QED
          BY <2>3, <2>4, <5>1
      <4>3. QED
        BY <1>0, <2>1, <3>2, <4>1, <4>2
    <3>3. QED
      BY <3>1, <3>2 DEF Registered
  <2>8. QED
    BY <1>0, <2>3, <2>4, <2>5, <2>6, <2>7
<1>3. QED
  BY <1>1, <1>2

LEMMA RegisteredAreSessions ==
    ASSUME sessions \in Seq(Sessions)
    PROVE  Registered \subseteq Sessions
BY LenProperties, ElementOfSeq DEF Registered

\* What is new at the end of the registry was not in it before.
LEMMA AppendIsInjective ==
    ASSUME sessions \in Seq(Sessions), IsInjective(sessions),
           NEW s \in Sessions, s \notin Registered, sessions' = Append(sessions, s)
    PROVE  /\ sessions' \in Seq(Sessions) /\ IsInjective(sessions')
           /\ Len(sessions') = Len(sessions) + 1
           /\ DOMAIN sessions' = DOMAIN sessions \cup {Len(sessions) + 1}
           /\ sessions'[Len(sessions) + 1] = s
           /\ \A i \in DOMAIN sessions : sessions'[i] = sessions[i]
           /\ Registered' = Registered \cup {s}
<1>1. /\ sessions' \in Seq(Sessions) /\ Len(sessions') = Len(sessions) + 1
      /\ DOMAIN sessions' = 1 .. Len(sessions) + 1 /\ DOMAIN sessions = 1 .. Len(sessions)
      /\ Len(sessions) \in Nat
      /\ sessions'[Len(sessions) + 1] = s
      /\ \A i \in 1 .. Len(sessions) : sessions'[i] = sessions[i]
  BY LenProperties, AppendProperties
<1>2. DOMAIN sessions' = DOMAIN sessions \cup {Len(sessions) + 1}
  BY <1>1
<1>3. Registered' = Registered \cup {s}
  BY <1>1, <1>2 DEF Registered
<1>4. \A i \in DOMAIN sessions : sessions[i] # s
  BY DEF Registered
<1>5. IsInjective(sessions')
  BY <1>1, <1>2, <1>4 DEF IsInjective
<1>6. QED
  BY <1>1, <1>2, <1>3, <1>5

\* The list of the expired holds sessions.  The function that collects them is
\* a recursive one; that there is one follows by induction over its domain.
LEMMA ExpiredAreSessions ==
    ASSUME sessions \in Seq(Sessions), NEW T
    PROVE  RegisteredIn(T) \in Seq(Sessions)
<1> DEFINE N == Len(sessions)
           Body(f, i) == IF i = 0 THEN <<>>
                         ELSE IF sessions[i] \in T THEN Append(f[i - 1], sessions[i])
                         ELSE f[i - 1]
           Collects(f, n) == f = [i \in 0 .. n |-> Body(f, i)]
           Missing == {n \in 0 .. N : \A f : ~Collects(f, n)}
           Ids == CHOOSE ids : ids = [i \in 0 .. N |-> Body(ids, i)]
           Wrong == {n \in 0 .. N : Ids[n] \notin Seq(Sessions)}
<1>1. N \in Nat /\ \A i \in 1 .. N : sessions[i] \in Sessions
  BY LenProperties, ElementOfSeq
<1>2. ASSUME NEW n \in 1 .. N, NEW f, Collects(f, n - 1)
      PROVE  \E g : Collects(g, n)
  <2> DEFINE g == [i \in 0 .. n |-> IF i = n THEN Body(f, n) ELSE f[i]]
  <2>1. ASSUME NEW i \in 0 .. n
        PROVE  g[i] = Body(g, i)
    <3>1. CASE i = n
      <4>1. g[i] = Body(f, n) /\ g[n - 1] = f[n - 1] /\ n # 0
        BY <1>1, <3>1
      <4>2. QED
        BY <3>1, <4>1
    <3>2. CASE i = 0
      BY <1>1, <1>2, <3>2
    <3>3. CASE i \in 1 .. n - 1
      <4>1. i \in 0 .. n - 1 /\ i - 1 \in 0 .. n - 1 /\ i # n /\ i - 1 # n
        BY <1>1, <3>3
      <4>2. g[i] = f[i] /\ g[i - 1] = f[i - 1]
        BY <1>1, <4>1
      <4>3. f[i] = Body(f, i)
        BY <1>2, <4>1
      <4>4. QED
        BY <4>2, <4>3
    <3>4. QED
      BY <1>1, <3>1, <3>2, <3>3
  <2>2. g = [i \in 0 .. n |-> Body(g, i)]
    <3> HIDE DEF Body
    <3>1. QED
      BY <2>1
  <2>3. QED
    BY <2>2
<1>3. Collects([i \in 0 .. 0 |-> <<>>], 0)
  BY <1>1
<1>4. Missing = {}
  <2> SUFFICES ASSUME Missing # {} PROVE FALSE
    OBVIOUS
  <2> HIDE DEF Collects
  <2>1. PICK n \in Missing : \A m \in Missing : n <= m
    <3>1. Missing \subseteq Nat
      BY <1>1
    <3> HIDE DEF Missing
    <3>2. QED
      BY <3>1, LeastNat
  <2>2. n # 0 /\ n \in 1 .. N /\ n - 1 \in 0 .. N
    BY <1>1, <1>3
  <2>3. n - 1 \notin Missing
    BY <2>1, <2>2
  <2>4. \E f : Collects(f, n - 1)
    BY <2>2, <2>3
  <2>5. QED
    BY <1>2, <2>1, <2>2, <2>4
<1>5. Ids = [i \in 0 .. N |-> Body(Ids, i)]
  <2>1. N \in 0 .. N
    BY <1>1
  <2>2. \E f : Collects(f, N)
    <3> HIDE DEF Collects
    <3>1. QED
      BY <1>4, <2>1
  <2> HIDE DEF Body
  <2>3. QED
    BY <2>2
<1> HIDE DEF Ids
<1>6. Wrong = {}
  <2> SUFFICES ASSUME Wrong # {} PROVE FALSE
    OBVIOUS
  <2>1. PICK n \in Wrong : \A m \in Wrong : n <= m
    <3>1. Wrong \subseteq Nat
      BY <1>1
    <3> HIDE DEF Wrong
    <3>2. QED
      BY <3>1, LeastNat
  <2>2. n \in 0 .. N /\ Ids[n] = Body(Ids, n)
    BY <1>5
  <2>3. n # 0
    <3> SUFFICES ASSUME n = 0 PROVE FALSE
      OBVIOUS
    <3>1. Ids[n] = <<>>
      BY <2>2
    <3>2. <<>> \in Seq(Sessions)
      OBVIOUS
    <3>3. QED
      BY <2>1, <3>1, <3>2
  <2>4. n \in 1 .. N /\ n - 1 \in 0 .. N /\ ~(n <= n - 1)
    BY <1>1, <2>2, <2>3
  <2>5. Ids[n - 1] \in Seq(Sessions)
    BY <2>1, <2>4
  <2>6. Ids[n] \in Seq(Sessions)
    BY <1>1, <2>2, <2>4, <2>5, AppendProperties
  <2>7. QED
    BY <2>1, <2>6
<1>7. RegisteredIn(T) = Ids[N]
  BY DEF RegisteredIn, Ids
<1>8. QED
  BY <1>1, <1>6, <1>7

-----------------------------------------------------------------------------
(* The inductive invariant.                                                *)

\* A read thread behind a lookup of its own session holds one of its own; the
\* one it holds while it disconnects may be another's.
PointersOK ==
    \A c \in Conns :
        /\ step[c] \in {"req_fd", "start_touch", "start_stop", "start_pull"} =>
             target[c] \in Sessions /\ owner[target[c]] = c
        /\ step[c] \in {"disc_stop", "disc_remove"} =>
             target[c] \in Sessions /\ owner[target[c]] # None

PurgeOK == cleanup # "sleep" => todo # <<>>

\* A session that was never created is nowhere, and only a connection that was
\* accepted has sessions.
OwnersOK ==
    \A s \in Sessions :
        /\ owner[s] = None => /\ s \notin Registered /\ remover[s] = None
                              /\ ws_fd[s] = None /\ pull[s] = "none"
        /\ owner[s] # None => step[owner[s]] # "unborn"

\* A connection that has removed a session is through, and one that is about to
\* remove its own has stopped its pull.
RemovedOK ==
    /\ \A s \in Sessions : remover[s] \in Conns => step[remover[s]] = "ended"
    /\ \A c \in Conns : step[c] = "disc_remove" /\ owner[target[c]] = c =>
                           pull[target[c]] = "none"

\* Open connections differ in their descriptors; a session has the descriptor of
\* its connection once the handler that created it has returned.
FdsOK ==
    /\ \A c \in Conns : step[c] # "unborn" => fd[c] \in Fds
    /\ \A c, d \in Open : fd[c] = fd[d] => c = d
    /\ \A s \in Sessions : owner[s] # None =>
         \/ ws_fd[s] = fd[owner[s]]
         \/ ws_fd[s] = None /\ step[owner[s]] = "req_fd" /\ target[owner[s]] = s

\* Of two registered sessions whose connections had the same descriptor, the
\* one whose connection has ended stands in front.
OrderOK ==
    \A i, j \in DOMAIN sessions :
        /\ i < j
        /\ owner[sessions[i]] \in Open /\ owner[sessions[j]] \notin Open
        => fd[owner[sessions[i]]] # fd[owner[sessions[j]]]

RegistryInv ==
    /\ TypeOK /\ PointersOK /\ PurgeOK /\ OwnersOK /\ RemovedOK /\ FdsOK /\ OrderOK
    /\ OwnDisconnectLeavesNoPull /\ DisconnectSparesOpen

-----------------------------------------------------------------------------
\* Steps that leave the registry, the pulls and the read threads alone.
registry == <<sessions, ws_fd, owner, pull, readers, remover>>

LEMMA QuietSteps ==
    \/ \E c \in Conns, s \in Sessions : Report(c, s)
    \/ \E s \in Sessions : WorkerFind(s) \/ WorkerEnds(s) \/ Expire(s)
    \/ Collect \/ UNCHANGED registryVars
    => UNCHANGED registry
BY DEF Report, WorkerFind, WorkerEnds, Expire, Collect, registryVars, registry

\* The steps of a connection that has not disconnected.
Serve(c) ==
    \/ \E s \in Sessions : StartFind(c, s)
    \/ SetFd(c) \/ StartTouch(c) \/ StartStop(c) \/ StartPull(c)
    \/ Ping(c) \/ Pong(c)

LEMMA TypeStep ==
    ASSUME TypeOK, PointersOK, PurgeOK, OwnersOK, [Next]_registryVars
    PROVE  TypeOK'
<1> USE DEF TypeOK, HandlerStep, DisconnectStep
<1>1. ASSUME NEW c \in Conns, NEW f \in Fds, Connect(c, f) PROVE TypeOK'
  BY <1>1 DEF Connect, purging
<1>2. ASSUME NEW c \in Conns, NEW s \in Sessions, CreateSession(c, s) PROVE TypeOK'
  <2>1. sessions' = Append(sessions, s) /\ s \notin Registered /\ Len(sessions) < MaxSessions
    BY <1>2 DEF CreateSession, Insert, HasRoom, OwnersOK
  <2>2. sessions' \in Seq(Sessions) /\ IsInjective(sessions') /\ Len(sessions') <= MaxSessions
    BY <2>1, AppendIsInjective, LimitsAssumption
  <2>3. QED
    BY <1>2, <2>2 DEF CreateSession, Goto, purging
<1>3. ASSUME NEW c \in Conns, NEW s \in Sessions, StartFind(c, s) \/ Report(c, s)
      PROVE  TypeOK'
  BY <1>3 DEF StartFind, Report, Goto, Touch, purging, readers
<1>4. ASSUME NEW c \in Conns, Ping(c) \/ Pong(c) \/ Close(c) PROVE TypeOK'
  BY <1>4 DEF Ping, Pong, Close, Goto, purging
<1>5. ASSUME NEW c \in Conns, SetFd(c) \/ StartTouch(c) \/ StartStop(c) \/ StartPull(c)
      PROVE  TypeOK'
  <2>1. target[c] \in Sessions
    BY <1>5 DEF PointersOK, SetFd, StartTouch, StartStop, StartPull
  <2>2. CASE SetFd(c)
    BY <2>1, <2>2 DEF SetFd, Goto, Finish, purging
  <2>3. CASE StartTouch(c)
    BY <2>1, <2>3 DEF StartTouch, Goto, Touch, purging
  <2>4. CASE StartStop(c) \/ StartPull(c)
    BY <2>1, <2>4 DEF StartStop, StartPull, StopAudioPull, Goto, Finish, purging
  <2>5. QED
    BY <1>5, <2>2, <2>3, <2>4
<1>6. ASSUME NEW c \in Conns, DisconnectFind(c) \/ DisconnectNone(c) PROVE TypeOK'
  <2>1. CASE DisconnectNone(c)
    BY <2>1 DEF DisconnectNone, Goto, Finish, purging
  <2>2. CASE DisconnectFind(c)
    <3>1. PICK s \in Sessions : target' = [target EXCEPT ![c] = s] /\ Goto(c, "disc_stop")
      BY <2>2, RegisteredAreSessions DEF DisconnectFind
    <3>2. QED
      BY <2>2, <3>1 DEF DisconnectFind, Goto, purging
  <2>3. QED
    BY <1>6, <2>1, <2>2
<1>7. ASSUME NEW c \in Conns, DisconnectStop(c) PROVE TypeOK'
  BY <1>7 DEF DisconnectStop, StopAudioPull, Goto, purging
<1>8. ASSUME NEW c \in Conns, DisconnectRemove(c) PROVE TypeOK'
  <2>1. sessions' \in Seq(Sessions) /\ IsInjective(sessions') /\ Len(sessions') <= MaxSessions
    BY <1>8, RemoveSessionKeeps, LimitsAssumption, LenProperties DEF DisconnectRemove
  <2>2. QED
    BY <1>8, <2>1 DEF DisconnectRemove, RemoveSession, Goto, Finish, purging
<1>9. ASSUME NEW s \in Sessions, AudioArrives(s) \/ CallbackReturns(s) PROVE TypeOK'
  BY <1>9 DEF AudioArrives, CallbackReturns, AudioDropped, AudioTaken, Touch, purging, readers
<1>10. ASSUME NEW s \in Sessions, WorkerFind(s) \/ WorkerEnds(s) \/ Expire(s) PROVE TypeOK'
  BY <1>10 DEF WorkerFind, WorkerEnds, Expire, Registered, purging, readers
<1>11. CASE Collect
  <2>1. todo' \in Seq(Sessions)
    BY <1>11, ExpiredAreSessions DEF Collect
  <2>2. QED
    BY <1>11, <2>1 DEF Collect, readers
<1>12. CASE CleanupStop
  BY <1>12 DEF CleanupStop, StopAudioPull, readers
<1>13. CASE CleanupRemove
  <2>1. sessions' \in Seq(Sessions) /\ IsInjective(sessions') /\ Len(sessions') <= MaxSessions
    BY <1>13, RemoveSessionKeeps, LimitsAssumption, LenProperties DEF CleanupRemove
  <2>2. todo # <<>>
    BY <1>13 DEF CleanupRemove, PurgeOK
  <2>3. todo' \in Seq(Sessions)
    BY <1>13, <2>2 DEF CleanupRemove
  <2>4. QED
    BY <1>13, <2>1, <2>3 DEF CleanupRemove, RemoveSession, readers
<1>14. CASE UNCHANGED registryVars
  BY <1>14 DEF registryVars, readers, purging
<1>15. QED
  BY <1>1, <1>2, <1>3, <1>4, <1>5, <1>6, <1>7, <1>8, <1>9, <1>10, <1>11, <1>12, <1>13, <1>14
     DEF Next, MessageArrives, HandlerGoesOn, DisconnectGoesOn, CleanupGoesOn

LEMMA PurgeStep ==
    ASSUME PurgeOK, [Next]_registryVars
    PROVE  PurgeOK'
<1>1. CASE Collect
  BY <1>1 DEF Collect, PurgeOK
<1>2. CASE CleanupStop
  BY <1>2 DEF CleanupStop, PurgeOK
<1>3. CASE CleanupRemove
  BY <1>3 DEF CleanupRemove, PurgeOK
<1>4. CASE UNCHANGED purging
  BY <1>4 DEF purging, PurgeOK
<1>5. QED
  <2>1. ASSUME NEW c \in Conns,
               (\E f \in Fds : Connect(c, f)) \/ MessageArrives(c) \/ HandlerGoesOn(c)
                 \/ Close(c) \/ DisconnectGoesOn(c)
        PROVE  UNCHANGED purging
    BY <2>1 DEF Connect, MessageArrives, HandlerGoesOn, Close, DisconnectGoesOn,
            CreateSession, StartFind, Report, Ping, SetFd, StartTouch, StartStop,
            StartPull, Pong, DisconnectFind, DisconnectNone, DisconnectStop,
            DisconnectRemove
  <2>2. ASSUME NEW s \in Sessions,
               AudioArrives(s) \/ CallbackReturns(s) \/ WorkerFind(s) \/ WorkerEnds(s)
                 \/ Expire(s)
        PROVE  UNCHANGED purging
    BY <2>2 DEF AudioArrives, CallbackReturns, AudioDropped, AudioTaken, WorkerFind,
            WorkerEnds, Expire
  <2>3. QED
    BY <1>1, <1>2, <1>3, <1>4, <2>1, <2>2 DEF Next, CleanupGoesOn, registryVars

\* The cases of a step, as the lemmas below tell them apart.
LEMMA StepCases ==
    ASSUME [Next]_registryVars
    PROVE  \/ \E c \in Conns, f \in Fds : Connect(c, f)
           \/ \E c \in Conns, s \in Sessions : CreateSession(c, s)
           \/ \E c \in Conns :
                \/ Serve(c) \/ Close(c) \/ DisconnectFind(c) \/ DisconnectNone(c)
                \/ DisconnectStop(c) \/ DisconnectRemove(c)
           \/ \E s \in Sessions : AudioArrives(s) \/ CallbackReturns(s)
           \/ CleanupStop \/ CleanupRemove
           \/ UNCHANGED registry
BY QuietSteps DEF Next, MessageArrives, HandlerGoesOn, DisconnectGoesOn, CleanupGoesOn, Serve

LEMMA PointersStep ==
    ASSUME TypeOK, PointersOK, OwnersOK, [Next]_registryVars
    PROVE  PointersOK'
<1> USE NamesAssumption DEF PointersOK, TypeOK
<1>1. ASSUME NEW c \in Conns, NEW f \in Fds, Connect(c, f) PROVE PointersOK'
  BY <1>1 DEF Connect
<1>2. ASSUME NEW c \in Conns, NEW s \in Sessions, CreateSession(c, s) PROVE PointersOK'
  BY <1>2 DEF CreateSession, Goto
<1>3. ASSUME NEW c \in Conns, Serve(c) PROVE PointersOK'
  <2>1. UNCHANGED owner
    BY <1>3 DEF Serve, StartFind, SetFd, StartTouch, StartStop, StartPull, Ping, Pong
  <2>2. \A d \in Conns \ {c} : step'[d] = step[d] /\ target'[d] = target[d]
    BY <1>3 DEF Serve, StartFind, SetFd, StartTouch, StartStop, StartPull, Ping, Pong,
            Goto, Finish
  <2>3. \/ step'[c] \in {"idle", "ping"}
        \/ step'[c] \in {"start_stop", "start_pull"} /\ target'[c] = target[c]
           /\ step[c] \in {"start_touch", "start_stop"}
        \/ target'[c] \in Sessions /\ owner[target'[c]] = c /\ step'[c] = "start_touch"
    BY <1>3 DEF Serve, StartFind, SetFd, StartTouch, StartStop, StartPull, Ping, Pong,
            Goto, Finish
  <2>4. QED
    BY <2>1, <2>2, <2>3
<1>4. ASSUME NEW c \in Conns, Close(c) \/ DisconnectNone(c) \/ DisconnectRemove(c)
      PROVE  PointersOK'
  BY <1>4 DEF Close, DisconnectNone, DisconnectRemove, Goto, Finish
<1>5. ASSUME NEW c \in Conns, DisconnectFind(c) PROVE PointersOK'
  <2>1. PICK s \in Registered : target' = [target EXCEPT ![c] = s] /\ Goto(c, "disc_stop")
    BY <1>5 DEF DisconnectFind
  <2>2. s \in Sessions /\ owner[s] # None
    BY <2>1, RegisteredAreSessions DEF OwnersOK
  <2>3. QED
    BY <1>5, <2>1, <2>2 DEF DisconnectFind, Goto
<1>6. ASSUME NEW c \in Conns, DisconnectStop(c) PROVE PointersOK'
  BY <1>6 DEF DisconnectStop, Goto
<1>7. CASE UNCHANGED <<owner, readers>>
  BY <1>7 DEF readers
<1>8. ASSUME NEW s \in Sessions, AudioArrives(s) \/ CallbackReturns(s)
      PROVE  UNCHANGED <<owner, readers>>
  BY <1>8 DEF AudioArrives, CallbackReturns, AudioDropped, AudioTaken
<1>9. CleanupStop \/ CleanupRemove => UNCHANGED <<owner, readers>>
  BY DEF CleanupStop, CleanupRemove
<1>10. UNCHANGED registry => UNCHANGED <<owner, readers>>
  BY DEF registry
<1>11. QED
  BY StepCases, <1>1, <1>2, <1>3, <1>4, <1>5, <1>6, <1>7, <1>8, <1>9, <1>10

LEMMA OwnersStep ==
    ASSUME TypeOK, PointersOK, OwnersOK, [Next]_registryVars
    PROVE  OwnersOK'
<1> USE NamesAssumption DEF OwnersOK, TypeOK
<1>1. ASSUME NEW c \in Conns, NEW f \in Fds, Connect(c, f) PROVE OwnersOK'
  BY <1>1 DEF Connect, Registered
<1>2. ASSUME NEW c \in Conns, NEW s \in Sessions, CreateSession(c, s) PROVE OwnersOK'
  <2>1. Registered' = Registered \cup {s}
    BY <1>2, AppendIsInjective DEF CreateSession, Insert
  <2>2. QED
    BY <1>2, <2>1 DEF CreateSession, Goto
<1>3. ASSUME NEW c \in Conns, Serve(c) PROVE OwnersOK'
  <2>1. UNCHANGED <<sessions, owner, remover>> /\ UNCHANGED Registered
    BY <1>3 DEF Serve, StartFind, SetFd, StartTouch, StartStop, StartPull, Ping, Pong,
            Registered
  <2>2. \A d \in Conns : step[d] # "unborn" => step'[d] # "unborn"
    BY <1>3 DEF Serve, StartFind, SetFd, StartTouch, StartStop, StartPull, Ping, Pong,
            Goto, Finish
  <2>3. \A s \in Sessions : owner[s] = None => ws_fd'[s] = ws_fd[s] /\ pull'[s] = pull[s]
    BY <1>3 DEF Serve, StartFind, SetFd, StartTouch, StartStop, StartPull, Ping, Pong,
            StopAudioPull, Goto, Finish, PointersOK
  <2>4. QED
    BY <2>1, <2>2, <2>3
<1>4. ASSUME NEW c \in Conns, Close(c) \/ DisconnectFind(c) \/ DisconnectNone(c)
                                \/ DisconnectStop(c)
      PROVE  OwnersOK'
  <2>1. UNCHANGED <<sessions, ws_fd, owner, remover>> /\ UNCHANGED Registered
    BY <1>4 DEF Close, DisconnectFind, DisconnectNone, DisconnectStop, Registered
  <2>2. \A d \in Conns : step[d] # "unborn" => step'[d] # "unborn"
    BY <1>4 DEF Close, DisconnectFind, DisconnectNone, DisconnectStop, Goto, Finish
  <2>3. \A s \in Sessions : pull'[s] = pull[s] \/ pull'[s] = "none"
    BY <1>4 DEF Close, DisconnectFind, DisconnectNone, DisconnectStop, StopAudioPull
  <2>4. QED
    BY <2>1, <2>2, <2>3
<1>5. ASSUME NEW s, NEW who, RemoveSession(s, who), UNCHANGED <<ws_fd, owner, pull>>,
             \A d \in Conns : step[d] # "unborn" => step'[d] # "unborn"
      PROVE  OwnersOK'
  <2>1. Registered' = Registered \ {s}
    BY <1>5, RemoveSessionKeeps
  <2>2. \A r \in Sessions : owner[r] = None => remover'[r] = remover[r]
    BY <1>5 DEF RemoveSession
  <2>3. QED
    BY <1>5, <2>1, <2>2
<1>6. ASSUME NEW c \in Conns, DisconnectRemove(c) PROVE OwnersOK'
  BY <1>5, <1>6 DEF DisconnectRemove, Goto, Finish
<1>7. CASE CleanupRemove
  BY <1>5, <1>7 DEF CleanupRemove, readers
<1>8. CASE CleanupStop
  BY <1>8 DEF CleanupStop, StopAudioPull, readers, Registered
<1>9. ASSUME NEW s \in Sessions, AudioArrives(s) \/ CallbackReturns(s) PROVE OwnersOK'
  BY <1>9 DEF AudioArrives, CallbackReturns, AudioDropped, AudioTaken, readers, Registered
<1>10. CASE UNCHANGED registry
  BY <1>10 DEF registry, readers, Registered
<1>11. QED
  BY StepCases, <1>1, <1>2, <1>3, <1>4, <1>6, <1>7, <1>8, <1>9, <1>10

\* Who takes which step with a pull.  A pull begins only for a session of the
\* connection whose handler begins it.
LEMMA RemovedStep ==
    ASSUME TypeOK, PointersOK, OwnersOK, RemovedOK, [Next]_registryVars
    PROVE  RemovedOK'
<1> USE NamesAssumption DEF RemovedOK, TypeOK
<1>1. ASSUME NEW c \in Conns, NEW f \in Fds, Connect(c, f) PROVE RemovedOK'
  BY <1>1 DEF Connect
<1>2. ASSUME NEW c \in Conns, NEW s \in Sessions, CreateSession(c, s) PROVE RemovedOK'
  BY <1>2 DEF CreateSession, Goto, PointersOK
<1>3. ASSUME NEW c \in Conns, Serve(c) PROVE RemovedOK'
  <2>1. UNCHANGED <<owner, remover>> /\ step[c] \notin {"ended", "disc_remove"}
        /\ step'[c] # "disc_remove"
    BY <1>3 DEF Serve, StartFind, SetFd, StartTouch, StartStop, StartPull, Ping, Pong,
            Goto, Finish
  <2>2. \A d \in Conns \ {c} : step'[d] = step[d] /\ target'[d] = target[d]
    BY <1>3 DEF Serve, StartFind, SetFd, StartTouch, StartStop, StartPull, Ping, Pong,
            Goto, Finish
  <2>3. \A s \in Sessions : \/ pull'[s] = pull[s] \/ pull'[s] = "none" \/ owner[s] = c
    BY <1>3 DEF Serve, StartFind, SetFd, StartTouch, StartStop, StartPull, Ping, Pong,
            StopAudioPull, Goto, Finish, PointersOK
  <2>4. QED
    BY <2>1, <2>2, <2>3 DEF PointersOK
<1>4. ASSUME NEW c \in Conns, Close(c) \/ DisconnectFind(c) \/ DisconnectNone(c)
      PROVE  RemovedOK'
  <2>1. /\ UNCHANGED <<owner, remover, pull>> /\ step[c] \notin {"ended", "disc_remove"}
        /\ step'[c] # "disc_remove"
    BY <1>4 DEF Close, DisconnectFind, DisconnectNone, Goto, Finish
  <2>2. \A d \in Conns \ {c} : step'[d] = step[d] /\ target'[d] = target[d]
    BY <1>4 DEF Close, DisconnectFind, DisconnectNone, Goto, Finish
  <2>3. QED
    BY <2>1, <2>2
<1>5. ASSUME NEW c \in Conns, DisconnectStop(c) PROVE RemovedOK'
  BY <1>5 DEF DisconnectStop, StopAudioPull, Goto, PointersOK
<1>6. ASSUME NEW c \in Conns, DisconnectRemove(c) PROVE RemovedOK'
  BY <1>6 DEF DisconnectRemove, RemoveSession, Goto, Finish
<1>7. CASE CleanupRemove
  BY <1>7 DEF CleanupRemove, RemoveSession, readers
<1>8. CASE CleanupStop
  BY <1>8 DEF CleanupStop, StopAudioPull, readers, PointersOK
<1>9. ASSUME NEW s \in Sessions, AudioArrives(s) \/ CallbackReturns(s) PROVE RemovedOK'
  BY <1>9 DEF AudioArrives, CallbackReturns, AudioDropped, AudioTaken, readers, PointersOK
<1>10. CASE UNCHANGED registry
  BY <1>10 DEF registry, readers
<1>11. QED
  BY StepCases, <1>1, <1>2, <1>3, <1>4, <1>5, <1>6, <1>7, <1>8, <1>9, <1>10

LEMMA NoPullStep ==
    ASSUME TypeOK, PointersOK, OwnersOK, RemovedOK, OwnDisconnectLeavesNoPull,
           [Next]_registryVars
    PROVE  OwnDisconnectLeavesNoPull'
<1> USE NamesAssumption DEF OwnDisconnectLeavesNoPull, TypeOK
<1>1. ASSUME NEW c \in Conns, NEW f \in Fds, Connect(c, f)
      PROVE  OwnDisconnectLeavesNoPull'
  BY <1>1 DEF Connect, Registered
<1>2. ASSUME NEW c \in Conns, NEW s \in Sessions, CreateSession(c, s)
      PROVE  OwnDisconnectLeavesNoPull'
  <2>1. Registered' = Registered \cup {s}
    BY <1>2, AppendIsInjective DEF CreateSession, Insert, OwnersOK
  <2>2. QED
    BY <1>2, <2>1 DEF CreateSession
<1>3. ASSUME NEW c \in Conns, Serve(c) PROVE OwnDisconnectLeavesNoPull'
  <2>1. UNCHANGED <<sessions, owner, remover>> /\ UNCHANGED Registered /\ step[c] # "ended"
    BY <1>3 DEF Serve, StartFind, SetFd, StartTouch, StartStop, StartPull, Ping, Pong,
            Registered
  <2>2. \A s \in Sessions : \/ pull'[s] = pull[s] \/ pull'[s] = "none" \/ owner[s] = c
    BY <1>3 DEF Serve, StartFind, SetFd, StartTouch, StartStop, StartPull, Ping, Pong,
            StopAudioPull, Goto, Finish, PointersOK
  <2>3. \A s \in Sessions : owner[s] = c => remover[s] # c
    BY <2>1 DEF RemovedOK
  <2>4. QED
    BY <2>1, <2>2, <2>3
<1>4. ASSUME NEW c \in Conns, Close(c) \/ DisconnectFind(c) \/ DisconnectNone(c)
                                \/ DisconnectStop(c)
      PROVE  OwnDisconnectLeavesNoPull'
  <2>1. UNCHANGED <<sessions, owner, remover>> /\ UNCHANGED Registered
    BY <1>4 DEF Close, DisconnectFind, DisconnectNone, DisconnectStop, Registered
  <2>2. \A s \in Sessions : pull'[s] = pull[s] \/ pull'[s] = "none"
    BY <1>4 DEF Close, DisconnectFind, DisconnectNone, DisconnectStop, StopAudioPull
  <2>3. QED
    BY <2>1, <2>2
<1>5. ASSUME NEW c \in Conns, DisconnectRemove(c) PROVE OwnDisconnectLeavesNoPull'
  <2>1. /\ Registered' = Registered \ {target[c]} /\ UNCHANGED <<owner, pull>>
        /\ remover' = IF target[c] \in Registered
                      THEN [remover EXCEPT ![target[c]] = c] ELSE remover
    BY <1>5, RemoveSessionKeeps DEF DisconnectRemove, RemoveSession
  <2>2. owner[target[c]] = c => pull[target[c]] = "none"
    BY <1>5 DEF DisconnectRemove, RemovedOK
  <2>3. QED
    BY <2>1, <2>2
<1>6. CASE CleanupRemove
  <2>1. /\ Registered' = Registered \ {Head(todo)} /\ UNCHANGED <<owner, pull>>
        /\ remover' = IF Head(todo) \in Registered
                      THEN [remover EXCEPT ![Head(todo)] = Cleanup] ELSE remover
    BY <1>6, RemoveSessionKeeps DEF CleanupRemove, RemoveSession
  <2>2. \A s \in Sessions : owner[s] # Cleanup
    OBVIOUS
  <2>3. QED
    BY <2>1, <2>2
<1>7. CASE CleanupStop
  BY <1>7 DEF CleanupStop, StopAudioPull, Registered
<1>8. ASSUME NEW s \in Sessions, AudioArrives(s) \/ CallbackReturns(s)
      PROVE  OwnDisconnectLeavesNoPull'
  BY <1>8 DEF AudioArrives, CallbackReturns, AudioDropped, AudioTaken, Registered
<1>9. CASE UNCHANGED registry
  BY <1>9 DEF registry, Registered
<1>10. QED
  BY StepCases, <1>1, <1>2, <1>3, <1>4, <1>5, <1>6, <1>7, <1>8, <1>9

\* The socket of a connection stays open while its handlers run.
LEMMA OpenIsKept ==
    ASSUME TypeOK, NEW c \in Conns, Serve(c) \/ \E s \in Sessions : CreateSession(c, s)
    PROVE  UNCHANGED <<Open, fd>> /\ c \in Open
BY DEF Serve, CreateSession, StartFind, SetFd, StartTouch, StartStop, StartPull, Ping, Pong,
       Goto, Finish, Open, HandlerStep, TypeOK

\* A connection that is closed or further on is not open, and stays so.
LEMMA ClosedStaysClosed ==
    ASSUME TypeOK, NEW c \in Conns,
           \/ DisconnectFind(c) \/ DisconnectNone(c) \/ DisconnectStop(c)
           \/ DisconnectRemove(c)
    PROVE  UNCHANGED <<Open, fd>> /\ c \notin Open
BY DEF DisconnectFind, DisconnectNone, DisconnectStop, DisconnectRemove,
       Goto, Finish, Open, HandlerStep, TypeOK

LEMMA FdsStep ==
    ASSUME TypeOK, PointersOK, OwnersOK, FdsOK, [Next]_registryVars
    PROVE  FdsOK'
<1> USE NamesAssumption DEF FdsOK, TypeOK
<1>1. ASSUME NEW c \in Conns, NEW f \in Fds, Connect(c, f) PROVE FdsOK'
  <2>1. Open' = Open \cup {c} /\ c \notin Open /\ fd' = [fd EXCEPT ![c] = f]
    BY <1>1 DEF Connect, Open, HandlerStep
  <2>2. \A d \in Open : d \in Conns
    BY DEF Open
  <2>3. \A x, y \in Open' : fd'[x] = fd'[y] => x = y
    BY <1>1, <2>1, <2>2 DEF Connect
  <2>4. \A s \in Sessions : owner[s] # c
    BY <1>1 DEF Connect, OwnersOK
  <2>5. QED
    BY <1>1, <2>1, <2>3, <2>4 DEF Connect
<1>2. ASSUME NEW c \in Conns, NEW s \in Sessions, CreateSession(c, s) PROVE FdsOK'
  <2>1. UNCHANGED <<Open, fd>>
    BY <1>2, OpenIsKept
  <2>2. QED
    BY <1>2, <2>1 DEF CreateSession, Goto, OwnersOK
<1>3. ASSUME NEW c \in Conns, Serve(c) PROVE FdsOK'
  <2>1. UNCHANGED <<Open, fd, owner>>
    BY <1>3, OpenIsKept DEF Serve, StartFind, SetFd, StartTouch, StartStop, StartPull, Ping, Pong
  <2>2. \A d \in Conns : step'[d] # "unborn" => step[d] # "unborn"
    BY <1>3 DEF Serve, StartFind, SetFd, StartTouch, StartStop, StartPull, Ping, Pong,
            Goto, Finish
  <2>3. CASE SetFd(c)
    BY <2>1, <2>2, <2>3 DEF SetFd, Goto, Finish, PointersOK
  <2>4. CASE ~SetFd(c)
    <3>1. UNCHANGED ws_fd /\ step[c] # "req_fd"
      BY <1>3, <2>4 DEF Serve, StartFind, StartTouch, StartStop, StartPull, Ping, Pong
    <3>2. \A d \in Conns \ {c} : step'[d] = step[d] /\ target'[d] = target[d]
      BY <1>3 DEF Serve, StartFind, SetFd, StartTouch, StartStop, StartPull, Ping, Pong,
              Goto, Finish
    <3>3. QED
      BY <2>1, <2>2, <3>1, <3>2
  <2>5. QED
    BY <2>3, <2>4
<1>4. ASSUME NEW c \in Conns,
             \/ Close(c) \/ DisconnectFind(c) \/ DisconnectNone(c)
             \/ DisconnectStop(c) \/ DisconnectRemove(c)
      PROVE  FdsOK'
  <2>1. /\ UNCHANGED <<fd, owner, ws_fd>> /\ step[c] \notin {"req_fd", "unborn"}
        /\ \A d \in Conns \ {c} : step'[d] = step[d] /\ target'[d] = target[d]
    BY <1>4 DEF Close, DisconnectFind, DisconnectNone, DisconnectStop, DisconnectRemove,
            Goto, Finish
  <2>2. Open' \subseteq Open
    BY <1>4 DEF Close, DisconnectFind, DisconnectNone, DisconnectStop, DisconnectRemove,
            Goto, Finish, Open, HandlerStep
  <2>3. QED
    BY <2>1, <2>2
<1>5. ASSUME NEW s \in Sessions, AudioArrives(s) \/ CallbackReturns(s)
      PROVE  UNCHANGED <<readers, owner, ws_fd>>
  BY <1>5 DEF AudioArrives, CallbackReturns, AudioDropped, AudioTaken
<1>6. CleanupStop \/ CleanupRemove \/ UNCHANGED registry => UNCHANGED <<readers, owner, ws_fd>>
  BY DEF CleanupStop, CleanupRemove, registry
<1>7. CASE UNCHANGED <<readers, owner, ws_fd>>
  BY <1>7 DEF readers, Open
<1>8. QED
  BY StepCases, <1>1, <1>2, <1>3, <1>4, <1>5, <1>6, <1>7

LEMMA OrderStep ==
    ASSUME TypeOK, OwnersOK, FdsOK, OrderOK, [Next]_registryVars
    PROVE  OrderOK'
<1> USE NamesAssumption DEF OrderOK
<1>0. \A i \in DOMAIN sessions : /\ sessions[i] \in Sessions /\ owner[sessions[i]] \in Conns
                                  /\ step[owner[sessions[i]]] # "unborn"
  BY RegisteredAreSessions DEF OwnersOK, Registered, TypeOK
<1>1. ASSUME NEW c \in Conns, NEW f \in Fds, Connect(c, f) PROVE OrderOK'
  <2>1. /\ UNCHANGED <<sessions, owner>> /\ step[c] = "unborn"
        /\ \A d \in Conns \ {c} : fd'[d] = fd[d] /\ (d \in Open <=> d \in Open')
    BY <1>1 DEF Connect, Open, TypeOK
  <2>2. QED
    BY <1>0, <2>1
<1>2. ASSUME NEW c \in Conns, NEW s \in Sessions, CreateSession(c, s) PROVE OrderOK'
  <2>1. UNCHANGED <<Open, fd>> /\ c \in Open
    BY <1>2, OpenIsKept
  <2>2. s \notin Registered /\ owner' = [owner EXCEPT ![s] = c] /\ sessions' = Append(sessions, s)
    BY <1>2 DEF CreateSession, Insert, OwnersOK
  <2>3. \A i \in DOMAIN sessions : sessions[i] # s
    BY <2>2 DEF Registered
  <2>4. /\ DOMAIN sessions' = DOMAIN sessions \cup {Len(sessions) + 1}
        /\ sessions'[Len(sessions) + 1] = s
        /\ \A i \in DOMAIN sessions : sessions'[i] = sessions[i]
        /\ DOMAIN sessions = 1 .. Len(sessions) /\ Len(sessions) \in Nat
    BY <2>2, AppendIsInjective, LenProperties DEF TypeOK
  <2>5. \A i \in DOMAIN sessions : owner'[sessions'[i]] = owner[sessions[i]]
    BY <1>0, <2>2, <2>3, <2>4 DEF TypeOK
  <2>6. owner'[sessions'[Len(sessions) + 1]] = c
    BY <2>2, <2>4 DEF TypeOK
  <2> SUFFICES ASSUME NEW i \in DOMAIN sessions', NEW j \in DOMAIN sessions', i < j,
                      owner'[sessions'[i]] \in Open, owner'[sessions'[j]] \notin Open
               PROVE  fd[owner'[sessions'[i]]] # fd[owner'[sessions'[j]]]
    BY <2>1
  <2>7. j \in DOMAIN sessions /\ i \in DOMAIN sessions
    BY <2>1, <2>4, <2>6
  <2>8. QED
    BY <2>5, <2>7
<1>3. ASSUME NEW c \in Conns, Serve(c) PROVE OrderOK'
  <2>1. UNCHANGED <<sessions, owner>>
    BY <1>3 DEF Serve, StartFind, SetFd, StartTouch, StartStop, StartPull, Ping, Pong
  <2>2. QED
    BY <1>3, <2>1, OpenIsKept
<1>4. ASSUME NEW c \in Conns, Close(c) PROVE OrderOK'
  <2>1. UNCHANGED <<sessions, owner, fd>> /\ Open' = Open \ {c}
    BY <1>4 DEF Close, Goto, Open, HandlerStep, TypeOK
  <2>2. \A i, j \in DOMAIN sessions :
            owner[sessions[i]] \in Open /\ owner[sessions[j]] \in Open
            /\ fd[owner[sessions[i]]] = fd[owner[sessions[j]]]
            => owner[sessions[i]] = owner[sessions[j]]
    BY DEF FdsOK
  <2>3. QED
    BY <2>1, <2>2
<1>5. ASSUME NEW s, NEW who, RemoveSession(s, who), UNCHANGED <<owner, fd, Open>>
      PROVE  OrderOK'
  <2>1. \A i, j \in DOMAIN sessions' : i < j =>
            \E k, l \in DOMAIN sessions :
                k < l /\ sessions'[i] = sessions[k] /\ sessions'[j] = sessions[l]
    BY <1>5, RemoveSessionKeeps DEF TypeOK
  <2>2. QED
    BY <1>5, <2>1
<1>6. ASSUME NEW c \in Conns, DisconnectFind(c) \/ DisconnectNone(c) \/ DisconnectStop(c)
      PROVE  OrderOK'
  <2>1. UNCHANGED <<sessions, owner>>
    BY <1>6 DEF DisconnectFind, DisconnectNone, DisconnectStop
  <2>2. UNCHANGED <<Open, fd>>
    BY <1>6, ClosedStaysClosed
  <2>3. QED
    BY <2>1, <2>2
<1>7. ASSUME NEW c \in Conns, DisconnectRemove(c) PROVE OrderOK'
  BY <1>5, <1>7, ClosedStaysClosed DEF DisconnectRemove
<1>8. CASE CleanupRemove
  BY <1>5, <1>8 DEF CleanupRemove, readers, Open
<1>9. ASSUME NEW s \in Sessions, AudioArrives(s) \/ CallbackReturns(s)
      PROVE  UNCHANGED <<sessions, readers, owner>>
  BY <1>9 DEF AudioArrives, CallbackReturns, AudioDropped, AudioTaken
<1>10. CleanupStop \/ UNCHANGED registry => UNCHANGED <<sessions, readers, owner>>
  BY DEF CleanupStop, registry
<1>11. CASE UNCHANGED <<sessions, readers, owner>>
  BY <1>11 DEF readers, Open
<1>12. QED
  BY StepCases, <1>1, <1>2, <1>3, <1>4, <1>6, <1>7, <1>8, <1>9, <1>10, <1>11

\* What the lookup by descriptor finds.
LEMMA FindSparesOpen ==
    ASSUME TypeOK, OwnersOK, FdsOK, OrderOK, NEW c \in Conns, step[c] = "closed",
           NEW s \in Registered, IsFirstWithFd(s, fd[c]), owner[s] \in Open,
           NEW r \in Registered, owner[r] = c
    PROVE  FALSE
<1> USE NamesAssumption
<1>1. s \in Sessions /\ r \in Sessions /\ c \notin Open
  BY RegisteredAreSessions DEF TypeOK, Open, HandlerStep
<1>2. fd[c] \in Fds /\ fd[c] # None
  BY DEF FdsOK
<1>3. ws_fd[r] = fd[c]
  BY <1>1 DEF FdsOK
<1>4. PICK i \in DOMAIN sessions : /\ sessions[i] = s /\ ws_fd[s] = fd[c]
                                   /\ \A j \in 1 .. i - 1 : ws_fd[sessions[j]] # fd[c]
  BY DEF IsFirstWithFd
<1>5. fd[owner[s]] = fd[c]
  BY <1>1, <1>2, <1>4 DEF FdsOK, Open
<1>6. PICK j \in DOMAIN sessions : sessions[j] = r
  BY DEF Registered
<1>7. i \in 1 .. Len(sessions) /\ j \in 1 .. Len(sessions) /\ Len(sessions) \in Nat
  BY LenProperties DEF TypeOK
<1>8. i < j
  <2>1. j \notin 1 .. i - 1
    BY <1>3, <1>4, <1>6
  <2>2. i # j
    BY <1>1, <1>4, <1>6
  <2>3. QED
    BY <1>7, <2>1, <2>2
<1>9. QED
  BY <1>1, <1>4, <1>5, <1>6, <1>8 DEF OrderOK

LEMMA SparesStep ==
    ASSUME TypeOK, PointersOK, OwnersOK, FdsOK, OrderOK, DisconnectSparesOpen,
           [Next]_registryVars
    PROVE  DisconnectSparesOpen'
<1> USE NamesAssumption DEF DisconnectSparesOpen
<1>1. ASSUME NEW c \in Conns, NEW f \in Fds, Connect(c, f) PROVE DisconnectSparesOpen'
  <2>1. /\ UNCHANGED <<owner, target>> /\ UNCHANGED Registered /\ step[c] = "unborn"
        /\ \A d \in Conns \ {c} : step'[d] = step[d] /\ (d \in Open <=> d \in Open')
        /\ step'[c] = "idle"
    BY <1>1 DEF Connect, Open, Registered, TypeOK
  <2>2. \A d \in Conns : step[d] = "disc_stop" => owner[target[d]] # c
    BY <2>1 DEF PointersOK, OwnersOK
  <2>3. QED
    BY <2>1, <2>2 DEF Open
<1>2. ASSUME NEW c \in Conns, NEW s \in Sessions, CreateSession(c, s)
      PROVE  DisconnectSparesOpen'
  <2>1. UNCHANGED Open
    BY <1>2, OpenIsKept
  <2>2. /\ owner[s] = None /\ owner' = [owner EXCEPT ![s] = c] /\ step'[c] = "req_fd"
        /\ \A d \in Conns \ {c} : step'[d] = step[d] /\ target'[d] = target[d]
        /\ Registered' = Registered \cup {s}
    BY <1>2, AppendIsInjective DEF CreateSession, Insert, Goto, OwnersOK, TypeOK
  <2>3. \A r \in Sessions : r # s => owner'[r] = owner[r]
    BY <2>2 DEF TypeOK
  <2>4. \A d \in Conns : step[d] = "disc_stop" => target[d] \in Sessions /\ target[d] # s
    BY <2>2 DEF PointersOK
  <2>5. owner'[s] = c /\ Registered \subseteq Sessions
    BY <2>2, RegisteredAreSessions DEF TypeOK
  <2>6. QED
    BY <2>1, <2>2, <2>3, <2>4, <2>5
<1>3. ASSUME NEW c \in Conns, Serve(c) \/ Close(c) PROVE DisconnectSparesOpen'
  <2>1. /\ UNCHANGED <<sessions, owner>> /\ UNCHANGED Registered /\ Open' \subseteq Open
    <3>1. CASE Serve(c)
      BY <3>1, OpenIsKept DEF Serve, StartFind, SetFd, StartTouch, StartStop, StartPull,
              Ping, Pong, Registered
    <3>2. CASE Close(c)
      BY <3>2 DEF Close, Goto, Open, HandlerStep, Registered, TypeOK
    <3>3. QED
      BY <1>3, <3>1, <3>2
  <2>2. /\ \A d \in Conns \ {c} : step'[d] = step[d] /\ target'[d] = target[d]
        /\ step'[c] # "disc_stop"
    BY <1>3 DEF Serve, StartFind, SetFd, StartTouch, StartStop, StartPull, Ping, Pong,
            Close, Goto, Finish, TypeOK
  <2>3. QED
    BY <2>1, <2>2
<1>4. ASSUME NEW c \in Conns, DisconnectFind(c) PROVE DisconnectSparesOpen'
  <2>1. PICK s \in Registered : /\ IsFirstWithFd(s, fd[c])
                                /\ target' = [target EXCEPT ![c] = s]
                                /\ step' = [step EXCEPT ![c] = "disc_stop"]
    BY <1>4 DEF DisconnectFind, Goto
  <2>2. /\ UNCHANGED owner /\ UNCHANGED Registered /\ UNCHANGED Open /\ step[c] = "closed"
        /\ \A d \in Conns \ {c} : step'[d] = step[d] /\ target'[d] = target[d]
        /\ target'[c] = s
    <3>1. UNCHANGED <<sessions, owner>> /\ step[c] = "closed"
      BY <1>4 DEF DisconnectFind
    <3>2. UNCHANGED Open
      BY <1>4, ClosedStaysClosed
    <3>3. QED
      BY <2>1, <3>1, <3>2 DEF Registered, TypeOK
  <2>3. owner[s] \in Open => \A r \in Registered : owner[r] # c
    BY <2>1, <2>2, FindSparesOpen
  <2>4. QED
    BY <2>2, <2>3
<1>5. ASSUME NEW c \in Conns, DisconnectNone(c) \/ DisconnectStop(c) \/ DisconnectRemove(c)
      PROVE  DisconnectSparesOpen'
  <2>1. /\ UNCHANGED owner /\ UNCHANGED Open /\ step'[c] # "disc_stop"
        /\ \A d \in Conns \ {c} : step'[d] = step[d] /\ target'[d] = target[d]
    BY <1>5, ClosedStaysClosed DEF DisconnectNone, DisconnectStop, DisconnectRemove,
            Goto, Finish, TypeOK
  <2>2. Registered' \subseteq Registered
    <3>1. CASE DisconnectRemove(c)
      BY <3>1, RemoveSessionKeeps DEF DisconnectRemove, TypeOK
    <3>2. CASE DisconnectNone(c) \/ DisconnectStop(c)
      BY <3>2 DEF DisconnectNone, DisconnectStop, Registered
    <3>3. QED
      BY <1>5, <3>1, <3>2
  <2>3. QED
    BY <2>1, <2>2
<1>6. CASE CleanupRemove
  BY <1>6, RemoveSessionKeeps DEF CleanupRemove, readers, Open, TypeOK
<1>7. ASSUME NEW s \in Sessions, AudioArrives(s) \/ CallbackReturns(s)
      PROVE  UNCHANGED <<sessions, readers, owner>>
  BY <1>7 DEF AudioArrives, CallbackReturns, AudioDropped, AudioTaken
<1>8. CleanupStop \/ UNCHANGED registry => UNCHANGED <<sessions, readers, owner>>
  BY DEF CleanupStop, registry
<1>9. CASE UNCHANGED <<sessions, readers, owner>>
  BY <1>9 DEF readers, Open, Registered
<1>10. QED
  BY StepCases, <1>1, <1>2, <1>3, <1>4, <1>5, <1>6, <1>7, <1>8, <1>9

-----------------------------------------------------------------------------
LEMMA RegistryInvInit == Init => RegistryInv
<1> SUFFICES ASSUME Init PROVE RegistryInv
  OBVIOUS
<1> USE DEF Init
<1>1. Registered = {} /\ Open = {}
  BY DEF Registered, Open, HandlerStep
<1>2. TypeOK
  BY LimitsAssumption DEF TypeOK, IsInjective
<1>3. PointersOK /\ PurgeOK /\ OwnersOK /\ FdsOK
  BY <1>1 DEF PointersOK, PurgeOK, OwnersOK, FdsOK
<1>4. RemovedOK
  BY NamesAssumption DEF RemovedOK
<1>5. OrderOK /\ OwnDisconnectLeavesNoPull /\ DisconnectSparesOpen
  BY <1>1 DEF OrderOK, OwnDisconnectLeavesNoPull, DisconnectSparesOpen
<1>6. QED
  BY <1>2, <1>3, <1>4, <1>5 DEF RegistryInv

LEMMA RegistryInvStep == RegistryInv /\ [Next]_registryVars => RegistryInv'
  BY TypeStep, PointersStep, PurgeStep, OwnersStep, RemovedStep, NoPullStep, FdsStep,
     OrderStep, SparesStep DEF RegistryInv

LEMMA RegistryInvHolds == Spec => []RegistryInv
  BY RegistryInvInit, RegistryInvStep, PTL DEF Spec

\* The variables stay in range; the registry never holds a session twice, nor
\* more of them than it may.
THEOREM RegistryTypes == Spec => []TypeOK
  BY RegistryInvHolds, PTL DEF RegistryInv

\* A session that was removed still has a pull only if it was not its own
\* connection's disconnect handler that removed it.
THEOREM DisconnectLeavesNoPull == Spec => []OwnDisconnectLeavesNoPull
  BY RegistryInvHolds, PTL DEF RegistryInv

\* A disconnect whose descriptor has been handed out again ends the session of
\* the new connection only when its own is gone.
THEOREM DisconnectFindsOwnFirst == Spec => []DisconnectSparesOpen
  BY RegistryInvHolds, PTL DEF RegistryInv

-----------------------------------------------------------------------------
(***************************************************************************)
(* The pulls of this module are those of AudioPulls                        *)
(***************************************************************************)
Askers == Conns \cup {Cleanup}

\* A read thread about to start a pull has stopped the one there was, and nobody
\* else starts one for its session.
StartsOK == \A c \in Conns : step[c] = "start_pull" => pull[target[c]] = "none"

LEMMA StartsStep ==
    ASSUME TypeOK, PointersOK, StartsOK, [Next]_registryVars
    PROVE  StartsOK'
<1>1. ASSUME NEW c \in Conns, (\E f \in Fds : Connect(c, f)) \/ (\E s \in Sessions : CreateSession(c, s))
      PROVE  StartsOK'
  BY <1>1 DEF Connect, CreateSession, Goto, TypeOK, StartsOK
<1>2. ASSUME NEW c \in Conns, Serve(c) \/ Close(c) PROVE StartsOK'
  <2>1. CASE StartStop(c)
    <3>1. target[c] \in Sessions /\ pull' = [pull EXCEPT ![target[c]] = "none"]
      BY <2>1 DEF StartStop, StopAudioPull, PointersOK
    <3>2. QED
      BY <2>1, <3>1 DEF StartStop, Goto, TypeOK, StartsOK
  <2>2. CASE StartPull(c)
    <3>1. /\ step[c] = "start_pull" /\ pull' = [pull EXCEPT ![target[c]] = "reading"]
          /\ step'[c] = "idle"
          /\ \A d \in Conns \ {c} : step'[d] = step[d] /\ target'[d] = target[d]
      BY <2>2 DEF StartPull, Finish, Goto, TypeOK
    <3>2. \A d \in Conns \ {c} : step[d] = "start_pull" =>
            target[d] \in Sessions /\ target[d] # target[c]
      BY <3>1 DEF PointersOK
    <3>3. QED
      BY <3>1, <3>2 DEF TypeOK, StartsOK
  <2>3. CASE \/ \E s \in Sessions : StartFind(c, s)
             \/ SetFd(c) \/ StartTouch(c) \/ Ping(c) \/ Pong(c) \/ Close(c)
    BY <2>3 DEF StartFind, SetFd, StartTouch, Ping, Pong, Close, Goto, Finish, TypeOK, StartsOK
  <2>4. QED
    BY <1>2, <2>1, <2>2, <2>3 DEF Serve
<1>3. ASSUME NEW c \in Conns,
             DisconnectFind(c) \/ DisconnectNone(c) \/ DisconnectStop(c) \/ DisconnectRemove(c)
      PROVE  StartsOK'
  BY <1>3 DEF DisconnectFind, DisconnectNone, DisconnectStop, DisconnectRemove,
          StopAudioPull, Goto, Finish, TypeOK, PointersOK, StartsOK
<1>4. CASE CleanupStop
  BY <1>4 DEF CleanupStop, StopAudioPull, readers, TypeOK, PointersOK, StartsOK
<1>5. CASE CleanupRemove \/ UNCHANGED registry
  BY <1>5 DEF CleanupRemove, readers, registry, StartsOK
<1>6. ASSUME NEW s \in Sessions, AudioArrives(s) \/ CallbackReturns(s) PROVE StartsOK'
  BY <1>6 DEF AudioArrives, CallbackReturns, AudioDropped, AudioTaken, readers, TypeOK,
          PointersOK, StartsOK
<1>7. QED
  BY StepCases, <1>1, <1>2, <1>3, <1>4, <1>5, <1>6

\* What a caller asks for, as a step of AudioPulls.
OtherAskers(c) ==
    \A d \in Askers \ {c} : StageOf(d)' = StageOf(d) /\ SessionOf(d)' = SessionOf(d)

LEMMA AskerMoves ==
    ASSUME NEW c \in Askers, OtherAskers(c)
    PROVE  /\ [d \in Askers |-> StageOf(d)'] =
                [[d \in Askers |-> StageOf(d)] EXCEPT ![c] = StageOf(c)']
           /\ [d \in Askers |-> SessionOf(d)'] =
                [[d \in Askers |-> SessionOf(d)] EXCEPT ![c] = SessionOf(c)']
BY DEF OtherAskers

LEMMA NobodyAsks ==
    ASSUME NEW c \in Askers, OtherAskers(c), UNCHANGED pull,
           StageOf(c)' = StageOf(c), SessionOf(c)' = SessionOf(c)
    PROVE  UNCHANGED Pulls!pullsVars
BY DEF OtherAskers, Askers, Pulls!pullsVars, Pulls!asking

LEMMA StopIsAsked ==
    ASSUME NEW c \in Askers, OtherAskers(c), UNCHANGED pull, NEW s \in Sessions,
           StageOf(c) = "idle", StageOf(c)' = "stopping", SessionOf(c)' = s
    PROVE  Pulls!Next
<1>1. Pulls!Ask(c, s)
  BY AskerMoves DEF Askers, Pulls!Ask
<1>2. QED
  BY <1>1 DEF Pulls!Next, Askers

LEMMA StopReturnsTo ==
    ASSUME NEW c \in Askers, OtherAskers(c), NEW s \in Sessions, StopAudioPull(s),
           StageOf(c) = "stopping", SessionOf(c) = s,
           \/ StageOf(c)' = "idle" /\ SessionOf(c)' = None
           \/ StageOf(c)' = "starting" /\ SessionOf(c)' = s
    PROVE  Pulls!Next
<1>1. Pulls!StopReturns(c)
  BY AskerMoves DEF Askers, Pulls!StopReturns, StopAudioPull
<1>2. QED
  BY <1>1 DEF Pulls!Next, Askers

LEMMA StartReturnsTo ==
    ASSUME NEW c \in Askers, OtherAskers(c), NEW s \in Sessions, pull[s] = "none",
           pull' = [pull EXCEPT ![s] = "reading"],
           StageOf(c) = "starting", SessionOf(c) = s,
           StageOf(c)' = "idle", SessionOf(c)' = None
    PROVE  Pulls!Next
<1>1. Pulls!StartReturns(c)
  BY AskerMoves DEF Askers, Pulls!StartReturns
<1>2. QED
  BY <1>1 DEF Pulls!Next, Askers

\* The read threads do not move the purge, nor the purge the read threads.
LEMMA ReaderAsks ==
    ASSUME TypeOK, NEW c \in Conns, UNCHANGED purging, NEW next,
           step' = [step EXCEPT ![c] = next],
           \A d \in Conns \ {c} : target'[d] = target[d]
    PROVE  OtherAskers(c) /\ c \in Askers /\ c # Cleanup /\ step'[c] = next
BY NamesAssumption DEF TypeOK, OtherAskers, Askers, StageOf, SessionOf, purging

LEMMA PurgeAsks ==
    ASSUME UNCHANGED readers
    PROVE  OtherAskers(Cleanup) /\ Cleanup \in Askers
BY DEF OtherAskers, Askers, StageOf, SessionOf, readers

LEMMA StepIsPullStep ==
    ASSUME TypeOK, PointersOK, PurgeOK, StartsOK, [Next]_registryVars
    PROVE  [Pulls!Next]_(Pulls!pullsVars)
<1> USE DEF StageOf, SessionOf
<1>1. ASSUME NEW c \in Conns, \/ \E f \in Fds : Connect(c, f)
                              \/ \E s \in Sessions : CreateSession(c, s) \/ StartFind(c, s)
                              \/ SetFd(c) \/ Ping(c) \/ Pong(c) \/ Close(c)
                              \/ DisconnectNone(c) \/ DisconnectRemove(c)
      PROVE  UNCHANGED Pulls!pullsVars
  <2>1. PICK next \in {"idle", "req_fd", "start_touch", "ping", "closed", "ended"} :
          step' = [step EXCEPT ![c] = next]
    BY <1>1 DEF Connect, CreateSession, StartFind, SetFd, Ping, Pong, Close, DisconnectNone,
            DisconnectRemove, Goto, Finish
  <2>2. /\ UNCHANGED <<pull, purging>>
        /\ \A d \in Conns \ {c} : target'[d] = target[d]
        /\ step[c] \notin {"start_stop", "disc_stop", "start_pull"}
    BY <1>1 DEF Connect, CreateSession, StartFind, SetFd, Ping, Pong, Close, DisconnectNone,
            DisconnectRemove, Goto, Finish, TypeOK
  <2>3. OtherAskers(c) /\ c \in Askers /\ c # Cleanup /\ step'[c] = next
    BY <2>1, <2>2, ReaderAsks
  <2>4. QED
    BY <2>1, <2>2, <2>3, NobodyAsks
<1>2. ASSUME NEW c \in Conns, StartTouch(c) PROVE Pulls!Next
  <2>1. /\ step' = [step EXCEPT ![c] = "start_stop"] /\ UNCHANGED <<target, pull, purging>>
        /\ step[c] = "start_touch" /\ target[c] \in Sessions
    BY <1>2 DEF StartTouch, Goto, PointersOK
  <2>2. OtherAskers(c) /\ c \in Askers /\ c # Cleanup /\ step'[c] = "start_stop"
    BY <2>1, ReaderAsks
  <2>3. QED
    BY <2>1, <2>2, StopIsAsked
<1>3. ASSUME NEW c \in Conns, DisconnectFind(c) PROVE Pulls!Next
  <2>1. PICK s \in Sessions : target' = [target EXCEPT ![c] = s]
    BY <1>3, RegisteredAreSessions DEF DisconnectFind, TypeOK
  <2>2. /\ step' = [step EXCEPT ![c] = "disc_stop"] /\ UNCHANGED <<pull, purging>>
        /\ step[c] = "closed"
    BY <1>3 DEF DisconnectFind, Goto
  <2>3. target'[c] = s /\ \A d \in Conns \ {c} : target'[d] = target[d]
    BY <2>1 DEF TypeOK
  <2>4. OtherAskers(c) /\ c \in Askers /\ c # Cleanup /\ step'[c] = "disc_stop"
    BY <2>2, <2>3, ReaderAsks
  <2>5. QED
    BY <2>2, <2>3, <2>4, StopIsAsked
<1>4. ASSUME NEW c \in Conns, StartStop(c) \/ DisconnectStop(c) PROVE Pulls!Next
  <2>1. PICK next \in {"start_pull", "disc_remove"} :
          /\ step' = [step EXCEPT ![c] = next] /\ UNCHANGED <<target, purging>>
          /\ StopAudioPull(target[c])
          /\ step[c] \in {"start_stop", "disc_stop"} /\ target[c] \in Sessions
    BY <1>4 DEF StartStop, DisconnectStop, Goto, PointersOK
  <2>2. OtherAskers(c) /\ c \in Askers /\ c # Cleanup /\ step'[c] = next
    BY <2>1, ReaderAsks
  <2>3. QED
    BY <2>1, <2>2, StopReturnsTo
<1>5. ASSUME NEW c \in Conns, StartPull(c) PROVE Pulls!Next
  <2>1. /\ step' = [step EXCEPT ![c] = "idle"] /\ UNCHANGED purging
        /\ \A d \in Conns \ {c} : target'[d] = target[d]
        /\ step[c] = "start_pull" /\ target[c] \in Sessions /\ pull[target[c]] = "none"
        /\ pull' = [pull EXCEPT ![target[c]] = "reading"]
    BY <1>5 DEF StartPull, Goto, Finish, PointersOK, StartsOK, TypeOK
  <2>2. OtherAskers(c) /\ c \in Askers /\ c # Cleanup /\ step'[c] = "idle"
    BY <2>1, ReaderAsks
  <2>3. QED
    BY <2>1, <2>2, StartReturnsTo
<1>6. CASE Collect
  <2>1. todo' \in Seq(Sessions) /\ todo' # <<>>
    BY <1>6, ExpiredAreSessions DEF Collect, TypeOK
  <2>2. Head(todo)' \in Sessions
    BY <2>1, HeadTailProperties
  <2>3. QED
    BY <1>6, <2>2, PurgeAsks, StopIsAsked DEF Collect
<1>7. CASE CleanupStop
  <2>1. Head(todo) \in Sessions
    BY <1>7, HeadTailProperties DEF CleanupStop, PurgeOK, TypeOK
  <2>2. QED
    BY <1>7, <2>1, PurgeAsks, StopReturnsTo DEF CleanupStop
<1>8. CASE CleanupRemove
  <2>1. CASE todo' = <<>>
    BY <1>8, <2>1, PurgeAsks, NobodyAsks DEF CleanupRemove
  <2>2. CASE todo' # <<>>
    <3>1. todo' \in Seq(Sessions) /\ cleanup' = "stop"
      BY <1>8, <2>2, HeadTailProperties DEF CleanupRemove, PurgeOK, TypeOK
    <3>2. Head(todo)' \in Sessions
      BY <2>2, <3>1, HeadTailProperties
    <3>3. QED
      BY <1>8, <3>1, <3>2, PurgeAsks, StopIsAsked DEF CleanupRemove
  <2>3. QED
    BY <2>1, <2>2
<1>9. ASSUME NEW s \in Sessions, AudioArrives(s) \/ CallbackReturns(s) PROVE Pulls!Next
  <2>1. /\ UNCHANGED Pulls!asking
        /\ \/ pull[s] = "reading" /\ pull' = [pull EXCEPT ![s] = "callback"]
           \/ pull[s] = "callback" /\ pull' = [pull EXCEPT ![s] = "reading"]
    BY <1>9 DEF AudioArrives, CallbackReturns, AudioDropped, AudioTaken, readers, purging,
            Pulls!asking
  <2>2. QED
    BY <2>1 DEF Pulls!Next, Pulls!AudioComes, Pulls!CallbackReturns, Pulls!PullGoes
<1>10. CASE \/ \E c \in Conns, s \in Sessions : Report(c, s)
            \/ \E s \in Sessions : WorkerFind(s) \/ WorkerEnds(s) \/ Expire(s)
            \/ UNCHANGED registryVars
  <2>1. UNCHANGED <<pull, readers, purging>>
    BY <1>10 DEF Report, WorkerFind, WorkerEnds, Expire, registryVars
  <2>2. QED
    BY <2>1 DEF readers, purging, Pulls!pullsVars, Pulls!asking
<1>11. QED
  BY <1>1, <1>2, <1>3, <1>4, <1>5, <1>6, <1>7, <1>8, <1>9, <1>10
     DEF Next, MessageArrives, HandlerGoesOn, DisconnectGoesOn, CleanupGoesOn

\* The session logic uses the pulls as RtspManager provides them: it asks for one
\* thing at a time, a start follows a stop, and it finds nothing running although
\* the purge and other disconnects stop pulls too.
THEOREM RegistryUsesAudioPulls == Spec => UsesAudioPulls
<1>1. Init => Pulls!Init /\ StartsOK
  BY NamesAssumption DEF Init, Pulls!Init, StageOf, SessionOf, StartsOK
<1>2. RegistryInv /\ StartsOK /\ [Next]_registryVars
        => StartsOK' /\ [Pulls!Next]_(Pulls!pullsVars)
  BY StartsStep, StepIsPullStep DEF RegistryInv
<1>3. QED
  BY <1>1, <1>2, RegistryInvHolds, PTL DEF Spec, UsesAudioPulls, Pulls!Spec
=============================================================================
