------------------------- MODULE TtsSynthesisProofs -------------------------
(***************************************************************************)
(* Proofs about TtsSynthesis: no robot hears what was said to another, and *)
(* concurrent writers leave a cache file whole, for any number of threads, *)
(* texts, blocks and restarts and whatever texts share a hash.             *)
(***************************************************************************)
EXTENDS TtsSynthesis, TLAPS

\* What a file may consist of.
Pieces == [text : Texts \cup {"hole", "silence"}, place : Nat]

\* A file that holds nothing out of its place and nothing of another hash.
Sound(file, p) ==
    /\ file \in Seq(Pieces)
    /\ \A i \in 1 .. Len(file) : Fits(file[i], i, p)

SoundCache == \A p \in Paths : \A file \in cache[p] : Sound(file, p)

\* The audio of a text, or its beginning if it was once cut short.
Begun(file, x) ==
    \E n \in 0 .. Blocks[x] : file = First(x, n) /\ (n < Blocks[x] => x \in cut)

\* What a thread's file is, by where the thread stands.
Stage(t) ==
    /\ pc[t] \notin {"clear", "speak", "take"}
    /\ pc[t] \notin {"idle", "served"} => ~ hit[t]
    /\ pc[t] \in {"remote", "check", "command", "open"} => done[t] = 0
    /\ pc[t] = "check" => out[t] = <<>>
    /\ pc[t] = "hit" => Len(out[t]) = done[t] /\ Sound(out[t], Hash[text[t]])
    /\ pc[t] \in {"open", "store"} => Begun(out[t], text[t])
    /\ pc[t] = "served" =>
         IF hit[t] THEN Sound(out[t], Hash[text[t]])
         ELSE \/ Begun(out[t], text[t])
              \/ backend = "missing" /\ out[t] \in {Silence, <<>>}

\* Each block of the file is there, or some writer has yet to come to it.
Filling(file, x) ==
    /\ Len(file) <= Blocks[x]
    /\ \A i \in 1 .. Blocks[x] :
         \/ i <= Len(file) /\ file[i] = Block(x, i)
         \/ \E t \in Threads : Writes(t, Hash[x]) /\ done[t] < i

OwnHash(x) == \A y \in Texts : Hash[y] = Hash[x] => y = x

FillingCache ==
    crashes = 0 =>
    \A x \in Texts \ cut : OwnHash(x) => \A file \in cache[Hash[x]] : Filling(file, x)

Good == SoundCache /\ (\A t \in Threads : Stage(t)) /\ FillingCache

SynthesisInv == backend # "espeak" => Good

-----------------------------------------------------------------------------
LEMMA FirstIsSound ==
    ASSUME NEW x \in Texts, NEW n \in 0 .. Blocks[x]
    PROVE  /\ Sound(First(x, n), Hash[x])
           /\ Len(First(x, n)) = n
           /\ \A i \in 1 .. n : First(x, n)[i] = Block(x, i)
<1>1. Blocks[x] \in Nat
  BY SynthesisAssumption
<1>2. \A i \in 1 .. n : Block(x, i) \in Pieces
  BY <1>1 DEF Block, Pieces
<1>3. First(x, n) \in Seq(Pieces) /\ Len(First(x, n)) = n
  BY <1>1, <1>2 DEF First
<1>4. QED
  BY <1>1, <1>3 DEF Sound, Fits, First

LEMMA HoleIsPiece == Hole \in Pieces
BY DEF Hole, Pieces

\* Writing the block of its place keeps a file sound.
LEMMA WrittenIsSound ==
    ASSUME NEW p \in Paths, NEW file, Sound(file, p), NEW i \in Nat \ {0},
           NEW block \in Pieces, Fits(block, i, p)
    PROVE  /\ Sound(Written(file, block, i), p)
           /\ Len(Written(file, block, i)) = IF i > Len(file) THEN i ELSE Len(file)
           /\ \A j \in 1 .. Len(Written(file, block, i)) :
                Written(file, block, i)[j] =
                    IF j = i THEN block ELSE IF j <= Len(file) THEN file[j] ELSE Hole
<1> DEFINE n == IF i > Len(file) THEN i ELSE Len(file)
           w == [j \in 1 .. n |->
                   IF j = i THEN block ELSE IF j <= Len(file) THEN file[j] ELSE Hole]
<1>1. Written(file, block, i) = w
  BY DEF Written
<1>2. n \in Nat
  BY DEF Sound
<1>3. \A j \in 1 .. n : w[j] \in Pieces
  BY <1>2, HoleIsPiece DEF Sound
<1>4. w \in Seq(Pieces) /\ Len(w) = n
  <2> HIDE DEF n
  <2>1. w \in [1 .. n -> Pieces]
    BY <1>3
  <2> HIDE DEF w
  <2>2. QED
    BY <1>2, <2>1
<1>5. \A j \in 1 .. n : Fits(w[j], j, p)
  BY <1>2 DEF Fits, Sound
<1>6. QED
  BY <1>1, <1>4, <1>5 DEF Sound

-----------------------------------------------------------------------------
USE DEF At, Goto, SetOut, SetDone

\* A function changed at one argument is a function with the same domain.
LEMMA ExceptIsFunction ==
    ASSUME NEW S, NEW f, f = [x \in S |-> f[x]], NEW a, NEW v, NEW g,
           g = [f EXCEPT ![a] = v]
    PROVE  g = [x \in S |-> g[x]]
OBVIOUS

LEMMA TypeHolds == Spec => []TypeOK
<1>1. Init => TypeOK
  BY SynthesisAssumption DEF Init, TypeOK, Steps
<1>2. TypeOK /\ [Next]_synthesisVars => TypeOK'
  <2> SUFFICES ASSUME TypeOK, [Next]_synthesisVars PROVE TypeOK'
    OBVIOUS
  <2> USE SynthesisAssumption DEF TypeOK, Steps, bounds
  <2>1. ASSUME NEW t \in Threads, NEW x \in Texts, Begin(t, x) PROVE TypeOK'
    <3>1. out' = [u \in Threads |-> out'[u]]
      <4>1. out' = [out EXCEPT ![t] = <<>>]
        BY <2>1 DEF Begin
      <4>2. QED
        BY <4>1, ExceptIsFunction
    <3>2. pc' \in [Threads -> Steps]
      BY <2>1 DEF Begin
    <3>3. text' \in [Threads -> Texts] /\ done' \in [Threads -> Nat]
      BY <2>1 DEF Begin
    <3>4. hit' \in [Threads -> BOOLEAN] /\ turns' \in 0 .. MaxTurns
      BY <2>1 DEF Begin
    <3>5. backend' = backend /\ cache' = cache /\ crashes' = crashes /\ cut' = cut
      BY <2>1 DEF Begin
    <3>6. QED
      BY <3>1, <3>2, <3>3, <3>4, <3>5
  <2>2. ASSUME NEW t \in Threads, RemoteAnswers(t) \/ ProgramRuns(t) \/ PipeRuns(t)
        PROVE  TypeOK'
    <3>1. PICK n : Gets(t, n) /\ Goto(t, "open")
      BY <2>2 DEF RemoteAnswers, ProgramRuns, PipeRuns
    <3>2. out' = [u \in Threads |-> out'[u]]
      BY <3>1, ExceptIsFunction DEF Gets
    <3>3. cut' \subseteq Texts /\ pc' \in [Threads -> Steps]
      BY <3>1 DEF Gets
    <3>4. UNCHANGED <<backend, cache, text, done, hit, turns, crashes>>
      BY <2>2 DEF RemoteAnswers, ProgramRuns, PipeRuns
    <3>5. QED
      BY <3>2, <3>3, <3>4
  <2>3. ASSUME NEW t \in Threads, CheckCache(t) PROVE TypeOK'
    BY <2>3 DEF CheckCache
  <2>4. ASSUME NEW t \in Threads, CopyHit(t) PROVE TypeOK'
    <3>1. PICK file \in cache[GetCachePath(text[t])] :
            out' = [out EXCEPT ![t] = Append(out[t], file[done[t] + 1])]
      BY <2>4 DEF CopyHit
    <3>2. out' = [u \in Threads |-> out'[u]]
      BY <3>1, ExceptIsFunction
    <3>3. done' \in [Threads -> Nat]
      BY <2>4 DEF CopyHit
    <3>4. UNCHANGED <<backend, cache, pc, text, hit, cut, turns, crashes>>
      BY <2>4 DEF CopyHit
    <3>5. QED
      BY <3>2, <3>3, <3>4
  <2>5. ASSUME NEW t \in Threads, HitCopied(t) \/ Fails(t) PROVE TypeOK'
    <3>1. CASE HitCopied(t)
      BY <3>1 DEF HitCopied
    <3>2. CASE Fails(t)
      <4>1. pc' \in [Threads -> Steps]
        BY <3>2 DEF Fails
      <4>2. UNCHANGED <<backend, cache, text, out, done, hit, cut, turns, crashes>>
        BY <3>2 DEF Fails
      <4>3. QED
        BY <4>1, <4>2
    <3>3. QED
      BY <2>5, <3>1, <3>2
  <2>6. ASSUME NEW t \in Threads, ClearAudio(t) \/ AudioCallback(t) PROVE TypeOK'
    <3>1. CASE ClearAudio(t)
      <4>1. pc' \in [Threads -> Steps]
        BY <3>1 DEF ClearAudio
      <4>2. UNCHANGED <<backend, cache, text, out, done, hit, cut, turns, crashes>>
        BY <3>1 DEF ClearAudio
      <4>3. QED
        BY <4>1, <4>2
    <3>2. CASE AudioCallback(t)
      <4>1. done' \in [Threads -> Nat]
        BY <3>2 DEF AudioCallback
      <4>2. UNCHANGED <<backend, cache, pc, text, out, hit, cut, turns, crashes>>
        BY <3>2 DEF AudioCallback
      <4>3. QED
        BY <4>1, <4>2
    <3>3. QED
      BY <2>6, <3>1, <3>2
  <2>7. ASSUME NEW t \in Threads, Spoken(t) \/ TakeAudio(t) PROVE TypeOK'
    <3>1. CASE Spoken(t)
      BY <3>1 DEF Spoken
    <3>2. CASE TakeAudio(t)
      <4>1. out' = [u \in Threads |-> out'[u]]
        <5>1. CASE out' = [out EXCEPT ![t] = g_tts_audio]
          BY <5>1, ExceptIsFunction
        <5>2. QED
          BY <3>2, <5>1 DEF TakeAudio
      <4>2. pc' \in [Threads -> Steps]
        BY <3>2 DEF TakeAudio
      <4>3. UNCHANGED <<backend, cache, text, done, hit, cut, turns, crashes>>
        BY <3>2 DEF TakeAudio
      <4>4. QED
        BY <4>1, <4>2, <4>3
    <3>3. QED
      BY <2>7, <3>1, <3>2
  <2>8. ASSUME NEW t \in Threads, NothingRuns(t) PROVE TypeOK'
    <3>1. PICK file : out' = [out EXCEPT ![t] = file]
      BY <2>8 DEF NothingRuns
    <3>2. out' = [u \in Threads |-> out'[u]]
      BY <3>1, ExceptIsFunction
    <3>3. pc' \in [Threads -> Steps]
      BY <2>8 DEF NothingRuns
    <3>4. UNCHANGED <<backend, cache, text, done, hit, cut, turns, crashes>>
      BY <2>8 DEF NothingRuns
    <3>5. QED
      BY <3>2, <3>3, <3>4
  <2>9. ASSUME NEW t \in Threads, OpenCache(t) PROVE TypeOK'
    BY <2>9 DEF OpenCache
  <2>10. ASSUME NEW t \in Threads, StoreBlock(t) PROVE TypeOK'
    <3>1. PICK file \in cache[GetCachePath(text[t])] :
            cache' = [cache EXCEPT ![GetCachePath(text[t])] =
                        {Written(file, out[t][done[t] + 1], done[t] + 1)}]
      BY <2>10 DEF StoreBlock
    <3>2. cache' = [p \in Paths |-> cache'[p]]
      BY <3>1, ExceptIsFunction
    <3>3. done' \in [Threads -> Nat]
      BY <2>10 DEF StoreBlock
    <3>4. UNCHANGED <<backend, out, pc, text, hit, cut, turns, crashes>>
      BY <2>10 DEF StoreBlock
    <3>5. QED
      BY <3>2, <3>3, <3>4
  <2>11. ASSUME NEW t \in Threads, Stored(t) PROVE TypeOK'
    BY <2>11 DEF Stored
  <2>12. CASE Restart
    BY <2>12 DEF Restart
  <2>13. CASE UNCHANGED synthesisVars
    BY <2>13 DEF synthesisVars, locals
  <2>14. QED
    BY <2>1, <2>2, <2>3, <2>4, <2>5, <2>6, <2>7, <2>8, <2>9, <2>10, <2>11, <2>12, <2>13
       DEF Next, SynthesizeTts
<1>3. QED
  BY <1>1, <1>2, PTL DEF Spec

\* A thread that does not move keeps its stage, and the pending writes of a
\* cache that is not written stay as they are if no writer moves.
LEMMA BegunStays ==
    ASSUME cut \subseteq cut', NEW file, NEW x, Begun(file, x)
    PROVE  Begun(file, x)'
BY DEF Begun, First, Block

Alone == cache' = cache /\ crashes' = crashes /\ backend' = backend /\ cut \subseteq cut'

Rests(u) == /\ pc'[u] = pc[u] /\ text'[u] = text[u] /\ out'[u] = out[u]
            /\ done'[u] = done[u] /\ hit'[u] = hit[u]

LEMMA StageStays ==
    ASSUME NEW u, Stage(u), Rests(u), cut \subseteq cut', backend' = backend
    PROVE  Stage(u)'
<1>1. Begun(out[u], text[u]) => Begun(out[u], text[u])'
  <2> SUFFICES ASSUME Begun(out[u], text[u]) PROVE Begun(out[u], text[u])'
    OBVIOUS
  <2>1. PICK n \in 0 .. Blocks[text[u]] :
          out[u] = First(text[u], n) /\ (n < Blocks[text[u]] => text[u] \in cut)
    BY DEF Begun
  <2>2. n \in 0 .. Blocks[text'[u]] /\ out'[u] = First(text'[u], n)
        /\ (n < Blocks[text'[u]] => text'[u] \in cut')
    BY <2>1 DEF Rests
  <2>3. QED
    BY <2>2 DEF Begun
<1>2. QED
  BY <1>1, Zenon DEF Stage, Rests, Sound, Fits

LEMMA FillingStays ==
    ASSUME FillingCache, cache' = cache, crashes' = crashes, cut \subseteq cut',
           \A u \in Threads : pc[u] = "store" =>
               pc'[u] = "store" /\ text'[u] = text[u] /\ done'[u] = done[u]
    PROVE  FillingCache'
BY DEF FillingCache, Filling, Writes

\* A step of one thread that is no writer and leaves the cache alone.
LEMMA OneMoves ==
    ASSUME Good, NEW t \in Threads, pc[t] # "store", Stage(t)',
           Alone, \A u \in Threads \ {t} : Rests(u)
    PROVE  Good'
<1> USE DEF Alone
<1>1. SoundCache'
  BY DEF Good, SoundCache, Sound, Fits
<1>2. \A u \in Threads : Stage(u)'
  BY StageStays DEF Good
<1>3. FillingCache'
  BY FillingStays DEF Good, Rests
<1>4. QED
  BY <1>1, <1>2, <1>3 DEF Good

LEMMA ReadersStep ==
    ASSUME TypeOK, Good, backend # "espeak", NEW t \in Threads,
           \/ \E x \in Texts : Begin(t, x)
           \/ RemoteAnswers(t) \/ ProgramRuns(t) \/ PipeRuns(t) \/ NothingRuns(t)
           \/ Fails(t) \/ CheckCache(t) \/ CopyHit(t) \/ HitCopied(t)
    PROVE  Good'
<1> USE SynthesisAssumption DEF TypeOK
<1>1. Stage(t) /\ text[t] \in Texts /\ Hash[text[t]] \in Paths
  BY DEF Good
<1>2. Sound(<<>>, Hash[text[t]])
  BY DEF Sound
<1>3. CASE \E x \in Texts : Begin(t, x)
  <2>1. PICK x \in Texts : Begin(t, x)
    BY <1>3
  <2>2. Stage(t)'
    BY <2>1, <1>1 DEF Begin, Stage
  <2>3. \A u \in Threads \ {t} : Rests(u)
    BY <2>1 DEF Begin, Rests
  <2>4. pc[t] # "store" /\ Alone
    BY <2>1 DEF Begin, Alone
  <2>5. QED
    BY <2>2, <2>3, <2>4, OneMoves
<1>4. CASE RemoteAnswers(t) \/ ProgramRuns(t) \/ PipeRuns(t)
  <2>1. PICK n \in 0 .. Blocks[text[t]] : Gets(t, n)
    BY <1>1, <1>4 DEF RemoteAnswers, ProgramRuns, PipeRuns
  <2>2. /\ pc'[t] = "open" /\ out'[t] = First(text[t], n)
        /\ text'[t] = text[t] /\ done'[t] = done[t] /\ hit'[t] = hit[t]
    BY <1>4, <2>1 DEF RemoteAnswers, ProgramRuns, PipeRuns, Gets
  <2>3. done[t] = 0 /\ ~ hit[t] /\ pc[t] # "store"
    BY <1>4, <1>1 DEF RemoteAnswers, ProgramRuns, PipeRuns, Stage
  <2>4. n < Blocks[text[t]] => text[t] \in cut'
    BY <1>1, <2>1 DEF Gets
  <2>5. Begun(out[t], text[t])'
    BY <2>1, <2>2, <2>4 DEF Begun
  <2>6. Stage(t)'
    BY <2>2, <2>3, <2>5, Zenon DEF Stage
  <2>7. \A u \in Threads \ {t} : Rests(u)
    BY <1>4, <2>1 DEF RemoteAnswers, ProgramRuns, PipeRuns, Gets, Rests
  <2>8. Alone
    BY <1>4, <2>1 DEF RemoteAnswers, ProgramRuns, PipeRuns, Gets, bounds, Alone
  <2>9. QED
    BY <2>3, <2>6, <2>7, <2>8, OneMoves
<1>5. CASE CheckCache(t)
  <2>1. Stage(t)'
    BY <1>5, <1>1, <1>2 DEF CheckCache, Stage, Sound, Fits
  <2>2. \A u \in Threads \ {t} : Rests(u)
    BY <1>5 DEF CheckCache, Rests
  <2>3. pc[t] # "store" /\ Alone
    BY <1>5 DEF CheckCache, bounds, Alone
  <2>4. QED
    BY <2>1, <2>2, <2>3, OneMoves
<1>6. CASE CopyHit(t)
  <2>1. PICK file \in cache[Hash[text[t]]] :
          done[t] < Len(file) /\ out' = [out EXCEPT ![t] = Append(out[t], file[done[t] + 1])]
    BY <1>6 DEF CopyHit, GetCachePath
  <2>2. Sound(file, Hash[text[t]]) /\ Sound(out[t], Hash[text[t]]) /\ Len(out[t]) = done[t]
    BY <1>1, <1>6 DEF Good, SoundCache, Stage, CopyHit
  <2>3. Sound(Append(out[t], file[done[t] + 1]), Hash[text[t]])
    <3> DEFINE block == file[done[t] + 1]
               n == Len(out[t])
    <3>1. n \in Nat /\ n = done[t] /\ block \in Pieces /\ Fits(block, n + 1, Hash[text[t]])
      BY <2>1, <2>2 DEF Sound
    <3>2. out[t] \in Seq(Pieces) /\ \A i \in 1 .. n : Fits(out[t][i], i, Hash[text[t]])
      BY <2>2 DEF Sound
    <3> HIDE DEF block
    <3>3. /\ Append(out[t], block) \in Seq(Pieces)
          /\ Len(Append(out[t], block)) = n + 1
          /\ Append(out[t], block)[n + 1] = block
          /\ \A i \in 1 .. n : Append(out[t], block)[i] = out[t][i]
      BY <3>1, <3>2
    <3>4. \A i \in 1 .. n + 1 : Fits(Append(out[t], block)[i], i, Hash[text[t]])
      <4> TAKE i \in 1 .. n + 1
      <4>1. CASE i = n + 1
        BY <4>1, <3>1, <3>3
      <4>2. CASE i # n + 1
        BY <4>2, <3>1, <3>2, <3>3
      <4>3. QED
        BY <4>1, <4>2
    <3>5. QED
      BY <3>3, <3>4 DEF Sound, block
  <2>4. /\ pc'[t] = "hit" /\ ~ hit'[t] /\ done'[t] = done[t] + 1 /\ text'[t] = text[t]
        /\ out'[t] = Append(out[t], file[done[t] + 1])
    BY <2>1, <1>1, <1>6 DEF CopyHit, Stage
  <2>5. Len(out'[t]) = done'[t]
    BY <2>2, <2>4 DEF Sound
  <2>6. Stage(t)'
    BY <2>3, <2>4, <2>5 DEF Stage, Sound, Fits
  <2>7. \A u \in Threads \ {t} : Rests(u)
    BY <1>6, <2>1 DEF CopyHit, Rests
  <2>8. pc[t] # "store" /\ Alone
    BY <1>6 DEF CopyHit, bounds, Alone
  <2>9. QED
    BY <2>6, <2>7, <2>8, OneMoves
<1>7. CASE HitCopied(t)
  <2>1. Stage(t)'
    BY <1>7, <1>1 DEF HitCopied, Stage, Sound, Fits
  <2>2. \A u \in Threads \ {t} : Rests(u)
    BY <1>7 DEF HitCopied, Rests
  <2>3. pc[t] # "store" /\ Alone
    BY <1>7 DEF HitCopied, bounds, Alone
  <2>4. QED
    BY <2>1, <2>2, <2>3, OneMoves
<1>8. CASE NothingRuns(t) \/ Fails(t)
  <2>1. Stage(t)'
    BY <1>8, <1>1 DEF NothingRuns, Fails, Stage, Silence
  <2>2. \A u \in Threads \ {t} : Rests(u)
    BY <1>8 DEF NothingRuns, Fails, Rests
  <2>3. pc[t] # "store" /\ Alone
    BY <1>8 DEF NothingRuns, Fails, bounds, Alone
  <2>4. QED
    BY <2>1, <2>2, <2>3, OneMoves
<1>9. QED
  BY <1>3, <1>4, <1>5, <1>6, <1>7, <1>8

\* The writer empties the file and has all of its blocks to write.
LEMMA OpenStep ==
    ASSUME TypeOK, Good, NEW t \in Threads, OpenCache(t)
    PROVE  Good'
<1> USE SynthesisAssumption DEF TypeOK, GetCachePath
<1> DEFINE p == Hash[text[t]]
<1>1. Stage(t) /\ text[t] \in Texts /\ p \in Paths /\ pc[t] = "open"
  BY DEF Good, OpenCache
<1>2. \A u \in Threads \ {t} : Rests(u)
  BY DEF OpenCache, Rests
<1>3. text' = text /\ out' = out /\ done' = done /\ hit' = hit /\ crashes' = crashes
      /\ backend' = backend /\ cut' = cut
  BY DEF OpenCache, bounds
<1>4. Stage(t)'
  <2>1. Begun(out[t], text[t]) /\ Begun(out[t], text[t])' /\ done[t] = 0 /\ ~ hit[t]
    BY <1>1, <1>3, BegunStays DEF Stage
  <2>2. CASE pc'[t] = "store"
    BY <2>1, <2>2, <1>3 DEF Stage
  <2>3. CASE pc'[t] = "served"
    BY <2>1, <2>3, <1>3 DEF Stage
  <2>4. QED
    BY <2>2, <2>3 DEF OpenCache
<1>5. CASE cache' = cache
  BY <1>1, <1>2, <1>3, <1>4, <1>5, OneMoves DEF Alone
<1>6. CASE cache' = [cache EXCEPT ![p] = {<<>>}] /\ pc'[t] = "store"
  <2>1. \A q \in Paths : cache'[q] = IF q = p THEN {<<>>} ELSE cache[q]
    BY <1>6
  <2>2. SoundCache'
    <3> SUFFICES ASSUME NEW q \in Paths, NEW file \in cache'[q] PROVE Sound(file, q)'
      BY DEF SoundCache
    <3>1. Sound(file, q)
      <4>1. CASE q = p
        <5>1. file = <<>>
          BY <2>1, <4>1
        <5>2. QED
          BY <5>1 DEF Sound
      <4>2. CASE q # p
        BY <2>1, <4>2 DEF Good, SoundCache
      <4>3. QED
        BY <4>1, <4>2
    <3>2. QED
      BY <3>1 DEF Sound, Fits
  <2>3. \A u \in Threads : Stage(u)'
    BY <1>2, <1>3, <1>4, StageStays DEF Good
  <2>4. ASSUME crashes' = 0, NEW x \in Texts \ cut, OwnHash(x), NEW file \in cache'[Hash[x]]
        PROVE  Filling(file, x)'
    <3>1. CASE Hash[x] = p
      <4>1. Len(file) = 0
        BY <2>1, <2>4, <3>1, <1>1
      <4>2. Writes(t, Hash[x])' /\ done'[t] = 0
        BY <1>1, <1>3, <1>6, <3>1 DEF Writes, Stage
      <4>3. QED
        BY <4>1, <4>2 DEF Filling
    <3>2. CASE Hash[x] # p
      <4>1. Filling(file, x)
        BY <2>1, <2>4, <3>2, <1>3 DEF Good, FillingCache
      <4>2. \A u \in Threads : Writes(u, Hash[x]) => Writes(u, Hash[x])'
        BY <1>1, <1>2 DEF Writes, Rests
      <4>3. QED
        BY <4>1, <4>2, <1>3 DEF Filling
    <3>3. QED
      BY <3>1, <3>2
  <2>5. FillingCache'
    BY <2>4, <1>3, Zenon DEF FillingCache, OwnHash
  <2>6. QED
    BY <2>2, <2>3, <2>5 DEF Good
<1>7. QED
  BY <1>1, <1>5, <1>6 DEF OpenCache

\* The block comes to its place; what others have left to write stays pending.
LEMMA StoreStep ==
    ASSUME TypeOK, Good, NEW t \in Threads, StoreBlock(t)
    PROVE  Good'
<1> USE SynthesisAssumption DEF TypeOK, GetCachePath
<1> DEFINE p == Hash[text[t]]
           k == done[t] + 1
           block == out[t][k]
<1>1. Stage(t) /\ text[t] \in Texts /\ p \in Paths /\ pc[t] = "store"
  BY DEF Good, StoreBlock
<1>2. Begun(out[t], text[t]) /\ ~ hit[t]
  BY <1>1 DEF Stage
<1>3. k \in 1 .. Blocks[text[t]] /\ block = Block(text[t], k)
  <2> PICK n \in 0 .. Blocks[text[t]] : out[t] = First(text[t], n)
    BY <1>2 DEF Begun
  <2>1. /\ Len(out[t]) = n /\ Blocks[text[t]] \in Nat
        /\ \A i \in 1 .. n : out[t][i] = Block(text[t], i)
    BY <1>1, FirstIsSound
  <2>2. done[t] \in Nat /\ done[t] < Len(out[t])
    BY DEF StoreBlock
  <2>3. k \in 1 .. Blocks[text[t]]
    BY <2>1, <2>2
  <2>4. k \in 1 .. n
    BY <2>1, <2>2
  <2>5. QED
    BY <2>1, <2>3, <2>4
<1>4. block \in Pieces /\ Fits(block, k, p)
  BY <1>1, <1>3 DEF Block, Pieces, Fits
<1>5. PICK file \in cache[p] : cache' = [cache EXCEPT ![p] = {Written(file, block, k)}]
  BY DEF StoreBlock
<1>6. Sound(file, p)
  BY <1>1, <1>5 DEF Good, SoundCache
<1> DEFINE new == Written(file, block, k)
<1>7. /\ Sound(new, p)
      /\ Len(new) = IF k > Len(file) THEN k ELSE Len(file)
      /\ \A j \in 1 .. Len(new) :
           new[j] = IF j = k THEN block ELSE IF j <= Len(file) THEN file[j] ELSE Hole
  <2> HIDE DEF block, k
  <2>1. k \in Nat \ {0}
    BY <1>3
  <2>2. QED
    BY <1>1, <1>4, <1>6, <2>1, WrittenIsSound
<1>8. done'[t] = k /\ \A u \in Threads \ {t} : done'[u] = done[u]
  BY DEF StoreBlock
<1>9. pc' = pc /\ text' = text /\ out' = out /\ hit' = hit /\ crashes' = crashes
      /\ backend' = backend /\ cut' = cut
  BY DEF StoreBlock, bounds
<1> HIDE DEF new, block, k
<1>10. \A q \in Paths : cache'[q] = IF q = p THEN {new} ELSE cache[q]
  BY <1>5 DEF new
<1>11. SoundCache'
  <2> SUFFICES ASSUME NEW q \in Paths, NEW f \in cache'[q] PROVE Sound(f, q)
    BY DEF SoundCache, Sound, Fits
  <2>1. CASE q = p
    BY <2>1, <1>7, <1>10
  <2>2. CASE q # p
    BY <2>2, <1>10 DEF Good, SoundCache
  <2>3. QED
    BY <2>1, <2>2
<1>12. \A u \in Threads : Stage(u)'
  <2>1. Stage(t)'
    BY <1>1, <1>2, <1>9, BegunStays DEF Stage
  <2>2. \A u \in Threads \ {t} : Rests(u)
    BY <1>8, <1>9 DEF Rests
  <2>3. QED
    BY <2>1, <2>2, <1>9, StageStays DEF Good
<1>13. ASSUME crashes' = 0, NEW x \in Texts \ cut, OwnHash(x), NEW f \in cache'[Hash[x]]
       PROVE  Filling(f, x)'
  <2>1. CASE Hash[x] = p
    <3>1. f = new /\ text[t] = x
      BY <1>1, <1>10, <1>13, <2>1 DEF OwnHash
    <3>2. Filling(file, x)
      BY <1>5, <1>9, <1>13, <2>1 DEF Good, FillingCache
    <3>3. Len(file) \in Nat /\ Len(new) \in Nat
      BY <1>6, <1>7 DEF Sound
    <3>4. Len(new) <= Blocks[x]
      BY <3>1, <3>2, <3>3, <1>3, <1>7 DEF Filling
    <3>5. ASSUME NEW i \in 1 .. Blocks[x]
          PROVE  \/ i <= Len(new) /\ new[i] = Block(x, i)
                 \/ \E u \in Threads : Writes(u, Hash[x])' /\ done'[u] < i
      <4>1. CASE i = k
        BY <4>1, <3>1, <3>3, <1>3, <1>7
      <4>2. CASE i # k /\ i <= Len(file) /\ file[i] = Block(x, i)
        BY <4>2, <3>3, <1>3, <1>7
      <4>3. CASE i # k /\ \E u \in Threads : Writes(u, Hash[x]) /\ done[u] < i
        <5>1. PICK u \in Threads : Writes(u, Hash[x]) /\ done[u] < i
          BY <4>3
        <5>2. Writes(u, Hash[x])'
          BY <5>1, <1>9 DEF Writes
        <5>3. done'[u] < i
          BY <4>3, <5>1, <1>8, <1>3 DEF k
        <5>4. QED
          BY <5>2, <5>3
      <4>4. QED
        BY <3>2, <4>1, <4>2, <4>3 DEF Filling
    <3>6. QED
      BY <3>1, <3>4, <3>5 DEF Filling
  <2>2. CASE Hash[x] # p
    <3>1. Filling(f, x)
      BY <1>9, <1>10, <1>13, <2>2 DEF Good, FillingCache
    <3>2. \A u \in Threads : Writes(u, Hash[x]) => Writes(u, Hash[x])' /\ done'[u] = done[u]
      BY <1>8, <1>9, <2>2 DEF Writes
    <3>3. QED
      BY <3>1, <3>2 DEF Filling
  <2>3. QED
    BY <2>1, <2>2
<1>14. FillingCache'
  BY <1>13, <1>9, Zenon DEF FillingCache, OwnHash
<1>15. QED
  BY <1>11, <1>12, <1>14 DEF Good

\* A writer that has finished leaves nothing pending in a file of its own hash.
LEMMA StoredStep ==
    ASSUME TypeOK, Good, NEW t \in Threads, Stored(t)
    PROVE  Good'
<1> USE SynthesisAssumption DEF TypeOK
<1>1. Stage(t) /\ text[t] \in Texts /\ pc[t] = "store"
  BY DEF Good, Stored
<1>2. /\ cache' = cache /\ text' = text /\ out' = out /\ done' = done /\ hit' = hit
      /\ crashes' = crashes /\ backend' = backend /\ cut \subseteq cut'
      /\ pc' = [pc EXCEPT ![t] = "served"]
  BY DEF Stored, bounds
<1>3. SoundCache'
  BY <1>2 DEF Good, SoundCache, Sound, Fits
<1>4. \A u \in Threads : Stage(u)'
  <2>1. Stage(t)'
    <3>1. Begun(out[t], text[t])' /\ ~ hit'[t] /\ pc'[t] = "served"
      BY <1>1, <1>2, BegunStays DEF Stage
    <3>2. QED
      BY <3>1 DEF Stage
  <2>2. \A u \in Threads \ {t} : Rests(u)
    BY <1>2 DEF Rests
  <2>3. QED
    BY <2>1, <2>2, <1>2, StageStays DEF Good
<1>5. ASSUME crashes' = 0, NEW x \in Texts \ cut', OwnHash(x), NEW file \in cache'[Hash[x]]
      PROVE  Filling(file, x)'
  <2>1. Filling(file, x)
    BY <1>2, <1>5 DEF Good, FillingCache
  <2>2. ASSUME NEW i \in 1 .. Blocks[x], NEW u \in Threads, Writes(u, Hash[x]), done[u] < i
        PROVE  u # t
    <3>1. SUFFICES ASSUME u = t PROVE FALSE
      OBVIOUS
    <3>2. text[t] = x
      BY <1>1, <1>5, <2>2, <3>1 DEF OwnHash, Writes
    <3>3. x \notin cut /\ done[t] >= Len(out[t])
      BY <1>2, <1>5, <3>2 DEF Stored
    <3>4. PICK n \in 0 .. Blocks[x] : out[t] = First(x, n) /\ ~ (n < Blocks[x])
      BY <1>1, <3>2, <3>3 DEF Stage, Begun
    <3>5. Len(out[t]) = n /\ Blocks[x] \in Nat
      BY <3>4, FirstIsSound
    <3>6. QED
      BY <2>2, <3>1, <3>3, <3>4, <3>5
  <2>3. \A u \in Threads \ {t} : Writes(u, Hash[x]) => Writes(u, Hash[x])'
    BY <1>2 DEF Writes
  <2>4. QED
    BY <1>2, <2>1, <2>2, <2>3 DEF Filling
<1>6. FillingCache'
  BY <1>5, Zenon DEF FillingCache, OwnHash
<1>7. QED
  BY <1>3, <1>4, <1>6 DEF Good

\* Sound files and pending writes: the invariant behind both theorems.
LEMMA SynthesisInvHolds == Spec => [](TypeOK /\ SynthesisInv)
<1>1. Init => SynthesisInv
  <2> SUFFICES ASSUME Init PROVE SoundCache /\ (\A t \in Threads : Stage(t)) /\ FillingCache
    BY DEF SynthesisInv, Good
  <2>1. \A p \in Paths : \A file \in cache[p] : FALSE
    BY DEF Init
  <2>2. SoundCache /\ FillingCache
    BY <2>1, SynthesisAssumption DEF SoundCache, FillingCache
  <2>3. \A t \in Threads : pc[t] = "idle"
    BY DEF Init
  <2>4. \A t \in Threads : Stage(t)
    BY <2>3 DEF Stage
  <2>5. QED
    BY <2>2, <2>4
<1>2. TypeOK /\ SynthesisInv /\ [Next]_synthesisVars => SynthesisInv'
  <2> SUFFICES ASSUME TypeOK, SynthesisInv, [Next]_synthesisVars PROVE SynthesisInv'
    OBVIOUS
  <2>1. ASSUME NEW t \in Threads, SynthesizeTts(t) PROVE SynthesisInv'
    <3>1. SUFFICES ASSUME backend' # "espeak" PROVE Good'
      BY DEF SynthesisInv
    <3>2. backend' = backend
      BY <2>1 DEF SynthesizeTts, Begin, RemoteAnswers, Fails, CheckCache, CopyHit, HitCopied,
         ClearAudio, AudioCallback, Spoken, TakeAudio, ProgramRuns, PipeRuns, NothingRuns,
         OpenCache, StoreBlock, Stored
    <3>3. Good /\ Stage(t) /\ backend # "espeak"
      BY <3>1, <3>2 DEF SynthesisInv, Good
    <3>4. ~ (ClearAudio(t) \/ AudioCallback(t) \/ Spoken(t) \/ TakeAudio(t))
      BY <3>3 DEF Stage, ClearAudio, AudioCallback, Spoken, TakeAudio
    <3>5. QED
      BY <2>1, <3>3, <3>4, ReadersStep, OpenStep, StoreStep, StoredStep DEF SynthesizeTts
  <2>2. CASE Restart
    <3>1. \A u \in Threads : pc'[u] = "idle"
      BY <2>2 DEF Restart
    <3>2. \A u \in Threads : Stage(u)'
      BY <3>1 DEF Stage
    <3>3. crashes' # 0
      BY <2>2 DEF Restart, TypeOK
    <3>4. FillingCache'
      BY <3>3 DEF FillingCache
    <3>5. cache' = cache /\ backend' = backend
      BY <2>2 DEF Restart
    <3>6. SoundCache => SoundCache'
      BY <3>5 DEF SoundCache, Sound, Fits
    <3>7. QED
      BY <3>2, <3>4, <3>5, <3>6 DEF SynthesisInv, Good
  <2>3. CASE UNCHANGED synthesisVars
    <3>1. cache' = cache /\ backend' = backend /\ crashes' = crashes /\ pc' = pc
          /\ text' = text /\ out' = out /\ done' = done /\ hit' = hit
      BY <2>3 DEF synthesisVars, locals, bounds
    <3>2. SoundCache => SoundCache'
      BY <3>1 DEF SoundCache, Sound, Fits
    <3>3. (\A u \in Threads : Stage(u)) => \A u \in Threads : Stage(u)'
      BY <3>1, <2>3, StageStays DEF Rests, synthesisVars
    <3>4. FillingCache => FillingCache'
      BY <3>1, <2>3, FillingStays DEF synthesisVars
    <3>5. QED
      BY <3>1, <3>2, <3>3, <3>4 DEF SynthesisInv, Good
  <2>4. QED
    BY <2>1, <2>2, <2>3 DEF Next
<1>3. QED
  BY <1>1, <1>2, TypeHolds, PTL DEF Spec

\* No robot hears what was said to another, except through the buffer of
\* libespeak-ng: a served file is the audio of the text that was asked for, the
\* beginning of it if audio of the text was once cut short, or silence if there is
\* no synthesiser; what comes out of the cache consists of blocks of texts of that
\* hash, each in its place.
THEOREM RepliesInOwnVoice == Spec => []OwnVoice
<1>1. TypeOK /\ SynthesisInv => OwnVoice
  <2> SUFFICES ASSUME TypeOK, SynthesisInv, backend # "espeak",
                      NEW t \in Threads, pc[t] = "served"
               PROVE  IF hit[t] THEN \A i \in DOMAIN out[t] : Fits(out[t][i], i, Hash[text[t]])
                      ELSE \/ out[t] = Audio(text[t])
                           \/ /\ text[t] \in cut
                              /\ \E n \in 0 .. Blocks[text[t]] : out[t] = First(text[t], n)
                           \/ backend = "missing" /\ out[t] \in {Silence, <<>>}
    BY Zenon DEF OwnVoice
  <2>1. Stage(t)
    BY DEF SynthesisInv, Good
  <2>2. Begun(out[t], text[t]) =>
          \/ out[t] = Audio(text[t])
          \/ text[t] \in cut /\ \E n \in 0 .. Blocks[text[t]] : out[t] = First(text[t], n)
    <3> SUFFICES ASSUME NEW n \in 0 .. Blocks[text[t]], out[t] = First(text[t], n),
                        n < Blocks[text[t]] => text[t] \in cut
                 PROVE  \/ n = Blocks[text[t]] \/ text[t] \in cut
      BY DEF Begun, Audio
    <3>1. Blocks[text[t]] \in Nat
      BY SynthesisAssumption DEF TypeOK
    <3>2. QED
      BY <3>1
  <2>3. hit[t] => \A i \in DOMAIN out[t] : Fits(out[t][i], i, Hash[text[t]])
    BY <2>1 DEF Stage, Sound
  <2>4. QED
    BY <2>1, <2>2, <2>3, Zenon DEF Stage
<1>2. QED
  BY <1>1, SynthesisInvHolds, PTL

\* Concurrent writers of one text leave its cache file whole, or there is none,
\* unless audio of the text was once cut short or the server was restarted.
THEOREM CacheFilesSettle == Spec => []CacheSettles
<1>1. TypeOK /\ SynthesisInv => CacheSettles
  <2> SUFFICES ASSUME TypeOK, SynthesisInv, backend # "espeak", crashes = 0,
                      NEW x \in Texts \ cut, OwnHash(x),
                      \A t \in Threads : ~ Writes(t, Hash[x])
               PROVE  cache[Hash[x]] \in {{}, {Audio(x)}}
    BY DEF CacheSettles, OwnHash
  <2>1. ASSUME NEW file \in cache[Hash[x]] PROVE file = Audio(x)
    <3>1. Filling(file, x) /\ Sound(file, Hash[x])
      BY SynthesisAssumption DEF SynthesisInv, Good, FillingCache, SoundCache
    <3>2. /\ Len(file) <= Blocks[x] /\ Blocks[x] \in Nat \ {0}
          /\ \A i \in 1 .. Blocks[x] : i <= Len(file) /\ file[i] = Block(x, i)
      BY <3>1, SynthesisAssumption DEF Filling
    <3>3. file \in Seq(Pieces) /\ Len(file) = Blocks[x]
      BY <3>1, <3>2 DEF Sound
    <3>4. QED
      BY <3>2, <3>3 DEF Audio, First
  <2>2. QED
    BY <2>1
<1>2. QED
  BY <1>1, SynthesisInvHolds, PTL
=============================================================================
