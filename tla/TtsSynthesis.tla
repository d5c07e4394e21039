---------------------------- MODULE TtsSynthesis ----------------------------
(***************************************************************************)
(* PipelineBridge::SynthesizeTts, the speech of replies that are not       *)
(* streamed: pipeline threads of all sessions synthesise at the same time, *)
(* each into a file of its own, and share the files of the TTS cache and,  *)
(* when libespeak-ng is linked in, the buffer its callback fills.          *)
(*                                                                         *)
(* Audio is a sequence of blocks; a block knows its text and its place.  A *)
(* file is copied block by block, at the writer's own position, and no     *)
(* write is looked at: a copy may stop anywhere.  Nor is every synthesiser *)
(* looked at: of a pipe into ffmpeg, only ffmpeg is.  The cache            *)
(* directory is in /dev/shm, where it outlives the server.  The buffer is  *)
(* a std::vector under no lock: an insertion is one step here, and what    *)
(* else the data race may do is out of the model.                          *)
(***************************************************************************)
EXTENDS Integers, Sequences

CONSTANTS
    Threads, Texts,
    Blocks,      \* how many blocks the audio of each text has
    Paths,       \* the files of the cache
    Hash,        \* the hash of each text, 32 bits wide in the code
    Backends,    \* ways to synthesise that the server may be set up for
    MaxTurns,    \* bound on the turns begun
    MaxCrashes   \* bound on the restarts of the server

ASSUME SynthesisAssumption ==
    /\ Texts # {}
    /\ Blocks \in [Texts -> Nat \ {0}] /\ Hash \in [Texts -> Paths]
    /\ Backends \subseteq {"remote", "espeak", "program", "pipe", "missing"}
    /\ MaxTurns \in Nat /\ MaxCrashes \in Nat

VARIABLES
    backend,     \* tts_remote_host set; libespeak-ng; a program whose status is
                 \* seen (edge_tts); a pipe into ffmpeg (piper, espeak-ng); none
    cache,       \* the content of each cache file, if it is there
    g_tts_audio, \* what the callback of libespeak-ng has gathered
    pc,          \* where each thread stands
    text,        \* the text it synthesises
    out,         \* the file at output_path
    done,        \* the blocks it has written or heard of so far
    hit,         \* the file was copied from the cache
    cut,         \* history: texts whose audio was once cut short, unseen by the code
    turns, crashes

locals == <<pc, text, out, done, hit>>
bounds == <<turns, crashes>>
synthesisVars == <<backend, cache, g_tts_audio, locals, cut, bounds>>

Block(x, i) == [text |-> x, place |-> i]
First(x, n) == [i \in 1 .. n |-> Block(x, i)]
Audio(x) == First(x, Blocks[x])
Hole == [text |-> "hole", place |-> 0]       \* what a file has where nothing was written
Silence == <<[text |-> "silence", place |-> 1]>>

\* Mutant of GetCachePath: the name of the file lacks the hash.
GetCachePathSame(x) == CHOOSE p \in Paths : TRUE

GetCachePath(x) == Hash[x]

Steps == {"idle", "remote", "check", "hit", "clear", "speak", "take", "command",
          "open", "store", "served"}

TypeOK ==
    /\ backend \in Backends
    /\ cache = [p \in Paths |-> cache[p]] /\ out = [t \in Threads |-> out[t]]
    /\ pc \in [Threads -> Steps] /\ text \in [Threads -> Texts]
    /\ done \in [Threads -> Nat] /\ hit \in [Threads -> BOOLEAN] /\ cut \subseteq Texts
    /\ turns \in 0 .. MaxTurns /\ crashes \in 0 .. MaxCrashes

Init ==
    /\ backend \in Backends
    /\ cache = [p \in Paths |-> {}]
    /\ g_tts_audio = <<>>
    /\ pc = [t \in Threads |-> "idle"] /\ text = [t \in Threads |-> CHOOSE x \in Texts : TRUE]
    /\ out = [t \in Threads |-> <<>>]
    /\ done = [t \in Threads |-> 0] /\ hit = [t \in Threads |-> FALSE] /\ cut = {}
    /\ turns = 0 /\ crashes = 0

-----------------------------------------------------------------------------
At(t, step) == pc[t] = step
Goto(t, step) == pc' = [pc EXCEPT ![t] = step]
SetOut(t, file) == out' = [out EXCEPT ![t] = file]
SetDone(t, n) == done' = [done EXCEPT ![t] = n]

\* A remote host is always asked; the others look into the cache first.
Begin(t, x) ==
    /\ pc[t] \in {"idle", "served"}
    /\ turns < MaxTurns
    /\ turns' = turns + 1
    /\ text' = [text EXCEPT ![t] = x]
    /\ SetOut(t, <<>>) /\ SetDone(t, 0)
    /\ hit' = [hit EXCEPT ![t] = FALSE]
    /\ Goto(t, IF backend = "remote" THEN "remote" ELSE "check")
    /\ UNCHANGED <<backend, cache, g_tts_audio, cut, crashes>>

\* The thread has a file with the audio of its text, or the beginning of it: the
\* rest was lost and nothing in the code tells.
Gets(t, n) ==
    /\ SetOut(t, First(text[t], n))
    /\ cut' = IF n = Blocks[text[t]] THEN cut ELSE cut \cup {text[t]}

\* The answer, which ffmpeg then brings to the rate of the robot if it can; that
\* it was written to the file is not looked at.
RemoteAnswers(t) ==
    /\ At(t, "remote")
    /\ \E n \in 0 .. Blocks[text[t]] : Gets(t, n)
    /\ Goto(t, "open")
    /\ UNCHANGED <<backend, cache, g_tts_audio, text, done, hit, bounds>>

\* Mutant of Fails: the status is not looked at, what there is of the audio is
\* kept, and cached.
FailsUnseen(t) ==
    /\ pc[t] \in {"remote", "command"} /\ backend # "missing"
    /\ SetOut(t, First(text[t], Blocks[text[t]] - 1))
    /\ Goto(t, "open")
    /\ UNCHANGED <<backend, cache, g_tts_audio, text, done, hit, cut, bounds>>

\* No answer, only a part of one, or one that is not 200; or a command that
\* exits with an error.  SynthesizeTts returns FALSE, the reply has no audio.
Fails(t) ==
    /\ pc[t] \in {"remote", "command"} /\ backend # "missing"
    /\ Goto(t, "idle")
    /\ UNCHANGED <<backend, cache, g_tts_audio, text, out, done, hit, cut, bounds>>

\* The file is there if it can be opened, whatever it holds.  With no such file,
\* or none to copy it to, the text is synthesised.
CheckCache(t) ==
    /\ At(t, "check")
    /\ \/ cache[GetCachePath(text[t])] # {} /\ Goto(t, "hit")
       \/ Goto(t, IF backend = "espeak" THEN "clear" ELSE "command")
    /\ UNCHANGED <<backend, cache, g_tts_audio, text, out, done, hit, cut, bounds>>

\* The cache file is copied to output_path: its next block, as it is now, ...
CopyHit(t) ==
    /\ At(t, "hit")
    /\ \E file \in cache[GetCachePath(text[t])] :
         /\ done[t] < Len(file)
         /\ SetOut(t, Append(out[t], file[done[t] + 1]))
    /\ SetDone(t, done[t] + 1)
    /\ UNCHANGED <<backend, cache, g_tts_audio, pc, text, hit, cut, bounds>>

\* ... until it has no more, which may be at once, or a write fails.
HitCopied(t) ==
    /\ At(t, "hit")
    /\ hit' = [hit EXCEPT ![t] = TRUE]
    /\ Goto(t, "served")
    /\ UNCHANGED <<backend, cache, g_tts_audio, text, out, done, cut, bounds>>

\* libespeak-ng: the buffer is emptied, ...
ClearAudio(t) ==
    /\ At(t, "clear")
    /\ g_tts_audio' = <<>>
    /\ Goto(t, "speak")
    /\ UNCHANGED <<backend, cache, text, out, done, hit, cut, bounds>>

\* ... the callback appends to it block by block, ...
AudioCallback(t) ==
    /\ At(t, "speak") /\ done[t] < Blocks[text[t]]
    /\ g_tts_audio' = Append(g_tts_audio, Block(text[t], done[t] + 1))
    /\ SetDone(t, done[t] + 1)
    /\ UNCHANGED <<backend, cache, pc, text, out, hit, cut, bounds>>

\* ... espeak_Synth returns, at once if it fails, ...
Spoken(t) ==
    /\ At(t, "speak")
    /\ \/ done[t] = Blocks[text[t]] /\ Goto(t, "take")
       \/ done[t] = 0 /\ Goto(t, "command")
    /\ SetDone(t, 0)
    /\ UNCHANGED <<backend, cache, g_tts_audio, text, out, hit, cut, bounds>>

\* ... and what is in the buffer then is written, through ffmpeg or directly, if
\* it can be.
TakeAudio(t) ==
    /\ At(t, "take")
    /\ \/ g_tts_audio # <<>> /\ SetOut(t, g_tts_audio) /\ Goto(t, "open")
       \/ Goto(t, "command") /\ UNCHANGED out
    /\ UNCHANGED <<backend, cache, g_tts_audio, text, done, hit, cut, bounds>>

\* edge_tts succeeds with all of the audio.
ProgramRuns(t) ==
    /\ At(t, "command") /\ backend = "program"
    /\ Gets(t, Blocks[text[t]])
    /\ Goto(t, "open")
    /\ UNCHANGED <<backend, cache, g_tts_audio, text, done, hit, bounds>>

\* piper or espeak-ng in front of ffmpeg: the status is ffmpeg's, which succeeds
\* with whatever it was fed.
PipeRuns(t) ==
    /\ At(t, "command") /\ backend \in {"pipe", "espeak"}
    /\ \E n \in 0 .. Blocks[text[t]] : Gets(t, n)
    /\ Goto(t, "open")
    /\ UNCHANGED <<backend, cache, g_tts_audio, text, done, hit, bounds>>

\* With none of them a silent file takes the place of the audio, if it can be
\* written, and is not cached.
NothingRuns(t) ==
    /\ At(t, "command") /\ backend = "missing"
    /\ \E file \in {Silence, <<>>} : SetOut(t, file)
    /\ Goto(t, "served")
    /\ UNCHANGED <<backend, cache, g_tts_audio, text, done, hit, cut, bounds>>

\* The cache file is opened, which empties it, or cannot be.
OpenCache(t) ==
    /\ At(t, "open")
    /\ \/ /\ cache' = [cache EXCEPT ![GetCachePath(text[t])] = {<<>>}]
          /\ Goto(t, "store")
       \/ Goto(t, "served") /\ UNCHANGED cache
    /\ UNCHANGED <<backend, g_tts_audio, text, out, done, hit, cut, bounds>>

\* A block written at a position: before it, what is there or a hole.
Written(file, block, i) ==
    [j \in 1 .. (IF i > Len(file) THEN i ELSE Len(file)) |->
        IF j = i THEN block ELSE IF j <= Len(file) THEN file[j] ELSE Hole]

StoreBlock(t) ==
    /\ At(t, "store") /\ done[t] < Len(out[t])
    /\ \E file \in cache[GetCachePath(text[t])] :
         cache' = [cache EXCEPT ![GetCachePath(text[t])] =
                     {Written(file, out[t][done[t] + 1], done[t] + 1)}]
    /\ SetDone(t, done[t] + 1)
    /\ UNCHANGED <<backend, g_tts_audio, pc, text, out, hit, cut, bounds>>

\* All is written, or a write has failed.
Stored(t) ==
    /\ At(t, "store")
    /\ cut' = IF done[t] >= Len(out[t]) THEN cut ELSE cut \cup {text[t]}
    /\ Goto(t, "served")
    /\ UNCHANGED <<backend, cache, g_tts_audio, text, out, done, hit, bounds>>

-----------------------------------------------------------------------------
\* The server ends, at any moment, and is started again as it was set up.
Restart ==
    /\ crashes < MaxCrashes
    /\ crashes' = crashes + 1
    /\ g_tts_audio' = <<>>
    /\ pc' = [t \in Threads |-> "idle"]
    /\ out' = [t \in Threads |-> <<>>]
    /\ done' = [t \in Threads |-> 0] /\ hit' = [t \in Threads |-> FALSE]
    /\ UNCHANGED <<backend, cache, text, cut, turns>>

SynthesizeTts(t) ==
    \/ \E x \in Texts : Begin(t, x)
    \/ RemoteAnswers(t) \/ Fails(t)
    \/ CheckCache(t) \/ CopyHit(t) \/ HitCopied(t)
    \/ ClearAudio(t) \/ AudioCallback(t) \/ Spoken(t) \/ TakeAudio(t)
    \/ ProgramRuns(t) \/ PipeRuns(t) \/ NothingRuns(t)
    \/ OpenCache(t) \/ StoreBlock(t) \/ Stored(t)

Next == (\E t \in Threads : SynthesizeTts(t)) \/ Restart

Spec == Init /\ [][Next]_synthesisVars

-----------------------------------------------------------------------------
(* Safety.                                                                 *)

\* What may stand at place i of a file of the cache: a hole, or the block of
\* that place of a text with this hash.
Fits(block, i, p) ==
    block = Hole \/ \E x \in Texts : Hash[x] = p /\ i <= Blocks[x] /\ block = Block(x, i)

\* Unless libespeak-ng is linked in, no robot hears anything that was said to
\* another: the file of a reply is the audio of its text, only the beginning of it
\* if some audio of the text was once cut short, or silence if the server has no
\* synthesiser.  Out of the cache it may be torn, but each block is in its place
\* and of a text with the same hash, although threads, failed writes and restarts
\* leave files half written.
OwnVoice ==
    backend # "espeak" =>
    \A t \in Threads : pc[t] = "served" =>
        IF hit[t] THEN \A i \in DOMAIN out[t] : Fits(out[t][i], i, Hash[text[t]])
        ELSE \/ out[t] = Audio(text[t])
             \/ text[t] \in cut /\ \E n \in 0 .. Blocks[text[t]] : out[t] = First(text[t], n)
             \/ backend = "missing" /\ out[t] \in {Silence, <<>>}

\* Threads that store the audio of one text at the same time empty the file
\* under each other and leave holes; when the last has finished the file is
\* whole all the same, or was never there.  Not so for a text whose audio was once
\* cut short, for two texts with one hash, after a restart, or with libespeak-ng.
Writes(t, p) == pc[t] = "store" /\ Hash[text[t]] = p

CacheSettles ==
    backend # "espeak" /\ crashes = 0 =>
    \A x \in Texts \ cut :
        /\ \A y \in Texts : Hash[y] = Hash[x] => y = x
        /\ \A t \in Threads : ~ Writes(t, Hash[x])
        => cache[Hash[x]] \in {{}, {Audio(x)}}
=============================================================================
