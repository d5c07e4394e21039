--------------------------- MODULE PipelineMemory ---------------------------
(***************************************************************************)
(* What PipelineBridge remembers: the conversation history of each         *)
(* session, the long-term facts of each user, the cache of LLM answers,    *)
(* and the files of the two memories, while the pipeline threads take      *)
(* turns through ProcessText or, when the server streams its replies,      *)
(* ProcessTextStream.                                                      *)
(*                                                                         *)
(* The memories are containers behind raw pointers, used without a lock:   *)
(* one call of a container is one step here, and two threads inside one    *)
(* container at once are out of the model.  Memory and skills are enabled  *)
(* and persist_dir is set, as in config.json.  The legacy file             *)
(* chat_<session>.json is read in a fall back but nothing writes it.       *)
(*                                                                         *)
(* A speaker's words are followed: a round, a fact and a reply keep whose  *)
(* data they are drawn from.  That and the owner of a fact are history     *)
(* variables; the code keeps neither.                                      *)
(***************************************************************************)
EXTENDS ChatMemory, MemorySkill, FiniteSets

CONSTANTS
    Users,       \* user ids that are not empty
    Sessions, Threads,
    SessionOf,   \* the session whose pipeline thread it is
    Texts,       \* [words: what was said, skill: what other skills take it for]
    Configs,     \* [streaming, max_rounds, max_tokens, function_calling]
    RoundTokens, \* estimates of the tokens of a round
    MaxLlmCacheEntries,
    MaxTurns,    \* bound on the turns begun
    MaxFailures, \* bound on the saves that fail
    MaxCrashes   \* bound on the restarts of the server

NoUser == ""     \* an empty user id; also: memory_ of MemorySkill is nullptr

ASSUME MemoryAssumption ==
    /\ {NoUser, "none", "clock", "skill"} \cap Users = {}
    /\ SessionOf \in [Threads -> Sessions]
    /\ \A c \in Configs : /\ c.streaming \in BOOLEAN
                           /\ c.max_rounds \in Nat /\ c.max_tokens \in Nat
    /\ RoundTokens \subseteq Nat

Owners == Users \cup {NoUser}

\* What an answer can be drawn from besides the words it answers: what somebody
\* said before, the time of day, or a skill that looks at the world.
Sources == Owners \cup {"clock", "skill"}

VARIABLES
    config,
    session_user_map, \* NotRegistered or a user id
    session_memories, \* the ChatMemory of each session, if any
    user_memories,    \* the entries of the UserMemoryStore of each user, if any
    memory_store,     \* whose store MemorySkill::memory_ points to
    memory_modified,  \* SkillManager::memory_modified_
    llm_cache,        \* the answer of each user and text, if any
    chat_file,        \* chat_<user>.json if it is there and parses
    fact_file,        \* user_memory_<user>.json if it is there and parses
    unsaved,          \* users whose last save of a chat failed: for a property alone
    turn,             \* the locals of each thread
    turns, failures, crashes

NotRegistered == "none"

memories == <<session_memories, user_memories, memory_store, memory_modified, llm_cache>>
files == <<chat_file, fact_file, unsaved>>
bounds == <<turns, failures, crashes>>
memoryVars == <<config, session_user_map, memories, files, turn, bounds>>

-----------------------------------------------------------------------------
Steps == {"idle", "point", "clean", "skill", "facts", "writefacts", "direct",
          "history", "lookup", "chat", "answered", "add", "open", "write"}

Idle == [pc |-> "idle", text |-> <<>>, user |-> NoUser, hit |-> "none",
         context |-> {}, history |-> <<>>, reply |-> {}, document |-> <<>>]

TypeOK ==
    /\ config \in Configs
    /\ session_user_map \in [Sessions -> Owners \cup {NotRegistered}]
    /\ \A s \in Sessions : Cardinality(session_memories[s]) <= 1
    /\ \A u \in Users :
         /\ Cardinality(user_memories[u]) <= 1
         /\ Cardinality(chat_file[u]) <= 1 /\ Cardinality(fact_file[u]) <= 1
         /\ \A e \in user_memories[u] : \A i \in DOMAIN e : e[i].owner \in Owners
    /\ memory_store \in Owners
    /\ memory_modified \in BOOLEAN
    /\ llm_cache \in [Owners \X Texts -> SUBSET SUBSET Sources]
    /\ unsaved \subseteq Owners
    /\ \A t \in Threads :
         /\ turn[t].pc \in Steps
         /\ turn[t].pc # "idle" => turn[t].user = session_user_map[SessionOf[t]]

Init ==
    /\ config \in Configs
    /\ session_user_map = [s \in Sessions |-> NotRegistered]
    /\ session_memories = [s \in Sessions |-> {}]
    /\ user_memories = [u \in Users |-> {}]
    /\ memory_store = NoUser
    /\ memory_modified = FALSE
    /\ llm_cache = [k \in Owners \X Texts |-> {}]
    /\ chat_file = [u \in Users |-> {}]
    /\ fact_file = [u \in Users |-> {}]
    /\ unsaved = {}
    /\ turn = [t \in Threads |-> Idle]
    /\ turns = 0
    /\ failures = 0
    /\ crashes = 0

-----------------------------------------------------------------------------
(* The maps, under memory_mutex_.                                          *)

\* Mutant of RegisterSessionUser: a session may change hands.
RegisterSessionUserAgain(s, user) ==
    /\ session_user_map' = [session_user_map EXCEPT ![s] = user]
    /\ UNCHANGED <<config, memories, files, turn, bounds>>

\* req_stream, on the read thread, before any audio of the session.
RegisterSessionUser(s, user) ==
    /\ session_user_map[s] = NotRegistered
    /\ session_user_map' = [session_user_map EXCEPT ![s] = user]
    /\ UNCHANGED <<config, memories, files, turn, bounds>>

\* Mutant of GetSessionMemory: the file's name lacks the user.
GetSessionMemoryAnyUser(s, user) ==
    LET new == NewChat(config.max_rounds, config.max_tokens)
        saved == UNION {chat_file[u] : u \in Users}
    IN  IF session_memories[s] # {} THEN session_memories[s]
        ELSE IF saved # {} THEN {LoadChat(new, d) : d \in saved} ELSE {new}

\* The chats GetSessionMemory may hand out: the one of the session, or a new
\* one with what the file of the user holds.
GetSessionMemory(s, user) ==
    LET new == NewChat(config.max_rounds, config.max_tokens)
        saved == IF user \in Users THEN chat_file[user] ELSE {}
    IN  IF session_memories[s] # {} THEN session_memories[s]
        ELSE IF saved # {} THEN {LoadChat(new, d) : d \in saved} ELSE {new}

\* The entries of the user's store, which is loaded when it is first asked for.
GetUserMemory(user) ==
    IF user_memories[user] # {} THEN user_memories[user]
    ELSE IF fact_file[user] # {} THEN fact_file[user] ELSE {<<>>}

-----------------------------------------------------------------------------
(* One turn of a pipeline thread.                                          *)

AtStep(t, pc) == turn[t].pc = pc
GoTo(t, pc) == turn' = [turn EXCEPT ![t].pc = pc]
Ends(t) == turn' = [turn EXCEPT ![t] = Idle]

\* The user is looked up.  (A filler word is answered before that, without a
\* trace in any memory.)
Begin(t, x) ==
    /\ AtStep(t, "idle")
    /\ turns < MaxTurns
    /\ session_user_map[SessionOf[t]] # NotRegistered
    /\ turn' = [turn EXCEPT ![t] =
         [Idle EXCEPT !.text = x, !.user = session_user_map[SessionOf[t]],
                      !.pc = IF config.streaming \/ session_user_map[SessionOf[t]] = NoUser
                             THEN "skill" ELSE "point"]]
    /\ turns' = turns + 1
    /\ UNCHANGED <<config, session_user_map, memories, files,
                   failures, crashes>>

PointAtUser(t) ==
    /\ AtStep(t, "point")
    /\ \E entries \in GetUserMemory(turn[t].user) :
         user_memories' = [user_memories EXCEPT ![turn[t].user] = {entries}]
    /\ memory_store' = turn[t].user
    /\ GoTo(t, "clean")
    /\ UNCHANGED <<config, session_user_map, session_memories, memory_modified,
                   llm_cache, files, bounds>>

ClearMemoryDirty(t) ==
    /\ AtStep(t, "clean")
    /\ memory_modified' = FALSE
    /\ GoTo(t, "skill")
    /\ UNCHANGED <<config, session_user_map, session_memories, user_memories,
                   memory_store, llm_cache, files, bounds>>

\* What detect_and_execute returns, and where the turn goes on.
Hit(t, hit, context) ==
    turn' = [turn EXCEPT ![t].hit = hit, ![t].context = context,
                         ![t].pc = CASE ~ config.streaming -> "facts"
                                     [] config.streaming /\ hit = "direct" -> "direct"
                                     [] OTHER -> "history"]

\* Mutant of MemorySkillRuns: what it forgets does not count as a change.
MemorySkillForgetsQuietly(t) ==
    IF memory_store = NoUser
    THEN /\ Hit(t, "context", {})
         /\ UNCHANGED <<user_memories, memory_modified>>
    ELSE \E entries \in user_memories[memory_store] :
           LET done == Execute(entries, turn[t].text.words, turn[t].user)
           IN  /\ user_memories' = [user_memories EXCEPT ![memory_store] = {done.entries}]
               /\ memory_modified' = (memory_modified \/ Len(done.entries) > Len(entries))
               /\ Hit(t, "context", {done.told[i].owner : i \in DOMAIN done.told})

\* The memory skill answers for whatever store it points to at this moment, and
\* counts as having modified it.
MemorySkillRuns(t) ==
    /\ memory_modified' = TRUE
    /\ IF memory_store = NoUser
       THEN /\ Hit(t, "context", {})
            /\ UNCHANGED user_memories
       ELSE \E entries \in user_memories[memory_store] :
              LET done == Execute(entries, turn[t].text.words, turn[t].user)
              IN  /\ user_memories' = [user_memories EXCEPT ![memory_store] = {done.entries}]
                  /\ Hit(t, "context", {done.told[i].owner : i \in DOMAIN done.told})

OtherSkillRuns(t, skill) ==
    /\ Hit(t, skill, IF skill = "context" THEN {"skill"} ELSE {})
    /\ UNCHANGED <<user_memories, memory_modified>>

\* Keywords first, in the order of the skills, the memory skill last; then the
\* tool the model chooses, any of them, if function calling is on.
DetectAndExecute(t) ==
    LET x == turn[t].text
        byModel == config.function_calling /\ x.skill = "none" /\ ~ Match(x.words)
    IN  /\ AtStep(t, "skill")
        /\ \/ x.skill # "none" /\ OtherSkillRuns(t, x.skill)
           \/ x.skill = "none" /\ Match(x.words) /\ MemorySkillRuns(t)
           \/ x.skill = "none" /\ ~ Match(x.words) /\ OtherSkillRuns(t, "none")
           \/ byModel /\ MemorySkillRuns(t)
           \/ byModel /\ \E skill \in {"direct", "context"} : OtherSkillRuns(t, skill)
        /\ UNCHANGED <<config, session_user_map, session_memories, memory_store,
                       llm_cache, files, bounds>>

\* A file is opened, which empties it, and written.  A second writer that opened
\* it meanwhile writes over the first: a shorter text leaves a rest behind.
OpenFile(file, user) == file' = [file EXCEPT ![user] = {}]
WriteFile(file, user, document) ==
    \E content \in {{document}} \cup (IF file[user] \in {{}, {document}} THEN {} ELSE {{}}) :
        file' = [file EXCEPT ![user] = content]

\* The open fails and the file stays as it was; or, once it is open, dump()
\* throws at a reply that is not UTF-8, or the disk is full and what was written
\* does not parse.  Nobody looks at what save_to_file returns.
SaveFails(file, user, open) ==
    /\ failures < MaxFailures
    /\ failures' = failures + 1
    /\ UNCHANGED <<turns, crashes>>
    /\ \/ UNCHANGED file
       \/ open /\ OpenFile(file, user)

AfterSkill(t) == IF turn[t].hit = "direct" THEN "direct" ELSE "history"

SaveFacts(t) ==
    /\ AtStep(t, "facts")
    /\ IF memory_modified /\ turn[t].user # NoUser
       THEN \/ /\ \E entries \in GetUserMemory(turn[t].user) :
                    turn' = [turn EXCEPT ![t].pc = "writefacts", ![t].document = entries]
               /\ OpenFile(fact_file, turn[t].user)
               /\ UNCHANGED bounds
            \/ SaveFails(fact_file, turn[t].user, FALSE) /\ GoTo(t, AfterSkill(t))
       ELSE GoTo(t, AfterSkill(t)) /\ UNCHANGED <<fact_file, bounds>>
    /\ UNCHANGED <<config, session_user_map, memories, chat_file, unsaved>>

WriteFacts(t) ==
    /\ AtStep(t, "writefacts")
    /\ \/ WriteFile(fact_file, turn[t].user, turn[t].document) /\ UNCHANGED bounds
       \/ SaveFails(fact_file, turn[t].user, TRUE)
    /\ GoTo(t, AfterSkill(t))
    /\ UNCHANGED <<config, session_user_map, memories, chat_file, unsaved>>

\* A direct answer goes to the TTS, or nowhere if the turn was cancelled; no
\* conversation memory is written.
DirectReply(t) ==
    /\ AtStep(t, "direct")
    /\ Ends(t)
    /\ UNCHANGED <<config, session_user_map, memories, files, bounds>>

GetHistory(t) ==
    /\ AtStep(t, "history")
    /\ \E chat \in GetSessionMemory(SessionOf[t], turn[t].user) :
         /\ session_memories' = [session_memories EXCEPT ![SessionOf[t]] = {chat}]
         /\ turn' = [turn EXCEPT ![t].history = chat.history,
                                 ![t].pc = IF config.streaming THEN "chat" ELSE "lookup"]
    /\ UNCHANGED <<config, session_user_map, user_memories, memory_store,
                   memory_modified, llm_cache, files, bounds>>

\* Mutant of Cacheable: whether there is a history is not looked at.
CacheableAlways(t) == turn[t].hit = "none"

Cacheable(t) == turn[t].hit = "none" /\ turn[t].history = <<>>
CacheKey(t) == <<turn[t].user, turn[t].text>>

LookUpAnswer(t) ==
    /\ AtStep(t, "lookup")
    /\ IF Cacheable(t) /\ llm_cache[CacheKey(t)] # {}
       THEN \E answer \in llm_cache[CacheKey(t)] :
              turn' = [turn EXCEPT ![t].reply = answer, ![t].pc = "add"]
       ELSE GoTo(t, "chat")
    /\ UNCHANGED <<config, session_user_map, memories, files, bounds>>

\* Chat or ChatStream.  The answer is drawn from all the model is given: the
\* time in the system prompt, the result of a skill and the history.
AskModel(t) ==
    LET seen == Range(turn[t].history)
    IN  /\ AtStep(t, "chat")
        /\ turn' = [turn EXCEPT ![t].pc = "answered",
              ![t].reply = {"clock"} \cup turn[t].context
                    \cup {r.speaker : r \in seen} \cup UNION {r.drawn : r \in seen}]
        /\ UNCHANGED <<config, session_user_map, memories, files, bounds>>

\* The cancel checks before and after the model, an empty answer, or no backend.
GivesUp(t) ==
    /\ turn[t].pc \in {"chat", "answered"}
    /\ Ends(t)
    /\ UNCHANGED <<config, session_user_map, memories, files, bounds>>

\* A full cache is emptied first.
CacheAnswer(t) ==
    LET size == Cardinality({k \in DOMAIN llm_cache : llm_cache[k] # {}})
    IN  /\ AtStep(t, "answered")
        /\ IF ~ config.streaming /\ Cacheable(t)
           THEN llm_cache' = [k \in DOMAIN llm_cache |->
                    IF k = CacheKey(t) THEN {turn[t].reply}
                    ELSE IF size >= MaxLlmCacheEntries THEN {} ELSE llm_cache[k]]
           ELSE UNCHANGED llm_cache
        /\ GoTo(t, "add")
        /\ UNCHANGED <<config, session_user_map, session_memories, user_memories,
                       memory_store, memory_modified, files, bounds>>

Remember(t) ==
    LET save == ~ config.streaming /\ turn[t].user # NoUser
    IN  /\ AtStep(t, "add")
        /\ \E chat \in GetSessionMemory(SessionOf[t], turn[t].user), n \in RoundTokens :
             session_memories' = [session_memories EXCEPT ![SessionOf[t]] =
                 {AddRound(chat, [speaker |-> turn[t].user, drawn |-> turn[t].reply,
                                  tokens |-> n])}]
        /\ IF save THEN GoTo(t, "open") ELSE Ends(t)
        /\ UNCHANGED <<config, session_user_map, user_memories, memory_store,
                       memory_modified, llm_cache, files, bounds>>

\* Mutant of OpenChatFile: what is saved is the history the model was given.
OpenChatFileEarly(t) ==
    /\ AtStep(t, "open")
    /\ \E chat \in session_memories[SessionOf[t]] :
         turn' = [turn EXCEPT ![t].pc = "write",
                    ![t].document = ChatDocument([chat EXCEPT !.history = turn[t].history])]
    /\ OpenFile(chat_file, turn[t].user)
    /\ UNCHANGED <<config, session_user_map, memories, fact_file, unsaved, bounds>>

\* Opened or not, then the last cancel check and the TTS, which touch no memory.
OpenChatFile(t) ==
    /\ AtStep(t, "open")
    /\ \/ /\ \E chat \in session_memories[SessionOf[t]] :
               turn' = [turn EXCEPT ![t].pc = "write", ![t].document = ChatDocument(chat)]
          /\ OpenFile(chat_file, turn[t].user)
          /\ UNCHANGED <<unsaved, bounds>>
       \/ /\ SaveFails(chat_file, turn[t].user, FALSE)
          /\ unsaved' = unsaved \cup {turn[t].user}
          /\ Ends(t)
    /\ UNCHANGED <<config, session_user_map, memories, fact_file>>

WriteChatFile(t) ==
    /\ AtStep(t, "write")
    /\ \/ /\ WriteFile(chat_file, turn[t].user, turn[t].document)
          /\ unsaved' = unsaved \ {turn[t].user}
          /\ UNCHANGED bounds
       \/ /\ SaveFails(chat_file, turn[t].user, TRUE)
          /\ unsaved' = unsaved \cup {turn[t].user}
    /\ Ends(t)
    /\ UNCHANGED <<config, session_user_map, memories, fact_file>>

-----------------------------------------------------------------------------
\* The server ends, at any moment, and is started again, perhaps with another
\* configuration: the files are all that is left.
Restart ==
    /\ crashes < MaxCrashes
    /\ crashes' = crashes + 1
    /\ config' \in Configs
    /\ session_user_map' = [s \in Sessions |-> NotRegistered]
    /\ session_memories' = [s \in Sessions |-> {}]
    /\ user_memories' = [u \in Users |-> {}]
    /\ memory_store' = NoUser
    /\ memory_modified' = FALSE
    /\ llm_cache' = [k \in Owners \X Texts |-> {}]
    /\ turn' = [t \in Threads |-> Idle]
    /\ unsaved' = {}
    /\ UNCHANGED <<chat_file, fact_file, turns, failures>>

TurnStep(t) ==
    \/ \E x \in Texts : Begin(t, x)
    \/ PointAtUser(t) \/ ClearMemoryDirty(t) \/ DetectAndExecute(t)
    \/ SaveFacts(t) \/ WriteFacts(t) \/ DirectReply(t)
    \/ GetHistory(t) \/ LookUpAnswer(t) \/ AskModel(t) \/ GivesUp(t) \/ CacheAnswer(t)
    \/ Remember(t) \/ OpenChatFile(t) \/ WriteChatFile(t)

Next ==
    \/ \E s \in Sessions, user \in Owners : RegisterSessionUser(s, user)
    \/ \E t \in Threads : TurnStep(t)
    \/ Restart

Spec == Init /\ [][Next]_memoryVars

-----------------------------------------------------------------------------
(* Safety.                                                                 *)

\* README.md:455: the conversation is kept by user id.  Whatever threads,
\* sessions and restarts do, the history of a session, the file of a user and
\* the history a model is given hold only rounds that this user spoke.
SpokenBy(history, user) == \A i \in DOMAIN history : history[i].speaker = user

HistoryIsOwn ==
    /\ \A s \in Sessions : \A chat \in session_memories[s] :
          SpokenBy(chat.history, session_user_map[s])
    /\ \A u \in Users : \A d \in chat_file[u] : SpokenBy(d.rounds, u)
    /\ \A t \in Threads : SpokenBy(turn[t].history, turn[t].user)

\* pipeline_bridge.cpp:471-474: the cache is for words that need no history and
\* no skill, by user.  A cached answer is drawn from the time of day at most,
\* so that it cannot carry one conversation, a fact or what a skill found into
\* another, whatever store the memory skill pointed to.
CacheIsImpersonal == \A k \in Owners \X Texts : llm_cache[k] \subseteq {{"clock"}}

\* chat_memory.h:10-11: the running total replaces the sum.  In every chat, also
\* one that was loaded, it is the sum, and both limits of the chat are kept.
ChatWithinLimits ==
    \A s \in Sessions : \A chat \in session_memories[s] :
        /\ chat.total_tokens = Tokens(chat.history)
        /\ chat.total_tokens <= chat.max_tokens
        /\ Len(chat.history) <= chat.max_rounds

\* pipeline_bridge.cpp:581: the conversation is saved for the next session of the
\* user.  When replies are not streamed and the user has one session with one
\* thread, the file is behind the memory only while it is written and after a
\* save that failed, until the next one makes up for it: a restart between two
\* turns loses nothing else.
SoleThread(t) ==
    /\ \A o \in Threads : SessionOf[o] = SessionOf[t] => o = t
    /\ \A s \in Sessions :
         session_user_map[s] = session_user_map[SessionOf[t]] => s = SessionOf[t]

ChatFileCurrent ==
    \A t \in Threads :
        /\ ~ config.streaming /\ SoleThread(t)
        /\ session_user_map[SessionOf[t]] \in Users \ unsaved
        /\ turn[t].pc \notin {"open", "write"}
        => \A chat \in session_memories[SessionOf[t]] :
             \/ chat.history = <<>>
             \/ chat_file[session_user_map[SessionOf[t]]] = {ChatDocument(chat)}

\* What the server will find in the file of the user's facts when the turn of
\* thread t has been through its save, and whether that is what the store holds.
FactsToCome(t, u) ==
    CASE AtStep(t, "facts") /\ memory_modified -> user_memories[u]
      [] AtStep(t, "writefacts") -> {turn[t].document}
      [] OTHER -> IF fact_file[u] = {} THEN {<<>>} ELSE fact_file[u]
FactsKept(t, u) == user_memories[u] \in {{}, FactsToCome(t, u)}

\* pipeline_bridge.cpp:389: what the skill changed is saved.  When replies are not
\* streamed and the user has one session with one thread, what was remembered or
\* forgotten is so after a restart too, unless the turn of somebody else clears
\* the mark before it is looked at, such a turn writes into the store by way of
\* the shared pointer, or a save fails.
FactsLostOnlyInRaces ==
    [][\A t \in Threads, u \in Users :
         /\ ~ config.streaming /\ SoleThread(t)
         /\ session_user_map[SessionOf[t]] = u
         /\ FactsKept(t, u) /\ ~ FactsKept(t, u)'
         => \/ \E o \in Threads \ {t} : /\ AtStep(t, "facts") /\ AtStep(o, "clean")
                                       /\ turn'[o].pc = "skill"
            \/ \E o \in Threads \ {t} : /\ memory_store = u /\ AtStep(o, "skill")
                                       /\ turn'[o].pc # "skill"
            \/ failures' > failures]_memoryVars
=============================================================================
