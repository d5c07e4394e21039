------------------------- MODULE PipelineMemoryProofs -------------------------
(***************************************************************************)
(* Proofs about PipelineMemory, whatever the threads, sessions, restarts,  *)
(* failed saves and configurations.  First the histories: each holds only  *)
(* rounds of its own user, keeps to its limits and agrees with its file,   *)
(* and the answer cache holds only answers that are drawn from the words   *)
(* and the time of day; the shared pointer of the memory skill cannot      *)
(* reach either.  Then the stores the skill works on: the variables stay   *)
(* in range, and the facts of a user are in the file after a turn but for  *)
(* two races with other turns and for a save that fails.                   *)
(***************************************************************************)
EXTENDS PipelineMemory, SequenceTheorems, FiniteSetTheorems, WellFoundedInduction, TLAPS

-----------------------------------------------------------------------------
(* The history: a non-empty set of natural numbers has a least element, so *)
(* Trim takes a suffix, and a suffix has no rounds of its own.             *)

LEMMA LeastNat ==
    ASSUME NEW T, T \subseteq Nat, T # {}
    PROVE  \E k \in T : \A l \in T : k <= l
<1> DEFINE R == OpToRel(<, Nat)
<1>1. \E x \in T : \A y \in T : ~ (<<y, x>> \in R)
  <2>1. IsWellFoundedOn(R, Nat)
    BY NatLessThanWellFounded
  <2> HIDE DEF R
  <2>2. QED
    BY <2>1, WFMin
<1>2. ASSUME NEW x \in T, NEW y \in T, ~ (<<y, x>> \in R)
      PROVE  x <= y
  <2>1. <<y, x>> \in Nat \X Nat
    OBVIOUS
  <2>2. ~ (y < x)
    BY <1>2, <2>1 DEF OpToRel
  <2>3. QED
    BY <2>2
<1>3. QED
  BY <1>1, <1>2

Fits(c, rounds, tokens) ==
    /\ Len(c.history) <= rounds
    /\ c.total_tokens <= tokens \/ c.history = <<>>

\* As few rounds as will do.
LEMMA TrimPops ==
    ASSUME NEW chat, Len(chat.history) \in Nat, chat.max_rounds \in Nat,
           chat = [history |-> chat.history, total_tokens |-> chat.total_tokens,
                   max_rounds |-> chat.max_rounds, max_tokens |-> chat.max_tokens]
    PROVE  \E k \in 0 .. Len(chat.history) :
             /\ Trim(chat) = PopFront(chat, k)
             /\ Fits(PopFront(chat, k), chat.max_rounds, chat.max_tokens)
             /\ \A l \in 0 .. k - 1 : ~ Fits(PopFront(chat, l), chat.max_rounds, chat.max_tokens)
<1> DEFINE pops == {k \in 0 .. Len(chat.history) :
                      Fits(PopFront(chat, k), chat.max_rounds, chat.max_tokens)}
           pick == CHOOSE k \in pops : \A l \in pops : k <= l
<1>1. Len(chat.history) \in pops
  <2>1. PopFront(chat, Len(chat.history)).history =
            SubSeq(chat.history, Len(chat.history) + 1, Len(chat.history))
    BY DEF PopFront
  <2>2. PopFront(chat, Len(chat.history)).history = <<>>
    BY <2>1, SubSeqEmpty
  <2>3. Fits(PopFront(chat, Len(chat.history)), chat.max_rounds, chat.max_tokens)
    BY <2>2 DEF Fits
  <2>4. QED
    BY <2>3
<1>2. pick \in pops /\ \A l \in pops : pick <= l
  <2>1. pops \subseteq Nat /\ pops # {}
    BY <1>1
  <2> HIDE DEF pops
  <2>2. \E k \in pops : \A l \in pops : k <= l
    BY <2>1, LeastNat
  <2>3. QED
    BY <2>2
<1>3. Trim(chat) = PopFront(chat, pick)
  BY DEF Trim, Fits
<1> HIDE DEF pick
<1>4. \A l \in 0 .. pick - 1 : l \in 0 .. Len(chat.history) /\ ~ (pick <= l)
  BY <1>2
<1>5. \A l \in 0 .. pick - 1 : ~ Fits(PopFront(chat, l), chat.max_rounds, chat.max_tokens)
  BY <1>2, <1>4
<1>6. QED
  BY <1>2, <1>3, <1>5

\* The rounds of a chat are its own to know: S is any set they are taken from.
LEMMA TrimTakesSuffix ==
    ASSUME NEW S, NEW chat, chat.history \in Seq(S), chat.max_rounds \in Nat,
           chat = [history |-> chat.history, total_tokens |-> chat.total_tokens,
                   max_rounds |-> chat.max_rounds, max_tokens |-> chat.max_tokens]
    PROVE  /\ Trim(chat).history \in Seq(S)
           /\ Trim(chat) = [history |-> Trim(chat).history,
                            total_tokens |-> Trim(chat).total_tokens,
                            max_rounds |-> chat.max_rounds, max_tokens |-> chat.max_tokens]
<1>1. Len(chat.history) \in Nat
  BY LenProperties
<1>2. PICK k \in 0 .. Len(chat.history) : Trim(chat) = PopFront(chat, k)
  BY <1>1, TrimPops
<1>3. PopFront(chat, k).history = SubSeq(chat.history, k + 1, Len(chat.history))
  BY DEF PopFront
<1>4. \A i \in k + 1 .. Len(chat.history) : chat.history[i] \in S
  BY <1>1, <1>2, LenProperties, ElementOfSeq
<1>5. SubSeq(chat.history, k + 1, Len(chat.history)) \in Seq(S)
  BY <1>1, <1>2, <1>4, SubSeqProperties
<1>6. QED
  BY <1>2, <1>3, <1>5 DEF PopFront

-----------------------------------------------------------------------------
(* The inductive invariant.                                                *)

\* A history of one speaker.
Own(history, user) ==
    \E S : history \in Seq(S) /\ \A r \in S : r.speaker = user

ChatShape(chat) ==
    /\ chat = [history |-> chat.history, total_tokens |-> chat.total_tokens,
               max_rounds |-> chat.max_rounds, max_tokens |-> chat.max_tokens]
    /\ chat.max_rounds \in Nat

OwnChat(chat, user) == ChatShape(chat) /\ Own(chat.history, user)
OwnDocument(d, user) == d.max_rounds \in Nat /\ Own(d.rounds, user)

TurnShape(r) ==
    r = [pc |-> r.pc, text |-> r.text, user |-> r.user, hit |-> r.hit,
         context |-> r.context, history |-> r.history, reply |-> r.reply,
         document |-> r.document]

MapsOK ==
    /\ config \in Configs
    /\ session_user_map \in [Sessions -> Owners \cup {NotRegistered}]
    /\ session_memories = [s \in Sessions |-> session_memories[s]]
    /\ chat_file = [u \in Users |-> chat_file[u]]
    /\ llm_cache = [k \in Owners \X Texts |-> llm_cache[k]]
    /\ turn = [t \in Threads |-> turn[t]]

ChatsOwn ==
    \A s \in Sessions :
        /\ \A chat \in session_memories[s] : OwnChat(chat, session_user_map[s])
        /\ session_user_map[s] = NotRegistered => session_memories[s] = {}

FilesOwn == \A u \in Users : \A d \in chat_file[u] : OwnDocument(d, u)

\* A turn r works for the user of its session; what it will write to the file is
\* that user's; and what it answers without a skill and without a history is
\* drawn from the time of day alone.
Working(r, user) ==
    /\ TurnShape(r)
    /\ Own(r.history, r.user)
    /\ r.pc # "idle" => r.user = user /\ user # NotRegistered
    /\ r.pc = "write" => OwnDocument(r.document, r.user)
    /\ r.hit = "none" => r.context = {}
    /\ r.pc = "answered" /\ r.hit = "none" /\ r.history = <<>> => r.reply = {"clock"}

TurnsOwn == \A t \in Threads : Working(turn[t], session_user_map[SessionOf[t]])

CacheOK == \A k \in Owners \X Texts : llm_cache[k] \subseteq {{"clock"}}

MemoryInv == MapsOK /\ ChatsOwn /\ FilesOwn /\ TurnsOwn /\ CacheOK

-----------------------------------------------------------------------------
LEMMA EmptyIsOwn == \A u : Own(<<>>, u)
<1> SUFFICES ASSUME NEW u PROVE Own(<<>>, u)
  OBVIOUS
<1> DEFINE S == [speaker : {u}]
<1>1. <<>> \in Seq(S)
  OBVIOUS
<1>2. \A r \in S : r.speaker = u
  OBVIOUS
<1> HIDE DEF S
<1>3. QED
  BY <1>1, <1>2 DEF Own

LEMMA OwnIsSpokenBy ==
    ASSUME NEW history, NEW user, Own(history, user)
    PROVE  SpokenBy(history, user)
<1>1. PICK S : history \in Seq(S) /\ \A r \in S : r.speaker = user
  BY DEF Own
<1>2. \A i \in DOMAIN history : history[i] \in S
  BY <1>1, LenProperties, ElementOfSeq
<1>3. QED
  BY <1>1, <1>2 DEF SpokenBy

\* A new chat is nobody's.
LEMMA NewChatIsOwn ==
    ASSUME NEW user, NEW rounds \in Nat, NEW tokens
    PROVE  OwnChat(NewChat(rounds, tokens), user)
  BY EmptyIsOwn DEF NewChat, OwnChat, ChatShape

LEMMA AddKeepsOwn ==
    ASSUME NEW chat, NEW user, OwnChat(chat, user), NEW round, round.speaker = user
    PROVE  OwnChat(AddRound(chat, round), user)
<1>1. PICK S : chat.history \in Seq(S) /\ \A r \in S : r.speaker = user
  BY DEF OwnChat, Own
<1> DEFINE T == S \cup {round}
           c == [history |-> Append(chat.history, round),
                 total_tokens |-> chat.total_tokens + round.tokens,
                 max_rounds |-> chat.max_rounds, max_tokens |-> chat.max_tokens]
<1>2. chat.history \in Seq(T) /\ \A r \in T : r.speaker = user
  <2>1. S \subseteq T
    OBVIOUS
  <2>2. chat.history \in Seq(T)
    BY <1>1, <2>1, SeqMonotonic
  <2>3. QED
    BY <1>1, <2>2
<1>3. Append(chat.history, round) \in Seq(T)
  BY <1>2, AppendProperties
<1>4. /\ c.history = Append(chat.history, round)
      /\ c.max_rounds = chat.max_rounds
      /\ c = [history |-> c.history, total_tokens |-> c.total_tokens,
              max_rounds |-> c.max_rounds, max_tokens |-> c.max_tokens]
  OBVIOUS
<1>5. AddRound(chat, round) = Trim(c)
  BY DEF AddRound
<1>6. c.max_rounds \in Nat
  BY <1>4 DEF OwnChat, ChatShape
<1> HIDE DEF c, T
<1>7. /\ Trim(c).history \in Seq(T)
      /\ Trim(c) = [history |-> Trim(c).history, total_tokens |-> Trim(c).total_tokens,
                    max_rounds |-> c.max_rounds, max_tokens |-> c.max_tokens]
  BY <1>3, <1>4, <1>6, TrimTakesSuffix
<1>8. ChatShape(Trim(c))
  BY <1>6, <1>7 DEF ChatShape
<1>9. QED
  BY <1>2, <1>5, <1>7, <1>8 DEF OwnChat, Own

LEMMA LoadIsOwn ==
    ASSUME NEW rounds \in Nat, NEW tokens, NEW user, NEW d, OwnDocument(d, user)
    PROVE  OwnChat(LoadChat(NewChat(rounds, tokens), d), user)
<1>1. PICK S : d.rounds \in Seq(S) /\ \A r \in S : r.speaker = user
  BY DEF OwnDocument, Own
<1> DEFINE new == NewChat(rounds, tokens)
           c == [history |-> new.history \o d.rounds,
                 total_tokens |-> new.total_tokens + Tokens(d.rounds),
                 max_rounds |-> d.max_rounds, max_tokens |-> d.max_tokens]
<1>2. c.history \in Seq(S)
  BY <1>1, ConcatEmptySeq DEF NewChat
<1>3. c.max_rounds \in Nat
  BY DEF OwnDocument
<1>4. c = [history |-> c.history, total_tokens |-> c.total_tokens,
           max_rounds |-> c.max_rounds, max_tokens |-> c.max_tokens]
  OBVIOUS
<1>5. LoadChat(new, d) = Trim(c)
  BY DEF LoadChat
<1> HIDE DEF c, new
<1>6. /\ Trim(c).history \in Seq(S)
      /\ Trim(c) = [history |-> Trim(c).history, total_tokens |-> Trim(c).total_tokens,
                    max_rounds |-> c.max_rounds, max_tokens |-> c.max_tokens]
  BY <1>2, <1>3, <1>4, TrimTakesSuffix
<1>7. ChatShape(Trim(c))
  BY <1>3, <1>6 DEF ChatShape
<1>8. QED
  BY <1>1, <1>5, <1>6, <1>7 DEF OwnChat, Own, new

LEMMA SavedIsOwn ==
    ASSUME NEW chat, NEW user, OwnChat(chat, user)
    PROVE  OwnDocument(ChatDocument(chat), user)
  BY DEF OwnChat, ChatShape, OwnDocument, ChatDocument

\* Whichever of the three sources a chat comes from, it is the user's own.
LEMMA SessionMemoryIsOwn ==
    ASSUME MemoryInv, NEW s \in Sessions, session_user_map[s] # NotRegistered,
           NEW chat \in GetSessionMemory(s, session_user_map[s])
    PROVE  OwnChat(chat, session_user_map[s])
<1> DEFINE user == session_user_map[s]
           new == NewChat(config.max_rounds, config.max_tokens)
<1>0. config.max_rounds \in Nat
  BY MemoryAssumption DEF MemoryInv, MapsOK
<1>1. CASE session_memories[s] # {}
  BY <1>1 DEF GetSessionMemory, MemoryInv, ChatsOwn
<1>2. CASE session_memories[s] = {} /\ user \in Users /\ chat_file[user] # {}
  <2>1. PICK d \in chat_file[user] : chat = LoadChat(new, d)
    BY <1>2 DEF GetSessionMemory
  <2>2. OwnDocument(d, user)
    BY <1>2 DEF MemoryInv, FilesOwn
  <2>3. QED
    BY <1>0, <2>1, <2>2, LoadIsOwn
<1>3. CASE session_memories[s] = {} /\ (user \notin Users \/ chat_file[user] = {})
  <2>1. chat = new
    BY <1>3 DEF GetSessionMemory
  <2>2. QED
    BY <1>0, <2>1, NewChatIsOwn
<1>4. QED
  BY <1>1, <1>2, <1>3

-----------------------------------------------------------------------------
(* The steps.                                                              *)

LEMMA InitMemory == Init => MemoryInv
<1> SUFFICES ASSUME Init PROVE MemoryInv
  OBVIOUS
<1>1. MapsOK /\ ChatsOwn /\ FilesOwn /\ CacheOK
  BY DEF Init, MapsOK, ChatsOwn, FilesOwn, CacheOK
<1>2. TurnsOwn
  BY EmptyIsOwn DEF Init, TurnsOwn, Working, TurnShape, Idle
<1>3. QED
  BY <1>1, <1>2 DEF MemoryInv

\* A step that changes one turn keeps TurnsOwn if the new turn works for the user.
LEMMA OneTurn ==
    ASSUME MemoryInv, NEW t \in Threads, NEW r,
           turn' = [turn EXCEPT ![t] = r], UNCHANGED session_user_map,
           Working(r, session_user_map[SessionOf[t]])
    PROVE  TurnsOwn' /\ turn' = [u \in Threads |-> turn'[u]]
<1>1. turn' = [u \in Threads |-> IF u = t THEN r ELSE turn[u]]
  BY DEF MemoryInv, MapsOK
<1>2. QED
  BY <1>1 DEF MemoryInv, TurnsOwn

LEMMA IdleWorks == \A user : Working(Idle, user)
  BY EmptyIsOwn DEF Working, TurnShape, Idle

\* Moving on is harmless, but to the two steps that must have earned it.
LEMMA MoveOnWorks ==
    ASSUME NEW r, NEW user, Working(r, user), NEW pc, r.pc # "idle",
           pc \notin {"write", "answered"}
    PROVE  Working([r EXCEPT !.pc = pc], user)
  BY DEF Working, TurnShape

\* The steps that only move a turn on, or end it.
LEMMA MovesKeepInv ==
    ASSUME MemoryInv, NEW t \in Threads, turn[t].pc # "idle",
           Ends(t) \/ \E pc : pc \notin {"write", "answered"} /\ GoTo(t, pc),
           UNCHANGED <<config, session_user_map, session_memories, llm_cache, chat_file>>
    PROVE  MemoryInv'
<1> DEFINE user == session_user_map[SessionOf[t]]
<1>1. Working(turn[t], user)
  BY DEF MemoryInv, TurnsOwn
<1>2. TurnsOwn' /\ turn' = [u \in Threads |-> turn'[u]]
  <2>1. CASE Ends(t)
    <3>1. Working(Idle, user)
      BY IdleWorks
    <3>2. QED
      BY <2>1, <3>1, OneTurn DEF Ends
  <2>2. ASSUME NEW pc, pc \notin {"write", "answered"}, GoTo(t, pc)
        PROVE  TurnsOwn' /\ turn' = [u \in Threads |-> turn'[u]]
    <3> DEFINE r == [turn[t] EXCEPT !.pc = pc]
    <3>1. Working(r, user)
      BY <1>1, <2>2, MoveOnWorks
    <3>2. turn' = [turn EXCEPT ![t] = r]
      BY <2>2 DEF GoTo
    <3> HIDE DEF r
    <3>3. QED
      BY <3>1, <3>2, OneTurn
  <2>3. QED
    BY <2>1, <2>2
<1>3. MapsOK' /\ ChatsOwn' /\ FilesOwn' /\ CacheOK'
  BY <1>2 DEF MemoryInv, MapsOK, ChatsOwn, FilesOwn, CacheOK, OwnChat, OwnDocument
<1>4. QED
  BY <1>2, <1>3 DEF MemoryInv

LEMMA RegisterKeepsInv ==
    ASSUME MemoryInv, NEW s \in Sessions, NEW user \in Owners, RegisterSessionUser(s, user)
    PROVE  MemoryInv'
<1> USE DEF RegisterSessionUser, memories, files
<1>1. MapsOK' /\ FilesOwn' /\ CacheOK'
  BY DEF MemoryInv, MapsOK, FilesOwn, CacheOK, OwnDocument
<1>2. \A r \in Sessions : r # s => session_user_map'[r] = session_user_map[r]
  BY DEF MemoryInv, MapsOK
<1>3. session_user_map'[s] = user /\ user # NotRegistered
  BY MemoryAssumption DEF MemoryInv, MapsOK, Owners, NoUser, NotRegistered
<1>4. ChatsOwn'
  BY <1>2, <1>3 DEF MemoryInv, ChatsOwn, OwnChat
<1>5. TurnsOwn'
  <2> SUFFICES ASSUME NEW t \in Threads
               PROVE  Working(turn[t], session_user_map'[SessionOf[t]])
    BY DEF TurnsOwn
  <2>1. Working(turn[t], session_user_map[SessionOf[t]])
    BY DEF MemoryInv, TurnsOwn
  <2>2. CASE SessionOf[t] = s
    BY <2>1, <2>2 DEF Working
  <2>3. CASE SessionOf[t] # s
    BY <1>2, <2>1, <2>3, MemoryAssumption
  <2>4. QED
    BY <2>2, <2>3
<1>6. QED
  BY <1>1, <1>4, <1>5 DEF MemoryInv

\* A step that gives a turn a new record, and leaves the histories, the answers and
\* the chat files alone.
LEMMA TurnStepKeepsInv ==
    ASSUME MemoryInv, NEW t \in Threads, NEW r,
           turn' = [turn EXCEPT ![t] = r],
           Working(r, session_user_map[SessionOf[t]]),
           UNCHANGED <<config, session_user_map, session_memories, llm_cache, chat_file>>
    PROVE  MemoryInv'
<1>1. TurnsOwn' /\ turn' = [u \in Threads |-> turn'[u]]
  BY OneTurn
<1>2. MapsOK' /\ ChatsOwn' /\ FilesOwn' /\ CacheOK'
  BY <1>1 DEF MemoryInv, MapsOK, ChatsOwn, FilesOwn, CacheOK, OwnChat, OwnDocument
<1>3. QED
  BY <1>1, <1>2 DEF MemoryInv

LEMMA BeginKeepsInv ==
    ASSUME MemoryInv, NEW t \in Threads, NEW x \in Texts, Begin(t, x)
    PROVE  MemoryInv'
<1> DEFINE user == session_user_map[SessionOf[t]]
           pc == IF config.streaming \/ user = NoUser THEN "skill" ELSE "point"
           r1 == [Idle EXCEPT !.text = x]
           r2 == [r1 EXCEPT !.user = user]
           r == [Idle EXCEPT !.text = x, !.user = user, !.pc = pc]
<1>1. turn' = [turn EXCEPT ![t] = r]
  BY DEF Begin
<1>2. pc \in {"skill", "point"} /\ user # NotRegistered
  BY DEF Begin
<1>3. r = [r2 EXCEPT !.pc = pc]
  OBVIOUS
<1> HIDE DEF pc
<1>4. r1 = [Idle EXCEPT !.text = x] /\ r2 = [r1 EXCEPT !.user = user]
  OBVIOUS
<1> HIDE DEF r, r1, r2
<1>5. r = [pc |-> pc, text |-> x, user |-> user, hit |-> "none", context |-> {},
           history |-> <<>>, reply |-> {}, document |-> <<>>]
  BY <1>3, <1>4 DEF Idle
<1>6. Working(r, user)
  BY <1>2, <1>5, EmptyIsOwn DEF Working, TurnShape
<1>7. UNCHANGED <<config, session_user_map, session_memories, llm_cache, chat_file>>
  BY DEF Begin, memories, files
<1>8. QED
  BY <1>1, <1>6, <1>7, TurnStepKeepsInv

\* A skill that gives the model something to go by is a hit.
LEMMA SkillKeepsInv ==
    ASSUME MemoryInv, NEW t \in Threads, DetectAndExecute(t)
    PROVE  MemoryInv'
<1> DEFINE user == session_user_map[SessionOf[t]]
<1>1. UNCHANGED <<config, session_user_map, session_memories, llm_cache, chat_file>>
  BY DEF DetectAndExecute, files
<1>2. \E hit, context : (hit = "none" => context = {}) /\ Hit(t, hit, context)
  BY DEF DetectAndExecute, MemorySkillRuns, OtherSkillRuns
<1>3. PICK hit, context : (hit = "none" => context = {}) /\ Hit(t, hit, context)
  BY <1>2
<1> DEFINE pc == CASE ~ config.streaming -> "facts"
                   [] config.streaming /\ hit = "direct" -> "direct"
                   [] OTHER -> "history"
           r == [turn[t] EXCEPT !.hit = hit, !.context = context, !.pc = pc]
<1>4. turn' = [turn EXCEPT ![t] = r]
  BY <1>3 DEF Hit
<1>5. pc \in {"facts", "direct", "history"}
  OBVIOUS
<1> HIDE DEF pc
<1>6. Working(turn[t], user) /\ turn[t].pc = "skill"
  BY DEF MemoryInv, TurnsOwn, DetectAndExecute, AtStep
<1> DEFINE r1 == [turn[t] EXCEPT !.hit = hit]
           r2 == [r1 EXCEPT !.context = context]
<1>7. Working(r, user)
  <2>1. r1 = [pc |-> turn[t].pc, text |-> turn[t].text, user |-> turn[t].user, hit |-> hit,
              context |-> turn[t].context, history |-> turn[t].history,
              reply |-> turn[t].reply, document |-> turn[t].document]
    BY <1>6 DEF Working, TurnShape
  <2>2. r = [r2 EXCEPT !.pc = pc]
    OBVIOUS
  <2> HIDE DEF r1
  <2>3. r2 = [r1 EXCEPT !.context = context]
    OBVIOUS
  <2> HIDE DEF r2, r
  <2>4. r = [pc |-> pc, text |-> turn[t].text, user |-> turn[t].user, hit |-> hit,
             context |-> context, history |-> turn[t].history,
             reply |-> turn[t].reply, document |-> turn[t].document]
    BY <2>1, <2>2, <2>3
  <2>5. QED
    BY <1>3, <1>5, <1>6, <2>4 DEF Working, TurnShape
<1> HIDE DEF r
<1>8. QED
  BY <1>1, <1>4, <1>7, TurnStepKeepsInv

LEMMA SaveFactsKeepsInv ==
    ASSUME MemoryInv, NEW t \in Threads, SaveFacts(t)
    PROVE  MemoryInv'
<1> DEFINE user == session_user_map[SessionOf[t]]
<1>1. UNCHANGED <<config, session_user_map, session_memories, llm_cache, chat_file>>
  BY DEF SaveFacts, memories
<1>2. Working(turn[t], user) /\ turn[t].pc = "facts"
  BY DEF MemoryInv, TurnsOwn, SaveFacts, AtStep
<1>3. CASE GoTo(t, AfterSkill(t))
  <2>1. AfterSkill(t) \notin {"write", "answered"}
    BY DEF AfterSkill
  <2>2. QED
    BY <1>1, <1>2, <1>3, <2>1, MovesKeepInv
<1>4. ASSUME NEW entries,
             turn' = [turn EXCEPT ![t].pc = "writefacts", ![t].document = entries]
      PROVE  MemoryInv'
  <2> DEFINE r1 == [turn[t] EXCEPT !.pc = "writefacts"]
             r == [r1 EXCEPT !.document = entries]
  <2>1. r1 = [pc |-> "writefacts", text |-> turn[t].text, user |-> turn[t].user,
              hit |-> turn[t].hit, context |-> turn[t].context,
              history |-> turn[t].history, reply |-> turn[t].reply,
              document |-> turn[t].document]
    BY <1>2 DEF Working, TurnShape
  <2>2. turn' = [turn EXCEPT ![t] = r]
    BY <1>4
  <2> HIDE DEF r1
  <2>3. Working(r, user)
    BY <1>2, <2>1 DEF Working, TurnShape
  <2> HIDE DEF r
  <2>4. QED
    BY <1>1, <2>2, <2>3, TurnStepKeepsInv
<1>5. QED
  BY <1>3, <1>4 DEF SaveFacts

LEMMA LookUpKeepsInv ==
    ASSUME MemoryInv, NEW t \in Threads, LookUpAnswer(t)
    PROVE  MemoryInv'
<1> DEFINE user == session_user_map[SessionOf[t]]
<1>1. UNCHANGED <<config, session_user_map, session_memories, llm_cache, chat_file>>
  BY DEF LookUpAnswer, memories, files
<1>2. Working(turn[t], user) /\ turn[t].pc = "lookup"
  BY DEF MemoryInv, TurnsOwn, LookUpAnswer, AtStep
<1>3. CASE GoTo(t, "chat")
  BY <1>1, <1>2, <1>3, MovesKeepInv
<1>4. ASSUME NEW answer, turn' = [turn EXCEPT ![t].reply = answer, ![t].pc = "add"]
      PROVE  MemoryInv'
  <2> DEFINE r1 == [turn[t] EXCEPT !.reply = answer]
             r == [r1 EXCEPT !.pc = "add"]
  <2>1. r1 = [pc |-> turn[t].pc, text |-> turn[t].text, user |-> turn[t].user,
              hit |-> turn[t].hit, context |-> turn[t].context,
              history |-> turn[t].history, reply |-> answer,
              document |-> turn[t].document]
    BY <1>2 DEF Working, TurnShape
  <2>2. turn' = [turn EXCEPT ![t] = r]
    BY <1>4
  <2> HIDE DEF r1
  <2>3. Working(r, user)
    BY <1>2, <2>1 DEF Working, TurnShape
  <2> HIDE DEF r
  <2>4. QED
    BY <1>1, <2>2, <2>3, TurnStepKeepsInv
<1>5. QED
  BY <1>3, <1>4 DEF LookUpAnswer

\* Without a skill and without a history the model has the words and the time.
LEMMA AskKeepsInv ==
    ASSUME MemoryInv, NEW t \in Threads, AskModel(t)
    PROVE  MemoryInv'
<1> DEFINE user == session_user_map[SessionOf[t]]
           seen == Range(turn[t].history)
           reply == {"clock"} \cup turn[t].context
                      \cup {m.speaker : m \in seen} \cup UNION {m.drawn : m \in seen}
           r1 == [turn[t] EXCEPT !.pc = "answered"]
           r == [r1 EXCEPT !.reply = reply]
<1>1. UNCHANGED <<config, session_user_map, session_memories, llm_cache, chat_file>>
  BY DEF AskModel, memories, files
<1>2. Working(turn[t], user) /\ turn[t].pc = "chat"
  BY DEF MemoryInv, TurnsOwn, AskModel, AtStep
<1>3. turn' = [turn EXCEPT ![t] = r]
  BY DEF AskModel
<1>4. turn[t].hit = "none" /\ turn[t].history = <<>> => reply = {"clock"}
  <2> SUFFICES ASSUME turn[t].hit = "none", turn[t].history = <<>> PROVE reply = {"clock"}
    OBVIOUS
  <2>1. seen = {}
    BY DEF Range
  <2>2. turn[t].context = {}
    BY <1>2 DEF Working
  <2>3. QED
    BY <2>1, <2>2
<1>5. r1 = [pc |-> "answered", text |-> turn[t].text, user |-> turn[t].user,
            hit |-> turn[t].hit, context |-> turn[t].context,
            history |-> turn[t].history, reply |-> turn[t].reply,
            document |-> turn[t].document]
  BY <1>2 DEF Working, TurnShape
<1> HIDE DEF r1, reply
<1>6. Working(r, user)
  BY <1>2, <1>4, <1>5 DEF Working, TurnShape
<1> HIDE DEF r
<1>7. QED
  BY <1>1, <1>3, <1>6, TurnStepKeepsInv

LEMMA CacheAnswerKeepsInv ==
    ASSUME MemoryInv, NEW t \in Threads, CacheAnswer(t)
    PROVE  MemoryInv'
<1> DEFINE user == session_user_map[SessionOf[t]]
           r == [turn[t] EXCEPT !.pc = "add"]
<1>1. Working(turn[t], user) /\ turn[t].pc = "answered"
  BY DEF MemoryInv, TurnsOwn, CacheAnswer, AtStep
<1>2. Working(r, user)
  BY <1>1, MoveOnWorks
<1>3. turn' = [turn EXCEPT ![t] = r] /\ UNCHANGED session_user_map
  BY DEF CacheAnswer, GoTo
<1> HIDE DEF r
<1>4. TurnsOwn' /\ turn' = [u \in Threads |-> turn'[u]]
  BY <1>2, <1>3, OneTurn
<1>5. CacheOK' /\ llm_cache' = [k \in Owners \X Texts |-> llm_cache'[k]]
  <2>1. CASE Cacheable(t)
    <3>1. turn[t].reply = {"clock"}
      BY <1>1, <2>1 DEF Working, Cacheable
    <3> DEFINE Keys == Owners \X Texts
    <3>2. llm_cache = [k \in Keys |-> llm_cache[k]] /\ \A k \in Keys : llm_cache[k] \subseteq {{"clock"}}
      BY DEF MemoryInv, MapsOK, CacheOK
    <3> HIDE DEF Keys
    <3>3. \/ llm_cache' = llm_cache
          \/ \E full : llm_cache' = [k \in DOMAIN llm_cache |->
                           IF k = CacheKey(t) THEN {turn[t].reply}
                           ELSE IF full THEN {} ELSE llm_cache[k]]
      BY DEF CacheAnswer
    <3>4. /\ \A k \in Keys : llm_cache'[k] \subseteq {{"clock"}}
          /\ llm_cache' = [k \in Keys |-> llm_cache'[k]]
      BY <3>1, <3>2, <3>3
    <3>5. QED
      BY <3>4 DEF CacheOK, Keys
  <2>2. CASE ~ Cacheable(t)
    BY <2>2 DEF CacheAnswer, MemoryInv, MapsOK, CacheOK
  <2>3. QED
    BY <2>1, <2>2
<1>6. MapsOK' /\ ChatsOwn' /\ FilesOwn'
  BY <1>4, <1>5 DEF CacheAnswer, files, MemoryInv, MapsOK, ChatsOwn, FilesOwn,
                    OwnChat, OwnDocument
<1>7. QED
  BY <1>4, <1>5, <1>6 DEF MemoryInv

\* A chat that is the user's own takes the place of the session's chat.
LEMMA ChatStepKeepsInv ==
    ASSUME MemoryInv, NEW t \in Threads, NEW r, NEW chat,
           session_user_map[SessionOf[t]] # NotRegistered,
           turn' = [turn EXCEPT ![t] = r],
           Working(r, session_user_map[SessionOf[t]]),
           session_memories' = [session_memories EXCEPT ![SessionOf[t]] = {chat}],
           OwnChat(chat, session_user_map[SessionOf[t]]),
           UNCHANGED <<config, session_user_map, llm_cache, chat_file>>
    PROVE  MemoryInv'
<1>1. TurnsOwn' /\ turn' = [u \in Threads |-> turn'[u]]
  BY OneTurn
<1>2. /\ session_memories' = [s \in Sessions |-> session_memories'[s]]
      /\ \A s \in Sessions : s # SessionOf[t] => session_memories'[s] = session_memories[s]
      /\ session_memories'[SessionOf[t]] = {chat}
  BY MemoryAssumption DEF MemoryInv, MapsOK
<1>3. ChatsOwn'
  <2> SUFFICES ASSUME NEW s \in Sessions
               PROVE  /\ \A c \in session_memories'[s] : OwnChat(c, session_user_map[s])
                      /\ session_user_map[s] = NotRegistered => session_memories'[s] = {}
    BY DEF ChatsOwn, OwnChat
  <2>1. CASE s = SessionOf[t]
    BY <1>2, <2>1
  <2>2. CASE s # SessionOf[t]
    BY <1>2, <2>2 DEF MemoryInv, ChatsOwn
  <2>3. QED
    BY <2>1, <2>2
<1>4. MapsOK' /\ FilesOwn' /\ CacheOK'
  BY <1>1, <1>2 DEF MemoryInv, MapsOK, FilesOwn, CacheOK, OwnDocument
<1>5. QED
  BY <1>1, <1>3, <1>4 DEF MemoryInv

LEMMA GetHistoryKeepsInv ==
    ASSUME MemoryInv, NEW t \in Threads, GetHistory(t)
    PROVE  MemoryInv'
<1> DEFINE user == session_user_map[SessionOf[t]]
           pc == IF config.streaming THEN "chat" ELSE "lookup"
<1>1. Working(turn[t], user) /\ turn[t].pc = "history"
  BY DEF MemoryInv, TurnsOwn, GetHistory, AtStep
<1>2. turn[t].user = user /\ user # NotRegistered
  BY <1>1 DEF Working
<1>3. PICK chat \in GetSessionMemory(SessionOf[t], user) :
        /\ session_memories' = [session_memories EXCEPT ![SessionOf[t]] = {chat}]
        /\ turn' = [turn EXCEPT ![t].history = chat.history, ![t].pc = pc]
  BY <1>2 DEF GetHistory
<1>4. OwnChat(chat, user)
  BY <1>2, SessionMemoryIsOwn, MemoryAssumption
<1> DEFINE r1 == [turn[t] EXCEPT !.history = chat.history]
           r == [r1 EXCEPT !.pc = pc]
<1>5. turn' = [turn EXCEPT ![t] = r]
  BY <1>3
<1>6. r1 = [pc |-> turn[t].pc, text |-> turn[t].text, user |-> turn[t].user,
            hit |-> turn[t].hit, context |-> turn[t].context,
            history |-> chat.history, reply |-> turn[t].reply,
            document |-> turn[t].document]
  BY <1>1 DEF Working, TurnShape
<1>7. pc \in {"chat", "lookup"}
  OBVIOUS
<1> HIDE DEF r1, pc
<1>8. Working(r, user)
  BY <1>1, <1>2, <1>4, <1>6, <1>7 DEF Working, TurnShape, OwnChat
<1>9. UNCHANGED <<config, session_user_map, llm_cache, chat_file>>
  BY DEF GetHistory, files
<1> HIDE DEF r
<1>10. QED
  BY <1>2, <1>3, <1>4, <1>5, <1>8, <1>9, ChatStepKeepsInv

LEMMA RememberKeepsInv ==
    ASSUME MemoryInv, NEW t \in Threads, Remember(t)
    PROVE  MemoryInv'
<1> DEFINE user == session_user_map[SessionOf[t]]
<1>1. Working(turn[t], user) /\ turn[t].pc = "add"
  BY DEF MemoryInv, TurnsOwn, Remember, AtStep
<1>2. turn[t].user = user /\ user # NotRegistered
  BY <1>1 DEF Working
<1>3. PICK chat \in GetSessionMemory(SessionOf[t], user), n \in RoundTokens :
        session_memories' = [session_memories EXCEPT ![SessionOf[t]] =
            {AddRound(chat, [speaker |-> user, drawn |-> turn[t].reply, tokens |-> n])}]
  BY <1>2 DEF Remember
<1> DEFINE round == [speaker |-> user, drawn |-> turn[t].reply, tokens |-> n]
<1>4. OwnChat(chat, user)
  BY <1>2, SessionMemoryIsOwn, MemoryAssumption
<1>5. OwnChat(AddRound(chat, round), user)
  <2>1. round.speaker = user
    OBVIOUS
  <2>2. QED
    BY <1>4, <2>1, AddKeepsOwn
<1>6. UNCHANGED <<config, session_user_map, llm_cache, chat_file>>
  BY DEF Remember, files
<1>7. CASE GoTo(t, "open")
  <2> DEFINE r == [turn[t] EXCEPT !.pc = "open"]
  <2>1. Working(r, user)
    BY <1>1, MoveOnWorks
  <2>2. turn' = [turn EXCEPT ![t] = r]
    BY <1>7 DEF GoTo
  <2> HIDE DEF r
  <2>3. QED
    BY <1>2, <1>3, <1>5, <1>6, <2>1, <2>2, ChatStepKeepsInv
<1>8. CASE Ends(t)
  BY <1>2, <1>3, <1>5, <1>6, <1>8, IdleWorks, ChatStepKeepsInv DEF Ends
<1>9. QED
  BY <1>7, <1>8 DEF Remember

\* A step that changes one turn and the chat file of its user.
LEMMA FileStepKeepsInv ==
    ASSUME MemoryInv, NEW t \in Threads, NEW r, NEW user, NEW content,
           turn' = [turn EXCEPT ![t] = r],
           Working(r, session_user_map[SessionOf[t]]),
           chat_file' = [chat_file EXCEPT ![user] = content],
           \A d \in content : OwnDocument(d, user),
           UNCHANGED <<config, session_user_map, session_memories, llm_cache>>
    PROVE  MemoryInv'
<1>1. TurnsOwn' /\ turn' = [u \in Threads |-> turn'[u]]
  BY OneTurn
<1>2. chat_file' = [u \in Users |-> IF u = user THEN content ELSE chat_file[u]]
  BY DEF MemoryInv, MapsOK
<1>3. FilesOwn'
  <2> SUFFICES ASSUME NEW u \in Users, NEW d \in chat_file'[u] PROVE OwnDocument(d, u)
    BY DEF FilesOwn, OwnDocument
  <2>1. CASE u = user
    BY <1>2, <2>1
  <2>2. CASE u # user
    BY <1>2, <2>2 DEF MemoryInv, FilesOwn
  <2>3. QED
    BY <2>1, <2>2
<1>4. MapsOK' /\ ChatsOwn' /\ CacheOK'
  BY <1>1, <1>2 DEF MemoryInv, MapsOK, ChatsOwn, CacheOK, OwnChat
<1>5. QED
  BY <1>1, <1>3, <1>4 DEF MemoryInv

LEMMA OpenKeepsInv ==
    ASSUME MemoryInv, NEW t \in Threads, OpenChatFile(t)
    PROVE  MemoryInv'
<1> DEFINE user == session_user_map[SessionOf[t]]
<1>1. Working(turn[t], user) /\ turn[t].pc = "open"
  BY DEF MemoryInv, TurnsOwn, OpenChatFile, AtStep
<1>2. turn[t].user = user /\ user # NotRegistered
  BY <1>1 DEF Working
<1>0. UNCHANGED <<config, session_user_map, session_memories, llm_cache>>
  BY DEF OpenChatFile, memories
<1> SUFFICES ASSUME NEW chat \in session_memories[SessionOf[t]],
                    turn' = [turn EXCEPT ![t].pc = "write", ![t].document = ChatDocument(chat)],
                    OpenFile(chat_file, turn[t].user)
             PROVE  MemoryInv'
  <2>1. CASE Ends(t) /\ UNCHANGED chat_file
    BY <1>0, <1>1, <2>1, MovesKeepInv
  <2>2. QED
    BY <2>1 DEF OpenChatFile, SaveFails
<1>4. OwnDocument(ChatDocument(chat), user)
  BY SavedIsOwn, MemoryAssumption DEF MemoryInv, ChatsOwn
<1> DEFINE r1 == [turn[t] EXCEPT !.pc = "write"]
           r == [r1 EXCEPT !.document = ChatDocument(chat)]
<1>5. turn' = [turn EXCEPT ![t] = r]
  OBVIOUS
<1>6. r1 = [pc |-> "write", text |-> turn[t].text, user |-> turn[t].user,
            hit |-> turn[t].hit, context |-> turn[t].context,
            history |-> turn[t].history, reply |-> turn[t].reply,
            document |-> turn[t].document]
  BY <1>1 DEF Working, TurnShape
<1> HIDE DEF r1
<1>7. Working(r, user)
  BY <1>1, <1>2, <1>4, <1>6 DEF Working, TurnShape
<1> DEFINE nothing == {}
<1>8. /\ chat_file' = [chat_file EXCEPT ![user] = nothing]
      /\ UNCHANGED <<config, session_user_map, session_memories, llm_cache>>
  BY <1>0, <1>2 DEF OpenFile
<1> HIDE DEF r
<1>9. \A d \in nothing : OwnDocument(d, user)
  OBVIOUS
<1> HIDE DEF nothing
<1>10. QED
  BY <1>5, <1>7, <1>8, <1>9, FileStepKeepsInv

LEMMA WriteKeepsInv ==
    ASSUME MemoryInv, NEW t \in Threads, WriteChatFile(t)
    PROVE  MemoryInv'
<1> DEFINE user == session_user_map[SessionOf[t]]
<1>1. Working(turn[t], user) /\ turn[t].pc = "write"
  BY DEF MemoryInv, TurnsOwn, WriteChatFile, AtStep
<1>2. turn[t].user = user /\ OwnDocument(turn[t].document, user)
  BY <1>1 DEF Working
<1>3. \/ UNCHANGED chat_file
      \/ \E content \in {{turn[t].document}, {}} : chat_file' = [chat_file EXCEPT ![user] = content]
  <2> DEFINE nothing == {}
  <2>1. nothing \in {{turn[t].document}, {}}
    OBVIOUS
  <2>2. OpenFile(chat_file, user) => chat_file' = [chat_file EXCEPT ![user] = nothing]
    BY DEF OpenFile
  <2> HIDE DEF nothing
  <2>3. QED
    BY <1>2, <2>1, <2>2 DEF WriteChatFile, WriteFile, SaveFails
<1>4. turn' = [turn EXCEPT ![t] = Idle] /\ UNCHANGED <<config, session_user_map, session_memories, llm_cache>>
  BY DEF WriteChatFile, Ends, memories
<1>5. CASE UNCHANGED chat_file
  BY <1>1, <1>4, <1>5, MovesKeepInv DEF Ends
<1>6. ASSUME NEW content \in {{turn[t].document}, {}},
             chat_file' = [chat_file EXCEPT ![user] = content]
      PROVE  MemoryInv'
  <2>1. \A d \in content : OwnDocument(d, user)
    BY <1>2
  <2>2. QED
    BY <1>4, <1>6, <2>1, IdleWorks, FileStepKeepsInv
<1>7. QED
  BY <1>3, <1>5, <1>6

LEMMA RestartKeepsInv ==
    ASSUME MemoryInv, Restart
    PROVE  MemoryInv'
<1>1. MapsOK' /\ ChatsOwn' /\ FilesOwn' /\ CacheOK'
  BY DEF Restart, files, MemoryInv, MapsOK, ChatsOwn, FilesOwn, CacheOK, OwnDocument
<1>2. TurnsOwn'
  BY IdleWorks DEF Restart, TurnsOwn
<1>3. QED
  BY <1>1, <1>2 DEF MemoryInv

LEMMA NextKeepsInv ==
    ASSUME MemoryInv, [Next]_memoryVars
    PROVE  MemoryInv'
<1> USE DEF memories, files
<1>1. ASSUME NEW s \in Sessions, NEW user \in Owners, RegisterSessionUser(s, user)
      PROVE  MemoryInv'
  BY <1>1, RegisterKeepsInv
<1>2. ASSUME NEW t \in Threads, TurnStep(t)
      PROVE  MemoryInv'
  <2>1. ASSUME PointAtUser(t) PROVE MemoryInv'
    BY <2>1, MovesKeepInv DEF PointAtUser, AtStep
  <2>2. ASSUME ClearMemoryDirty(t) PROVE MemoryInv'
    BY <2>2, MovesKeepInv DEF ClearMemoryDirty, AtStep
  <2>3. ASSUME WriteFacts(t) PROVE MemoryInv'
    BY <2>3, MovesKeepInv DEF WriteFacts, AtStep, AfterSkill
  <2>4. ASSUME DirectReply(t) \/ GivesUp(t) PROVE MemoryInv'
    BY <2>4, MovesKeepInv DEF DirectReply, GivesUp, AtStep
  <2>5. QED
    BY <1>2, <2>1, <2>2, <2>3, <2>4, BeginKeepsInv, SkillKeepsInv, SaveFactsKeepsInv,
       GetHistoryKeepsInv, LookUpKeepsInv, AskKeepsInv, CacheAnswerKeepsInv,
       RememberKeepsInv, OpenKeepsInv, WriteKeepsInv DEF TurnStep
<1>3. CASE UNCHANGED memoryVars
  <2>1. MapsOK' /\ ChatsOwn' /\ FilesOwn' /\ CacheOK'
    BY <1>3 DEF memoryVars, MemoryInv, MapsOK, ChatsOwn, FilesOwn, CacheOK, OwnChat, OwnDocument
  <2>2. TurnsOwn'
    BY <1>3 DEF memoryVars, MemoryInv, TurnsOwn
  <2>3. QED
    BY <2>1, <2>2 DEF MemoryInv
<1>4. QED
  BY <1>1, <1>2, <1>3, RestartKeepsInv DEF Next

LEMMA MemoryInvHolds == Spec => []MemoryInv
  BY InitMemory, NextKeepsInv, PTL DEF Spec

-----------------------------------------------------------------------------
(* The sum of the tokens.  Tokens is a recursive function; that there is   *)
(* one, and only one, follows by induction over its domain, which here is  *)
(* an appeal to the least number that is missing, or wrong.                *)

Counted(history) == \E S : history \in Seq(S) /\ \A r \in S : r.tokens \in Nat

\* sum is the function of the partial sums up to n.
SumsUpTo(sum, history, n) ==
    \A i \in 0 .. n : sum[i] = IF i = 0 THEN 0 ELSE sum[i - 1] + history[i].tokens

LEMMA CountedIsTyped ==
    ASSUME NEW history, Counted(history)
    PROVE  /\ Len(history) \in Nat
           /\ DOMAIN history = 1 .. Len(history)
           /\ \A i \in 1 .. Len(history) : history[i].tokens \in Nat
BY LenProperties, ElementOfSeq DEF Counted

\* Two functions of partial sums agree, and their values are natural numbers.
LEMMA SumsAgree ==
    ASSUME NEW history, NEW n \in Nat, \A i \in 1 .. n : history[i].tokens \in Nat,
           NEW f, NEW g, SumsUpTo(f, history, n), SumsUpTo(g, history, n)
    PROVE  \A i \in 0 .. n : f[i] \in Nat /\ f[i] = g[i]
<1> DEFINE Wrong == {i \in 0 .. n : ~ (f[i] \in Nat /\ f[i] = g[i])}
<1> SUFFICES ASSUME Wrong # {} PROVE FALSE
  OBVIOUS
<1>1. PICK i \in Wrong : \A j \in Wrong : i <= j
  <2>1. Wrong \subseteq Nat
    OBVIOUS
  <2> HIDE DEF Wrong
  <2>2. QED
    BY <2>1, LeastNat
<1>2. i \in 0 .. n /\ i # 0
  BY <1>1 DEF SumsUpTo
<1>3. i \in 1 .. n /\ i - 1 \in 0 .. n /\ ~ (i <= i - 1)
  BY <1>2
<1>4. f[i - 1] \in Nat /\ f[i - 1] = g[i - 1]
  BY <1>1, <1>3
<1>5. f[i] = f[i - 1] + history[i].tokens /\ g[i] = g[i - 1] + history[i].tokens
  BY <1>2 DEF SumsUpTo
<1>6. f[i] \in Nat /\ f[i] = g[i]
  BY <1>3, <1>4, <1>5
<1>7. QED
  BY <1>1, <1>6

LEMMA SumsExist ==
    ASSUME NEW history, NEW N \in Nat
    PROVE  \E sum : sum = [i \in 0 .. N |->
                             IF i = 0 THEN 0 ELSE sum[i - 1] + history[i].tokens]
<1> DEFINE Body(f, i) == IF i = 0 THEN 0 ELSE f[i - 1] + history[i].tokens
           Sums(f, n) == f = [i \in 0 .. n |-> Body(f, i)]
           Missing == {n \in Nat : \A f : ~ Sums(f, n)}
<1>1. ASSUME NEW n \in Nat \ {0}, NEW f, Sums(f, n - 1)
      PROVE  \E g : Sums(g, n)
  <2> DEFINE g == [i \in 0 .. n |-> IF i = n THEN Body(f, n) ELSE f[i]]
  <2>1. ASSUME NEW i \in 0 .. n
        PROVE  g[i] = Body(g, i)
    <3>1. CASE i = n
      <4>1. g[i] = Body(f, n) /\ g[n - 1] = f[n - 1] /\ n # 0
        BY <3>1
      <4>2. QED
        BY <3>1, <4>1
    <3>2. CASE i = 0
      BY <1>1, <3>2
    <3>3. CASE i \in 1 .. n - 1
      <4>1. i \in 0 .. n - 1 /\ i - 1 \in 0 .. n - 1 /\ i # n /\ i - 1 # n
        BY <3>3
      <4>2. g[i] = f[i] /\ g[i - 1] = f[i - 1]
        BY <4>1
      <4>3. f[i] = Body(f, i)
        BY <1>1, <4>1
      <4>4. QED
        BY <4>2, <4>3
    <3>4. QED
      BY <3>1, <3>2, <3>3
  <2>2. g = [i \in 0 .. n |-> Body(g, i)]
    <3> HIDE DEF Body
    <3>1. QED
      BY <2>1
  <2>3. QED
    BY <2>2
<1>2. Sums([i \in 0 .. 0 |-> 0], 0)
  OBVIOUS
<1>3. Missing = {}
  <2> SUFFICES ASSUME Missing # {} PROVE FALSE
    OBVIOUS
  <2> HIDE DEF Sums
  <2>1. PICK n \in Missing : \A m \in Missing : n <= m
    <3>1. Missing \subseteq Nat
      OBVIOUS
    <3> HIDE DEF Missing
    <3>2. QED
      BY <3>1, LeastNat
  <2>2. n \in Nat \ {0} /\ n - 1 \in Nat
    BY <1>2
  <2>3. n - 1 \notin Missing
    BY <2>1, <2>2
  <2>4. \E f : Sums(f, n - 1)
    BY <2>2, <2>3
  <2>5. QED
    BY <1>1, <2>1, <2>2, <2>4
<1>4. \E f : Sums(f, N)
  <2> HIDE DEF Sums
  <2>1. QED
    BY <1>3
<1>5. QED
  BY <1>4

\* Any function of partial sums ends in Tokens.
LEMMA TokensIsTheSum ==
    ASSUME NEW history, Counted(history)
    PROVE  /\ \E sum : SumsUpTo(sum, history, Len(history)) /\ Tokens(history) = sum[Len(history)]
           /\ \A sum : SumsUpTo(sum, history, Len(history)) => Tokens(history) = sum[Len(history)]
           /\ Tokens(history) \in Nat
<1> DEFINE N == Len(history)
           Sum == CHOOSE sum : sum = [i \in 0 .. N |->
                                 IF i = 0 THEN 0 ELSE sum[i - 1] + history[i].tokens]
<1>1. N \in Nat /\ N \in 0 .. N /\ \A i \in 1 .. N : history[i].tokens \in Nat
  BY CountedIsTyped
<1>2. Sum = [i \in 0 .. N |-> IF i = 0 THEN 0 ELSE Sum[i - 1] + history[i].tokens]
  BY <1>1, SumsExist
<1>3. Tokens(history) = Sum[N]
  BY DEF Tokens
<1> HIDE DEF Sum
<1>4. SumsUpTo(Sum, history, N)
  BY <1>2 DEF SumsUpTo
<1>5. \A sum : SumsUpTo(sum, history, N) => \A i \in 0 .. N : Sum[i] \in Nat /\ Sum[i] = sum[i]
  BY <1>1, <1>4, SumsAgree
<1>6. QED
  BY <1>1, <1>3, <1>4, <1>5

LEMMA TokensOfNone == Counted(<<>>) /\ Tokens(<<>>) = 0
<1>1. Counted(<<>>)
  <2> DEFINE S == [tokens : Nat]
  <2>1. <<>> \in Seq(S) /\ \A r \in S : r.tokens \in Nat
    OBVIOUS
  <2> HIDE DEF S
  <2>2. QED
    BY <2>1 DEF Counted
<1>2. PICK sum : SumsUpTo(sum, <<>>, Len(<<>>)) /\ Tokens(<<>>) = sum[Len(<<>>)]
  BY <1>1, TokensIsTheSum
<1>3. Len(<<>>) = 0
  OBVIOUS
<1>4. QED
  BY <1>1, <1>2, <1>3 DEF SumsUpTo

LEMMA TokensOfAppend ==
    ASSUME NEW history, Counted(history), NEW round, round.tokens \in Nat
    PROVE  /\ Counted(Append(history, round))
           /\ Tokens(Append(history, round)) = Tokens(history) + round.tokens
<1> DEFINE more == Append(history, round)
           n == Len(history)
<1>1. PICK S : history \in Seq(S) /\ \A r \in S : r.tokens \in Nat
  BY DEF Counted
<1>2. history \in Seq(S \cup {round}) /\ round \in S \cup {round}
  BY <1>1, SeqMonotonic
<1>3. /\ more \in Seq(S \cup {round}) /\ Len(more) = n + 1 /\ n \in Nat
      /\ more[n + 1] = round /\ \A i \in 1 .. n : more[i] = history[i]
  BY <1>2, AppendProperties, LenProperties
<1> HIDE DEF more
<1>4. Counted(more)
  BY <1>1, <1>3 DEF Counted
<1>5. PICK sum : SumsUpTo(sum, more, n + 1) /\ Tokens(more) = sum[n + 1]
  BY <1>3, <1>4, TokensIsTheSum
<1>6. SumsUpTo(sum, history, n)
  <2> SUFFICES ASSUME NEW i \in 0 .. n
               PROVE  sum[i] = IF i = 0 THEN 0 ELSE sum[i - 1] + history[i].tokens
    BY DEF SumsUpTo
  <2>1. i \in 0 .. n + 1 /\ (i # 0 => more[i] = history[i])
    BY <1>3
  <2>2. sum[i] = IF i = 0 THEN 0 ELSE sum[i - 1] + more[i].tokens
    BY <1>5, <2>1 DEF SumsUpTo
  <2>3. QED
    BY <2>1, <2>2
<1>7. Tokens(history) = sum[n]
  BY <1>6, TokensIsTheSum
<1>8. sum[n + 1] = sum[n] + round.tokens
  <2>1. n + 1 \in 0 .. n + 1 /\ n + 1 # 0 /\ (n + 1) - 1 = n
    BY <1>3
  <2>2. QED
    BY <1>3, <1>5, <2>1 DEF SumsUpTo
<1>9. QED
  BY <1>4, <1>5, <1>7, <1>8 DEF more

\* What the popped rounds and the rest add up to.
LEMMA TokensOfParts ==
    ASSUME NEW history, Counted(history), NEW k \in 0 .. Len(history)
    PROVE  /\ Counted(SubSeq(history, k + 1, Len(history)))
           /\ Len(SubSeq(history, k + 1, Len(history))) = Len(history) - k
           /\ Tokens(SubSeq(history, k + 1, Len(history))) =
                 Tokens(history) - Tokens(SubSeq(history, 1, k))
<1> DEFINE n == Len(history)
           front == SubSeq(history, 1, k)
           back == SubSeq(history, k + 1, n)
<1>1. PICK S : history \in Seq(S) /\ \A r \in S : r.tokens \in Nat
  BY DEF Counted
<1>2. n \in Nat /\ k \in Nat /\ k <= n /\ \A i \in 1 .. n : history[i] \in S
  BY <1>1, LenProperties, ElementOfSeq
<1>3. front \in Seq(S) /\ Len(front) = k /\ \A i \in 1 .. k : front[i] = history[i]
  <2>1. \A i \in 1 .. k : history[i] \in S
    BY <1>2
  <2> HIDE DEF front
  <2>2. /\ front \in Seq(S) /\ Len(front) = IF 1 <= k THEN k - 1 + 1 ELSE 0
        /\ \A i \in 1 .. k - 1 + 1 : front[i] = history[1 + i - 1]
    BY <1>2, <2>1, SubSeqProperties DEF front
  <2>3. \A i \in 1 .. k : 1 + i - 1 = i
    BY <1>2
  <2>4. QED
    BY <1>2, <2>2, <2>3
<1>4. back \in Seq(S) /\ Len(back) = n - k /\ \A i \in 1 .. n - k : back[i] = history[k + i]
  <2>1. \A i \in k + 1 .. n : history[i] \in S
    BY <1>2
  <2> HIDE DEF back
  <2>2. /\ back \in Seq(S) /\ Len(back) = IF k + 1 <= n THEN n - (k + 1) + 1 ELSE 0
        /\ \A i \in 1 .. n - (k + 1) + 1 : back[i] = history[(k + 1) + i - 1]
    BY <1>2, <2>1, SubSeqProperties DEF back
  <2>3. n - (k + 1) + 1 = n - k /\ \A i \in 1 .. n - k : (k + 1) + i - 1 = k + i
    BY <1>2
  <2>4. Len(back) = n - k
    BY <1>2, <2>2
  <2>5. ASSUME NEW i \in 1 .. n - k PROVE back[i] = history[k + i]
    BY <2>2, <2>3
  <2>6. QED
    BY <2>2, <2>4, <2>5
<1> HIDE DEF front, back
<1>5. Counted(front) /\ Counted(back)
  BY <1>1, <1>3, <1>4 DEF Counted
<1>6. PICK sum : SumsUpTo(sum, history, n) /\ Tokens(history) = sum[n]
  BY TokensIsTheSum
<1>7. \A i \in 0 .. n : sum[i] \in Nat
  BY <1>2, <1>6, CountedIsTyped, SumsAgree
<1>8. Tokens(front) = sum[k]
  <2>1. SumsUpTo(sum, front, k)
    <3> SUFFICES ASSUME NEW i \in 0 .. k
                 PROVE  sum[i] = IF i = 0 THEN 0 ELSE sum[i - 1] + front[i].tokens
      BY DEF SumsUpTo
    <3>1. i \in 0 .. n /\ (i # 0 => front[i] = history[i])
      BY <1>2, <1>3
    <3>2. sum[i] = IF i = 0 THEN 0 ELSE sum[i - 1] + history[i].tokens
      BY <1>6, <3>1 DEF SumsUpTo
    <3>3. QED
      BY <3>1, <3>2
  <2>2. QED
    BY <1>3, <1>5, <2>1, TokensIsTheSum
<1>9. Tokens(back) = sum[n] - sum[k]
  <2> DEFINE rest == [i \in 0 .. n - k |-> sum[k + i] - sum[k]]
  <2>1. SumsUpTo(rest, back, n - k)
    <3> SUFFICES ASSUME NEW i \in 0 .. n - k
                 PROVE  rest[i] = IF i = 0 THEN 0 ELSE rest[i - 1] + back[i].tokens
      BY DEF SumsUpTo
    <3>1. CASE i = 0
      <4>1. k \in 0 .. n /\ k + i = k
        BY <1>2, <3>1
      <4>2. QED
        BY <1>7, <3>1, <4>1
    <3>2. CASE i # 0
      <4>1. /\ i - 1 \in 0 .. n - k /\ k + i \in 0 .. n /\ k + i # 0
            /\ (k + i) - 1 = k + (i - 1) /\ k + (i - 1) \in 0 .. n /\ k \in 0 .. n
            /\ i \in 1 .. n - k /\ k + i \in 1 .. n
        BY <1>2, <3>2
      <4>2. sum[k + i] = sum[k + (i - 1)] + history[k + i].tokens
        BY <1>6, <4>1 DEF SumsUpTo
      <4>3. rest[i] = sum[k + i] - sum[k] /\ rest[i - 1] = sum[k + (i - 1)] - sum[k]
        BY <4>1
      <4>4. back[i] = history[k + i] /\ history[k + i].tokens \in Nat
        BY <1>1, <1>2, <1>4, <4>1
      <4>5. sum[k] \in Nat /\ sum[k + (i - 1)] \in Nat
        BY <1>7, <4>1
      <4> HIDE DEF rest
      <4>6. rest[i] = rest[i - 1] + history[k + i].tokens
        BY <4>2, <4>3, <4>4, <4>5
      <4>7. QED
        BY <3>2, <4>4, <4>6
    <3>3. QED
      BY <3>1, <3>2
  <2>2. rest[n - k] = sum[n] - sum[k]
    BY <1>2
  <2> HIDE DEF rest
  <2>3. QED
    BY <1>4, <1>5, <2>1, <2>2, TokensIsTheSum
<1>10. QED
  BY <1>4, <1>5, <1>6, <1>8, <1>9 DEF front, back

-----------------------------------------------------------------------------
(* Totals and limits.                                                      *)

WithinLimits(chat) ==
    /\ ChatShape(chat) /\ chat.max_tokens \in Nat
    /\ Counted(chat.history)
    /\ chat.total_tokens = Tokens(chat.history)
    /\ chat.total_tokens <= chat.max_tokens
    /\ Len(chat.history) <= chat.max_rounds

SavedWithinLimits(d) ==
    /\ d = [rounds |-> d.rounds, max_rounds |-> d.max_rounds, max_tokens |-> d.max_tokens]
    /\ d.max_rounds \in Nat /\ d.max_tokens \in Nat
    /\ Counted(d.rounds)
    /\ Tokens(d.rounds) <= d.max_tokens
    /\ Len(d.rounds) <= d.max_rounds

\* Popping keeps the total the sum.
LEMMA PopKeepsTotal ==
    ASSUME NEW chat, ChatShape(chat), Counted(chat.history),
           chat.total_tokens = Tokens(chat.history), NEW k \in 0 .. Len(chat.history)
    PROVE  LET c == PopFront(chat, k)
           IN  /\ c = [history |-> SubSeq(chat.history, k + 1, Len(chat.history)),
                       total_tokens |-> Tokens(SubSeq(chat.history, k + 1, Len(chat.history))),
                       max_rounds |-> chat.max_rounds, max_tokens |-> chat.max_tokens]
               /\ Counted(c.history)
<1> DEFINE back == SubSeq(chat.history, k + 1, Len(chat.history))
           c == PopFront(chat, k)
<1>1. Counted(back) /\ Tokens(back) = Tokens(chat.history) - Tokens(SubSeq(chat.history, 1, k))
  BY TokensOfParts
<1>2. c = [history |-> back,
           total_tokens |-> chat.total_tokens - Tokens(SubSeq(chat.history, 1, k)),
           max_rounds |-> chat.max_rounds, max_tokens |-> chat.max_tokens]
  <2> DEFINE gone == Tokens(SubSeq(chat.history, 1, k))
             r1 == [chat EXCEPT !.history = back]
  <2>1. c = [r1 EXCEPT !.total_tokens = @ - gone]
    BY DEF PopFront
  <2> HIDE DEF c, gone, back
  <2>2. r1 = [history |-> back, total_tokens |-> chat.total_tokens,
              max_rounds |-> chat.max_rounds, max_tokens |-> chat.max_tokens]
    BY DEF ChatShape
  <2> HIDE DEF r1
  <2>3. c = [history |-> back, total_tokens |-> chat.total_tokens - gone,
             max_rounds |-> chat.max_rounds, max_tokens |-> chat.max_tokens]
    BY <2>1, <2>2
  <2>4. QED
    BY <2>3 DEF gone
<1> HIDE DEF back, c
<1>3. c = [history |-> back, total_tokens |-> Tokens(back),
           max_rounds |-> chat.max_rounds, max_tokens |-> chat.max_tokens]
  BY <1>1, <1>2
<1>4. QED
  BY <1>1, <1>3 DEF back, c

LEMMA TrimKeepsLimits ==
    ASSUME NEW chat, ChatShape(chat), Counted(chat.history), chat.max_tokens \in Nat,
           chat.total_tokens = Tokens(chat.history)
    PROVE  WithinLimits(Trim(chat))
<1>1. Len(chat.history) \in Nat
  BY CountedIsTyped
<1>2. PICK k \in 0 .. Len(chat.history) :
        /\ Trim(chat) = PopFront(chat, k)
        /\ Fits(PopFront(chat, k), chat.max_rounds, chat.max_tokens)
  BY <1>1, TrimPops DEF ChatShape
<1> DEFINE c == PopFront(chat, k)
           back == SubSeq(chat.history, k + 1, Len(chat.history))
<1>3. /\ c = [history |-> back, total_tokens |-> Tokens(back),
              max_rounds |-> chat.max_rounds, max_tokens |-> chat.max_tokens]
      /\ Counted(c.history)
  BY PopKeepsTotal
<1>4. Len(c.history) <= chat.max_rounds /\ (c.total_tokens <= chat.max_tokens \/ c.history = <<>>)
  BY <1>2 DEF Fits
<1> HIDE DEF c, back
<1>5. c.history = <<>> => c.total_tokens = 0
  BY <1>3, TokensOfNone
<1>6. WithinLimits(c)
  BY <1>3, <1>4, <1>5 DEF WithinLimits, ChatShape
<1>7. QED
  BY <1>2, <1>6 DEF c

LEMMA NewChatWithinLimits ==
    ASSUME NEW rounds \in Nat, NEW tokens \in Nat
    PROVE  WithinLimits(NewChat(rounds, tokens))
<1>1. Len(<<>>) = 0
  OBVIOUS
<1>2. QED
  BY <1>1, TokensOfNone DEF NewChat, WithinLimits, ChatShape

LEMMA AddKeepsLimits ==
    ASSUME NEW chat, WithinLimits(chat), NEW round, round.tokens \in Nat
    PROVE  WithinLimits(AddRound(chat, round))
<1> DEFINE c == [history |-> Append(chat.history, round),
                 total_tokens |-> chat.total_tokens + round.tokens,
                 max_rounds |-> chat.max_rounds, max_tokens |-> chat.max_tokens]
<1>1. /\ Counted(Append(chat.history, round))
      /\ Tokens(Append(chat.history, round)) = chat.total_tokens + round.tokens
  BY TokensOfAppend DEF WithinLimits
<1>2. /\ ChatShape(c) /\ Counted(c.history) /\ c.max_tokens \in Nat
      /\ c.total_tokens = Tokens(c.history)
  BY <1>1 DEF WithinLimits, ChatShape
<1>3. AddRound(chat, round) = Trim(c)
  BY DEF AddRound
<1> HIDE DEF c
<1>4. QED
  BY <1>2, <1>3, TrimKeepsLimits

\* What was saved fits, so that loading it into a new chat pops nothing.
LEMMA LoadWithinLimits ==
    ASSUME NEW rounds, NEW tokens, NEW d, SavedWithinLimits(d)
    PROVE  /\ WithinLimits(LoadChat(NewChat(rounds, tokens), d))
           /\ ChatDocument(LoadChat(NewChat(rounds, tokens), d)) = d
<1> DEFINE new == NewChat(rounds, tokens)
           c == [history |-> new.history \o d.rounds,
                 total_tokens |-> new.total_tokens + Tokens(d.rounds),
                 max_rounds |-> d.max_rounds, max_tokens |-> d.max_tokens]
<1>1. /\ Counted(d.rounds) /\ Tokens(d.rounds) \in Nat
      /\ Len(d.rounds) \in Nat
  BY TokensIsTheSum, CountedIsTyped DEF SavedWithinLimits
<1>2. new.history = <<>> /\ new.total_tokens = 0
  BY DEF NewChat
<1>3. <<>> \o d.rounds = d.rounds
  BY <1>1, ConcatEmptySeq DEF Counted
<1>4. LoadChat(new, d) = Trim(c)
  BY DEF LoadChat
<1>5. c = [history |-> d.rounds, total_tokens |-> Tokens(d.rounds),
           max_rounds |-> d.max_rounds, max_tokens |-> d.max_tokens]
  BY <1>1, <1>2, <1>3
<1> HIDE DEF c, new
<1>6. ChatShape(c) /\ WithinLimits(c)
  BY <1>5 DEF SavedWithinLimits, WithinLimits, ChatShape
<1>7. PICK k \in 0 .. Len(c.history) :
        /\ Trim(c) = PopFront(c, k)
        /\ \A l \in 0 .. k - 1 : ~ Fits(PopFront(c, l), c.max_rounds, c.max_tokens)
  BY <1>1, <1>5, <1>6, TrimPops DEF ChatShape
<1>8. PopFront(c, 0) = c
  <2>1. SubSeq(c.history, 0 + 1, Len(c.history)) = c.history
    <3>1. PICK S : c.history \in Seq(S)
      BY <1>6 DEF WithinLimits, Counted
    <3>2. QED
      BY <3>1
  <2>2. 0 \in 0 .. Len(c.history)
    BY <1>1, <1>5
  <2>3. PopFront(c, 0) = [history |-> SubSeq(c.history, 0 + 1, Len(c.history)),
                          total_tokens |-> Tokens(SubSeq(c.history, 0 + 1, Len(c.history))),
                          max_rounds |-> c.max_rounds, max_tokens |-> c.max_tokens]
    BY <1>6, <2>2, PopKeepsTotal DEF WithinLimits
  <2>4. QED
    BY <1>6, <2>1, <2>3 DEF WithinLimits, ChatShape
<1>9. k = 0
  <2>1. Fits(c, c.max_rounds, c.max_tokens)
    BY <1>6 DEF WithinLimits, Fits
  <2>2. 0 \notin 0 .. k - 1
    BY <1>7, <1>8, <2>1
  <2>3. QED
    BY <1>1, <1>5, <2>2
<1>10. Trim(c) = c
  BY <1>7, <1>8, <1>9
<1>11. ChatDocument(c) = d
  BY <1>5 DEF ChatDocument, SavedWithinLimits
<1>12. QED
  BY <1>4, <1>6, <1>10, <1>11 DEF new

LEMMA SavedIsWithinLimits ==
    ASSUME NEW chat, WithinLimits(chat)
    PROVE  SavedWithinLimits(ChatDocument(chat))
  BY DEF WithinLimits, ChatShape, SavedWithinLimits, ChatDocument

-----------------------------------------------------------------------------
(* The chats, their files, and what is on its way from one to the other.   *)

AtMostOne(S) == \A a, b \in S : a = b

ChatsSingle ==
    /\ \A s \in Sessions : AtMostOne(session_memories[s])
    /\ \A u \in Users : AtMostOne(chat_file[u])

LimitsKept ==
    /\ \A s \in Sessions : \A chat \in session_memories[s] : WithinLimits(chat)
    /\ \A u \in Users : \A d \in chat_file[u] : SavedWithinLimits(d)
    /\ \A t \in Threads : turn[t].pc = "write" => SavedWithinLimits(turn[t].document)

\* While the file is written it is empty, and what will be written is the chat.
WritingIsCurrent ==
    \A t \in Threads :
        /\ ~ config.streaming /\ SoleThread(t)
        /\ session_user_map[SessionOf[t]] \in Users
        /\ turn[t].pc = "write"
        => /\ chat_file[session_user_map[SessionOf[t]]] = {}
           /\ \A chat \in session_memories[SessionOf[t]] :
                turn[t].document = ChatDocument(chat)

ChatInv == ChatsSingle /\ LimitsKept /\ ChatFileCurrent /\ WritingIsCurrent

\* A step of a turn that has nothing to do with the chats.
Quietly(t) ==
    /\ UNCHANGED <<config, session_user_map, session_memories, chat_file, unsaved>>
    /\ \A o \in Threads \ {t} : turn'[o] = turn[o]
    /\ turn[t].pc \notin {"open", "write"} /\ turn'[t].pc \notin {"open", "write"}

QuietStep(t) ==
    \/ \E x \in Texts : Begin(t, x)
    \/ PointAtUser(t) \/ ClearMemoryDirty(t) \/ DetectAndExecute(t)
    \/ SaveFacts(t) \/ WriteFacts(t) \/ DirectReply(t)
    \/ LookUpAnswer(t) \/ AskModel(t) \/ GivesUp(t) \/ CacheAnswer(t)

\* The turn of a thread is a record with all its fields, before and after a step.
LEMMA TurnsAreRecords ==
    ASSUME MemoryInv
    PROVE  turn = [t \in Threads |-> turn[t]] /\ \A t \in Threads : TurnShape(turn[t])
  BY DEF MemoryInv, MapsOK, TurnsOwn, Working

LEMMA QuietSteps ==
    ASSUME MemoryInv, NEW t \in Threads, QuietStep(t)
    PROVE  Quietly(t)
<1>1. /\ UNCHANGED <<config, session_user_map, session_memories, chat_file, unsaved>>
      /\ turn[t].pc \notin {"open", "write"}
  BY DEF QuietStep, Begin, PointAtUser, ClearMemoryDirty, DetectAndExecute, SaveFacts,
         WriteFacts, DirectReply, LookUpAnswer, AskModel, GivesUp, CacheAnswer,
         memories, files, AtStep
<1> DEFINE Moved == /\ \A o \in Threads \ {t} : turn'[o] = turn[o]
                    /\ turn'[t].pc \notin {"open", "write"}
<1>0. turn = [u \in Threads |-> turn[u]] /\ TurnShape(turn[t])
  BY TurnsAreRecords
<1>2. ASSUME NEW pc, pc \notin {"open", "write"}, GoTo(t, pc) PROVE Moved
  BY <1>0, <1>2 DEF GoTo, TurnShape
<1>3. ASSUME Ends(t) PROVE Moved
  <2>1. Idle.pc = "idle"
    BY DEF Idle
  <2>2. QED
    BY <1>0, <1>3, <2>1 DEF Ends
<1>4. ASSUME NEW x \in Texts, Begin(t, x) PROVE Moved
  <2> DEFINE pc == IF config.streaming \/ session_user_map[SessionOf[t]] = NoUser
                   THEN "skill" ELSE "point"
             r == [Idle EXCEPT !.text = x, !.user = session_user_map[SessionOf[t]], !.pc = pc]
  <2>1. turn' = [turn EXCEPT ![t] = r]
    BY <1>4 DEF Begin
  <2>2. r.pc = pc
    BY DEF Idle
  <2>3. pc \notin {"open", "write"}
    OBVIOUS
  <2> HIDE DEF pc, r
  <2>4. QED
    BY <1>0, <2>1, <2>2, <2>3
<1>5. ASSUME DetectAndExecute(t) PROVE Moved
  <2>1. PICK hit, context : Hit(t, hit, context)
    BY <1>5 DEF DetectAndExecute, MemorySkillRuns, OtherSkillRuns
  <2> DEFINE pc == CASE ~ config.streaming -> "facts"
                     [] config.streaming /\ hit = "direct" -> "direct"
                     [] OTHER -> "history"
             r == [turn[t] EXCEPT !.hit = hit, !.context = context, !.pc = pc]
  <2>2. turn' = [turn EXCEPT ![t] = r]
    BY <2>1 DEF Hit
  <2>3. pc \notin {"open", "write"}
    OBVIOUS
  <2> HIDE DEF pc
  <2>4. r.pc = pc
    BY <1>0 DEF TurnShape
  <2> HIDE DEF r
  <2>5. QED
    BY <1>0, <2>2, <2>3, <2>4
<1>6. ASSUME NEW entries,
             turn' = [turn EXCEPT ![t].pc = "writefacts", ![t].document = entries]
      PROVE  Moved
  <2> DEFINE r == [turn[t] EXCEPT !.pc = "writefacts", !.document = entries]
  <2>1. turn' = [turn EXCEPT ![t] = r]
    BY <1>6
  <2>2. r.pc = "writefacts"
    BY <1>0 DEF TurnShape
  <2> HIDE DEF r
  <2>3. QED
    BY <1>0, <2>1, <2>2
<1>7. ASSUME NEW answer, NEW pc \in {"add", "answered"},
             \/ turn' = [turn EXCEPT ![t].reply = answer, ![t].pc = pc]
             \/ turn' = [turn EXCEPT ![t].pc = pc, ![t].reply = answer]
      PROVE  Moved
  <2> DEFINE r == [turn[t] EXCEPT !.reply = answer, !.pc = pc]
             q == [turn[t] EXCEPT !.pc = pc, !.reply = answer]
  <2>1. turn' = [turn EXCEPT ![t] = r] \/ turn' = [turn EXCEPT ![t] = q]
    BY <1>7
  <2>2. r.pc = pc /\ q.pc = pc
    BY <1>0 DEF TurnShape
  <2> HIDE DEF r, q
  <2>3. QED
    BY <1>0, <2>1, <2>2
<1>8. Moved
  <2> HIDE DEF Moved
  <2>1. CASE PointAtUser(t) \/ ClearMemoryDirty(t) \/ WriteFacts(t) \/ CacheAnswer(t)
    BY <1>2, <2>1 DEF PointAtUser, ClearMemoryDirty, WriteFacts, CacheAnswer, AfterSkill
  <2>2. CASE DirectReply(t) \/ GivesUp(t)
    BY <1>3, <2>2 DEF DirectReply, GivesUp
  <2>3. CASE SaveFacts(t)
    BY <1>2, <1>6, <2>3 DEF SaveFacts, AfterSkill
  <2>4. CASE LookUpAnswer(t)
    BY <1>2, <1>7, <2>4 DEF LookUpAnswer
  <2>5. CASE AskModel(t)
    BY <1>7, <2>5 DEF AskModel
  <2>6. QED
    BY <1>4, <1>5, <2>1, <2>2, <2>3, <2>4, <2>5 DEF QuietStep
<1>9. QED
  BY <1>1, <1>8 DEF Quietly

LEMMA QuietKeepsChats ==
    ASSUME MemoryInv, ChatInv, NEW t \in Threads, Quietly(t)
    PROVE  ChatInv'
<1> USE DEF Quietly
<1>1. ChatsSingle'
  BY DEF ChatInv, ChatsSingle, AtMostOne
<1>2. LimitsKept'
  BY DEF ChatInv, LimitsKept
<1>3. \A o \in Threads :
        /\ turn'[o].pc \in {"open", "write"} <=> turn[o].pc \in {"open", "write"}
        /\ turn'[o].pc = "write" => turn'[o] = turn[o] /\ turn[o].pc = "write"
        /\ SoleThread(o)' <=> SoleThread(o)
  <2>1. \A o \in Threads : SoleThread(o)' <=> SoleThread(o)
    BY DEF SoleThread
  <2>2. QED
    BY <2>1
<1>4. ChatFileCurrent'
  BY <1>3 DEF ChatInv, ChatFileCurrent
<1>5. WritingIsCurrent'
  BY <1>3 DEF ChatInv, WritingIsCurrent
<1>6. QED
  BY <1>1, <1>2, <1>4, <1>5 DEF ChatInv

\* What a step of t does to the turns, and what another thread that has a session
\* and a user to itself sees of it.
LEMMA OneTurnChanges ==
    ASSUME MemoryInv, NEW t \in Threads, NEW r, turn' = [turn EXCEPT ![t] = r],
           UNCHANGED session_user_map
    PROVE  /\ turn'[t] = r
           /\ \A o \in Threads \ {t} :
                /\ turn'[o] = turn[o]
                /\ SoleThread(o) => /\ SessionOf[o] # SessionOf[t]
                                    /\ session_user_map[SessionOf[o]] # session_user_map[SessionOf[t]]
           /\ \A o \in Threads : SoleThread(o)' <=> SoleThread(o)
<1>1. turn = [u \in Threads |-> turn[u]]
  BY TurnsAreRecords
<1>2. \A o \in Threads : SessionOf[o] \in Sessions
  BY MemoryAssumption
<1>3. \A o \in Threads : SoleThread(o)' <=> SoleThread(o)
  BY DEF SoleThread
<1>4. \A o \in Threads \ {t} : SoleThread(o) =>
          /\ SessionOf[o] # SessionOf[t]
          /\ session_user_map[SessionOf[o]] # session_user_map[SessionOf[t]]
  BY <1>2 DEF SoleThread
<1>5. QED
  BY <1>1, <1>3, <1>4

\* A chat takes the place of the session's.
LEMMA SetChatKeepsChats ==
    ASSUME MemoryInv, ChatInv, NEW t \in Threads, NEW r, NEW chat,
           turn' = [turn EXCEPT ![t] = r],
           session_memories' = [session_memories EXCEPT ![SessionOf[t]] = {chat}],
           UNCHANGED <<config, session_user_map, chat_file, unsaved>>,
           WithinLimits(chat), r.pc # "write",
           /\ ~ config.streaming /\ SoleThread(t)
           /\ session_user_map[SessionOf[t]] \in Users \ unsaved /\ r.pc # "open"
           => \/ chat.history = <<>>
              \/ chat_file[session_user_map[SessionOf[t]]] = {ChatDocument(chat)}
    PROVE  ChatInv'
<1>1. /\ turn'[t] = r
      /\ \A o \in Threads \ {t} : turn'[o] = turn[o] /\ (SoleThread(o) => SessionOf[o] # SessionOf[t])
      /\ \A o \in Threads : SoleThread(o)' <=> SoleThread(o)
  BY OneTurnChanges
<1>2. /\ \A s \in Sessions : s # SessionOf[t] => session_memories'[s] = session_memories[s]
      /\ session_memories'[SessionOf[t]] = {chat}
      /\ \A o \in Threads : SessionOf[o] \in Sessions
  BY MemoryAssumption DEF MemoryInv, MapsOK
<1>3. ChatsSingle'
  BY <1>2 DEF ChatInv, ChatsSingle, AtMostOne
<1>4. LimitsKept'
  <2>1. ASSUME NEW s \in Sessions, NEW c \in session_memories'[s] PROVE WithinLimits(c)
    BY <1>2, <2>1 DEF ChatInv, LimitsKept
  <2>2. ASSUME NEW o \in Threads, turn'[o].pc = "write"
        PROVE  SavedWithinLimits(turn'[o].document)
    BY <1>1, <2>2 DEF ChatInv, LimitsKept
  <2>3. \A u \in Users : \A d \in chat_file'[u] : SavedWithinLimits(d)
    BY DEF ChatInv, LimitsKept
  <2>4. QED
    BY <2>1, <2>2, <2>3 DEF LimitsKept, WithinLimits, ChatShape, SavedWithinLimits
<1>5. ChatFileCurrent'
  <2> SUFFICES ASSUME NEW o \in Threads,
                      ~ config.streaming, SoleThread(o),
                      session_user_map[SessionOf[o]] \in Users \ unsaved,
                      turn'[o].pc \notin {"open", "write"},
                      NEW c \in session_memories'[SessionOf[o]]
               PROVE  \/ c.history = <<>>
                      \/ chat_file[session_user_map[SessionOf[o]]] = {ChatDocument(c)}
    BY <1>1 DEF ChatFileCurrent, ChatDocument
  <2>1. CASE o = t
    BY <1>1, <1>2, <2>1
  <2>2. CASE o # t
    BY <1>1, <1>2, <2>2 DEF ChatInv, ChatFileCurrent
  <2>3. QED
    BY <2>1, <2>2
<1>6. WritingIsCurrent'
  <2> SUFFICES ASSUME NEW o \in Threads,
                      ~ config.streaming, SoleThread(o),
                      session_user_map[SessionOf[o]] \in Users,
                      turn'[o].pc = "write"
               PROVE  /\ chat_file[session_user_map[SessionOf[o]]] = {}
                      /\ \A c \in session_memories'[SessionOf[o]] :
                           turn'[o].document = ChatDocument(c)
    BY <1>1 DEF WritingIsCurrent, ChatDocument
  <2>1. o # t
    BY <1>1
  <2>2. QED
    BY <1>1, <1>2, <2>1 DEF ChatInv, WritingIsCurrent
<1>7. QED
  BY <1>3, <1>4, <1>5, <1>6 DEF ChatInv

\* The chat file of the user of a session changes.
LEMMA SetFileKeepsChats ==
    ASSUME MemoryInv, ChatInv, NEW t \in Threads, NEW r, NEW content,
           turn' = [turn EXCEPT ![t] = r],
           chat_file' = [chat_file EXCEPT ![session_user_map[SessionOf[t]]] = content],
           UNCHANGED <<config, session_user_map, session_memories>>,
           AtMostOne(content), \A d \in content : SavedWithinLimits(d),
           r.pc = "write" => SavedWithinLimits(r.document), r.pc # "open",
           ~ config.streaming /\ SoleThread(t) /\ session_user_map[SessionOf[t]] \in Users =>
             \A chat \in session_memories[SessionOf[t]] :
               IF r.pc = "write" THEN r.document = ChatDocument(chat)
               ELSE \/ content = {ChatDocument(chat)}
                    \/ session_user_map[SessionOf[t]] \in unsaved',
           \A u \in Users : u # session_user_map[SessionOf[t]] =>
                               (u \in unsaved' <=> u \in unsaved),
           r.pc = "write" => content = {}
    PROVE  ChatInv'
<1> DEFINE user == session_user_map[SessionOf[t]]
<1>1. /\ turn'[t] = r
      /\ \A o \in Threads \ {t} : /\ turn'[o] = turn[o]
                                 /\ SoleThread(o) => session_user_map[SessionOf[o]] # user
      /\ \A o \in Threads : SoleThread(o)' <=> SoleThread(o)
  BY OneTurnChanges
<1>2. /\ \A u \in Users : u # user => chat_file'[u] = chat_file[u]
      /\ user \in Users => chat_file'[user] = content
  BY DEF MemoryInv, MapsOK
<1>3. ChatsSingle'
  BY <1>2 DEF ChatInv, ChatsSingle, AtMostOne
<1>4. LimitsKept'
  <2>1. ASSUME NEW u \in Users, NEW d \in chat_file'[u] PROVE SavedWithinLimits(d)
    BY <1>2, <2>1 DEF ChatInv, LimitsKept
  <2>2. ASSUME NEW o \in Threads, turn'[o].pc = "write"
        PROVE  SavedWithinLimits(turn'[o].document)
    BY <1>1, <2>2 DEF ChatInv, LimitsKept
  <2>3. \A s \in Sessions : \A c \in session_memories'[s] : WithinLimits(c)
    BY DEF ChatInv, LimitsKept
  <2>4. QED
    BY <2>1, <2>2, <2>3 DEF LimitsKept, WithinLimits, ChatShape, SavedWithinLimits
<1>5. ChatFileCurrent'
  <2> SUFFICES ASSUME NEW o \in Threads,
                      ~ config.streaming, SoleThread(o),
                      session_user_map[SessionOf[o]] \in Users \ unsaved',
                      turn'[o].pc \notin {"open", "write"},
                      NEW c \in session_memories[SessionOf[o]]
               PROVE  \/ c.history = <<>>
                      \/ chat_file'[session_user_map[SessionOf[o]]] = {ChatDocument(c)}
    BY <1>1 DEF ChatFileCurrent, ChatDocument
  <2>1. CASE o = t
    BY <1>1, <1>2, <2>1
  <2>2. CASE o # t
    BY <1>1, <1>2, <2>2 DEF ChatInv, ChatFileCurrent
  <2>3. QED
    BY <2>1, <2>2
<1>6. WritingIsCurrent'
  <2> SUFFICES ASSUME NEW o \in Threads,
                      ~ config.streaming, SoleThread(o),
                      session_user_map[SessionOf[o]] \in Users,
                      turn'[o].pc = "write"
               PROVE  /\ chat_file'[session_user_map[SessionOf[o]]] = {}
                      /\ \A c \in session_memories[SessionOf[o]] :
                           turn'[o].document = ChatDocument(c)
    BY <1>1 DEF WritingIsCurrent, ChatDocument
  <2>1. CASE o = t
    BY <1>1, <1>2, <2>1
  <2>2. CASE o # t
    BY <1>1, <1>2, <2>2 DEF ChatInv, WritingIsCurrent
  <2>3. QED
    BY <2>1, <2>2
<1>7. QED
  BY <1>3, <1>4, <1>5, <1>6 DEF ChatInv

\* Whichever of the three sources a chat comes from, it keeps its limits; one that is
\* new to the session is empty, or is what the file of the user holds.
LEMMA SessionMemoryWithinLimits ==
    ASSUME MemoryInv, ChatInv, NEW s \in Sessions,
           NEW chat \in GetSessionMemory(s, session_user_map[s])
    PROVE  /\ WithinLimits(chat)
           /\ session_memories[s] = {} /\ session_user_map[s] \in Users =>
                \/ chat.history = <<>>
                \/ chat_file[session_user_map[s]] = {ChatDocument(chat)}
<1> DEFINE user == session_user_map[s]
           new == NewChat(config.max_rounds, config.max_tokens)
<1>0. config.max_rounds \in Nat /\ config.max_tokens \in Nat
  BY MemoryAssumption DEF MemoryInv, MapsOK
<1>1. CASE session_memories[s] # {}
  BY <1>1 DEF GetSessionMemory, ChatInv, LimitsKept
<1>2. CASE session_memories[s] = {} /\ user \in Users /\ chat_file[user] # {}
  <2>1. PICK d \in chat_file[user] : chat = LoadChat(new, d)
    BY <1>2 DEF GetSessionMemory
  <2>2. SavedWithinLimits(d) /\ chat_file[user] = {d}
    BY <1>2 DEF ChatInv, LimitsKept, ChatsSingle, AtMostOne
  <2>3. WithinLimits(chat) /\ ChatDocument(chat) = d
    BY <2>1, <2>2, LoadWithinLimits
  <2>4. QED
    BY <2>2, <2>3
<1>3. CASE session_memories[s] = {} /\ (user \notin Users \/ chat_file[user] = {})
  <2>1. chat = new
    BY <1>3 DEF GetSessionMemory
  <2>2. WithinLimits(chat) /\ chat.history = <<>>
    BY <1>0, <2>1, NewChatWithinLimits DEF NewChat
  <2>3. QED
    BY <2>2
<1>4. QED
  BY <1>1, <1>2, <1>3

LEMMA GetHistoryKeepsChats ==
    ASSUME MemoryInv, ChatInv, NEW t \in Threads, GetHistory(t)
    PROVE  ChatInv'
<1> DEFINE s == SessionOf[t]
           user == session_user_map[s]
           pc == IF config.streaming THEN "chat" ELSE "lookup"
<1>1. TurnShape(turn[t]) /\ turn[t].pc = "history" /\ turn[t].user = user /\ s \in Sessions
  BY MemoryAssumption DEF MemoryInv, TurnsOwn, Working, GetHistory, AtStep
<1>2. PICK chat \in GetSessionMemory(s, user) :
        /\ session_memories' = [session_memories EXCEPT ![s] = {chat}]
        /\ turn' = [turn EXCEPT ![t].history = chat.history, ![t].pc = pc]
  BY <1>1 DEF GetHistory
<1>3. WithinLimits(chat)
  BY <1>1, SessionMemoryWithinLimits
<1>4. ~ config.streaming /\ SoleThread(t) /\ user \in Users \ unsaved =>
        chat.history = <<>> \/ chat_file[user] = {ChatDocument(chat)}
  <2>1. CASE session_memories[s] = {}
    BY <1>1, <2>1, SessionMemoryWithinLimits
  <2>2. CASE session_memories[s] # {}
    <3>1. chat \in session_memories[s]
      BY <2>2 DEF GetSessionMemory
    <3>2. QED
      BY <1>1, <3>1 DEF ChatInv, ChatFileCurrent
  <2>3. QED
    BY <2>1, <2>2
<1> DEFINE r1 == [turn[t] EXCEPT !.history = chat.history]
           r == [r1 EXCEPT !.pc = pc]
<1>5. turn' = [turn EXCEPT ![t] = r]
  BY <1>2
<1>6. r.pc = pc
  <2>1. r1 = [pc |-> turn[t].pc, text |-> turn[t].text, user |-> turn[t].user,
              hit |-> turn[t].hit, context |-> turn[t].context,
              history |-> chat.history, reply |-> turn[t].reply,
              document |-> turn[t].document]
    BY <1>1 DEF TurnShape
  <2> HIDE DEF r1, pc
  <2>2. QED
    BY <2>1
<1>7. r.pc \notin {"open", "write"}
  BY <1>6
<1>8. UNCHANGED <<config, session_user_map, chat_file, unsaved>>
  BY DEF GetHistory, files
<1> HIDE DEF r, pc
<1>9. QED
  BY <1>2, <1>3, <1>4, <1>5, <1>7, <1>8, SetChatKeepsChats

\* What is remembered and not saved is a streamed reply, or nobody's.
LEMMA RememberKeepsChats ==
    ASSUME MemoryInv, ChatInv, NEW t \in Threads, Remember(t)
    PROVE  ChatInv'
<1> DEFINE s == SessionOf[t]
           user == session_user_map[s]
<1>1. TurnShape(turn[t]) /\ turn[t].pc = "add" /\ turn[t].user = user /\ s \in Sessions
  BY MemoryAssumption DEF MemoryInv, TurnsOwn, Working, Remember, AtStep
<1>2. PICK chat \in GetSessionMemory(s, user), n \in RoundTokens :
        session_memories' = [session_memories EXCEPT ![s] =
            {AddRound(chat, [speaker |-> user, drawn |-> turn[t].reply, tokens |-> n])}]
  BY <1>1 DEF Remember
<1> DEFINE round == [speaker |-> user, drawn |-> turn[t].reply, tokens |-> n]
           added == AddRound(chat, round)
<1>3. WithinLimits(added)
  <2>1. round.tokens \in Nat
    BY MemoryAssumption
  <2>2. WithinLimits(chat)
    BY <1>1, SessionMemoryWithinLimits
  <2> HIDE DEF round
  <2>3. QED
    BY <2>1, <2>2, AddKeepsLimits
<1>4. session_memories' = [session_memories EXCEPT ![s] = {added}]
  BY <1>2
<1> HIDE DEF added
<1>5. UNCHANGED <<config, session_user_map, chat_file, unsaved>>
  BY DEF Remember, files
<1>6. ASSUME GoTo(t, "open") PROVE ChatInv'
  <2> DEFINE r == [turn[t] EXCEPT !.pc = "open"]
  <2>1. turn' = [turn EXCEPT ![t] = r] /\ r.pc = "open"
    BY <1>1, <1>6 DEF GoTo, TurnShape
  <2> HIDE DEF r
  <2>2. QED
    BY <1>3, <1>4, <1>5, <2>1, SetChatKeepsChats
<1>7. ASSUME Ends(t), config.streaming \/ user = NoUser PROVE ChatInv'
  <2>1. turn' = [turn EXCEPT ![t] = Idle] /\ Idle.pc = "idle"
    BY <1>7 DEF Ends, Idle
  <2>2. config.streaming \/ user \notin Users
    BY <1>7, MemoryAssumption
  <2>3. QED
    BY <1>3, <1>4, <1>5, <2>1, <2>2, SetChatKeepsChats
<1>8. QED
  BY <1>1, <1>6, <1>7 DEF Remember

\* A save that fails and leaves the file as it was is noted, and the turn ends.
LEMMA FailedSaveKeepsChats ==
    ASSUME MemoryInv, ChatInv, NEW t \in Threads, turn' = [turn EXCEPT ![t] = Idle],
           UNCHANGED <<config, session_user_map, session_memories, chat_file>>,
           unsaved' = unsaved \cup {session_user_map[SessionOf[t]]}
    PROVE  ChatInv'
<1>0. Idle.pc = "idle"
  BY DEF Idle
<1>1. /\ turn'[t] = Idle
      /\ \A o \in Threads \ {t} : turn'[o] = turn[o]
      /\ \A o \in Threads : SoleThread(o)' <=> SoleThread(o)
  BY OneTurnChanges
<1>2. ChatsSingle'
  BY DEF ChatInv, ChatsSingle, AtMostOne
<1>3. LimitsKept'
  BY <1>0, <1>1 DEF ChatInv, LimitsKept
<1>4. ChatFileCurrent'
  BY <1>1 DEF ChatInv, ChatFileCurrent
<1>5. WritingIsCurrent'
  BY <1>0, <1>1 DEF ChatInv, WritingIsCurrent
<1>6. QED
  BY <1>2, <1>3, <1>4, <1>5 DEF ChatInv

LEMMA OpenKeepsChats ==
    ASSUME MemoryInv, ChatInv, NEW t \in Threads, OpenChatFile(t)
    PROVE  ChatInv'
<1> DEFINE s == SessionOf[t]
           user == session_user_map[s]
           nothing == {}
<1>1. TurnShape(turn[t]) /\ turn[t].pc = "open" /\ turn[t].user = user /\ s \in Sessions
  BY MemoryAssumption DEF MemoryInv, TurnsOwn, Working, OpenChatFile, AtStep
<1>2. UNCHANGED <<config, session_user_map, session_memories>>
  BY DEF OpenChatFile, memories
<1>3. CASE Ends(t) /\ UNCHANGED chat_file /\ unsaved' = unsaved \cup {user}
  BY <1>2, <1>3, FailedSaveKeepsChats DEF Ends
<1>4. ASSUME NEW chat \in session_memories[s],
             turn' = [turn EXCEPT ![t].pc = "write", ![t].document = ChatDocument(chat)],
             OpenFile(chat_file, user), UNCHANGED unsaved
      PROVE  ChatInv'
  <2>1. /\ SavedWithinLimits(ChatDocument(chat))
        /\ \A other \in session_memories[s] : other = chat
    BY <1>1, SavedIsWithinLimits DEF ChatInv, LimitsKept, ChatsSingle, AtMostOne
  <2> DEFINE r1 == [turn[t] EXCEPT !.pc = "write"]
             r == [r1 EXCEPT !.document = ChatDocument(chat)]
  <2>2. turn' = [turn EXCEPT ![t] = r]
    BY <1>4
  <2>3. r.pc = "write" /\ r.document = ChatDocument(chat)
    <3>1. r1 = [pc |-> "write", text |-> turn[t].text, user |-> turn[t].user,
                hit |-> turn[t].hit, context |-> turn[t].context,
                history |-> turn[t].history, reply |-> turn[t].reply,
                document |-> turn[t].document]
      BY <1>1 DEF TurnShape
    <3> HIDE DEF r1
    <3>2. QED
      BY <3>1
  <2>4. chat_file' = [chat_file EXCEPT ![user] = nothing]
    BY <1>4 DEF OpenFile
  <2> HIDE DEF r
  <2>5. AtMostOne(nothing) /\ nothing = {} /\ \A d \in nothing : SavedWithinLimits(d)
    BY DEF AtMostOne
  <2> HIDE DEF nothing
  <2>6. QED
    BY <1>2, <1>4, <2>1, <2>2, <2>3, <2>4, <2>5, SetFileKeepsChats
<1>5. QED
  BY <1>1, <1>3, <1>4 DEF OpenChatFile, SaveFails

\* A thread that has the user to itself finds the file as it left it, empty.
LEMMA WriteKeepsChats ==
    ASSUME MemoryInv, ChatInv, NEW t \in Threads, WriteChatFile(t)
    PROVE  ChatInv'
<1> DEFINE s == SessionOf[t]
           user == session_user_map[s]
           document == turn[t].document
           nothing == {}
<1>1. /\ turn[t].pc = "write" /\ turn[t].user = user
      /\ SavedWithinLimits(document)
  BY DEF MemoryInv, TurnsOwn, Working, WriteChatFile, AtStep, ChatInv, LimitsKept
<1>2. /\ turn' = [turn EXCEPT ![t] = Idle] /\ Idle.pc = "idle"
      /\ UNCHANGED <<config, session_user_map, session_memories>>
  BY DEF WriteChatFile, Ends, Idle, memories
<1>3. CASE UNCHANGED chat_file /\ unsaved' = unsaved \cup {user}
  BY <1>2, <1>3, FailedSaveKeepsChats
<1>4. ASSUME OpenFile(chat_file, user), unsaved' = unsaved \cup {user} PROVE ChatInv'
  <2>1. chat_file' = [chat_file EXCEPT ![user] = nothing]
    BY <1>4 DEF OpenFile
  <2>2. AtMostOne(nothing) /\ \A d \in nothing : SavedWithinLimits(d)
    BY DEF AtMostOne
  <2> HIDE DEF nothing
  <2>3. QED
    BY <1>2, <1>4, <2>1, <2>2, SetFileKeepsChats
<1>5. ASSUME WriteFile(chat_file, user, document), unsaved' = unsaved \ {user} PROVE ChatInv'
  <2>1. PICK content \in {{document}, {}} :
          /\ chat_file' = [chat_file EXCEPT ![user] = content]
          /\ chat_file[user] = {} => content = {document}
    BY <1>5 DEF WriteFile
  <2>2. AtMostOne(content) /\ \A d \in content : SavedWithinLimits(d)
    BY <1>1 DEF AtMostOne
  <2>3. ~ config.streaming /\ SoleThread(t) /\ user \in Users =>
          \A chat \in session_memories[s] : content = {ChatDocument(chat)}
    BY <1>1, <2>1 DEF ChatInv, WritingIsCurrent
  <2> HIDE DEF document
  <2>4. QED
    BY <1>2, <1>5, <2>1, <2>2, <2>3, SetFileKeepsChats
<1>6. QED
  BY <1>1, <1>3, <1>4, <1>5 DEF WriteChatFile, SaveFails

\* The session that becomes known has no chat and no turn.
LEMMA RegisterKeepsChats ==
    ASSUME MemoryInv, ChatInv, NEW s \in Sessions, NEW user \in Owners,
           RegisterSessionUser(s, user)
    PROVE  ChatInv'
<1>1. UNCHANGED <<config, session_memories, chat_file, unsaved, turn>>
  BY DEF RegisterSessionUser, memories, files
<1>2. session_user_map[s] = NotRegistered /\ NotRegistered \notin Users /\ session_memories[s] = {}
  BY MemoryAssumption DEF RegisterSessionUser, NotRegistered, MemoryInv, ChatsOwn
<1>3. \A r \in Sessions : r # s => session_user_map'[r] = session_user_map[r]
  BY DEF RegisterSessionUser, MemoryInv, MapsOK
<1>4. ChatsSingle' /\ LimitsKept'
  <2>1. ChatsSingle'
    BY <1>1 DEF ChatInv, ChatsSingle, AtMostOne
  <2>2. LimitsKept'
    BY <1>1 DEF ChatInv, LimitsKept
  <2>3. QED
    BY <2>1, <2>2
<1>5. ASSUME NEW t \in Threads, SoleThread(t)', session_user_map'[SessionOf[t]] \in Users,
             session_memories[SessionOf[t]] # {} \/ turn[t].pc = "write"
      PROVE  /\ SoleThread(t)
             /\ session_user_map'[SessionOf[t]] = session_user_map[SessionOf[t]]
  <2>1. SessionOf[t] # s /\ SessionOf[t] \in Sessions
    <3>1. turn[t].pc = "write" => session_user_map[SessionOf[t]] # NotRegistered
      BY DEF MemoryInv, TurnsOwn, Working
    <3>2. QED
      BY <1>2, <1>5, <3>1, MemoryAssumption
  <2>2. session_user_map'[SessionOf[t]] = session_user_map[SessionOf[t]]
    BY <1>3, <2>1
  <2>3. SoleThread(t)
    BY <1>2, <1>3, <1>5, <2>2 DEF SoleThread
  <2>4. QED
    BY <2>2, <2>3
<1>6. ChatFileCurrent'
  <2> SUFFICES ASSUME NEW t \in Threads, ~ config.streaming, SoleThread(t)',
                      session_user_map'[SessionOf[t]] \in Users \ unsaved,
                      turn[t].pc \notin {"open", "write"},
                      NEW chat \in session_memories[SessionOf[t]]
               PROVE  \/ chat.history = <<>>
                      \/ chat_file[session_user_map'[SessionOf[t]]] = {ChatDocument(chat)}
    BY <1>1 DEF ChatFileCurrent, ChatDocument
  <2>1. QED
    BY <1>5 DEF ChatInv, ChatFileCurrent
<1>7. WritingIsCurrent'
  <2> SUFFICES ASSUME NEW t \in Threads, ~ config.streaming, SoleThread(t)',
                      session_user_map'[SessionOf[t]] \in Users, turn[t].pc = "write"
               PROVE  /\ chat_file[session_user_map'[SessionOf[t]]] = {}
                      /\ \A chat \in session_memories[SessionOf[t]] :
                           turn[t].document = ChatDocument(chat)
    BY <1>1 DEF WritingIsCurrent, ChatDocument
  <2>1. QED
    BY <1>5 DEF ChatInv, WritingIsCurrent
<1>8. QED
  BY <1>4, <1>6, <1>7 DEF ChatInv

LEMMA InitChats == Init => ChatInv
<1> SUFFICES ASSUME Init PROVE ChatInv
  OBVIOUS
<1>1. ChatsSingle /\ LimitsKept
  BY DEF Init, Idle, ChatsSingle, AtMostOne, LimitsKept
<1>2. ChatFileCurrent
  BY MemoryAssumption DEF Init, ChatFileCurrent
<1>3. WritingIsCurrent
  BY DEF Init, Idle, WritingIsCurrent
<1>4. QED
  BY <1>1, <1>2, <1>3 DEF ChatInv

\* A restart leaves the files, and no turn.
LEMMA RestartKeepsChats ==
    ASSUME MemoryInv, ChatInv, Restart
    PROVE  ChatInv'
<1>1. /\ session_memories' = [s \in Sessions |-> {}] /\ chat_file' = chat_file
      /\ turn' = [t \in Threads |-> Idle] /\ Idle.pc = "idle"
  BY DEF Restart, files, Idle
<1>2. ChatsSingle'
  BY <1>1 DEF ChatInv, ChatsSingle, AtMostOne
<1>3. LimitsKept'
  BY <1>1 DEF ChatInv, LimitsKept
<1>4. ChatFileCurrent'
  BY <1>1, MemoryAssumption DEF ChatFileCurrent
<1>5. WritingIsCurrent'
  BY <1>1 DEF WritingIsCurrent
<1>6. QED
  BY <1>2, <1>3, <1>4, <1>5 DEF ChatInv

LEMMA NextKeepsChats ==
    ASSUME MemoryInv, ChatInv, [Next]_memoryVars
    PROVE  ChatInv'
<1>1. ASSUME NEW t \in Threads, TurnStep(t) PROVE ChatInv'
  <2>1. ASSUME QuietStep(t) PROVE ChatInv'
    BY <2>1, QuietSteps, QuietKeepsChats
  <2>2. QED
    BY <1>1, <2>1, GetHistoryKeepsChats, RememberKeepsChats, OpenKeepsChats, WriteKeepsChats
       DEF TurnStep, QuietStep
<1>2. ASSUME UNCHANGED memoryVars PROVE ChatInv'
  <2> USE <1>2 DEF memoryVars, memories, files
  <2>1. ChatsSingle'
    BY DEF ChatInv, ChatsSingle, AtMostOne
  <2>2. LimitsKept'
    BY DEF ChatInv, LimitsKept
  <2>3. \A t \in Threads : SoleThread(t)' <=> SoleThread(t)
    BY DEF SoleThread
  <2>4. ChatFileCurrent'
    BY <2>3 DEF ChatInv, ChatFileCurrent, ChatDocument
  <2>5. WritingIsCurrent'
    BY <2>3 DEF ChatInv, WritingIsCurrent, ChatDocument
  <2>6. QED
    BY <2>1, <2>2, <2>4, <2>5 DEF ChatInv
<1>3. QED
  BY <1>1, <1>2, RegisterKeepsChats, RestartKeepsChats DEF Next

LEMMA ChatInvHolds == Spec => []ChatInv
  BY MemoryInvHolds, InitChats, NextKeepsChats, PTL DEF Spec

-----------------------------------------------------------------------------
(* The stores of facts, and their files.                                   *)

Facts(entries) == \E S : entries \in Seq(S) /\ \A e \in S : e.owner \in Owners

\* The stores of the users, or their files.
Stores(kept) ==
    /\ kept = [u \in Users |-> kept[u]]
    /\ \A u \in Users : AtMostOne(kept[u]) /\ \A entries \in kept[u] : Facts(entries)

SavingFacts(r) == r.pc \in Steps /\ (r.pc = "writefacts" => Facts(r.document))

\* While a thread that has its user to itself writes the file, the file is empty.
FactFilesOpen ==
    \A t \in Threads :
        SoleThread(t) /\ turn[t].pc = "writefacts" /\ turn[t].user \in Users
        => fact_file[turn[t].user] = {}

StoreInv ==
    /\ Stores(user_memories) /\ Stores(fact_file)
    /\ memory_store \in Owners /\ memory_modified \in BOOLEAN /\ unsaved \subseteq Owners
    /\ \A t \in Threads : SavingFacts(turn[t])
    /\ FactFilesOpen
    /\ failures \in Nat

LEMMA FactsAreTyped ==
    ASSUME NEW entries, Facts(entries)
    PROVE  /\ Len(entries) \in Nat /\ DOMAIN entries = 1 .. Len(entries)
           /\ \A i \in DOMAIN entries : entries[i].owner \in Owners
  BY LenProperties, ElementOfSeq DEF Facts

LEMMA NoFacts == Facts(<<>>)
<1> DEFINE S == [owner : Owners]
<1>1. <<>> \in Seq(S) /\ \A e \in S : e.owner \in Owners
  OBVIOUS
<1> HIDE DEF S
<1>2. QED
  BY <1>1 DEF Facts

\* Erasing one entry leaves a store of facts.
LEMMA RemoveKeepsFacts ==
    ASSUME NEW entries, Facts(entries), NEW content
    PROVE  Facts(RemoveByContent(entries, content))
<1>1. CASE ~ Known(entries, content)
  BY <1>1 DEF RemoveByContent
<1>2. CASE Known(entries, content)
  <2> DEFINE like == {i \in DOMAIN entries : entries[i].content = content}
             k == CHOOSE i \in DOMAIN entries :
                    /\ entries[i].content = content
                    /\ \A j \in DOMAIN entries : entries[j].content = content => i <= j
             front == SubSeq(entries, 1, k - 1)
             back == SubSeq(entries, k + 1, Len(entries))
  <2>1. PICK S : entries \in Seq(S) /\ \A e \in S : e.owner \in Owners
    BY DEF Facts
  <2>2. /\ Len(entries) \in Nat /\ DOMAIN entries = 1 .. Len(entries)
        /\ \A i \in 1 .. Len(entries) : entries[i] \in S
    BY <2>1, LenProperties, ElementOfSeq
  <2>3. k \in DOMAIN entries
    <3>1. like \subseteq Nat /\ like # {}
      BY <1>2, <2>2 DEF Known
    <3>2. \E i \in like : \A j \in like : i <= j
      BY <3>1, LeastNat
    <3>3. QED
      BY <3>2
  <2>4. RemoveByContent(entries, content) = front \o back
    BY <1>2 DEF RemoveByContent, RemoveAt
  <2> HIDE DEF k
  <2>5. front \in Seq(S)
    <3>1. k - 1 \in Int /\ \A i \in 1 .. k - 1 : entries[i] \in S
      BY <2>2, <2>3
    <3>2. QED
      BY <2>2, <3>1, SubSeqProperties
  <2>6. back \in Seq(S)
    <3>1. k + 1 \in Int /\ \A i \in k + 1 .. Len(entries) : entries[i] \in S
      BY <2>2, <2>3
    <3>2. QED
      BY <2>2, <3>1, SubSeqProperties
  <2> HIDE DEF front, back
  <2>7. front \o back \in Seq(S)
    BY <2>5, <2>6, ConcatProperties
  <2>8. QED
    BY <2>1, <2>4, <2>7 DEF Facts
<1>3. QED
  BY <1>1, <1>2

LEMMA AddKeepsFacts ==
    ASSUME NEW entries, Facts(entries), NEW content, NEW owner \in Owners
    PROVE  Facts(AddMemory(entries, [content |-> content, owner |-> owner]))
<1> DEFINE entry == [content |-> content, owner |-> owner]
<1>1. PICK S : entries \in Seq(S) /\ \A e \in S : e.owner \in Owners
  BY DEF Facts
<1>2. entry.owner \in Owners
  OBVIOUS
<1>3. AddMemory(entries, entry) \in {entries, Append(entries, entry)}
  BY DEF AddMemory
<1> HIDE DEF entry
<1>4. entries \in Seq(S \cup {entry}) /\ \A e \in S \cup {entry} : e.owner \in Owners
  BY <1>1, <1>2, SeqMonotonic
<1>5. Append(entries, entry) \in Seq(S \cup {entry})
  BY <1>4, AppendProperties
<1>6. Facts(AddMemory(entries, entry))
  BY <1>3, <1>4, <1>5 DEF Facts
<1>7. QED
  BY <1>6 DEF entry

\* Whatever is said, the skill leaves a store of facts.
LEMMA ExecuteKeepsFacts ==
    ASSUME NEW entries, Facts(entries), NEW text, NEW owner \in Owners
    PROVE  Facts(Execute(entries, text, owner).entries)
<1> DEFINE left == Execute(entries, text, owner).entries
<1>1. \/ left = entries
      \/ \E content : left = RemoveByContent(entries, content)
      \/ \E content : left = AddMemory(entries, [content |-> content, owner |-> owner])
  <2>1. Recall(entries, text).entries = entries
    BY DEF Recall, Outcome
  <2>2. \/ Forget(entries, text).entries = entries
        \/ \E content : Forget(entries, text).entries = RemoveByContent(entries, content)
    BY DEF Forget, Outcome
  <2>3. \E content : Store(entries, text, owner).entries =
                        AddMemory(entries, [content |-> content, owner |-> owner])
    BY DEF Store, Outcome
  <2>4. QED
    BY <2>1, <2>2, <2>3 DEF Execute
<1> HIDE DEF left
<1>2. Facts(left)
  BY <1>1, RemoveKeepsFacts, AddKeepsFacts
<1>3. QED
  BY <1>2 DEF left

LEMMA StoresChange ==
    ASSUME NEW kept, Stores(kept), NEW user, NEW entries, Facts(entries)
    PROVE  /\ Stores([kept EXCEPT ![user] = {entries}])
           /\ Stores([kept EXCEPT ![user] = {}])
<1>1. /\ kept = [u \in Users |-> kept[u]]
      /\ \A u \in Users : AtMostOne(kept[u]) /\ \A e \in kept[u] : Facts(e)
  BY DEF Stores
<1>2. ASSUME NEW content, AtMostOne(content), \A e \in content : Facts(e)
      PROVE  Stores([kept EXCEPT ![user] = content])
  <2> DEFINE new == [kept EXCEPT ![user] = content]
  <2>1. new = [u \in Users |-> IF u = user THEN content ELSE kept[u]]
    BY <1>1
  <2> HIDE DEF new
  <2>2. QED
    BY <1>1, <1>2, <2>1 DEF Stores, new
<1>3. AtMostOne({entries}) /\ AtMostOne({})
  BY DEF AtMostOne
<1>4. QED
  BY <1>2, <1>3

\* The store of a user, in memory, from the file, or new, holds facts.
LEMMA UserMemoryHasFacts ==
    ASSUME StoreInv, NEW user \in Users, NEW entries \in GetUserMemory(user)
    PROVE  Facts(entries)
  BY NoFacts DEF GetUserMemory, StoreInv, Stores

\* A turn opens the file of its user's facts, with those of the store to write.
OpensFacts(t) ==
    /\ SaveFacts(t) /\ turn[t].pc = "facts" /\ memory_modified /\ turn[t].user # NoUser
    /\ OpenFile(fact_file, turn[t].user)
    /\ turn'[t].pc = "writefacts" /\ turn'[t].user = turn[t].user
    /\ turn'[t].document \in GetUserMemory(turn[t].user)

\* The steps at which the facts are not on their way to the file.
OtherSteps == Steps \ {"facts", "writefacts"}

\* After the skills a turn that is not streamed looks after the facts.
LEMMA SkillGoesOn ==
    ASSUME MemoryInv, NEW t \in Threads, DetectAndExecute(t)
    PROVE  /\ \A o \in Threads \ {t} : turn'[o] = turn[o]
           /\ turn'[t].pc \in {"facts", "direct", "history"}
           /\ ~ config.streaming => turn'[t].pc = "facts"
<1>0. turn = [u \in Threads |-> turn[u]] /\ TurnShape(turn[t])
  BY TurnsAreRecords
<1>1. PICK hit, context : Hit(t, hit, context)
  BY DEF DetectAndExecute, MemorySkillRuns, OtherSkillRuns
<1> DEFINE pc == CASE ~ config.streaming -> "facts"
                   [] config.streaming /\ hit = "direct" -> "direct"
                   [] OTHER -> "history"
           r == [turn[t] EXCEPT !.hit = hit, !.context = context, !.pc = pc]
<1>2. turn' = [turn EXCEPT ![t] = r]
  BY <1>1 DEF Hit
<1>3. pc \in {"facts", "direct", "history"} /\ (~ config.streaming => pc = "facts")
  OBVIOUS
<1> HIDE DEF pc
<1>4. r.pc = pc
  BY <1>0 DEF TurnShape
<1> HIDE DEF r
<1>5. QED
  BY <1>0, <1>2, <1>3, <1>4

\* Where a step leaves the turns.
LEMMA TurnsChange ==
    ASSUME MemoryInv, NEW t \in Threads, TurnStep(t)
    PROVE  /\ \A o \in Threads \ {t} : turn'[o] = turn[o]
           /\ \/ turn'[t].pc \in OtherSteps
              \/ DetectAndExecute(t) /\ turn'[t].pc = "facts"
              \/ OpensFacts(t)
<1> DEFINE Moved == /\ \A o \in Threads \ {t} : turn'[o] = turn[o]
                    /\ \/ turn'[t].pc \in OtherSteps
                       \/ DetectAndExecute(t) /\ turn'[t].pc = "facts"
                       \/ OpensFacts(t)
<1>0. turn = [u \in Threads |-> turn[u]] /\ TurnShape(turn[t])
  BY TurnsAreRecords
<1>1. ASSUME NEW r, turn' = [turn EXCEPT ![t] = r], r.pc \in OtherSteps
      PROVE  Moved
  BY <1>0, <1>1
<1>2. ASSUME NEW pc \in OtherSteps, GoTo(t, pc) PROVE Moved
  <2> DEFINE r == [turn[t] EXCEPT !.pc = pc]
  <2>1. turn' = [turn EXCEPT ![t] = r] /\ r.pc = pc
    BY <1>0, <1>2 DEF GoTo, TurnShape
  <2> HIDE DEF r, Moved
  <2>2. QED
    BY <1>1, <2>1
<1>3. ASSUME Ends(t) PROVE Moved
  <2>1. Idle.pc \in OtherSteps
    BY DEF Idle, Steps, OtherSteps
  <2> HIDE DEF Moved
  <2>2. QED
    BY <1>1, <1>3, <2>1 DEF Ends
<1>4. ASSUME NEW x \in Texts, Begin(t, x) PROVE Moved
  <2> DEFINE pc == IF config.streaming \/ session_user_map[SessionOf[t]] = NoUser
                   THEN "skill" ELSE "point"
             r == [Idle EXCEPT !.text = x, !.user = session_user_map[SessionOf[t]], !.pc = pc]
  <2>1. turn' = [turn EXCEPT ![t] = r]
    BY <1>4 DEF Begin
  <2>2. r.pc = pc
    BY DEF Idle
  <2>3. pc \in OtherSteps
    BY DEF Steps, OtherSteps
  <2> HIDE DEF pc, r, Moved
  <2>4. QED
    BY <1>1, <2>1, <2>2, <2>3
<1>5. ASSUME DetectAndExecute(t) PROVE Moved
  BY <1>5, SkillGoesOn DEF Steps, OtherSteps
<1>6. ASSUME NEW entries \in GetUserMemory(turn[t].user), SaveFacts(t),
             memory_modified, turn[t].user # NoUser,
             turn' = [turn EXCEPT ![t].pc = "writefacts", ![t].document = entries],
             OpenFile(fact_file, turn[t].user)
      PROVE  Moved
  <2> DEFINE r1 == [turn[t] EXCEPT !.pc = "writefacts"]
             r == [r1 EXCEPT !.document = entries]
  <2>1. turn' = [turn EXCEPT ![t] = r]
    BY <1>6
  <2>2. r1 = [pc |-> "writefacts", text |-> turn[t].text, user |-> turn[t].user,
              hit |-> turn[t].hit, context |-> turn[t].context,
              history |-> turn[t].history, reply |-> turn[t].reply,
              document |-> turn[t].document]
    BY <1>0 DEF TurnShape
  <2> HIDE DEF r1
  <2>3. r.pc = "writefacts" /\ r.document = entries /\ r.user = turn[t].user
    BY <2>2
  <2> HIDE DEF r
  <2>4. QED
    BY <1>0, <1>6, <2>1, <2>3 DEF OpensFacts, SaveFacts, AtStep
<1>7. ASSUME NEW x, NEW pc \in {"add", "answered", "chat", "lookup", "write"},
             \/ turn' = [turn EXCEPT ![t].reply = x, ![t].pc = pc]
             \/ turn' = [turn EXCEPT ![t].pc = pc, ![t].reply = x]
             \/ turn' = [turn EXCEPT ![t].history = x, ![t].pc = pc]
             \/ turn' = [turn EXCEPT ![t].pc = pc, ![t].document = x]
      PROVE  Moved
  <2> DEFINE r1 == [turn[t] EXCEPT !.reply = x, !.pc = pc]
             r2 == [turn[t] EXCEPT !.pc = pc, !.reply = x]
             r3 == [turn[t] EXCEPT !.history = x, !.pc = pc]
             r4 == [turn[t] EXCEPT !.pc = pc, !.document = x]
  <2>1. \/ turn' = [turn EXCEPT ![t] = r1] \/ turn' = [turn EXCEPT ![t] = r2]
        \/ turn' = [turn EXCEPT ![t] = r3] \/ turn' = [turn EXCEPT ![t] = r4]
    BY <1>7
  <2>2. r1.pc = pc /\ r2.pc = pc /\ r3.pc = pc /\ r4.pc = pc
    BY <1>0 DEF TurnShape
  <2>3. pc \in OtherSteps
    BY DEF Steps, OtherSteps
  <2> HIDE DEF r1, r2, r3, r4, Moved
  <2>4. QED
    BY <1>1, <2>1, <2>2, <2>3
<1>8. Moved
  <2> HIDE DEF Moved
  <2>0. /\ \A pc \in {"clean", "skill", "direct", "history", "chat", "add", "open"} :
             pc \in OtherSteps
        /\ AfterSkill(t) \in {"direct", "history"}
    BY DEF Steps, OtherSteps, AfterSkill
  <2>1. CASE PointAtUser(t) \/ ClearMemoryDirty(t) \/ WriteFacts(t) \/ CacheAnswer(t)
    BY <1>2, <2>0, <2>1 DEF PointAtUser, ClearMemoryDirty, WriteFacts, CacheAnswer
  <2>2. CASE DirectReply(t) \/ GivesUp(t) \/ WriteChatFile(t)
    BY <1>3, <2>2 DEF DirectReply, GivesUp, WriteChatFile
  <2>3. CASE SaveFacts(t)
    <3>1. CASE GoTo(t, AfterSkill(t))
      BY <1>2, <2>0, <3>1
    <3>2. QED
      BY <1>6, <2>3, <3>1 DEF SaveFacts
  <2>4. CASE LookUpAnswer(t)
    BY <1>2, <1>7, <2>0, <2>4 DEF LookUpAnswer
  <2>5. CASE AskModel(t)
    BY <1>7, <2>5 DEF AskModel
  <2>6. CASE GetHistory(t)
    <3> DEFINE pc == IF config.streaming THEN "chat" ELSE "lookup"
    <3>1. PICK chat \in GetSessionMemory(SessionOf[t], turn[t].user) :
            turn' = [turn EXCEPT ![t].history = chat.history, ![t].pc = pc]
      BY <2>6 DEF GetHistory
    <3>2. pc \in {"add", "answered", "chat", "lookup", "write"}
      OBVIOUS
    <3> HIDE DEF pc
    <3>3. QED
      BY <1>7, <3>1, <3>2
  <2>7. CASE Remember(t)
    BY <1>2, <1>3, <2>0, <2>7 DEF Remember
  <2>8. CASE OpenChatFile(t)
    BY <1>3, <1>7, <2>8 DEF OpenChatFile
  <2>9. QED
    BY <1>4, <1>5, <2>1, <2>2, <2>3, <2>4, <2>5, <2>6, <2>7, <2>8 DEF TurnStep
<1>9. QED
  BY <1>8

\* A turn is at one of the steps, and has facts to write if it goes to write facts.
LEMMA TurnsSaveFacts ==
    ASSUME MemoryInv, StoreInv, NEW t \in Threads, TurnStep(t)
    PROVE  \A o \in Threads : SavingFacts(turn'[o])
<1>1. ASSUME OpensFacts(t) PROVE Facts(turn'[t].document)
  <2>1. Working(turn[t], session_user_map[SessionOf[t]])
    BY DEF MemoryInv, TurnsOwn
  <2>2. session_user_map[SessionOf[t]] \in Owners \cup {NotRegistered}
    BY MemoryAssumption DEF MemoryInv, MapsOK
  <2>3. turn[t].user \in Users
    BY <1>1, <2>1, <2>2 DEF OpensFacts, Working, Owners
  <2>4. QED
    BY <1>1, <2>3, UserMemoryHasFacts DEF OpensFacts
<1>2. SavingFacts(turn'[t])
  BY <1>1, TurnsChange DEF OpensFacts, SavingFacts, Steps, OtherSteps
<1>3. QED
  BY <1>2, TurnsChange DEF StoreInv

\* What a step makes of the facts' files.
LEMMA FactFilesChange ==
    ASSUME MemoryInv, StoreInv, NEW t \in Threads, TurnStep(t)
    PROVE  \A u \in Users : u # session_user_map[SessionOf[t]] => fact_file'[u] = fact_file[u]
<1>1. turn[t].pc # "idle" => turn[t].user = session_user_map[SessionOf[t]]
  BY DEF MemoryInv, TurnsOwn, Working
<1>2. CASE SaveFacts(t) \/ WriteFacts(t)
  <2>1. turn[t].user = session_user_map[SessionOf[t]]
    BY <1>1, <1>2 DEF SaveFacts, WriteFacts, AtStep
  <2>2. \/ fact_file' = fact_file
        \/ \E content : fact_file' = [fact_file EXCEPT ![turn[t].user] = content]
    <3> DEFINE nothing == {}
    <3>1. OpenFile(fact_file, turn[t].user) =>
            fact_file' = [fact_file EXCEPT ![turn[t].user] = nothing]
      BY DEF OpenFile
    <3> HIDE DEF nothing
    <3>2. QED
      BY <1>2, <3>1 DEF SaveFacts, WriteFacts, SaveFails, WriteFile
  <2>3. fact_file = [u \in Users |-> fact_file[u]]
    BY DEF StoreInv, Stores
  <2>4. QED
    BY <2>1, <2>2, <2>3
<1>3. CASE ~ (SaveFacts(t) \/ WriteFacts(t))
  BY <1>3 DEF TurnStep, Begin, PointAtUser, ClearMemoryDirty, DetectAndExecute, DirectReply,
         GetHistory, LookUpAnswer, AskModel, GivesUp, CacheAnswer, Remember, OpenChatFile,
         WriteChatFile, files
<1>4. QED
  BY <1>2, <1>3

LEMMA TurnsKeepFilesOpen ==
    ASSUME MemoryInv, StoreInv, NEW t \in Threads, TurnStep(t)
    PROVE  FactFilesOpen'
<1>1. /\ UNCHANGED session_user_map /\ turn = [o \in Threads |-> turn[o]]
      /\ fact_file = [u \in Users |-> fact_file[u]]
  BY DEF TurnStep, Begin, PointAtUser, ClearMemoryDirty, DetectAndExecute, SaveFacts, WriteFacts,
         DirectReply, GetHistory, LookUpAnswer, AskModel, GivesUp, CacheAnswer, Remember,
         OpenChatFile, WriteChatFile, MemoryInv, MapsOK, StoreInv, Stores
<1>2. \A o \in Threads : turn[o].pc # "idle" => turn[o].user = session_user_map[SessionOf[o]]
  BY DEF MemoryInv, TurnsOwn, Working
<1>3. \A o \in Threads : SoleThread(o)' <=> SoleThread(o)
  BY <1>1 DEF SoleThread
<1>4. \A o \in Threads : SessionOf[o] \in Sessions
  BY MemoryAssumption
<1> SUFFICES ASSUME NEW o \in Threads, SoleThread(o), turn'[o].pc = "writefacts",
                    turn'[o].user \in Users
             PROVE  fact_file'[turn'[o].user] = {}
  BY <1>3 DEF FactFilesOpen
<1>5. CASE o = t
  <2>1. OpensFacts(t)
    BY <1>5, TurnsChange DEF OtherSteps
  <2>2. QED
    BY <1>1, <1>5, <2>1 DEF OpensFacts, OpenFile
<1>6. CASE o # t
  <2>1. turn'[o] = turn[o]
    BY <1>6, TurnsChange
  <2>2. turn[o].user = session_user_map[SessionOf[o]]
    BY <1>2, <2>1
  <2>3. turn[o].user # session_user_map[SessionOf[t]]
    BY <1>4, <1>6, <2>2 DEF SoleThread
  <2>4. QED
    BY <2>1, <2>3, FactFilesChange DEF StoreInv, FactFilesOpen
<1>7. QED
  BY <1>5, <1>6


LEMMA FailuresAreCounted ==
    ASSUME NEW t \in Threads, TurnStep(t)
    PROVE  failures' \in {failures, failures + 1}
<1>1. CASE SaveFacts(t)
  BY <1>1 DEF SaveFacts, SaveFails, bounds
<1>2. CASE WriteFacts(t) \/ OpenChatFile(t) \/ WriteChatFile(t)
  <2>1. ASSUME WriteFacts(t) PROVE failures' \in {failures, failures + 1}
    BY <2>1 DEF WriteFacts, SaveFails, bounds
  <2>2. ASSUME OpenChatFile(t) PROVE failures' \in {failures, failures + 1}
    BY <2>2 DEF OpenChatFile, SaveFails, bounds
  <2>3. ASSUME WriteChatFile(t) PROVE failures' \in {failures, failures + 1}
    BY <2>3 DEF WriteChatFile, SaveFails, bounds
  <2>4. QED
    BY <1>2, <2>1, <2>2, <2>3
<1>3. CASE ~ (SaveFacts(t) \/ WriteFacts(t) \/ OpenChatFile(t) \/ WriteChatFile(t))
  BY <1>3 DEF TurnStep, Begin, PointAtUser, ClearMemoryDirty, DetectAndExecute, DirectReply,
         GetHistory, LookUpAnswer, AskModel, GivesUp, CacheAnswer, Remember, bounds
<1>4. QED
  BY <1>1, <1>2, <1>3

LEMMA TurnsKeepStores ==
    ASSUME MemoryInv, StoreInv, NEW t \in Threads, TurnStep(t)
    PROVE  /\ Stores(user_memories') /\ Stores(fact_file')
           /\ memory_store' \in Owners /\ memory_modified' \in BOOLEAN
           /\ unsaved' \subseteq Owners /\ failures' \in Nat
<1> USE DEF memories, files
<1>0. /\ Stores(user_memories) /\ Stores(fact_file)
      /\ memory_store \in Owners /\ memory_modified \in BOOLEAN /\ unsaved \subseteq Owners
      /\ SavingFacts(turn[t])
  BY DEF StoreInv
<1>1. turn[t].pc # "idle" => turn[t].user \in Owners
  <2>1. session_user_map[SessionOf[t]] \in Owners \cup {NotRegistered}
    BY MemoryAssumption DEF MemoryInv, MapsOK
  <2>2. QED
    BY <2>1 DEF MemoryInv, TurnsOwn, Working
<1>2. ASSUME PointAtUser(t)
      PROVE  Stores(user_memories') /\ memory_store' \in Owners
  <2>1. turn[t].pc # "idle"
    BY <1>2 DEF PointAtUser, AtStep
  <2>2. PICK entries \in GetUserMemory(turn[t].user) :
          user_memories' = [user_memories EXCEPT ![turn[t].user] = {entries}]
    BY <1>2 DEF PointAtUser
  <2>3. CASE turn[t].user \in Users
    BY <1>0, <1>1, <1>2, <2>1, <2>2, <2>3, UserMemoryHasFacts, StoresChange DEF PointAtUser
  <2>4. CASE turn[t].user \notin Users
    <3>1. user_memories' = user_memories
      BY <1>0, <2>2, <2>4 DEF Stores
    <3>2. QED
      BY <1>0, <1>1, <1>2, <2>1, <3>1 DEF PointAtUser
  <2>5. QED
    BY <2>3, <2>4
<1>3. ASSUME MemorySkillRuns(t), turn[t].pc = "skill"
      PROVE  Stores(user_memories') /\ memory_modified' \in BOOLEAN
  <2>1. CASE memory_store = NoUser
    BY <1>0, <1>3, <2>1 DEF MemorySkillRuns
  <2>2. CASE memory_store # NoUser
    <3>1. memory_store \in Users
      BY <1>0, <2>2 DEF Owners
    <3>2. PICK entries \in user_memories[memory_store] :
            user_memories' = [user_memories EXCEPT ![memory_store] =
                {Execute(entries, turn[t].text.words, turn[t].user).entries}]
      BY <1>3, <2>2 DEF MemorySkillRuns
    <3>3. Facts(Execute(entries, turn[t].text.words, turn[t].user).entries)
      BY <1>0, <1>1, <1>3, <3>1, ExecuteKeepsFacts DEF Stores
    <3>4. memory_modified' \in BOOLEAN
      BY <1>3 DEF MemorySkillRuns
    <3>5. QED
      BY <1>0, <3>2, <3>3, <3>4, StoresChange
  <2>3. QED
    BY <2>1, <2>2
<1>4. ASSUME DetectAndExecute(t)
      PROVE  Stores(user_memories') /\ memory_modified' \in BOOLEAN
  <2>1. turn[t].pc = "skill"
    BY <1>4 DEF DetectAndExecute, AtStep
  <2>2. MemorySkillRuns(t) \/ UNCHANGED <<user_memories, memory_modified>>
    BY <1>4 DEF DetectAndExecute, OtherSkillRuns
  <2>3. QED
    BY <1>0, <1>3, <2>1, <2>2
<1>5. ASSUME SaveFacts(t) PROVE Stores(fact_file')
  <2> DEFINE opened == [fact_file EXCEPT ![turn[t].user] = {}]
  <2>1. fact_file' = opened \/ fact_file' = fact_file
    BY <1>5 DEF SaveFacts, OpenFile, SaveFails
  <2>2. Stores(opened)
    BY <1>0, NoFacts, StoresChange
  <2> HIDE DEF opened
  <2>3. QED
    BY <1>0, <2>1, <2>2
<1>6. ASSUME WriteFacts(t) PROVE Stores(fact_file')
  <2>1. Facts(turn[t].document)
    BY <1>0, <1>6 DEF SavingFacts, WriteFacts, AtStep
  <2> DEFINE written == [fact_file EXCEPT ![turn[t].user] = {turn[t].document}]
             lost == [fact_file EXCEPT ![turn[t].user] = {}]
  <2>2. fact_file' = written \/ fact_file' = lost \/ fact_file' = fact_file
    BY <1>6 DEF WriteFacts, WriteFile, OpenFile, SaveFails
  <2>3. Stores(written) /\ Stores(lost)
    BY <1>0, <2>1, StoresChange
  <2> HIDE DEF written, lost
  <2>4. QED
    BY <1>0, <2>2, <2>3
<1>7. ASSUME ClearMemoryDirty(t) PROVE memory_modified' \in BOOLEAN
  BY <1>7 DEF ClearMemoryDirty
<1>8. /\ ~ PointAtUser(t) => memory_store' = memory_store
      /\ ~ (PointAtUser(t) \/ DetectAndExecute(t)) => user_memories' = user_memories
      /\ ~ (ClearMemoryDirty(t) \/ DetectAndExecute(t)) => memory_modified' = memory_modified
      /\ ~ (SaveFacts(t) \/ WriteFacts(t)) => fact_file' = fact_file
  BY DEF TurnStep, Begin, PointAtUser, ClearMemoryDirty, DetectAndExecute, SaveFacts, WriteFacts,
         DirectReply, GetHistory, LookUpAnswer, AskModel, GivesUp, CacheAnswer, Remember,
         OpenChatFile, WriteChatFile
<1>9. unsaved' \subseteq Owners
  <2>1. OpenChatFile(t) \/ WriteChatFile(t) => turn[t].user \in Owners
    BY <1>1 DEF OpenChatFile, WriteChatFile, AtStep
  <2>2. \/ unsaved' = unsaved
        \/ unsaved' \subseteq unsaved \cup {turn[t].user} /\ (OpenChatFile(t) \/ WriteChatFile(t))
    BY DEF TurnStep, Begin, PointAtUser, ClearMemoryDirty, DetectAndExecute, SaveFacts, WriteFacts,
           DirectReply, GetHistory, LookUpAnswer, AskModel, GivesUp, CacheAnswer, Remember,
           OpenChatFile, WriteChatFile
  <2>3. QED
    BY <1>0, <2>1, <2>2
<1>10. QED
  BY <1>0, <1>2, <1>4, <1>5, <1>6, <1>7, <1>8, <1>9, FailuresAreCounted DEF StoreInv

LEMMA NextKeepsStores ==
    ASSUME MemoryInv, StoreInv, [Next]_memoryVars
    PROVE  StoreInv'
<1> USE DEF memories, files
<1>1. ASSUME NEW t \in Threads, TurnStep(t) PROVE StoreInv'
  <2>1. (\A o \in Threads : SavingFacts(turn[o]))'
    BY <1>1, TurnsSaveFacts DEF SavingFacts, Facts
  <2>2. Stores(user_memories)' /\ Stores(fact_file)'
    BY <1>1, TurnsKeepStores DEF Stores, AtMostOne, Facts
  <2>3. QED
    BY <1>1, <2>1, <2>2, TurnsKeepStores, TurnsKeepFilesOpen DEF StoreInv
<1>2. ASSUME UNCHANGED <<user_memories, fact_file, unsaved, memory_store, memory_modified,
                         turn, failures>>,
             \A t \in Threads : SoleThread(t)' /\ turn[t].pc # "idle" => SoleThread(t)
      PROVE  StoreInv'
  <2>1. FactFilesOpen'
    BY <1>2 DEF StoreInv, FactFilesOpen
  <2>2. QED
    BY <1>2, <2>1 DEF StoreInv, Stores, AtMostOne, SavingFacts, Facts
<1>3. ASSUME Restart PROVE StoreInv'
  <2>1. /\ user_memories' = [u \in Users |-> {}] /\ fact_file' = fact_file
        /\ memory_store' = NoUser /\ memory_modified' = FALSE /\ unsaved' = {}
        /\ turn' = [t \in Threads |-> Idle] /\ Idle.pc = "idle" /\ failures' = failures
    BY <1>3 DEF Restart, Idle
  <2>2. Stores(user_memories)'
    BY <2>1 DEF Stores, AtMostOne
  <2>3. Stores(fact_file)'
    BY <2>1 DEF StoreInv, Stores, AtMostOne, Facts
  <2>4. (\A t \in Threads : SavingFacts(turn[t]))'
    BY <2>1 DEF SavingFacts, Steps
  <2>5. FactFilesOpen'
    BY <2>1 DEF FactFilesOpen
  <2>6. QED
    BY <2>1, <2>2, <2>3, <2>4, <2>5 DEF StoreInv, Owners
<1>4. ASSUME NEW s \in Sessions, NEW user \in Owners, RegisterSessionUser(s, user)
      PROVE  StoreInv'
  <2>1. /\ session_user_map[s] = NotRegistered
        /\ \A r \in Sessions : r # s => session_user_map'[r] = session_user_map[r]
    BY <1>4 DEF RegisterSessionUser, MemoryInv, MapsOK
  <2>2. ASSUME NEW t \in Threads, SoleThread(t)', turn[t].pc # "idle" PROVE SoleThread(t)
    <3>1. session_user_map[SessionOf[t]] # NotRegistered /\ SessionOf[t] \in Sessions
      BY <2>2, MemoryAssumption DEF MemoryInv, TurnsOwn, Working
    <3>2. QED
      BY <2>1, <2>2, <3>1 DEF SoleThread
  <2>3. UNCHANGED <<user_memories, fact_file, unsaved, memory_store, memory_modified, turn,
                    failures>>
    BY <1>4 DEF RegisterSessionUser, bounds
  <2>4. QED
    BY <1>2, <2>2, <2>3
<1>5. ASSUME UNCHANGED memoryVars PROVE StoreInv'
  <2>1. \A t \in Threads : SoleThread(t)' => SoleThread(t)
    BY <1>5 DEF memoryVars, SoleThread
  <2>2. UNCHANGED <<user_memories, fact_file, unsaved, memory_store, memory_modified, turn,
                    failures>>
    BY <1>5 DEF memoryVars, bounds
  <2>3. QED
    BY <1>2, <2>1, <2>2
<1>6. QED
  BY <1>1, <1>3, <1>4, <1>5 DEF Next

LEMMA InitStores == Init => StoreInv
<1> SUFFICES ASSUME Init PROVE StoreInv
  OBVIOUS
<1>1. Stores(user_memories) /\ Stores(fact_file)
  BY DEF Init, Stores, AtMostOne
<1>2. (\A t \in Threads : SavingFacts(turn[t])) /\ FactFilesOpen
  BY DEF Init, Idle, SavingFacts, Steps, FactFilesOpen
<1>3. QED
  BY <1>1, <1>2 DEF Init, StoreInv, Owners

LEMMA StoreInvHolds == Spec => []StoreInv
  BY MemoryInvHolds, InitStores, NextKeepsStores, PTL DEF Spec

-----------------------------------------------------------------------------
(* The results.                                                            *)

\* The histories of the sessions, the files of the users and what the model is
\* given hold only rounds of their own user: for any threads, sessions, users,
\* texts, limits and restarts.
THEOREM HistoriesAreOwn == Spec => []HistoryIsOwn
<1>1. MemoryInv => HistoryIsOwn
  <2> SUFFICES ASSUME MemoryInv PROVE HistoryIsOwn
    OBVIOUS
  <2>1. \A s \in Sessions : \A chat \in session_memories[s] :
           SpokenBy(chat.history, session_user_map[s])
    BY OwnIsSpokenBy DEF MemoryInv, ChatsOwn, OwnChat
  <2>2. \A u \in Users : \A d \in chat_file[u] : SpokenBy(d.rounds, u)
    BY OwnIsSpokenBy DEF MemoryInv, FilesOwn, OwnDocument
  <2>3. \A t \in Threads : SpokenBy(turn[t].history, turn[t].user)
    BY OwnIsSpokenBy DEF MemoryInv, TurnsOwn, Working
  <2>4. QED
    BY <2>1, <2>2, <2>3 DEF HistoryIsOwn
<1>2. QED
  BY <1>1, MemoryInvHolds, PTL

\* A cached answer is drawn from the time of day at most: from no history, no fact
\* and no skill, whatever store the memory skill points to.
THEOREM CachedAnswersAreImpersonal == Spec => []CacheIsImpersonal
<1>1. MemoryInv => CacheIsImpersonal
  BY DEF MemoryInv, CacheOK, CacheIsImpersonal
<1>2. QED
  BY <1>1, MemoryInvHolds, PTL

\* Every chat, also a loaded one, counts its tokens right and keeps both its limits:
\* for any limits, any estimates of the tokens, and documents of any earlier run.
THEOREM ChatsAreWithinLimits == Spec => []ChatWithinLimits
<1>1. ChatInv => ChatWithinLimits
  BY DEF ChatInv, LimitsKept, WithinLimits, ChatWithinLimits
<1>2. QED
  BY <1>1, ChatInvHolds, PTL

\* A user with one session and one thread loses nothing in a restart between two
\* turns but what a failed save left out: the file is what the session remembers,
\* but while it is written and until a save makes up for one that failed.
THEOREM ChatsAreSaved == Spec => []ChatFileCurrent
<1>1. ChatInv => ChatFileCurrent
  BY DEF ChatInv
<1>2. QED
  BY <1>1, ChatInvHolds, PTL

\* Types: one chat for each session, one store and one file for each user at the
\* most, and every turn at a step of its own, working for the user of its session.
THEOREM MemoryTypes == Spec => []TypeOK
<1>1. ASSUME MemoryInv, ChatInv, StoreInv PROVE TypeOK
  <2>1. \A S : AtMostOne(S) => Cardinality(S) <= 1
    <3> SUFFICES ASSUME NEW S, AtMostOne(S) PROVE Cardinality(S) <= 1
      OBVIOUS
    <3>1. S = {} \/ \E x : S = {x}
      BY DEF AtMostOne
    <3>2. Cardinality(S) = 0 \/ Cardinality(S) = 1
      BY <3>1, FS_EmptySet, FS_Singleton
    <3>3. QED
      BY <3>2
  <2>2. \A s \in Sessions : Cardinality(session_memories[s]) <= 1
    BY <1>1, <2>1 DEF ChatInv, ChatsSingle
  <2>3. ASSUME NEW u \in Users
        PROVE  /\ Cardinality(user_memories[u]) <= 1
               /\ Cardinality(chat_file[u]) <= 1 /\ Cardinality(fact_file[u]) <= 1
               /\ \A e \in user_memories[u] : \A i \in DOMAIN e : e[i].owner \in Owners
    BY <1>1, <2>1, FactsAreTyped DEF ChatInv, ChatsSingle, StoreInv, Stores
  <2>4. llm_cache \in [Owners \X Texts -> SUBSET SUBSET Sources]
    <3>1. {{"clock"}} \in SUBSET SUBSET Sources
      BY DEF Sources
    <3>2. \A k \in Owners \X Texts : llm_cache[k] \in SUBSET SUBSET Sources
      BY <1>1, <3>1 DEF MemoryInv, CacheOK
    <3>3. QED
      BY <1>1, <3>2 DEF MemoryInv, MapsOK
  <2>5. ASSUME NEW t \in Threads
        PROVE  /\ turn[t].pc \in Steps
               /\ turn[t].pc # "idle" => turn[t].user = session_user_map[SessionOf[t]]
    BY <1>1 DEF StoreInv, SavingFacts, MemoryInv, TurnsOwn, Working
  <2>6. QED
    BY <1>1, <2>2, <2>3, <2>4, <2>5 DEF TypeOK, MemoryInv, MapsOK, StoreInv
<1>2. QED
  BY <1>1, MemoryInvHolds, ChatInvHolds, StoreInvHolds, PTL

-----------------------------------------------------------------------------
(* The facts of a user with one session and one thread.                    *)

\* A step that changes neither the store, the file and the mark, nor the place of
\* the turn in a way that matters, keeps the facts.
LEMMA SameFactsAreKept ==
    ASSUME NEW t \in Threads, NEW u \in Users, FactsKept(t, u),
           user_memories'[u] = user_memories[u], fact_file'[u] = fact_file[u],
           \/ turn'[t] = turn[t] /\ (turn[t].pc = "facts" => memory_modified' = memory_modified)
           \/ turn[t].pc \notin {"facts", "writefacts"} /\ turn'[t].pc \notin {"facts", "writefacts"}
    PROVE  FactsKept(t, u)'
  BY DEF FactsKept, FactsToCome, AtStep

\* The steps of the turn itself lose nothing but by a save that fails.
LEMMA OwnTurnKeepsFacts ==
    ASSUME MemoryInv, StoreInv, NEW t \in Threads, NEW u \in Users, TurnStep(t),
           ~ config.streaming, SoleThread(t), session_user_map[SessionOf[t]] = u,
           FactsKept(t, u), failures' = failures
    PROVE  FactsKept(t, u)'
<1> USE DEF AtStep
<1>1. turn[t].pc # "idle" => turn[t].user = u
  BY DEF MemoryInv, TurnsOwn, Working
<1>2. u # NoUser /\ (AtMostOne(user_memories[u]) /\ AtMostOne(fact_file[u]))
  BY MemoryAssumption DEF StoreInv, Stores
<1>3. /\ user_memories = [w \in Users |-> user_memories[w]]
      /\ fact_file = [w \in Users |-> fact_file[w]] /\ failures \in Nat
  BY DEF StoreInv, Stores
<1>4. CASE PointAtUser(t)
  <2>1. PICK entries \in GetUserMemory(u) : user_memories' = [user_memories EXCEPT ![u] = {entries}]
    BY <1>1, <1>4 DEF PointAtUser
  <2>2. /\ turn[t].pc = "point" /\ turn'[t].pc = "clean" /\ fact_file' = fact_file
    BY <1>4, TurnsAreRecords DEF PointAtUser, GoTo, TurnShape, files
  <2>3. user_memories'[u] = {entries}
    BY <1>3, <2>1
  <2>4. {entries} = IF user_memories[u] # {} THEN user_memories[u]
                    ELSE IF fact_file[u] = {} THEN {<<>>} ELSE fact_file[u]
    BY <1>2, <2>1 DEF GetUserMemory, AtMostOne
  <2>5. QED
    BY <2>2, <2>3, <2>4 DEF FactsKept, FactsToCome
<1>5. CASE DetectAndExecute(t)
  <2>1. turn[t].pc = "skill" /\ turn'[t].pc = "facts" /\ fact_file' = fact_file
    BY <1>5, SkillGoesOn DEF DetectAndExecute, files
  <2>2. memory_modified' = TRUE \/ UNCHANGED <<user_memories, memory_modified>>
    BY <1>5 DEF DetectAndExecute, MemorySkillRuns, OtherSkillRuns
  <2>3. memory_modified \in BOOLEAN
    BY DEF StoreInv
  <2>4. QED
    BY <2>1, <2>2, <2>3 DEF FactsKept, FactsToCome
<1>6. CASE OpensFacts(t)
  <2>1. turn[t].pc = "facts" /\ user_memories' = user_memories /\ memory_modified
    BY <1>6 DEF OpensFacts, SaveFacts, memories
  <2>2. turn'[t].pc = "writefacts" /\ turn'[t].document \in GetUserMemory(u)
    BY <1>1, <1>6 DEF OpensFacts
  <2>3. user_memories[u] # {} => user_memories[u] = {turn'[t].document}
    BY <1>2, <2>2 DEF GetUserMemory, AtMostOne
  <2>4. QED
    BY <2>1, <2>2, <2>3 DEF FactsKept, FactsToCome
<1>7. CASE SaveFacts(t) /\ ~ OpensFacts(t)
  <2>1. turn[t].pc = "facts" /\ user_memories' = user_memories /\ turn'[t].pc \in OtherSteps
    BY <1>7, TurnsChange DEF SaveFacts, DetectAndExecute, memories
  <2>2. ~ memory_modified /\ fact_file' = fact_file
    <3>1. CASE memory_modified /\ turn[t].user # NoUser
      <4>2. ASSUME NEW entries, turn' = [turn EXCEPT ![t].pc = "writefacts", ![t].document = entries]
            PROVE  FALSE
        <5> DEFINE r1 == [turn[t] EXCEPT !.pc = "writefacts"]
                   r == [r1 EXCEPT !.document = entries]
        <5>1. turn' = [turn EXCEPT ![t] = r]
          BY <4>2
        <5>2. r1 = [pc |-> "writefacts", text |-> turn[t].text, user |-> turn[t].user,
                    hit |-> turn[t].hit, context |-> turn[t].context,
                    history |-> turn[t].history, reply |-> turn[t].reply,
                    document |-> turn[t].document]
          BY TurnsAreRecords DEF TurnShape
        <5> HIDE DEF r1
        <5>3. r.pc = "writefacts"
          BY <5>2
        <5> HIDE DEF r
        <5>4. turn'[t] = r
          BY <5>1, TurnsAreRecords
        <5>5. QED
          BY <2>1, <5>3, <5>4 DEF OtherSteps
      <4>3. SaveFails(fact_file, turn[t].user, FALSE)
        BY <1>7, <3>1, <4>2 DEF SaveFacts
      <4>4. QED
        BY <1>3, <4>3 DEF SaveFails
    <3>2. CASE ~ (memory_modified /\ turn[t].user # NoUser)
      BY <1>1, <1>2, <1>7, <2>1, <3>2 DEF SaveFacts
    <3>3. QED
      BY <3>1, <3>2
  <2>3. QED
    BY <2>1, <2>2 DEF FactsKept, FactsToCome, OtherSteps
<1>8. CASE WriteFacts(t)
  <2>1. /\ turn[t].pc = "writefacts" /\ turn[t].user = u /\ user_memories' = user_memories
        /\ turn'[t].pc \in OtherSteps
    BY <1>1, <1>8, TurnsChange DEF WriteFacts, DetectAndExecute, OpensFacts, memories
  <2>2. fact_file[u] = {}
    BY <2>1 DEF StoreInv, FactFilesOpen
  <2>3. WriteFile(fact_file, u, turn[t].document)
    BY <1>3, <1>8, <2>1 DEF WriteFacts, SaveFails
  <2>4. fact_file'[u] = {turn[t].document}
    BY <1>3, <2>2, <2>3 DEF WriteFile
  <2>5. QED
    BY <2>1, <2>4 DEF FactsKept, FactsToCome, OtherSteps
<1>9. CASE ~ (PointAtUser(t) \/ DetectAndExecute(t) \/ SaveFacts(t) \/ WriteFacts(t))
  <2>1. /\ UNCHANGED <<user_memories, fact_file>>
        /\ turn[t].pc \notin {"facts", "writefacts"}
    BY <1>9 DEF TurnStep, Begin, ClearMemoryDirty, DirectReply, GetHistory, LookUpAnswer,
         AskModel, GivesUp, CacheAnswer, Remember, OpenChatFile, WriteChatFile, memories, files
  <2>2. turn'[t].pc \in OtherSteps
    BY <1>9, <2>1, TurnsChange DEF OpensFacts
  <2>3. QED
    BY <2>1, <2>2, SameFactsAreKept DEF OtherSteps
<1>10. QED
  BY <1>4, <1>5, <1>6, <1>7, <1>8, <1>9

\* The steps of other turns reach the store, the file and the mark in two ways only.
LEMMA OtherTurnsKeepFacts ==
    ASSUME MemoryInv, StoreInv, NEW t \in Threads, NEW u \in Users,
           NEW o \in Threads \ {t}, TurnStep(o),
           ~ config.streaming, SoleThread(t), session_user_map[SessionOf[t]] = u,
           FactsKept(t, u),
           ~ (turn[t].pc = "facts" /\ turn[o].pc = "clean" /\ turn'[o].pc = "skill"),
           ~ (memory_store = u /\ turn[o].pc = "skill" /\ turn'[o].pc # "skill")
    PROVE  FactsKept(t, u)'
<1> USE DEF AtStep
<1>1. session_user_map[SessionOf[o]] # u
  BY MemoryAssumption DEF SoleThread
<1>2. turn[o].pc # "idle" => turn[o].user # u
  BY <1>1 DEF MemoryInv, TurnsOwn, Working
<1>3. fact_file'[u] = fact_file[u] /\ turn'[t] = turn[t]
  BY <1>1, FactFilesChange, TurnsChange
<1>4. /\ user_memories = [w \in Users |-> user_memories[w]] /\ memory_modified \in BOOLEAN
  BY DEF StoreInv, Stores
<1>5. user_memories'[u] = user_memories[u]
  <2>1. CASE PointAtUser(o)
    BY <1>2, <1>4, <2>1 DEF PointAtUser
  <2>2. CASE DetectAndExecute(o)
    <3>1. memory_store # u
      BY <2>2, SkillGoesOn DEF DetectAndExecute
    <3>2. QED
      BY <1>4, <2>2, <3>1 DEF DetectAndExecute, MemorySkillRuns, OtherSkillRuns
  <2>3. CASE ~ PointAtUser(o) /\ ~ DetectAndExecute(o)
    BY <2>3 DEF TurnStep, Begin, ClearMemoryDirty, SaveFacts, WriteFacts, DirectReply,
         GetHistory, LookUpAnswer, AskModel, GivesUp, CacheAnswer, Remember, OpenChatFile,
         WriteChatFile, memories
  <2>4. QED
    BY <2>1, <2>2, <2>3
<1>6. turn[t].pc = "facts" => memory_modified' \in {memory_modified, TRUE}
  <2>1. CASE ClearMemoryDirty(o)
    <3>1. turn[o].pc = "clean" /\ turn'[o].pc = "skill"
      BY <2>1, TurnsAreRecords DEF ClearMemoryDirty, GoTo, TurnShape
    <3>2. QED
      BY <3>1
  <2>2. CASE ~ ClearMemoryDirty(o)
    BY <2>2 DEF TurnStep, Begin, PointAtUser, DetectAndExecute, MemorySkillRuns, OtherSkillRuns,
         SaveFacts, WriteFacts, DirectReply, GetHistory, LookUpAnswer, AskModel, GivesUp,
         CacheAnswer, Remember, OpenChatFile, WriteChatFile, memories
  <2>3. QED
    BY <2>1, <2>2
<1>7. QED
  BY <1>3, <1>4, <1>5, <1>6 DEF FactsKept, FactsToCome

\* What a user with one session and one thread was told to be remembered or forgotten
\* is so after a restart as well, but for the two races with the turns of others and
\* for a save that fails: for any users, texts, threads and restarts.
THEOREM FactsAreLostOnlyInRaces == Spec => FactsLostOnlyInRaces
<1> DEFINE Races(t, u) ==
             \/ \E o \in Threads \ {t} : /\ AtStep(t, "facts") /\ AtStep(o, "clean")
                                       /\ turn'[o].pc = "skill"
             \/ \E o \in Threads \ {t} : /\ memory_store = u /\ AtStep(o, "skill")
                                       /\ turn'[o].pc # "skill"
             \/ failures' > failures
<1>1. ASSUME MemoryInv, StoreInv, [Next]_memoryVars, NEW t \in Threads, NEW u \in Users,
             ~ config.streaming, SoleThread(t), session_user_map[SessionOf[t]] = u,
             FactsKept(t, u), ~ Races(t, u)
      PROVE  FactsKept(t, u)'
  <2>1. ASSUME NEW o \in Threads, TurnStep(o) PROVE FactsKept(t, u)'
    <3>1. CASE o = t
      <4>1. failures \in Nat /\ failures' \in {failures, failures + 1}
        BY <1>1, <2>1, FailuresAreCounted DEF StoreInv
      <4>2. failures' = failures
        BY <1>1, <4>1
      <4>3. QED
        BY <1>1, <2>1, <3>1, <4>2, OwnTurnKeepsFacts
    <3>2. CASE o # t
      BY <1>1, <2>1, <3>2, OtherTurnsKeepFacts DEF AtStep
    <3>3. QED
      BY <3>1, <3>2
  <2>2. ASSUME Restart PROVE FactsKept(t, u)'
    BY <2>2 DEF Restart, FactsKept
  <2>3. ASSUME UNCHANGED <<user_memories, fact_file, memory_modified, turn>>
        PROVE  FactsKept(t, u)'
    BY <1>1, <2>3 DEF FactsKept, FactsToCome, AtStep
  <2>4. QED
    BY <1>1, <2>1, <2>2, <2>3 DEF Next, RegisterSessionUser, memoryVars, memories, files
<1>2. ASSUME MemoryInv, StoreInv, [Next]_memoryVars
      PROVE  [\A t \in Threads, u \in Users :
                /\ ~ config.streaming /\ SoleThread(t)
                /\ session_user_map[SessionOf[t]] = u
                /\ FactsKept(t, u) /\ ~ FactsKept(t, u)'
                => Races(t, u)]_memoryVars
  BY <1>1, <1>2
<1>3. QED
  BY <1>2, MemoryInvHolds, StoreInvHolds, PTL DEF Spec, FactsLostOnlyInRaces
=============================================================================
