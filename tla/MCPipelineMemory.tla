-------------------------- MODULE MCPipelineMemory --------------------------
(***************************************************************************)
(* Model checking of PipelineMemory: an instance, and what the README and  *)
(* comments in the code promise and the model refutes.                     *)
(***************************************************************************)
EXTENDS PipelineMemory

CONSTANTS u1, u2, s1, s2, t1, t2

MCSessionOf == t1 :> s1 @@ t2 :> s2
MCSameSession == t1 :> s1 @@ t2 :> s1

Say(words, skill) == [words |-> words, skill |-> skill]

MCTexts == {Say(<<"I like", "tea">>, "none"), Say(<<"forget", "I like", "tea">>, "none"),
            Say(<<"what am I called">>, "none"), Say(<<"hello">>, "none")}

MCConfig(streaming, rounds, tokens, fc) ==
    [streaming |-> streaming, max_rounds |-> rounds, max_tokens |-> tokens,
     function_calling |-> fc]
MCConfigs == {MCConfig(FALSE, 1, 9, FALSE), MCConfig(TRUE, 2, 3, TRUE)}

\* The users are alike, and so are the sessions with their threads.
Exchange == {[x \in {s1, s2, t1, t2} |-> x], s1 :> s2 @@ s2 :> s1 @@ t1 :> t2 @@ t2 :> t1}
Symmetry == {p @@ q : p \in Permutations(Users), q \in Exchange}
\* With these the claims on single utterances are refuted.
MCClaimTexts == {Say(<<"I like", "tea">>, "none"), Say(<<"forget", "tea">>, "none"),
                 Say(<<"my name is", "Ming">>, "none")}

-----------------------------------------------------------------------------
\* README.md:456: what user A told is not visible to user B.  Claim: a store
\* holds no other user's facts, and no turn of a user is answered from those of
\* another.
MemoryIsolation ==
    /\ \A u \in Users : \A entries \in user_memories[u] :
         \A i \in DOMAIN entries : entries[i].owner \in Users => entries[i].owner = u
    /\ \A t \in Threads :
         turn[t].user \in Users => turn[t].context \cap Users \subseteq {turn[t].user}

\* README.md:455: a user who reconnects gets the conversation back.  Claim:
\* between turns the file of a user is there if a session has a history.
ReconnectRestores ==
    \A s \in Sessions : \A chat \in session_memories[s] :
        /\ session_user_map[s] \in Users /\ chat.history # <<>>
        /\ \A t \in Threads : turn[t].pc = "idle"
        => chat_file[session_user_map[s]] # {}

\* pipeline_bridge.cpp:471-472: the cache is for static queries, whose response is
\* deterministic.  Claim: a cached answer depends on nothing but the words.
CacheIsStatic == \A k \in Owners \X Texts : llm_cache[k] \subseteq {{}}

\* README.md:465: robots with one user id share memory and history.  Claim:
\* between turns two sessions of one user that have a chat have the same.
UserSharesHistory ==
    (\A t \in Threads : turn[t].pc = "idle") =>
    \A r, s \in Sessions : session_user_map[r] = session_user_map[s] =>
        \A a \in session_memories[r], b \in session_memories[s] : a.history = b.history

\* pipeline_bridge.cpp:389: the facts are saved if a skill modified them.  Claim:
\* between turns the file of a user holds what the store does.
FactsArePersisted ==
    ~ config.streaming /\ (\A t \in Threads : turn[t].pc = "idle") =>
    \A u \in Users : user_memories[u] \in {{}, {<<>>}, fact_file[u]}

\* chat_memory.cpp:160: a loaded history is trimmed if the limits have changed.
\* Claim: a chat has the limits of the configuration.
ConfigLimitsApply ==
    \A s \in Sessions : \A chat \in session_memories[s] :
        chat.max_rounds = config.max_rounds

\* skill_memory.h:11: "forget X" deletes.  Claim: after it no entry mentions X.
ForgetDeletes ==
    \A entries \in UNION {user_memories[u] : u \in Users}, x \in Texts :
        ContainsAny(x.words, {"forget"}) =>
          \A e \in Range(Execute(entries, x.words, NoUser).entries) :
            ~ Mentions(e, <<Last(x.words)>>)

\* skill_memory.cpp:161: "my name is X" is a fact.  Claim: saying it stores it.
NameIsStored ==
    \A entries \in UNION {user_memories[u] : u \in Users}, x \in Texts :
        ContainsAny(x.words, {"my name is"}) =>
          Known(Execute(entries, x.words, NoUser).entries, ExtractFact(x.words))
=============================================================================
