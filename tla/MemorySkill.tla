----------------------------- MODULE MemorySkill -----------------------------
(***************************************************************************)
(* What the memory skill makes of an utterance: the keyword lists of       *)
(* MemorySkill::match and execute, the patterns of extract_fact and the    *)
(* store they work on (UserMemoryStore).                                   *)
(*                                                                         *)
(* An utterance is a sequence of phrases.  The phrases of the lists are    *)
(* "remember" (ji zhu), "forget" (wang ji), "I am called" (wo jiao),       *)
(* "my name is" (wo de ming zi shi), "I like" (wo xi huan), "do you        *)
(* remember" (ni ji de), "what am I called" (wo jiao shen me), "I think    *)
(* of" (wo xiang qi lai) and the particle "ma"; all others are content.    *)
(* A list is the set of the phrases that contain one of its keywords.      *)
(***************************************************************************)
EXTENDS Integers, Sequences, SequencesExt

StoreKeywords == {"remember", "I am called", "my name is", "I like", "what am I called"}
MatchQueryKeywords == {"do you remember", "my name is", "what am I called", "I think of"}
QueryKeywords == {"do you remember", "my name is", "what am I called"}
NameKeywords == {"my name is", "what am I called"}
DeleteKeywords == {"forget"}

\* The pattern table of extract_fact, in its order: a keyword and the words
\* that take its place.
Patterns == << <<"remember", <<>> >>,
               <<"I am called", <<"the user is called">> >>,
               <<"my name is", <<"the user is called">> >>,
               <<"I like", <<"the user likes">> >> >>

ContainsAny(text, keywords) == \E i \in DOMAIN text : text[i] \in keywords

Match(text) == ContainsAny(text, StoreKeywords \cup MatchQueryKeywords \cup DeleteKeywords)

\* What follows the first occurrence of the keyword.
After(text, keyword) ==
    LET at == CHOOSE i \in DOMAIN text :
                text[i] = keyword /\ \A j \in DOMAIN text : text[j] = keyword => i <= j
    IN  SubSeq(text, at + 1, Len(text))

ExtractFact(text) ==
    LET fits == {p \in DOMAIN Patterns :
                   ContainsAny(text, {Patterns[p][1]}) /\ After(text, Patterns[p][1]) # <<>>}
        first == CHOOSE p \in fits : \A q \in fits : p <= q
    IN  IF fits = {} THEN <<>> ELSE Patterns[first][2] \o After(text, Patterns[first][1])

ExtractQuery(text) ==
    LET rest == After(text, "do you remember")
    IN  IF ~ ContainsAny(text, {"do you remember"}) THEN <<>>
        ELSE IF IsSuffix(<<"ma">>, rest) THEN Front(rest) ELSE rest

-----------------------------------------------------------------------------
\* The store: entries with a field content.

Mentions(entry, words) ==
    \E i \in 0 .. Len(entry.content) - Len(words) :
        SubSeq(entry.content, i + 1, i + Len(words)) = words

Known(entries, content) == \E i \in DOMAIN entries : entries[i].content = content

AddMemory(entries, entry) ==
    IF Known(entries, entry.content) THEN entries ELSE Append(entries, entry)

\* Only the first entry with the content is erased.
RemoveByContent(entries, content) ==
    IF Known(entries, content)
    THEN RemoveAt(entries, CHOOSE i \in DOMAIN entries :
             /\ entries[i].content = content
             /\ \A j \in DOMAIN entries : entries[j].content = content => i <= j)
    ELSE entries

SearchByKeyword(entries, words, max_results) ==
    LET found == SelectSeq(entries, LAMBDA e : Mentions(e, words))
    IN  SubSeq(found, 1, IF Len(found) < max_results THEN Len(found) ELSE max_results)

-----------------------------------------------------------------------------
\* What execute leaves in the store, and which entries its answer tells.
Outcome(entries, told) == [entries |-> entries, told |-> told]

Recall(entries, text) ==
    LET query == ExtractQuery(text)
    IN  IF ContainsAny(text, NameKeywords) \/ query = <<>>
        THEN Outcome(entries, entries)
        ELSE Outcome(entries, SearchByKeyword(entries, query, 5))

Forget(entries, text) ==
    LET fact == ExtractFact(text)
        like == SearchByKeyword(entries, fact, 1)
        gone == IF Known(entries, fact) THEN fact ELSE like[1].content
    IN  IF fact = <<>> \/ (~ Known(entries, fact) /\ like = <<>>)
        THEN Outcome(entries, <<>>)
        ELSE Outcome(RemoveByContent(entries, gone), <<>>)

\* owner: who is speaking, kept with the entry for the properties alone.
Store(entries, text, owner) ==
    LET fact == ExtractFact(text)
        content == IF fact = <<>> THEN text ELSE fact
    IN  Outcome(AddMemory(entries, [content |-> content, owner |-> owner]), <<>>)

Execute(entries, text, owner) ==
    CASE ContainsAny(text, QueryKeywords) -> Recall(entries, text)
      [] ~ ContainsAny(text, QueryKeywords) /\ ContainsAny(text, DeleteKeywords) ->
            Forget(entries, text)
      [] OTHER -> Store(entries, text, owner)
==============================================================================
