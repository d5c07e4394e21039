----------------------------- MODULE ChatMemory -----------------------------
(***************************************************************************)
(* The conversation history of one session (class ChatMemory): rounds with *)
(* an estimate of their tokens, a running total, two limits, and the JSON  *)
(* document it is saved as.                                                *)
(*                                                                         *)
(* A round is a record with a field tokens; what else it holds is up to    *)
(* the caller.  The limits of the configuration are not negative: trim()   *)
(* would never end otherwise.                                              *)
(***************************************************************************)
EXTENDS Integers, Sequences, SequencesExt

\* The sum over the rounds.
Tokens(history) ==
    LET sum[n \in 0 .. Len(history)] ==
            IF n = 0 THEN 0 ELSE sum[n - 1] + history[n].tokens
    IN  sum[Len(history)]

NewChat(max_rounds, max_tokens) ==
    [history |-> <<>>, total_tokens |-> 0,
     max_rounds |-> max_rounds, max_tokens |-> max_tokens]

\* Mutant of PopFront: the running total is not brought up to date.
PopFrontKeepsTotal(chat, k) == [chat EXCEPT !.history = SubSeq(@, k + 1, Len(@))]

\* The chat after k calls of pop_front.
PopFront(chat, k) ==
    [chat EXCEPT !.history = SubSeq(@, k + 1, Len(@)),
                 !.total_tokens = @ - Tokens(SubSeq(chat.history, 1, k))]

\* Both loops pop the oldest round until their limit is kept.
Trim(chat) ==
    LET Fits(c) == /\ Len(c.history) <= chat.max_rounds
                   /\ c.total_tokens <= chat.max_tokens \/ c.history = <<>>
        pops == {k \in 0 .. Len(chat.history) : Fits(PopFront(chat, k))}
    IN  PopFront(chat, CHOOSE k \in pops : \A l \in pops : k <= l)

AddRound(chat, round) ==
    Trim([history |-> Append(chat.history, round),
          total_tokens |-> chat.total_tokens + round.tokens,
          max_rounds |-> chat.max_rounds, max_tokens |-> chat.max_tokens])

\* save_to_file: the running total is not saved.
ChatDocument(chat) ==
    [rounds |-> chat.history, max_rounds |-> chat.max_rounds, max_tokens |-> chat.max_tokens]

\* load_from_file of a document that parses: the limits of the file replace
\* those of the configuration.
LoadChat(chat, document) ==
    Trim([history |-> chat.history \o document.rounds,
          total_tokens |-> chat.total_tokens + Tokens(document.rounds),
          max_rounds |-> document.max_rounds, max_tokens |-> document.max_tokens])
=============================================================================
