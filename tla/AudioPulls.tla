------------------------------ MODULE AudioPulls ------------------------------
(***************************************************************************)
(* What RtspManager promises the session logic about the audio pulls.      *)
(* A session has at most one.  StopAudioPull does not cut off a callback   *)
(* that runs, and when it returns the session has no pull; a pull starts   *)
(* only behind such a return; Stop does with all pulls what StopAudioPull  *)
(* does with one.                                                          *)
(***************************************************************************)
CONSTANTS
    Sessions,
    Callers,  \* the threads that start and stop pulls
    None

VARIABLES
    pull,     \* what the pull of a session does
    stage,    \* what a caller has asked for
    session   \* and for which session

asking == <<stage, session>>
pullsVars == <<pull, asking>>

Init ==
    /\ pull = [s \in Sessions |-> "none"]
    /\ stage = [c \in Callers |-> "idle"]
    /\ session = [c \in Callers |-> None]

\* StopAudioPull begins, for itself or as the first half of StartAudioPull.
Ask(c, s) ==
    /\ stage[c] = "idle"
    /\ stage' = [stage EXCEPT ![c] = "stopping"]
    /\ session' = [session EXCEPT ![c] = s]
    /\ UNCHANGED pull

StopReturns(c) ==
    /\ stage[c] = "stopping"
    /\ pull[session[c]] # "callback"
    /\ pull' = [pull EXCEPT ![session[c]] = "none"]
    /\ \/ /\ stage' = [stage EXCEPT ![c] = "idle"]
          /\ session' = [session EXCEPT ![c] = None]
       \/ /\ stage' = [stage EXCEPT ![c] = "starting"]
          /\ UNCHANGED session

StartReturns(c) ==
    /\ stage[c] = "starting"
    /\ pull[session[c]] = "none"
    /\ pull' = [pull EXCEPT ![session[c]] = "reading"]
    /\ stage' = [stage EXCEPT ![c] = "idle"]
    /\ session' = [session EXCEPT ![c] = None]

PullGoes(s, before, after) ==
    /\ pull[s] = before
    /\ pull' = [pull EXCEPT ![s] = after]
    /\ UNCHANGED asking

AudioComes(s) == PullGoes(s, "reading", "callback")
CallbackReturns(s) == PullGoes(s, "callback", "reading")

\* A pull may also give up of itself.
PullEnds(s) == PullGoes(s, "reading", "none")

Stop ==
    /\ \A s \in Sessions : pull[s] # "callback"
    /\ pull' = [s \in Sessions |-> "none"]
    /\ UNCHANGED asking

Next ==
    \/ \E c \in Callers :
         \/ \E s \in Sessions : Ask(c, s)
         \/ StopReturns(c) \/ StartReturns(c)
    \/ \E s \in Sessions : AudioComes(s) \/ CallbackReturns(s) \/ PullEnds(s)
    \/ Stop

Spec == Init /\ [][Next]_pullsVars
=============================================================================
