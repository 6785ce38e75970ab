----------------------------- MODULE TokenCheck -----------------------------
(***************************************************************************)
(* What Account Manager's handlers rely on when they ask the host about a  *)
(* token: a request is answered exactly once, it is accepted only if the   *)
(* host accepted that very request while it was open, and it is answered   *)
(* whether or not the host ever replies.                                   *)
(***************************************************************************)
CONSTANT Callers

VARIABLES
    phase,      \* phase[c]: "idle" or "asking"
    accepted,   \* accepted[c]: the host has accepted c's open request
    outcome     \* outcome[c]: what the last request returned

vars == <<phase, accepted, outcome>>

Init ==
    /\ phase = [c \in Callers |-> "idle"]
    /\ accepted = [c \in Callers |-> FALSE]
    /\ outcome = [c \in Callers |-> "none"]

Ask(c) ==
    /\ phase[c] = "idle"
    /\ phase' = [phase EXCEPT ![c] = "asking"]
    /\ outcome' = [outcome EXCEPT ![c] = "none"]
    /\ UNCHANGED accepted

HostAccepts(c) ==
    /\ phase[c] = "asking"
    /\ accepted' = [accepted EXCEPT ![c] = TRUE]
    /\ UNCHANGED <<phase, outcome>>

Answer(c, result) ==
    /\ phase[c] = "asking"
    /\ result = "accepted" => accepted[c]
    /\ phase' = [phase EXCEPT ![c] = "idle"]
    /\ accepted' = [accepted EXCEPT ![c] = FALSE]
    /\ outcome' = [outcome EXCEPT ![c] = result]

AnswerAny(c) == \E result \in {"accepted", "refused"} : Answer(c, result)

Next == \E c \in Callers : Ask(c) \/ HostAccepts(c) \/ AnswerAny(c)

Spec     == Init /\ [][Next]_vars
FairSpec == Spec /\ \A c \in Callers : WF_vars(AnswerAny(c))

=============================================================================
