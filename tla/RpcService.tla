----------------------------- MODULE RpcService ----------------------------
(***************************************************************************)
(* What the asynchronous RPC layer promises to its callers: the done       *)
(* closure of a call runs at most once, after the call was made, and finds *)
(* the outcome that belongs to this very call.                             *)
(***************************************************************************)
CONSTANTS
    Calls,
    NoOutcome,
    OutcomeOf   \* what each call is to end with, a function on Calls

VARIABLES
    made,      \* the calls made so far
    outcome    \* what done found, or NoOutcome

Init ==
    /\ made = {}
    /\ outcome = [c \in Calls |-> NoOutcome]

Make(c) ==
    /\ c \notin made
    /\ made' = made \cup {c}
    /\ UNCHANGED outcome

Finish(c) ==
    /\ c \in made
    /\ outcome[c] = NoOutcome
    /\ outcome' = [outcome EXCEPT ![c] = OutcomeOf[c]]
    /\ UNCHANGED made

Next == \E c \in Calls : Make(c) \/ Finish(c)

Spec == Init /\ [][Next]_<<made, outcome>>
============================================================================
