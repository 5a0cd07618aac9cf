----------------------------- MODULE TaskQueue -----------------------------
(***************************************************************************)
(* What an EventLoop promises to the callers of queueInLoop: the tasks it  *)
(* accepts run one at a time, each at most once, in the order in which     *)
(* they were accepted, whichever threads they came from.                   *)
(***************************************************************************)
EXTENDS Naturals, Sequences

CONSTANT Tasks

VARIABLES
    accepted,   \* every task handed to the loop so far, in order
    executed    \* the tasks that have run, in the order they ran

Init ==
    /\ accepted = <<>>
    /\ executed = <<>>

\* A task object is handed over at most once.
Accept(t) ==
    /\ \A i \in DOMAIN accepted : accepted[i] # t
    /\ accepted' = Append(accepted, t)
    /\ UNCHANGED executed

Execute ==
    /\ Len(executed) < Len(accepted)
    /\ executed' = Append(executed, accepted[Len(executed) + 1])
    /\ UNCHANGED accepted

Next == (\E t \in Tasks : Accept(t)) \/ Execute

Spec == Init /\ [][Next]_<<accepted, executed>>
============================================================================
