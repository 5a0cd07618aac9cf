----------------------------- MODULE TimerQueue ----------------------------
(***************************************************************************)
(* MyRPC::TimerQueue: all the timers of an event loop behind one timerfd.  *)
(* Everything here runs in the loop's thread: addTimer is called by other  *)
(* channels' callbacks and, re-entrantly, by the callbacks of timers.      *)
(* Time counts the ticks of steady_clock; timerfd is set in microseconds,  *)
(* Grain ticks each.                                                       *)
(***************************************************************************)
EXTENDS Integers, FiniteSets

CONSTANTS
    Timers,    \* the Timer objects; each is added at most once (state bound)
    Timeouts,  \* the timeouts, in ticks
    Grain,     \* ticks of the clock per microsecond
    MaxLate,   \* bound: ticks between reading the clock and timerfd_settime
    MaxTime    \* bound: the clock stops here, which stands for any later time

ASSUME TimeAssumption ==
    /\ Timeouts \subseteq Nat
    /\ Grain \in Nat \ {0}
    /\ MaxLate \in Nat
    /\ MaxTime \in Nat

None == -1  \* timerfd is disarmed

VARIABLES
    now,         \* steady_clock::now()
    timers,      \* timers_, the heap, as the set of timers in it
    expiration,  \* expiration_ of each timer
    deleted,     \* the timers with deleted_ set
    alarm,       \* when timerfd expires, or None
    readable,    \* timerfd has an unread expiration
    ready,       \* timerfd is on epoll's ready list
    pc,          \* where the loop is: see Pcs
    clock,       \* the time handleRead works with, or None
    ran          \* history: the timers whose callback was called

vars == <<now, timers, expiration, deleted, alarm, readable, ready, pc, clock, ran>>

\* Away from the timers; about to dispatch the event of timerfd; in the loop of
\* handleRead; inside the callback of a timer.
Pcs == {"elsewhere", "event", "handleRead", "callback"}

\* Types; a timer leaves the heap before its callback runs, and the clock is
\* read while handleRead is active.
TypeOK ==
    /\ now \in 0..MaxTime
    /\ timers \subseteq Timers
    /\ expiration \in [Timers -> 0..MaxTime]
    /\ deleted \subseteq Timers
    /\ alarm \in Int
    /\ {readable, ready} \subseteq BOOLEAN
    /\ pc \in Pcs
    /\ clock \in 0..MaxTime \cup {None}
    /\ clock # None <=> pc \in {"handleRead", "callback"}
    /\ ran \subseteq Timers \ timers

Init ==
    /\ now = 0
    /\ timers = {}
    /\ expiration = [t \in Timers |-> 0]
    /\ deleted = {}
    /\ alarm = None
    /\ readable = FALSE
    /\ ready = FALSE
    /\ pc = "elsewhere"
    /\ clock = None
    /\ ran = {}

----------------------------------------------------------------------------
\* The clock and timerfd

Tick ==
    /\ now < MaxTime
    /\ now' = now + 1
    /\ UNCHANGED <<timers, expiration, deleted, alarm, readable, ready, pc, clock, ran>>

\* timerfd expires when its time has come; at MaxTime any time has.
Expire ==
    /\ alarm # None
    /\ alarm <= now \/ now = MaxTime
    /\ alarm' = None
    /\ readable' = TRUE
    /\ ready' = TRUE
    /\ UNCHANGED <<now, timers, expiration, deleted, pc, clock, ran>>

\* epoll_wait reports timerfd, registered edge-triggered, if it is on the ready
\* list and still readable; otherwise it only leaves the list.
Harvest ==
    /\ pc = "elsewhere"
    /\ ready
    /\ ready' = FALSE
    /\ pc' = IF readable THEN "event" ELSE pc
    /\ UNCHANGED <<now, timers, expiration, deleted, alarm, readable, clock, ran>>

----------------------------------------------------------------------------
\* TimerQueue

\* The smallest expiration in a non-empty heap, the top's.
IsTop(t, heap) == t \in heap /\ \A u \in heap : expiration[t] <= expiration[u]

\* duration_cast to whole microseconds, rounding down, and at least one.
Duration(left) ==
    IF left < Grain THEN Grain ELSE (left \div Grain) * Grain

\* Mutant: the duration may come out as zero, which disarms timerfd.
SetTimerfdUnclamped(exp) ==
    /\ \E late \in 0..MaxLate :
          alarm' = IF exp - now < Grain THEN None ELSE now + Duration(exp - now) + late
    /\ readable' = FALSE

\* resetTimerfd for a heap whose top expires at exp; timerfd_settime takes a
\* time relative to its own clock and drops an unread expiration.
SetTimerfd(exp) ==
    /\ \E late \in 0..MaxLate : alarm' = now + Duration(exp - now) + late
    /\ readable' = FALSE

\* Mutant: timerfd is set only for the first timer.
AddTimerKeepsAlarm(t, exp) ==
    /\ t \notin timers \cup ran \cup deleted
    /\ timers' = timers \cup {t}
    /\ expiration' = [expiration EXCEPT ![t] = exp]
    /\ IF timers = {} THEN SetTimerfd(exp) ELSE UNCHANGED <<alarm, readable>>

\* addTimer of a timer that expires at exp: timerfd is set if it is earlier
\* than all others.
AddTimer(t, exp) ==
    /\ t \notin timers \cup ran \cup deleted
    /\ timers' = timers \cup {t}
    /\ expiration' = [expiration EXCEPT ![t] = exp]
    /\ IF \A u \in timers : exp < expiration[u]
       THEN SetTimerfd(exp)
       ELSE UNCHANGED <<alarm, readable>>

\* A callback, of another channel or of a timer, may add a timer.
Add ==
    /\ pc # "handleRead"
    /\ \E t \in Timers, d \in Timeouts :
          now + d <= MaxTime /\ AddTimer(t, now + d)
    /\ UNCHANGED <<now, deleted, ready, pc, clock, ran>>

\* setDeleted() on a timer its owner still holds; it stays in the heap.
SetDeleted ==
    /\ pc # "handleRead"
    /\ \E t \in timers \cup ran : deleted' = deleted \cup {t}
    /\ UNCHANGED <<now, timers, expiration, alarm, readable, ready, pc, clock, ran>>

\* handleRead reads timerfd and the clock.
HandleRead ==
    /\ pc = "event"
    /\ readable
    /\ readable' = FALSE
    /\ clock' = now
    /\ pc' = "handleRead"
    /\ UNCHANGED <<now, timers, expiration, deleted, alarm, ready, ran>>

\* The expiration is gone: addTimer set timerfd again in the same batch.
HandleReadFails ==
    /\ pc = "event"
    /\ ~readable
    /\ pc' = "elsewhere"
    /\ UNCHANGED <<now, timers, expiration, deleted, alarm, readable, ready, clock, ran>>

\* Mutant: the top runs without a look at deleted_.
PopUnchecked(t) ==
    /\ IsTop(t, timers)
    /\ timers' = timers \ {t}
    /\ ran' = ran \cup {t}
    /\ pc' = "callback"

\* The top leaves the heap and, unless it was deleted, runs.
Pop(t) ==
    /\ IsTop(t, timers)
    /\ timers' = timers \ {t}
    /\ ran' = IF t \in deleted THEN ran ELSE ran \cup {t}
    /\ pc' = IF t \in deleted THEN pc ELSE "callback"

PopDue ==
    /\ pc = "handleRead"
    /\ \E t \in timers : expiration[t] <= clock /\ Pop(t)
    /\ UNCHANGED <<now, expiration, deleted, alarm, readable, ready, clock>>

CallbackReturns ==
    /\ pc = "callback"
    /\ pc' = "handleRead"
    /\ UNCHANGED <<now, timers, expiration, deleted, alarm, readable, ready, clock, ran>>

\* No timer is due any more: timerfd is set for the next one, if any.
HandleReadReturns ==
    /\ pc = "handleRead"
    /\ \A t \in timers : expiration[t] > clock
    /\ \/ timers = {} /\ UNCHANGED <<alarm, readable>>
       \/ \E t \in timers : IsTop(t, timers) /\ SetTimerfd(expiration[t])
    /\ clock' = None
    /\ pc' = "elsewhere"
    /\ UNCHANGED <<now, timers, expiration, deleted, ready, ran>>

----------------------------------------------------------------------------
LoopStep ==
    \/ Harvest
    \/ HandleRead
    \/ HandleReadFails
    \/ PopDue
    \/ CallbackReturns
    \/ HandleReadReturns

Next == Tick \/ Expire \/ Add \/ SetDeleted \/ LoopStep

Spec == Init /\ [][Next]_vars

\* Time goes on, the kernel reports an expiration, the loop comes back to
\* epoll_wait and callbacks return.
Fairness == WF_vars(Tick) /\ WF_vars(Expire) /\ WF_vars(LoopStep)

FairSpec == Spec /\ Fairness

----------------------------------------------------------------------------
\* Properties

\* What stands between a timer due at exp and its run is an expiration about to
\* be handled, or timerfd armed for exp, or for now if that is past, give or
\* take a microsecond and the lateness of the call that set it.
WakesFor(exp) ==
    \/ alarm # None /\ (alarm <= exp + Grain + MaxLate \/ alarm <= now + Grain + MaxLate)
    \/ readable /\ (ready \/ pc = "event")
    \/ pc \in {"handleRead", "callback"}

\* The loop never oversleeps a timer, whatever was added, deleted, cleared by
\* timerfd_settime or lost as an edge in between.
NeverOversleeps == \A t \in timers : WakesFor(expiration[t])

\* A timer runs once, when it is due, in the order of expiration and not after
\* setDeleted(), also when an earlier callback of the same batch deletes it or
\* adds an earlier one.
RunsWhenDue ==
    [][\A t \in Timers : t \in ran' /\ t \notin ran =>
          /\ t \in timers
          /\ t \notin deleted
          /\ expiration[t] <= now
          /\ \A u \in timers : expiration[t] <= expiration[u]]_vars

\* Every timer that is added leaves the heap, so it runs unless deleted, and
\* one that was deleted does not stay for ever.
TimerFires == \A t \in Timers : t \in timers ~> t \notin timers
============================================================================
