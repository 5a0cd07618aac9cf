----------------------- MODULE EventLoopThread_proof -----------------------
(***************************************************************************)
(* Proofs about EventLoop, for any number of threads, tasks and channels   *)
(* and any capacity of activeEvents_; then about EventLoopThread, whose    *)
(* loop is an EventLoop: what holds of the one carries over to the other,  *)
(* and the pointer handed out stays valid while it is used.                *)
(***************************************************************************)
EXTENDS EventLoopThread, SequenceTheorems, TLAPS

\* Appending adds one element.
LEMMA ElemsAppend ==
    ASSUME NEW S, NEW s \in Seq(S), NEW e \in S
    PROVE  Elems(Append(s, e)) = Elems(s) \cup {e}
<1>1. /\ Len(Append(s, e)) = Len(s) + 1
      /\ \A i \in 1..Len(s) : Append(s, e)[i] = s[i]
      /\ Append(s, e)[Len(s) + 1] = e
      /\ Append(s, e) \in Seq(S)
  BY AppendProperties
<1>2. /\ DOMAIN s = 1..Len(s)
      /\ DOMAIN Append(s, e) = 1..(Len(s) + 1)
      /\ Len(s) \in Nat
  BY <1>1, LenProperties
<1>3. ASSUME NEW x \in Elems(Append(s, e)) PROVE x \in Elems(s) \cup {e}
  <2>1. PICK i \in 1..(Len(s) + 1) : x = Append(s, e)[i]
    BY <1>2 DEF Elems
  <2>2. CASE i = Len(s) + 1
    BY <2>1, <2>2, <1>1
  <2>3. CASE i \in 1..Len(s)
    BY <2>1, <2>3, <1>1, <1>2 DEF Elems
  <2> QED BY <2>2, <2>3, <1>2
<1>4. ASSUME NEW x \in Elems(s) PROVE x \in Elems(Append(s, e))
  <2>1. PICK i \in 1..Len(s) : x = s[i]
    BY <1>2 DEF Elems
  <2>2. i \in 1..(Len(s) + 1) /\ Append(s, e)[i] = x
    BY <2>1, <1>1, <1>2
  <2> QED BY <2>2, <1>2 DEF Elems
<1>5. e \in Elems(Append(s, e))
  <2>1. Len(s) + 1 \in DOMAIN Append(s, e)
    BY <1>2
  <2> QED BY <2>1, <1>1 DEF Elems
<1> QED BY <1>3, <1>4, <1>5

\* What a prefix of length n leaves behind is still in the rest.
LEMMA ElemsSplit ==
    ASSUME NEW S, NEW s \in Seq(S), NEW n \in 1..Len(s)
    PROVE  /\ SubSeq(s, n + 1, Len(s)) \in Seq(S)
           /\ Elems(s) \subseteq
                {s[i] : i \in 1..n} \cup Elems(SubSeq(s, n + 1, Len(s)))
<1> DEFINE r == SubSeq(s, n + 1, Len(s))
<1>1. DOMAIN s = 1..Len(s) /\ Len(s) \in Nat /\ \A i \in 1..Len(s) : s[i] \in S
  BY LenProperties
<1>2. \A i \in (n + 1)..Len(s) : s[i] \in S
  BY <1>1
<1>3. /\ r \in Seq(S)
      /\ Len(r) = IF n + 1 <= Len(s) THEN Len(s) - (n + 1) + 1 ELSE 0
      /\ \A i \in 1..(Len(s) - (n + 1) + 1) : r[i] = s[(n + 1) + i - 1]
  BY <1>1, <1>2, SubSeqProperties
<1>4. ASSUME NEW i \in 1..Len(s), i \notin 1..n PROVE s[i] \in Elems(r)
  <2> HIDE DEF r
  <2>1. /\ n + 1 <= Len(s) /\ i - n \in 1..(Len(s) - (n + 1) + 1)
        /\ (n + 1) + (i - n) - 1 = i
    BY ONLY <1>1, <1>4, n \in 1..Len(s)
  <2>3. i - n \in 1..Len(r) /\ r[i - n] = s[i]
    BY <1>3, <2>1
  <2>2. DOMAIN r = 1..Len(r)
    BY <1>3, LenProperties
  <2> QED BY <2>2, <2>3 DEF Elems
<1> HIDE DEF r
<1>5. Elems(s) \subseteq {s[i] : i \in 1..n} \cup Elems(r)
  BY <1>1, <1>4 DEF Elems
<1> QED BY <1>3, <1>5 DEF r

----------------------------------------------------------------------------
\* Every step of the loop, its callers and the kernel keeps the types.
LEMMA TypeStep == TypeOK /\ [Next]_vars => TypeOK'
<1> SUFFICES ASSUME TypeOK, [Next]_vars PROVE TypeOK'
  OBVIOUS
<1> USE DEF TypeOK, LoopPcs
<1>0. ASSUME NEW fd \in Fds, Arrival(fd)
      PROVE  readable' \in SUBSET Fds /\ rdlist' \in Seq(Fds)
  <2>1. Append(rdlist, fd) \in Seq(Fds)
    BY AppendProperties
  <2> QED BY <1>0, <2>1 DEF Arrival
<1>1. ASSUME NEW c \in Channels, Arrive(c) PROVE TypeOK'
  BY <1>1, <1>0 DEF Arrive, Fds
<1>2. ASSUME NEW p \in Callers, NEW t \in Tasks, Push(p, t) PROVE TypeOK'
  <2>1. Append(pendingFunctors, t) \in Seq(Tasks) /\ Append(queued, t) \in Seq(Tasks)
    BY AppendProperties
  <2> QED BY <1>2, <2>1 DEF Push
<1>3. ASSUME NEW p \in Callers, Wakeup(p) PROVE TypeOK'
  BY <1>3, <1>0 DEF Wakeup, Fds
<1>4. CASE Quit
  BY <1>4 DEF Quit
<1>5. CASE WaitError
  BY <1>5 DEF WaitError
<1>6. CASE Check
  BY <1>6 DEF Check
<1>7. CASE Harvest
  <2>1. PICK n \in 1..Len(rdlist) :
          /\ batch' = {rdlist[i] : i \in 1..n} \cap readable
          /\ rdlist' = SubSeq(rdlist, n + 1, Len(rdlist))
          /\ loopPc' = IF batch' = {} THEN "wait" ELSE "dispatch"
    BY <1>7 DEF Harvest
  <2>2. rdlist' \in Seq(Fds)
    BY <2>1, ElemsSplit
  <2> QED BY <1>7, <2>1, <2>2 DEF Harvest
<1>8. ASSUME NEW fd \in Fds, HandleEvent(fd) PROVE TypeOK'
  BY <1>8 DEF HandleEvent
<1>9. CASE Swap
  BY <1>9, EmptySeq DEF Swap
<1>10. CASE RunFunctor
  <2>1. Head(functors) \in Tasks /\ Tail(functors) \in Seq(Tasks)
    BY <1>10, HeadTailProperties DEF RunFunctor
  <2>2. Append(ran, Head(functors)) \in Seq(Tasks)
    BY <2>1, AppendProperties
  <2> QED BY <1>10, <2>1, <2>2 DEF RunFunctor
<1>11. CASE EndFunctors
  BY <1>11 DEF EndFunctors
<1>12. CASE UNCHANGED vars
  BY <1>12 DEF vars
<1> QED
  BY <1>1, <1>2, <1>3, <1>4, <1>5, <1>6, <1>7, <1>8, <1>9, <1>10, <1>11,
     <1>12 DEF Next, LoopStep

\* The variables of the loop always have their types: the loop dispatches
\* exactly while it has undispatched events, and the local vector of
\* doPendingFunctors is empty outside the run phase.
THEOREM TypeCorrect == Spec => []TypeOK
<1>1. Init => TypeOK
  BY EmptySeq DEF Init, TypeOK, LoopPcs
<1>2. TypeOK /\ [Next]_vars => TypeOK'
  BY TypeStep
<1> QED BY <1>1, <1>2, PTL DEF Spec

----------------------------------------------------------------------------
\* The invariant from which both wakeup properties follow: posting a task
\* rings the bell after the push, and the swap comes after the bell is read.
THEOREM WakeupInvariant == Spec => []WakeupInv
<1>1. Init => WakeupInv
  BY DEF Init, WakeupInv
<1>2. TypeOK /\ WakeupInv /\ [Next]_vars => WakeupInv'
  <2> SUFFICES ASSUME TypeOK, WakeupInv, [Next]_vars PROVE WakeupInv'
    OBVIOUS
  <2> USE DEF TypeOK, WakeupInv
  <2>0. ASSUME NEW fd \in Fds, Arrival(fd)
        PROVE  /\ readable' = readable \cup {fd}
               /\ Elems(rdlist') = Elems(rdlist) \cup {fd}
    BY <2>0, ElemsAppend DEF Arrival
  <2>1. ASSUME NEW c \in Channels, Arrive(c) PROVE WakeupInv'
    BY <2>1, <2>0 DEF Arrive, Fds
  <2>2. ASSUME NEW p \in Callers, NEW t \in Tasks, Push(p, t) PROVE WakeupInv'
    BY <2>2 DEF Push
  <2>3. ASSUME NEW p \in Callers, Wakeup(p) PROVE WakeupInv'
    BY <2>3, <2>0 DEF Wakeup, Fds
  <2>4. CASE Quit
    BY <2>4 DEF Quit
  <2>5. CASE WaitError
    BY <2>5 DEF WaitError
  <2>6. CASE Check
    BY <2>6 DEF Check
  <2>7. CASE Harvest
    <3>1. PICK n \in 1..Len(rdlist) :
            /\ batch' = {rdlist[i] : i \in 1..n} \cap readable
            /\ rdlist' = SubSeq(rdlist, n + 1, Len(rdlist))
            /\ loopPc' = IF batch' = {} THEN "wait" ELSE "dispatch"
      BY <2>7 DEF Harvest
    <3>2. Elems(rdlist) \subseteq {rdlist[i] : i \in 1..n} \cup Elems(rdlist')
      BY <3>1, ElemsSplit
    <3>3. readable' \subseteq Elems(rdlist') \cup batch'
      BY <2>7, <3>1, <3>2 DEF Harvest
    <3> QED BY <2>7, <3>1, <3>3 DEF Harvest
  <2>8. ASSUME NEW fd \in Fds, HandleEvent(fd) PROVE WakeupInv'
    BY <2>8 DEF HandleEvent
  <2>9. CASE Swap
    BY <2>9 DEF Swap
  <2>10. CASE RunFunctor
    BY <2>10 DEF RunFunctor
  <2>11. CASE EndFunctors
    BY <2>11 DEF EndFunctors
  <2>12. CASE UNCHANGED vars
    BY <2>12 DEF vars
  <2> QED
    BY <2>1, <2>2, <2>3, <2>4, <2>5, <2>6, <2>7, <2>8, <2>9, <2>10, <2>11,
       <2>12 DEF Next, LoopStep
<1> QED BY <1>1, <1>2, TypeCorrect, PTL DEF Spec

\* No wakeup is lost: a loop that waits while tasks are queued has its eventfd
\* readable and on the ready list (queueInLoop's push before its write, and
\* handleWakeup's read before the swap).
THEOREM NoWakeupLost == Spec => []NoLostWakeup
<1>1. TypeOK /\ WakeupInv => NoLostWakeup
  BY DEF TypeOK, WakeupInv, NoLostWakeup
<1> QED BY <1>1, TypeCorrect, WakeupInvariant, PTL

\* No edge is lost: while the loop waits, every readable descriptor is on the
\* ready list, whatever the capacity of activeEvents_.
THEOREM NoEdgeLost == Spec => []NoLostEdge
<1>1. TypeOK /\ WakeupInv => NoLostEdge
  BY DEF TypeOK, WakeupInv, NoLostEdge
<1> QED BY <1>1, TypeCorrect, WakeupInvariant, PTL

----------------------------------------------------------------------------
\* Moving the front of the middle sequence to the end of the first one, and
\* appending to the last one, both keep a three-part sequence in order.
LEMMA ConcatMove ==
    ASSUME NEW S, NEW a \in Seq(S), NEW b \in Seq(S), NEW c \in Seq(S), b # <<>>
    PROVE  Append(a, Head(b)) \o Tail(b) \o c = a \o b \o c
<1>1. Head(b) \in S /\ Tail(b) \in Seq(S) /\ <<Head(b)>> \in Seq(S)
  BY HeadTailProperties
<1>2. b = <<Head(b)>> \o Tail(b)
  <2>1. /\ Len(b) \in Nat \ {0} /\ Len(<<Head(b)>>) = 1
        /\ Len(Tail(b)) = Len(b) - 1
        /\ \A i \in 1..Len(Tail(b)) : Tail(b)[i] = b[i + 1]
        /\ Head(b) = b[1]
    BY EmptySeq, HeadTailProperties
  <2>2. /\ <<Head(b)>> \o Tail(b) \in Seq(S)
        /\ Len(<<Head(b)>> \o Tail(b)) = 1 + (Len(b) - 1)
        /\ \A i \in 1..(1 + Len(Tail(b))) : (<<Head(b)>> \o Tail(b))[i] =
              IF i <= 1 THEN <<Head(b)>>[i] ELSE Tail(b)[i - 1]
    BY <1>1, <2>1, ConcatProperties
  <2>3. \A i \in 1..Len(b) : b[i] = (<<Head(b)>> \o Tail(b))[i]
    BY <2>1, <2>2
  <2> QED BY <2>1, <2>2, <2>3, SeqEqual
<1>3. Append(a, Head(b)) \o Tail(b) = a \o b
  <2>1. Append(a, Head(b)) = a \o <<Head(b)>>
    BY <1>1, AppendIsConcat
  <2>2. (a \o <<Head(b)>>) \o Tail(b) = a \o (<<Head(b)>> \o Tail(b))
    BY <1>1, ConcatAssociative
  <2> QED BY <1>2, <2>1, <2>2
<1> QED BY <1>3

LEMMA ConcatAppend ==
    ASSUME NEW S, NEW a \in Seq(S), NEW c \in Seq(S), NEW e \in S
    PROVE  a \o Append(c, e) = Append(a \o c, e)
<1>1. <<e>> \in Seq(S) /\ a \o c \in Seq(S)
  BY ConcatProperties
<1> QED BY <1>1, AppendIsConcat, ConcatAssociative

\* Tasks run in the order of their pushes, none dropped and none run twice,
\* through any interleaving of queueInLoop with doPendingFunctors.
THEOREM TasksStayInOrder == Spec => []TasksInOrder
<1>1. Init => TasksInOrder
  BY EmptySeq, ConcatEmptySeq DEF Init, TasksInOrder
<1>2. TypeOK /\ TasksInOrder /\ [Next]_vars => TasksInOrder'
  <2> SUFFICES ASSUME TypeOK, TasksInOrder, [Next]_vars PROVE TasksInOrder'
    OBVIOUS
  <2> USE DEF TasksInOrder
  <2>0. /\ ran \in Seq(Tasks) /\ functors \in Seq(Tasks)
        /\ pendingFunctors \in Seq(Tasks) /\ ran \o functors \in Seq(Tasks)
    BY ConcatProperties DEF TypeOK
  <2>1. ASSUME NEW p \in Callers, NEW t \in Tasks, Push(p, t) PROVE TasksInOrder'
    <3>1. (ran \o functors) \o Append(pendingFunctors, t)
            = Append((ran \o functors) \o pendingFunctors, t)
      BY <2>0, ConcatAppend
    <3> QED BY <2>1, <3>1 DEF Push
  <2>2. CASE Swap
    <3>1. functors = <<>>
      BY <2>2 DEF Swap, TypeOK
    <3>2. /\ ran \o <<>> = ran
          /\ (ran \o pendingFunctors) \o <<>> = ran \o pendingFunctors
      BY <2>0, ConcatEmptySeq, ConcatProperties
    <3> QED BY <2>2, <3>1, <3>2 DEF Swap
  <2>3. CASE RunFunctor
    BY <2>0, <2>3, ConcatMove DEF RunFunctor
  <2>4. CASE UNCHANGED <<queued, ran, functors, pendingFunctors>>
    BY <2>4
  <2> QED
    BY <2>1, <2>2, <2>3, <2>4 DEF Next, LoopStep, Arrive, Wakeup, Quit, WaitError,
       Check, Harvest, HandleEvent, EndFunctors, vars
<1> QED BY <1>1, <1>2, TypeCorrect, PTL DEF Spec

\* EventLoop implements the abstract task queue: a push is the acceptance of a
\* task, the return of a functor its execution, every other step a stutter.
THEOREM ImplementsTaskQueue == Spec => IsTaskQueue
<1>1. Init => Queue!Init
  BY DEF Init, Queue!Init
<1>2. TypeOK /\ TasksInOrder /\ [Next]_vars => [Queue!Next]_<<queued, ran>>
  <2> SUFFICES ASSUME TypeOK, TasksInOrder, [Next]_vars
               PROVE  [Queue!Next]_<<queued, ran>>
    OBVIOUS
  <2>1. ASSUME NEW p \in Callers, NEW t \in Tasks, Push(p, t) PROVE Queue!Accept(t)
    BY <2>1 DEF Push, Queue!Accept, Elems
  <2>2. CASE RunFunctor
    <3>1. /\ ran \in Seq(Tasks) /\ functors \in Seq(Tasks) /\ functors # <<>>
          /\ pendingFunctors \in Seq(Tasks) /\ ran \o functors \in Seq(Tasks)
      BY <2>2, ConcatProperties DEF TypeOK, RunFunctor
    <3>2. /\ Len(functors) \in Nat \ {0} /\ Len(ran) \in Nat
          /\ Len(pendingFunctors) \in Nat
          /\ Head(functors) = functors[1]
      BY <3>1, EmptySeq, LenProperties, HeadTailProperties
    <3>3. /\ Len(ran \o functors) = Len(ran) + Len(functors)
          /\ (ran \o functors)[Len(ran) + 1] = functors[1]
      BY <3>1, <3>2, ConcatProperties
    <3>4. /\ Len(queued) = Len(ran) + Len(functors) + Len(pendingFunctors)
          /\ queued[Len(ran) + 1] = functors[1]
      BY <3>1, <3>2, <3>3, ConcatProperties DEF TasksInOrder
    <3> QED BY <2>2, <3>2, <3>4 DEF RunFunctor, Queue!Next, Queue!Execute
  <2>3. CASE UNCHANGED <<queued, ran>>
    BY <2>3
  <2> QED
    BY <2>1, <2>2, <2>3 DEF Next, LoopStep, Arrive, Wakeup, Quit, WaitError,
       Check, Harvest, HandleEvent, Swap, EndFunctors, vars, Queue!Next
<1> QED
  BY <1>1, <1>2, TypeCorrect, TasksStayInOrder, PTL
  DEF Spec, IsTaskQueue, Queue!Spec

\* Inside an EventLoopThread the loop is an EventLoop: the steps of the owner
\* and of threadFunc are stutters or, for the destructor, a call of quit().
THEOREM ThreadRunsEventLoop == ThreadSpec => Spec
<1>1. ThreadInit => Init
  BY DEF ThreadInit
<1>2. TypeOK /\ [ThreadNext]_allVars => [Next]_vars
  <2> SUFFICES ASSUME TypeOK, ThreadNext PROVE [Next]_vars
    BY DEF allVars
  <2>1. CASE Destruct
    <3>1. CASE loopPtr
      BY <2>1, <3>1 DEF Destruct, Quit, Next
    <3>2. CASE ~loopPtr
      BY <2>1, <3>2 DEF Destruct, TypeOK, vars
    <3> QED BY <2>1, <3>1, <3>2 DEF Destruct
  <2>2. CASE StartLoop \/ StartLoopReturns \/ Join \/ Publish \/ Unpublish \/ Finish
    BY <2>2 DEF StartLoop, StartLoopReturns, Join, Publish, Unpublish, Finish
  <2>3. CASE LoopRuns \/ LoopInterrupted \/ SocketReady
    BY <2>3 DEF LoopRuns, LoopInterrupted, SocketReady, Next
  <2>4. CASE QueueInLoop
    BY <2>4 DEF QueueInLoop, Next
  <2>5. CASE \E p \in Callers : RingBell(p)
    BY <2>5 DEF RingBell, Next
  <2> QED BY <2>1, <2>2, <2>3, <2>4, <2>5 DEF ThreadNext
<1>3. ThreadInit => TypeOK
  BY EmptySeq DEF ThreadInit, Init, TypeOK, LoopPcs
<1>4. TypeOK /\ [Next]_vars => TypeOK'
  BY TypeStep
<1>5. TypeOK /\ [ThreadNext]_allVars => TypeOK'
  BY <1>2, <1>4
<1> QED BY <1>1, <1>2, <1>3, <1>5, PTL DEF ThreadSpec, Spec

\* The owner's knowledge of the thread: the loop is only told to quit by the
\* destructor, and it only returns once told.
ThreadInv ==
    /\ ThreadTypeOK
    /\ owner \in {"idle", "starting", "using"} => ~quit
    /\ loopPc = "returned" => quit
    /\ owner = "idle" => thread = "none"
    /\ owner = "starting" => thread \in {"building", "looping"}
    /\ owner = "using" => thread = "looping"
    /\ loopPtr <=> thread = "looping"

\* Every step of the owner, of threadFunc and of the loop keeps their places in
\* line: only the destructor makes the loop return, so a pointer that startLoop()
\* waits for or has returned belongs to a loop that has not.
THEOREM ThreadInvariant == ThreadSpec => []ThreadInv
<1>1. ThreadInit => ThreadInv
  BY DEF ThreadInit, Init, ThreadInv, ThreadTypeOK
<1>2. ThreadInv /\ [ThreadNext]_allVars => ThreadInv'
  <2> SUFFICES ASSUME ThreadInv, [ThreadNext]_allVars PROVE ThreadInv'
    OBVIOUS
  <2> USE DEF ThreadInv, ThreadTypeOK
  <2>1. CASE StartLoop
    BY <2>1 DEF StartLoop, vars
  <2>2. CASE StartLoopReturns
    BY <2>2 DEF StartLoopReturns, vars
  <2>3. CASE Destruct
    BY <2>3 DEF Destruct
  <2>4. CASE Join
    BY <2>4 DEF Join, vars
  <2>5. CASE Publish
    BY <2>5 DEF Publish, vars
  <2>6. CASE Unpublish
    BY <2>6 DEF Unpublish, vars
  <2>7. CASE Finish
    BY <2>7 DEF Finish, vars
  <2>8. CASE LoopRuns
    <3>1. LoopStep => quit' = quit /\ (loopPc' = "returned" => quit)
      BY DEF LoopStep, Check, Harvest, HandleEvent, Swap, RunFunctor, EndFunctors
    <3> QED BY <2>8, <3>1 DEF LoopRuns, threadVars
  <2>9. CASE LoopInterrupted
    BY <2>9 DEF LoopInterrupted, WaitError, threadVars
  <2>10. CASE SocketReady
    BY <2>10 DEF SocketReady, Arrive, threadVars
  <2>11. CASE QueueInLoop
    BY <2>11 DEF QueueInLoop, Push, threadVars
  <2>12. CASE \E p \in Callers : RingBell(p)
    BY <2>12 DEF RingBell, Wakeup, threadVars
  <2>13. CASE UNCHANGED allVars
    BY <2>13 DEF allVars, vars, threadVars
  <2> QED
    BY <2>1, <2>2, <2>3, <2>4, <2>5, <2>6, <2>7, <2>8, <2>9, <2>10, <2>11,
       <2>12, <2>13 DEF ThreadNext
<1> QED BY <1>1, <1>2, PTL DEF ThreadSpec

\* The places of the owner and of the thread, for any loop the thread may run.
THEOREM ThreadTypeCorrect == ThreadSpec => []ThreadTypeOK
<1>1. ThreadInv => ThreadTypeOK
  BY DEF ThreadInv
<1> QED BY <1>1, ThreadInvariant, PTL

\* The pointer startLoop() returns stays valid until the owner destroys the
\* object: only the destructor makes the loop return.
THEOREM PointerStaysValid == ThreadSpec => []PointerValidWhileUsed
<1>1. ThreadInv => PointerValidWhileUsed
  BY DEF ThreadInv, PointerValidWhileUsed
<1> QED BY <1>1, ThreadInvariant, PTL

\* What the loop guarantees on its own it guarantees inside its thread: no
\* wakeup lost, tasks in order.
COROLLARY ThreadKeepsLoopGuarantees ==
    ThreadSpec => [](NoLostWakeup /\ NoLostEdge /\ TasksInOrder) /\ IsTaskQueue
BY ThreadRunsEventLoop, NoWakeupLost, NoEdgeLost, TasksStayInOrder,
   ImplementsTaskQueue, PTL
============================================================================
