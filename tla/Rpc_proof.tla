----------------------------- MODULE Rpc_proof -----------------------------
(***************************************************************************)
(* Proofs about Rpc, for any clients, calls, workers and number of         *)
(* sequence ids: a response finds the call it answers, done runs at most   *)
(* once per call with the outcome of that very call, and a call that waits *)
(* is on the way or was lost.                                              *)
(***************************************************************************)
EXTENDS Rpc, FiniteSetTheorems, SequenceTheorems, TLAPS

----------------------------------------------------------------------------
\* The inductive invariant

\* The calls of client k that wait for a response.
Waiting(k) ==
    {c \in Calls : ClientOf[c] = k /\ pc[c] = "returned" /\ <<seq[c], c>> \in outstandings[k]}

AllWaiting == {c \in Calls : c \in Waiting(ClientOf[c])}

JobOf(c) == [client |-> ClientOf[c], id |-> seq[c], kind |-> KindOf[c]]
AnswerTo(c) == [client |-> ClientOf[c], response |-> ResponseTo(JobOf(c))]

WaitingRequests(k) == {RequestOf(c) : c \in Waiting(k)}
WaitingResponses(k) == {ResponseTo(JobOf(c)) : c \in Waiting(k)}
WaitingJobs == {JobOf(c) : c \in AllWaiting}
WaitingAnswers == {AnswerTo(c) : c \in AllWaiting}

\* Whatever is on the way is the request of a call that waits, or its response.
AllOwned ==
    /\ \A k \in Clients :
          /\ clientTasks[k] \in Seq(WaitingRequests(k))
          /\ requests[k] \in Seq(WaitingRequests(k))
          /\ responses[k] \in Seq(WaitingResponses(k))
    /\ jobs \in Seq(WaitingJobs)
    /\ \A w \in Workers : working[w] \in WaitingJobs \cup {None}
    /\ serverTasks \in Seq(WaitingAnswers)

\* The calls whose message is in a queue: that of a client's loop, a connection,
\* the pool, a worker's hands, the server's loop, or the connection back.
Queues == {"clientTasks", "requests", "jobs", "working", "serverTasks", "responses"}
In == [queue \in Queues |-> {c \in AllWaiting :
    CASE queue = "clientTasks" -> RequestOf(c) \in Range(clientTasks[ClientOf[c]])
      [] queue = "requests"    -> RequestOf(c) \in Range(requests[ClientOf[c]])
      [] queue = "jobs"        -> JobOf(c) \in Range(jobs)
      [] queue = "working"     -> \E w \in Workers : working[w] = JobOf(c)
      [] queue = "serverTasks" -> AnswerTo(c) \in Range(serverTasks)
      [] queue = "responses"   -> ResponseTo(JobOf(c)) \in Range(responses[ClientOf[c]])}]

\* No message is there twice, neither in two queues nor in one.
OnePlace ==
    /\ \A q, r \in Queues : \A c \in In[q] \cap In[r] : q = r
    /\ \A k \in Clients :
          IsInjective(clientTasks[k]) /\ IsInjective(requests[k]) /\ IsInjective(responses[k])
    /\ IsInjective(jobs) /\ IsInjective(serverTasks)
    /\ \A v, w \in Workers : working[v] = working[w] => v = w \/ working[v] = None

\* A call that waits is on the way, or was lost.
AllPlaced == \A c \in AllWaiting : c \in lost \/ \E q \in Queues : c \in In[q]

\* Only calls of a registered service get past the server's loop.
OnlyServed ==
    \A q \in {"jobs", "working", "serverTasks", "responses"} :
        \A c \in In[q] : KindOf[c] # "noService"

\* The calls of a client that have an id.  They have the ids from 1 on, so the
\* next id is new as long as a call is left to take it.
Numbered(k) == {c \in Calls : ClientOf[c] = k /\ pc[c] # "ready"}

IdsDistinct ==
    \A k \in Clients :
        /\ \A c, d \in Numbered(k) : seq[c] = seq[d] => c = d
        /\ LET n == Cardinality(Numbered(k))
           IN  n < SeqSpace =>
                   /\ nextSeq[k] = IF n + 1 < SeqSpace THEN n + 1 ELSE 0
                   /\ \A c \in Numbered(k) : seq[c] \in 1..n

\* An entry of the table is that of a call without an outcome, and a call that is
\* about to send its request has one.
TableInv ==
    /\ \A k \in Clients : \A e \in outstandings[k] :
          /\ ClientOf[e[2]] = k
          /\ e[1] = seq[e[2]]
          /\ pc[e[2]] \in {"inserted", "returned"}
          /\ outcome[e[2]] = None
    /\ \A c \in Calls : pc[c] = "inserted" => <<seq[c], c>> \in outstandings[ClientOf[c]]

\* A call whose response was found has no entry any more, and its outcome is
\* the deserved one.
CompletingInv ==
    \A k \in Clients : completing[k] # None =>
        LET c == completing[k][1]
        IN  /\ ClientOf[c] = k
            /\ pc[c] = "returned"
            /\ <<seq[c], c>> \notin outstandings[k]
            /\ outcome[c] = None
            /\ CodeOf(completing[k][2]) = DeservedBy(KindOf[c])

\* Calls that have an entry or an outcome have been made.
Made == \A c \in Calls : outcome[c] # None => pc[c] = "returned"

RpcInv ==
    /\ TypeOK
    /\ AllOwned
    /\ OnePlace
    /\ AllPlaced
    /\ OnlyServed
    /\ IdsDistinct
    /\ TableInv
    /\ CompletingInv
    /\ Made
----------------------------------------------------------------------------
\* Lemmas about ids, the table and the queues

\* The counter of sequence ids wraps around.
LEMMA NextId ==
    ASSUME NEW x \in 0..SeqSpace - 1
    PROVE  (x + 1) % SeqSpace = IF x + 1 < SeqSpace THEN x + 1 ELSE 0
<1> USE SeqAssumption
<1>1. CASE x + 1 < SeqSpace
  <2>1. (x + 1) % SeqSpace = x + 1
    BY <1>1
  <2> QED BY <1>1, <2>1
<1>2. CASE x + 1 = SeqSpace
  <2>1. SeqSpace % SeqSpace = 0
    OBVIOUS
  <2> QED BY <1>2, <2>1
<1> QED BY <1>1, <1>2

\* A client's calls are few enough for the ids.
LEMMA NumberedFew ==
    ASSUME NEW k \in Clients
    PROVE  /\ IsFiniteSet(Numbered(k))
           /\ Cardinality(Numbered(k)) \in Nat
           /\ \A c \in Calls : ClientOf[c] = k /\ pc[c] = "ready" =>
                  Cardinality(Numbered(k)) < SeqSpace
<1> DEFINE calls == {c \in Calls : ClientOf[c] = k}
<1>1. /\ IsFiniteSet(calls)
      /\ Cardinality(calls) <= SeqSpace
  BY SeqAssumption
<1>2. Numbered(k) \subseteq calls
  BY DEF Numbered
<1>3. /\ IsFiniteSet(Numbered(k))
      /\ Cardinality(Numbered(k)) <= Cardinality(calls)
      /\ Cardinality(calls) = Cardinality(Numbered(k)) => Numbered(k) = calls
  BY <1>1, <1>2, FS_Subset
<1>4. Cardinality(Numbered(k)) \in Nat /\ Cardinality(calls) \in Nat
  BY <1>1, <1>3, FS_CardinalityType
<1>5. ASSUME NEW c \in Calls, ClientOf[c] = k, pc[c] = "ready"
      PROVE  Numbered(k) # calls
  BY <1>5 DEF Numbered
<1> QED BY <1>1, <1>3, <1>4, <1>5, SeqAssumption

\* The front of a queue leaves.
LEMMA TailLeaves ==
    ASSUME NEW S, NEW s \in Seq(S), s # <<>>, IsInjective(s)
    PROVE  /\ Head(s) \in S /\ Head(s) \in Range(s)
           /\ Tail(s) \in Seq(S) /\ IsInjective(Tail(s))
           /\ Range(Tail(s)) = Range(s) \ {Head(s)}
<1>1. /\ Tail(s) \in Seq(S) /\ Head(s) \in S
      /\ 1 \in DOMAIN s /\ Head(s) = s[1]
  OBVIOUS
<1>2. ASSUME NEW i \in DOMAIN Tail(s)
      PROVE  i \in Nat /\ i + 1 \in DOMAIN s /\ i + 1 # 1 /\ Tail(s)[i] = s[i + 1]
  OBVIOUS
<1>3. ASSUME NEW i \in DOMAIN s, i # 1
      PROVE  i - 1 \in DOMAIN Tail(s) /\ Tail(s)[i - 1] = s[i]
  BY <1>3
<1>4. IsInjective(Tail(s))
  BY <1>2 DEF IsInjective
<1>5. Range(Tail(s)) \subseteq Range(s) \ {Head(s)}
  BY <1>1, <1>2 DEF IsInjective, Range
<1>6. Range(s) \ {Head(s)} \subseteq Range(Tail(s))
  BY <1>1, <1>3 DEF Range
<1> QED BY <1>1, <1>4, <1>5, <1>6 DEF Range

\* A message is added behind the others.
LEMMA AppendAdds ==
    ASSUME NEW S, NEW s \in Seq(S), NEW m \in S
    PROVE  /\ Append(s, m) \in Seq(S)
           /\ Range(Append(s, m)) = Range(s) \cup {m}
           /\ IsInjective(s) /\ m \notin Range(s) => IsInjective(Append(s, m))
<1>1. /\ Append(s, m) \in Seq(S)
      /\ DOMAIN Append(s, m) = DOMAIN s \cup {Len(s) + 1}
      /\ Append(s, m)[Len(s) + 1] = m
      /\ \A i \in DOMAIN s : Append(s, m)[i] = s[i]
  OBVIOUS
<1>2. Range(Append(s, m)) = Range(s) \cup {m}
  BY <1>1 DEF Range
<1>3. IsInjective(s) /\ m \notin Range(s) => IsInjective(Append(s, m))
  BY <1>1 DEF Range, IsInjective
<1> QED BY <1>1, <1>2, <1>3

\* What a connection does with a message handed to it.
LEMMA HandedAppends ==
    ASSUME NEW T, NEW q \in [Clients -> Seq(T)], NEW k \in Clients, NEW m \in T
    PROVE  /\ Handed(k, q, m) \in [Clients -> Seq(T)]
           /\ \A j \in Clients : j # k => Handed(k, q, m)[j] = q[j]
           /\ Handed(k, q, m)[k] = IF link[k] = "up" THEN Append(q[k], m) ELSE q[k]
           /\ link[k] # "up" => Handed(k, q, m) = q
<1>1. Append(q[k], m) \in Seq(T)
  OBVIOUS
<1> QED BY <1>1 DEF Handed

----------------------------------------------------------------------------
\* Lemmas about the calls that wait

\* What the steps that leave the callers alone do not change.
LEMMA CallersUnchanged ==
    ASSUME UNCHANGED callers
    PROVE  /\ \A k : Waiting(k)' = Waiting(k) /\ Numbered(k)' = Numbered(k)
           /\ AllWaiting' = AllWaiting
           /\ \A c : /\ RequestOf(c)' = RequestOf(c) /\ JobOf(c)' = JobOf(c)
                    /\ ResponseTo(JobOf(c))' = ResponseTo(JobOf(c)) /\ AnswerTo(c)' = AnswerTo(c)
           /\ \A k : WaitingRequests(k)' = WaitingRequests(k)
           /\ \A k : WaitingResponses(k)' = WaitingResponses(k)
           /\ WaitingJobs' = WaitingJobs
           /\ WaitingAnswers' = WaitingAnswers
  BY DEF callers, Waiting, AllWaiting, Numbered, WaitingRequests, WaitingResponses, WaitingJobs,
         WaitingAnswers, RequestOf, JobOf, AnswerTo, ResponseTo, Error, Result

LEMMA QueuesUnchanged ==
    ASSUME UNCHANGED callers
    PROVE  /\ UNCHANGED clientTasks => In'["clientTasks"] = In["clientTasks"]
           /\ UNCHANGED requests => In'["requests"] = In["requests"]
           /\ UNCHANGED jobs => In'["jobs"] = In["jobs"]
           /\ UNCHANGED working => In'["working"] = In["working"]
           /\ UNCHANGED serverTasks => In'["serverTasks"] = In["serverTasks"]
           /\ UNCHANGED responses => In'["responses"] = In["responses"]
  BY CallersUnchanged DEF In, Queues

\* A message that goes from one queue to another, or leaves the first and is lost,
\* is not in two queues.
LEMMA MoveLeavesOne ==
    ASSUME NEW I, NEW J, NEW from \in Queues, NEW to \in Queues, NEW d \in I[from],
           \A q, r \in Queues : \A c \in I[q] \cap I[r] : q = r,
           from # to, J[from] = I[from] \ {d}, J[to] \in {I[to], I[to] \cup {d}},
           \A q \in Queues \ {from, to} : J[q] = I[q]
    PROVE  \A q, r \in Queues : \A c \in J[q] \cap J[r] : q = r
<1> SUFFICES ASSUME NEW q \in Queues, NEW r \in Queues, NEW c \in J[q] \cap J[r]
             PROVE  q = r
  OBVIOUS
<1>1. \A p \in Queues : c \in J[p] => (c # d /\ c \in I[p]) \/ (c = d /\ p = to)
  OBVIOUS
<1> QED BY <1>1

\* Their messages are messages of the right types.
LEMMA WaitingTypes ==
    ASSUME TypeOK
    PROVE  /\ \A k \in Clients : WaitingRequests(k) \subseteq Request
           /\ \A k \in Clients : WaitingResponses(k) \subseteq Response
           /\ WaitingJobs \subseteq Job
           /\ WaitingAnswers \subseteq [client : Clients, response : Response]
<1>1. ASSUME NEW c \in Calls
      PROVE  /\ RequestOf(c) \in Request
             /\ JobOf(c) \in Job
             /\ ResponseTo(JobOf(c)) \in Response
             /\ AnswerTo(c) \in [client : Clients, response : Response]
  <2>1. seq[c] \in Ids /\ ClientOf[c] \in Clients /\ KindOf[c] \in Kinds
    BY CallsAssumption DEF TypeOK
  <2>2. RequestOf(c) \in Request /\ JobOf(c) \in Job
    BY <2>1 DEF RequestOf, Request, JobOf, Job
  <2>3. ResponseTo(JobOf(c)) \in Response
    BY <2>1 DEF ResponseTo, JobOf, Error, Result, Response, Codes
  <2> QED BY <2>1, <2>2, <2>3 DEF AnswerTo
<1> QED BY <1>1 DEF WaitingRequests, WaitingResponses, WaitingJobs, WaitingAnswers,
              Waiting, AllWaiting

\* A message on the way gives away the one call it belongs to.
LEMMA WaitingIds ==
    ASSUME TypeOK, IdsDistinct, NEW k \in Clients, NEW c \in Waiting(k),
           NEW d \in Calls, ClientOf[d] = k, pc[d] # "ready", seq[c] = seq[d]
    PROVE  c = d
  BY DEF IdsDistinct, Waiting, Numbered

\* The messages of a call carry its id and its client.
LEMMA MessageFields ==
    ASSUME NEW c
    PROVE  /\ RequestOf(c).id = seq[c] /\ RequestOf(c).kind = KindOf[c]
           /\ JobOf(c).client = ClientOf[c] /\ JobOf(c).id = seq[c] /\ JobOf(c).kind = KindOf[c]
           /\ ResponseTo(JobOf(c)).id = seq[c]
           /\ AnswerTo(c).client = ClientOf[c] /\ AnswerTo(c).response = ResponseTo(JobOf(c))
           /\ AnswerTo(c).response.id = seq[c]
  BY DEF RequestOf, JobOf, ResponseTo, Error, Result, AnswerTo

----------------------------------------------------------------------------
\* Steps that move a message and leave the callers alone

\* The part of TypeOK these steps change.
QueueTypes ==
    /\ link \in [Clients -> {"none", "up", "down"}]
    /\ clientTasks \in [Clients -> Seq(Request)]
    /\ requests \in [Clients -> Seq(Request)]
    /\ jobs \in Seq(Job)
    /\ working \in [Workers -> Job \cup {None}]
    /\ serverTasks \in Seq([client : Clients, response : Response])
    /\ responses \in [Clients -> Seq(Response)]
    /\ lost \subseteq Calls

LEMMA MoveKeepsInv ==
    ASSUME RpcInv, UNCHANGED <<callers, results>>,
           QueueTypes', AllOwned', OnePlace', AllPlaced', OnlyServed'
    PROVE  RpcInv'
<1>1. UNCHANGED <<pc, seq, nextSeq, outstandings, completing, outcome>>
  BY DEF callers, results
<1>2. TypeOK /\ IdsDistinct /\ TableInv /\ CompletingInv /\ Made
  BY DEF RpcInv
<1>3. TypeOK'
  BY <1>1, <1>2 DEF TypeOK, QueueTypes
<1>4. IdsDistinct'
  <2>1. \A k : Numbered(k)' = Numbered(k)
    BY CallersUnchanged
  <2> QED BY <1>1, <1>2, <2>1 DEF IdsDistinct
<1>5. TableInv' /\ CompletingInv' /\ Made'
  BY <1>1, <1>2 DEF TableInv, CompletingInv, Made
<1> QED BY <1>3, <1>4, <1>5 DEF RpcInv

\* A call that waits and whose message is lost is a lost call.
LEMMA LostCalls ==
    ASSUME TypeOK, NEW k \in Clients, NEW ids
    PROVE  /\ CallsWith(k, ids) \subseteq Calls
           /\ \A c \in Waiting(k) : seq[c] \in ids => c \in CallsWith(k, ids)
           /\ lost \subseteq LostIfDown(k, ids)
           /\ LostIfDown(k, ids) \subseteq Calls
           /\ link[k] # "up" => CallsWith(k, ids) \subseteq LostIfDown(k, ids)
  BY DEF CallsWith, Waiting, LostIfDown, TypeOK

\* A request handed to the connection.
LEMMA HandedRequest ==
    ASSUME RpcInv, NEW k \in Clients, NEW m \in WaitingRequests(k), m \notin Range(requests[k]),
           requests' = Handed(k, requests, m)
    PROVE  /\ requests' \in [Clients -> Seq(Request)]
           /\ \A j \in Clients : j # k => requests'[j] = requests[j]
           /\ requests'[k] \in Seq(WaitingRequests(k))
           /\ IsInjective(requests'[k])
           /\ link[k] = "up" => Range(requests'[k]) = Range(requests[k]) \cup {m}
           /\ link[k] # "up" => requests' = requests
<1>1. /\ requests \in [Clients -> Seq(Request)] /\ m \in Request
      /\ requests[k] \in Seq(WaitingRequests(k)) /\ IsInjective(requests[k])
  BY WaitingTypes DEF RpcInv, TypeOK, AllOwned, OnePlace
<1>2. /\ Append(requests[k], m) \in Seq(WaitingRequests(k))
      /\ Range(Append(requests[k], m)) = Range(requests[k]) \cup {m}
      /\ IsInjective(Append(requests[k], m))
  BY <1>1, AppendAdds
<1>3. /\ Handed(k, requests, m) \in [Clients -> Seq(Request)]
      /\ \A j \in Clients : j # k => Handed(k, requests, m)[j] = requests[j]
      /\ Handed(k, requests, m)[k] = IF link[k] = "up" THEN Append(requests[k], m) ELSE requests[k]
      /\ link[k] # "up" => Handed(k, requests, m) = requests
  BY <1>1, HandedAppends
<1> QED BY <1>1, <1>2, <1>3

LEMMA WriteRequestStep ==
    ASSUME RpcInv, NEW k \in Clients, WriteRequest(k)
    PROVE  RpcInv'
<1> DEFINE m == Head(clientTasks[k])
<1>1. TypeOK /\ QueueTypes /\ AllOwned /\ OnePlace /\ AllPlaced /\ OnlyServed /\ IdsDistinct
  BY DEF RpcInv, TypeOK, QueueTypes
<1>2. /\ clientTasks[k] # <<>>
      /\ clientTasks' = [clientTasks EXCEPT ![k] = Tail(clientTasks[k])]
      /\ requests' = Handed(k, requests, m)
      /\ lost' = LostIfDown(k, {m.id})
      /\ UNCHANGED <<link, callers, serverTasks, responses, jobs, working, results>>
  BY DEF WriteRequest, pool
<1>3. /\ clientTasks[k] \in Seq(WaitingRequests(k)) /\ requests[k] \in Seq(WaitingRequests(k))
      /\ clientTasks \in [Clients -> Seq(Request)] /\ requests \in [Clients -> Seq(Request)]
      /\ IsInjective(clientTasks[k]) /\ IsInjective(requests[k])
  BY <1>1 DEF AllOwned, QueueTypes, OnePlace
<1>4. /\ m \in WaitingRequests(k) /\ m \in Range(clientTasks[k])
      /\ Tail(clientTasks[k]) \in Seq(WaitingRequests(k))
      /\ Tail(clientTasks[k]) \in Seq(Request)
      /\ Range(Tail(clientTasks[k])) = Range(clientTasks[k]) \ {m}
      /\ IsInjective(Tail(clientTasks[k]))
  BY <1>2, <1>3, TailLeaves
<1>5. m \in Request
  BY <1>1, <1>4, WaitingTypes
<1> HIDE DEF m
<1>6. PICK d \in Waiting(k) : m = RequestOf(d)
  BY <1>4 DEF WaitingRequests
<1>7. /\ d \in AllWaiting /\ ClientOf[d] = k /\ seq[d] = m.id
      /\ \A c \in AllWaiting : ClientOf[c] = k /\ RequestOf(c) = m => c = d
  BY <1>1, <1>6, WaitingIds, MessageFields DEF Waiting, AllWaiting
<1>8. d \in In["clientTasks"] /\ d \notin In["requests"] /\ m \notin Range(requests[k])
  BY <1>1, <1>4, <1>6, <1>7 DEF In, OnePlace, Queues
<1>9. /\ requests' \in [Clients -> Seq(Request)]
      /\ requests'[k] \in Seq(WaitingRequests(k)) /\ IsInjective(requests'[k])
      /\ \A j \in Clients : j # k => requests'[j] = requests[j]
      /\ link[k] = "up" => Range(requests'[k]) = Range(requests[k]) \cup {m}
      /\ link[k] # "up" => requests' = requests
  BY <1>2, <1>4, <1>8, HandedRequest
<1>10. /\ clientTasks' \in [Clients -> Seq(Request)]
       /\ clientTasks'[k] = Tail(clientTasks[k])
       /\ \A j \in Clients : j # k => clientTasks'[j] = clientTasks[j]
  BY <1>2, <1>3, <1>4
<1>11. QueueTypes'
  BY <1>1, <1>2, <1>9, <1>10, LostCalls DEF QueueTypes
<1>12. AllOwned'
  BY <1>1, <1>2, <1>4, <1>9, <1>10, CallersUnchanged DEF AllOwned
\* Call d leaves the queue of the loop and arrives on the connection, if it is up.
<1>13. In'["clientTasks"] = In["clientTasks"] \ {d}
  BY <1>2, <1>4, <1>6, <1>7, <1>10, CallersUnchanged, CallsAssumption DEF In, Queues, AllWaiting
<1>14. In'["requests"] = IF link[k] = "up" THEN In["requests"] \cup {d} ELSE In["requests"]
  <2>1. /\ In["requests"] = {c \in AllWaiting : RequestOf(c) \in Range(requests[ClientOf[c]])}
        /\ In'["requests"] = {c \in AllWaiting : RequestOf(c) \in Range(requests'[ClientOf[c]])}
    BY <1>2, CallersUnchanged DEF In, Queues
  <2>2. CASE link[k] # "up"
    BY <1>9, <2>1, <2>2
  <2>3. CASE link[k] = "up"
    <3>1. ASSUME NEW c \in AllWaiting
          PROVE  RequestOf(c) \in Range(requests'[ClientOf[c]]) <=>
                    RequestOf(c) \in Range(requests[ClientOf[c]]) \/ c = d
      <4>1. ClientOf[c] \in Clients
        BY CallsAssumption DEF AllWaiting
      <4>2. CASE ClientOf[c] = k
        BY <1>6, <1>7, <1>9, <2>3, <4>2
      <4>3. CASE ClientOf[c] # k
        BY <1>7, <1>9, <4>1, <4>3
      <4> QED BY <4>2, <4>3
    <3> QED BY ONLY <1>7, <2>1, <2>3, <3>1
  <2> QED BY <2>2, <2>3
<1>15. \A q \in Queues \ {"clientTasks", "requests"} : In'[q] = In[q]
  BY <1>2, QueuesUnchanged DEF Queues
<1>16. OnePlace'
  <2>1. \A q, r \in Queues : \A c \in In'[q] \cap In'[r] : q = r
    BY <1>1, <1>8, <1>13, <1>14, <1>15, MoveLeavesOne DEF OnePlace, Queues
  <2> QED BY <1>1, <1>2, <1>4, <1>9, <1>10, <2>1 DEF OnePlace
<1>17. AllPlaced'
  BY <1>1, <1>2, <1>7, <1>13, <1>14, <1>15, LostCalls, CallersUnchanged DEF AllPlaced, Queues
<1>18. OnlyServed'
  BY <1>1, <1>15 DEF OnlyServed, Queues
<1> QED BY <1>1, <1>2, <1>11, <1>12, <1>16, <1>17, <1>18, MoveKeepsInv

LEMMA ReceiveRequestStep ==
    ASSUME RpcInv, NEW k \in Clients, ReceiveRequest(k)
    PROVE  RpcInv'
<1> DEFINE r == Head(requests[k])
           job == [client |-> k, id |-> r.id, kind |-> r.kind]
<1>1. TypeOK /\ QueueTypes /\ AllOwned /\ OnePlace /\ AllPlaced /\ OnlyServed /\ IdsDistinct
  BY DEF RpcInv, TypeOK, QueueTypes
<1>2. /\ requests[k] # <<>>
      /\ requests' = [requests EXCEPT ![k] = Tail(requests[k])]
      /\ \/ jobs' = Append(jobs, job) /\ lost' = lost /\ r.kind # "noService"
         \/ jobs' = jobs /\ lost' = lost \cup CallsWith(k, {r.id})
      /\ UNCHANGED <<link, callers, clientTasks, serverTasks, responses, working, results>>
  BY DEF ReceiveRequest
<1>3. /\ requests[k] \in Seq(WaitingRequests(k)) /\ IsInjective(requests[k])
      /\ requests \in [Clients -> Seq(Request)]
      /\ jobs \in Seq(WaitingJobs) /\ IsInjective(jobs)
  BY <1>1 DEF AllOwned, QueueTypes, OnePlace
<1>4. /\ r \in WaitingRequests(k) /\ r \in Range(requests[k])
      /\ Tail(requests[k]) \in Seq(WaitingRequests(k)) /\ Tail(requests[k]) \in Seq(Request)
      /\ Range(Tail(requests[k])) = Range(requests[k]) \ {r}
      /\ IsInjective(Tail(requests[k]))
  BY <1>2, <1>3, TailLeaves
<1> HIDE DEF r
<1>5. PICK d \in Waiting(k) : r = RequestOf(d)
  BY <1>4 DEF WaitingRequests
<1>6. /\ d \in AllWaiting /\ ClientOf[d] = k /\ seq[d] = r.id /\ r.kind = KindOf[d]
      /\ \A c \in AllWaiting : ClientOf[c] = k /\ RequestOf(c) = r => c = d
      /\ \A c \in AllWaiting : JobOf(c) = JobOf(d) => c = d
  BY <1>1, <1>5, WaitingIds, MessageFields DEF Waiting, AllWaiting
<1>7. job = JobOf(d) /\ job \in WaitingJobs
  BY <1>5, <1>6, MessageFields DEF JobOf, WaitingJobs
<1> HIDE DEF job
<1>8. d \in In["requests"] /\ d \notin In["jobs"] /\ job \notin Range(jobs)
  BY <1>1, <1>4, <1>5, <1>6, <1>7 DEF In, OnePlace, Queues
<1>9. /\ jobs' \in Seq(WaitingJobs) /\ IsInjective(jobs')
      /\ jobs' # jobs => Range(jobs') = Range(jobs) \cup {job} /\ r.kind # "noService"
      /\ jobs' = jobs => d \in lost' /\ lost \subseteq lost'
      /\ lost \subseteq lost' /\ lost' \subseteq Calls
  <2>1. CASE jobs' = Append(jobs, job) /\ lost' = lost /\ r.kind # "noService"
    <3>1. jobs' # jobs
      BY <1>3, <1>7, <2>1
    <3> QED BY <1>1, <1>3, <1>7, <1>8, <2>1, <3>1, AppendAdds DEF QueueTypes
  <2>2. CASE jobs' = jobs /\ lost' = lost \cup CallsWith(k, {r.id})
    BY <1>1, <1>3, <1>6, <2>2, LostCalls DEF QueueTypes
  <2> QED BY <1>2, <2>1, <2>2
<1>10. /\ requests' \in [Clients -> Seq(Request)]
       /\ requests'[k] = Tail(requests[k])
       /\ \A j \in Clients : j # k => requests'[j] = requests[j]
  BY <1>2, <1>3, <1>4
<1>11. WaitingJobs \subseteq Job
  BY <1>1, WaitingTypes
<1>12. QueueTypes'
  BY <1>1, <1>2, <1>9, <1>10, <1>11, SeqMonotonic DEF QueueTypes
<1>13. AllOwned'
  BY <1>1, <1>2, <1>4, <1>9, <1>10, CallersUnchanged DEF AllOwned
\* Call d leaves the connection and arrives in the pool, unless it is lost.
<1>14. In'["requests"] = In["requests"] \ {d}
  BY <1>2, <1>4, <1>5, <1>6, <1>10, CallersUnchanged, CallsAssumption DEF In, Queues, AllWaiting
<1>15. In'["jobs"] = IF jobs' = jobs THEN In["jobs"] ELSE In["jobs"] \cup {d}
  BY <1>2, <1>6, <1>7, <1>9, CallersUnchanged DEF In, Queues
<1>16. \A q \in Queues \ {"requests", "jobs"} : In'[q] = In[q]
  BY <1>2, QueuesUnchanged DEF Queues
<1>17. OnePlace'
  <2>1. \A q, s \in Queues : \A c \in In'[q] \cap In'[s] : q = s
    BY <1>1, <1>8, <1>14, <1>15, <1>16, MoveLeavesOne DEF OnePlace, Queues
  <2> QED BY <1>1, <1>2, <1>4, <1>9, <1>10, <2>1 DEF OnePlace
<1>18. AllPlaced'
  BY <1>1, <1>2, <1>9, <1>14, <1>15, <1>16, CallersUnchanged DEF AllPlaced, Queues
<1>19. OnlyServed'
  BY <1>1, <1>6, <1>9, <1>15, <1>16 DEF OnlyServed, Queues
<1> QED BY <1>1, <1>2, <1>12, <1>13, <1>17, <1>18, <1>19, MoveKeepsInv

LEMMA TakeJobStep ==
    ASSUME RpcInv, NEW w \in Workers, TakeJob(w)
    PROVE  RpcInv'
<1> DEFINE job == Head(jobs)
<1>1. TypeOK /\ QueueTypes /\ AllOwned /\ OnePlace /\ AllPlaced /\ OnlyServed /\ IdsDistinct
  BY DEF RpcInv, TypeOK, QueueTypes
<1>2. /\ jobs # <<>> /\ working[w] = None
      /\ working' = [working EXCEPT ![w] = job]
      /\ jobs' = Tail(jobs)
      /\ UNCHANGED <<link, callers, clientTasks, requests, serverTasks, responses, results, lost>>
  BY DEF TakeJob, wire
<1>3. /\ jobs \in Seq(WaitingJobs) /\ jobs \in Seq(Job) /\ IsInjective(jobs)
  BY <1>1 DEF AllOwned, QueueTypes, OnePlace
<1>4. /\ job \in WaitingJobs /\ job \in Job /\ job \in Range(jobs)
      /\ jobs' \in Seq(WaitingJobs) /\ jobs' \in Seq(Job)
      /\ Range(jobs') = Range(jobs) \ {job}
      /\ IsInjective(jobs')
  BY <1>2, <1>3, TailLeaves
<1> HIDE DEF job
<1>5. PICK d \in AllWaiting : job = JobOf(d)
  BY <1>4 DEF WaitingJobs
<1>6. \A c \in AllWaiting : JobOf(c) = job => c = d
  BY <1>1, <1>5, WaitingIds, MessageFields, CallsAssumption DEF Waiting, AllWaiting
<1>7. d \in In["jobs"] /\ d \notin In["working"] /\ job # None
  BY <1>1, <1>4, <1>5, NoneAssumption DEF In, OnePlace, Queues
<1>8. /\ working' \in [Workers -> Job \cup {None}]
      /\ working'[w] = job
      /\ \A v \in Workers : v # w => working'[v] = working[v] /\ working[v] # job
  BY <1>1, <1>2, <1>4, <1>5, <1>7 DEF QueueTypes, In, Queues
<1>9. QueueTypes'
  BY <1>1, <1>2, <1>4, <1>8 DEF QueueTypes
<1>10. AllOwned'
  BY <1>1, <1>2, <1>4, <1>8, CallersUnchanged DEF AllOwned
\* Call d leaves the pool's queue and arrives at the worker.
<1>11. In'["jobs"] = In["jobs"] \ {d}
  BY <1>2, <1>4, <1>5, <1>6, CallersUnchanged DEF In, Queues
<1>12. In'["working"] = In["working"] \cup {d}
  <2>1. \A c \in AllWaiting : JobOf(c) # None
    BY <1>1, WaitingTypes, NoneAssumption DEF WaitingJobs
  <2> QED BY <1>2, <1>5, <1>6, <1>8, <2>1, CallersUnchanged DEF In, Queues
<1>13. \A q \in Queues \ {"jobs", "working"} : In'[q] = In[q]
  BY <1>2, QueuesUnchanged DEF Queues
<1>14. OnePlace'
  <2>1. \A q, s \in Queues : \A c \in In'[q] \cap In'[s] : q = s
    BY <1>1, <1>7, <1>11, <1>12, <1>13, MoveLeavesOne DEF OnePlace, Queues
  <2> QED BY <1>1, <1>2, <1>4, <1>8, <2>1 DEF OnePlace
<1>15. AllPlaced'
  BY <1>1, <1>2, <1>11, <1>12, <1>13, CallersUnchanged DEF AllPlaced, Queues
<1>16. OnlyServed'
  BY <1>1, <1>7, <1>11, <1>12, <1>13 DEF OnlyServed, Queues
<1> QED BY <1>1, <1>2, <1>9, <1>10, <1>14, <1>15, <1>16, MoveKeepsInv

LEMMA FinishJobStep ==
    ASSUME RpcInv, NEW w \in Workers, FinishJob(w)
    PROVE  RpcInv'
<1> DEFINE answer == [client |-> working[w].client, response |-> ResponseTo(working[w])]
<1>1. TypeOK /\ QueueTypes /\ AllOwned /\ OnePlace /\ AllPlaced /\ OnlyServed /\ IdsDistinct
  BY DEF RpcInv, TypeOK, QueueTypes
<1>2. /\ working[w] # None
      /\ serverTasks' = serverTasks \o <<answer>>
      /\ working' = [working EXCEPT ![w] = None]
      /\ UNCHANGED <<link, callers, clientTasks, requests, responses, jobs, results, lost>>
  BY DEF FinishJob, Answers
<1>3. /\ serverTasks \in Seq(WaitingAnswers) /\ IsInjective(serverTasks)
      /\ serverTasks \in Seq([client : Clients, response : Response])
  BY <1>1 DEF AllOwned, QueueTypes, OnePlace
<1>4. PICK d \in AllWaiting : working[w] = JobOf(d)
  BY <1>1, <1>2 DEF AllOwned, WaitingJobs
<1>5. /\ \A c \in AllWaiting : JobOf(c) = JobOf(d) => c = d
      /\ \A c \in AllWaiting : AnswerTo(c) = AnswerTo(d) => c = d
  BY <1>1, <1>4, WaitingIds, MessageFields, CallsAssumption DEF Waiting, AllWaiting
<1>6. answer = AnswerTo(d) /\ answer \in WaitingAnswers
  BY <1>4, MessageFields DEF AnswerTo, WaitingAnswers
<1> HIDE DEF answer
<1>7. serverTasks' = Append(serverTasks, answer)
  BY <1>2, <1>3, <1>6
<1>8. d \in In["working"] /\ d \notin In["serverTasks"] /\ answer \notin Range(serverTasks)
  BY <1>1, <1>4, <1>6 DEF In, OnePlace, Queues
<1>9. /\ serverTasks' \in Seq(WaitingAnswers) /\ IsInjective(serverTasks')
      /\ Range(serverTasks') = Range(serverTasks) \cup {answer}
  BY <1>3, <1>6, <1>7, <1>8, AppendAdds
<1>10. serverTasks' \in Seq([client : Clients, response : Response])
  BY <1>1, <1>3, <1>6, <1>7, WaitingTypes
<1>11. /\ working' \in [Workers -> Job \cup {None}]
       /\ working'[w] = None
       /\ \A v \in Workers : v # w => working'[v] = working[v] /\ working[v] # JobOf(d)
  BY <1>1, <1>2, <1>4 DEF QueueTypes, OnePlace
<1>12. QueueTypes'
  BY <1>1, <1>2, <1>10, <1>11 DEF QueueTypes
<1>13. AllOwned'
  BY <1>1, <1>2, <1>9, <1>11, CallersUnchanged DEF AllOwned
\* Call d leaves the worker and arrives in the server's loop.
<1>14. In'["working"] = In["working"] \ {d}
  <2>1. \A c \in AllWaiting : JobOf(c) # None
    BY <1>1, WaitingTypes, NoneAssumption DEF WaitingJobs
  <2> QED BY <1>2, <1>4, <1>5, <1>11, <2>1, CallersUnchanged DEF In, Queues
<1>15. In'["serverTasks"] = In["serverTasks"] \cup {d}
  BY <1>2, <1>5, <1>6, <1>9, CallersUnchanged DEF In, Queues
<1>16. \A q \in Queues \ {"working", "serverTasks"} : In'[q] = In[q]
  BY <1>2, QueuesUnchanged DEF Queues
<1>17. OnePlace'
  <2>1. \A q, s \in Queues : \A c \in In'[q] \cap In'[s] : q = s
    BY <1>1, <1>8, <1>14, <1>15, <1>16, MoveLeavesOne DEF OnePlace, Queues
  <2> QED BY <1>1, <1>2, <1>9, <1>11, <2>1 DEF OnePlace
<1>18. AllPlaced'
  BY <1>1, <1>2, <1>14, <1>15, <1>16, CallersUnchanged DEF AllPlaced, Queues
<1>19. OnlyServed'
  BY <1>1, <1>8, <1>14, <1>15, <1>16 DEF OnlyServed, Queues
<1> QED BY <1>1, <1>2, <1>12, <1>13, <1>17, <1>18, <1>19, MoveKeepsInv

\* A response handed to the connection.
LEMMA HandedResponse ==
    ASSUME RpcInv, NEW k \in Clients, NEW m \in WaitingResponses(k),
           m \notin Range(responses[k]), responses' = Handed(k, responses, m)
    PROVE  /\ responses' \in [Clients -> Seq(Response)]
           /\ \A j \in Clients : j # k => responses'[j] = responses[j]
           /\ responses'[k] \in Seq(WaitingResponses(k))
           /\ IsInjective(responses'[k])
           /\ link[k] = "up" => Range(responses'[k]) = Range(responses[k]) \cup {m}
           /\ link[k] # "up" => responses' = responses
<1>1. /\ responses \in [Clients -> Seq(Response)] /\ m \in Response
      /\ responses[k] \in Seq(WaitingResponses(k)) /\ IsInjective(responses[k])
  BY WaitingTypes DEF RpcInv, TypeOK, AllOwned, OnePlace
<1>2. /\ Append(responses[k], m) \in Seq(WaitingResponses(k))
      /\ Range(Append(responses[k], m)) = Range(responses[k]) \cup {m}
      /\ IsInjective(Append(responses[k], m))
  BY <1>1, AppendAdds
<1>3. /\ Handed(k, responses, m) \in [Clients -> Seq(Response)]
      /\ \A j \in Clients : j # k => Handed(k, responses, m)[j] = responses[j]
      /\ Handed(k, responses, m)[k] = IF link[k] = "up" THEN Append(responses[k], m) ELSE responses[k]
      /\ link[k] # "up" => Handed(k, responses, m) = responses
  BY <1>1, HandedAppends
<1> QED BY <1>1, <1>2, <1>3

LEMMA WriteResponseStep ==
    ASSUME RpcInv, WriteResponse
    PROVE  RpcInv'
<1> DEFINE t == Head(serverTasks)
           k == t.client
           m == t.response
<1>1. TypeOK /\ QueueTypes /\ AllOwned /\ OnePlace /\ AllPlaced /\ OnlyServed /\ IdsDistinct
  BY DEF RpcInv, TypeOK, QueueTypes
<1>2. /\ serverTasks # <<>>
      /\ serverTasks' = Tail(serverTasks)
      /\ responses' = Handed(k, responses, m)
      /\ lost' = LostIfDown(k, {m.id})
      /\ UNCHANGED <<link, callers, clientTasks, requests, jobs, working, results>>
  BY DEF WriteResponse, pool
<1>3. /\ serverTasks \in Seq(WaitingAnswers) /\ IsInjective(serverTasks)
      /\ serverTasks \in Seq([client : Clients, response : Response])
  BY <1>1 DEF AllOwned, QueueTypes, OnePlace
<1>4. /\ t \in WaitingAnswers /\ t \in Range(serverTasks)
      /\ serverTasks' \in Seq(WaitingAnswers)
      /\ serverTasks' \in Seq([client : Clients, response : Response])
      /\ Range(serverTasks') = Range(serverTasks) \ {t}
      /\ IsInjective(serverTasks')
  BY <1>2, <1>3, TailLeaves
<1>5. PICK d \in AllWaiting : t = AnswerTo(d)
  BY <1>4 DEF WaitingAnswers
<1>6. /\ k \in Clients /\ k = ClientOf[d] /\ m = ResponseTo(JobOf(d)) /\ m.id = seq[d]
      /\ d \in Waiting(k)
  BY <1>5, MessageFields, CallsAssumption DEF AllWaiting, Waiting
<1> HIDE DEF t, k, m
<1>7. /\ \A c \in AllWaiting : AnswerTo(c) = t => c = d
      /\ \A c \in AllWaiting : ClientOf[c] = k /\ ResponseTo(JobOf(c)) = m => c = d
      /\ m \in WaitingResponses(k)
  <2>1. ASSUME NEW c \in AllWaiting, ClientOf[c] = k, seq[c] = seq[d]
        PROVE  c = d
    BY <1>1, <1>6, <2>1, WaitingIds DEF Waiting, AllWaiting
  <2>2. ASSUME NEW c \in AllWaiting, AnswerTo(c) = t
        PROVE  ClientOf[c] = k /\ seq[c] = seq[d]
    BY <1>5, <1>6, <2>2, MessageFields
  <2>3. ASSUME NEW c \in AllWaiting, ResponseTo(JobOf(c)) = m
        PROVE  seq[c] = seq[d]
    BY <1>6, <2>3, MessageFields
  <2> QED BY <1>6, <2>1, <2>2, <2>3 DEF WaitingResponses
<1>8. d \in In["serverTasks"] /\ d \notin In["responses"] /\ m \notin Range(responses[k])
  BY <1>1, <1>4, <1>5, <1>6 DEF In, OnePlace, Queues
<1>9. /\ responses' \in [Clients -> Seq(Response)]
      /\ responses'[k] \in Seq(WaitingResponses(k)) /\ IsInjective(responses'[k])
      /\ \A j \in Clients : j # k => responses'[j] = responses[j]
      /\ link[k] = "up" => Range(responses'[k]) = Range(responses[k]) \cup {m}
      /\ link[k] # "up" => responses' = responses
  BY <1>2, <1>6, <1>7, <1>8, HandedResponse
<1>10. QueueTypes'
  BY <1>1, <1>2, <1>4, <1>6, <1>9, LostCalls DEF QueueTypes
<1>11. AllOwned'
  BY <1>1, <1>2, <1>4, <1>9, CallersUnchanged DEF AllOwned
\* Call d leaves the server's loop and arrives on the connection, if it is up.
<1>12. In'["serverTasks"] = In["serverTasks"] \ {d}
  BY <1>2, <1>4, <1>5, <1>7, CallersUnchanged DEF In, Queues
<1>13. In'["responses"] = IF link[k] = "up" THEN In["responses"] \cup {d} ELSE In["responses"]
  <2>1. ASSUME NEW c \in AllWaiting
        PROVE  ResponseTo(JobOf(c)) \in Range(responses'[ClientOf[c]]) <=>
                  \/ ResponseTo(JobOf(c)) \in Range(responses[ClientOf[c]])
                  \/ link[k] = "up" /\ c = d
    BY <1>6, <1>7, <1>9, CallsAssumption DEF AllWaiting
  <2> QED BY <1>2, <1>6, <2>1, CallersUnchanged DEF In, Queues
<1>14. \A q \in Queues \ {"serverTasks", "responses"} : In'[q] = In[q]
  BY <1>2, QueuesUnchanged DEF Queues
<1>15. OnePlace'
  <2>1. \A q, r \in Queues : \A c \in In'[q] \cap In'[r] : q = r
    BY <1>1, <1>8, <1>12, <1>13, <1>14, MoveLeavesOne DEF OnePlace, Queues
  <2> QED BY <1>1, <1>2, <1>4, <1>9, <2>1 DEF OnePlace
<1>16. AllPlaced'
  BY <1>1, <1>2, <1>6, <1>12, <1>13, <1>14, LostCalls, CallersUnchanged DEF AllPlaced, Queues
<1>17. OnlyServed'
  BY <1>1, <1>8, <1>12, <1>13, <1>14 DEF OnlyServed, Queues
<1> QED BY <1>1, <1>2, <1>10, <1>11, <1>15, <1>16, <1>17, MoveKeepsInv

LEMMA ConnectionStep ==
    ASSUME RpcInv, NEW k \in Clients, Connected(k) \/ Disconnected(k)
    PROVE  RpcInv'
<1>1. TypeOK /\ QueueTypes /\ AllOwned /\ OnePlace /\ AllPlaced /\ OnlyServed /\ IdsDistinct
  BY DEF RpcInv, TypeOK, QueueTypes
<1>2. CASE Connected(k)
  <2>1. /\ link' = [link EXCEPT ![k] = "up"]
        /\ UNCHANGED <<callers, clientTasks, requests, serverTasks, responses, jobs, working,
                       results, lost>>
    BY <1>2 DEF Connected, wire, pool
  <2>2. QueueTypes'
    BY <1>1, <2>1 DEF QueueTypes
  <2>3. \A q \in Queues : In'[q] = In[q]
    BY <2>1, QueuesUnchanged DEF Queues
  <2>4. AllOwned' /\ OnePlace' /\ AllPlaced' /\ OnlyServed'
    BY <1>1, <2>1, <2>3, CallersUnchanged DEF AllOwned, OnePlace, AllPlaced, OnlyServed, Queues
  <2> QED BY <2>1, <2>2, <2>4, MoveKeepsInv
<1>3. CASE Disconnected(k)
  <2>1. /\ link' = [link EXCEPT ![k] = "down"]
        /\ requests' = [requests EXCEPT ![k] = <<>>]
        /\ responses' = [responses EXCEPT ![k] = <<>>]
        /\ lost' = lost \cup CallsWith(k, IdsIn(requests[k]) \cup IdsIn(responses[k]))
        /\ UNCHANGED <<callers, clientTasks, serverTasks, jobs, working, results>>
    BY <1>3 DEF Disconnected, pool
  <2>2. QueueTypes'
    BY <1>1, <2>1, LostCalls DEF QueueTypes
  <2>3. AllOwned'
    BY <1>1, <2>1, CallersUnchanged DEF AllOwned, QueueTypes
  <2>4. \A q \in Queues \ {"requests", "responses"} : In'[q] = In[q]
    BY <2>1, QueuesUnchanged DEF Queues
  <2>5. /\ In'["requests"] = {c \in In["requests"] : ClientOf[c] # k}
        /\ In'["responses"] = {c \in In["responses"] : ClientOf[c] # k}
    <3>1. Range(<<>>) = {}
      BY DEF Range
    <3>2. \A j \in Clients : /\ requests'[j] = IF j = k THEN <<>> ELSE requests[j]
                             /\ responses'[j] = IF j = k THEN <<>> ELSE responses[j]
      BY <1>1, <2>1 DEF QueueTypes
    <3> QED BY <2>1, <3>1, <3>2, CallersUnchanged, CallsAssumption DEF In, Queues, AllWaiting
  <2>6. ASSUME NEW c \in In["requests"] \cup In["responses"], ClientOf[c] = k
        PROVE  c \in lost'
    <3>1. seq[c] \in IdsIn(requests[k]) \cup IdsIn(responses[k])
      BY <2>6, MessageFields DEF In, Queues, IdsIn, Range
    <3>2. c \in Waiting(k)
      BY <2>6 DEF In, Queues, AllWaiting
    <3> QED BY <1>1, <2>1, <3>1, <3>2, LostCalls
  <2>7. OnePlace'
    <3>1. \A q, r \in Queues : \A c \in In'[q] \cap In'[r] : q = r
      BY <1>1, <2>4, <2>5 DEF OnePlace
    <3>2. IsInjective(<<>>)
      BY DEF IsInjective
    <3> QED BY <1>1, <2>1, <3>1, <3>2 DEF OnePlace, QueueTypes
  <2>8. AllPlaced'
    BY <1>1, <2>1, <2>4, <2>5, <2>6, CallersUnchanged DEF AllPlaced, Queues
  <2>9. OnlyServed'
    BY <1>1, <2>4, <2>5 DEF OnlyServed, Queues
  <2> QED BY <2>1, <2>2, <2>3, <2>7, <2>8, <2>9, MoveKeepsInv
<1> QED BY <1>2, <1>3

----------------------------------------------------------------------------
\* Steps of the callers and of the client's loop

\* What an entry and a call that completes consist of.
LEMMA PairTypes ==
    ASSUME TypeOK, NEW k \in Clients
    PROVE  /\ \A e \in outstandings[k] : e = <<e[1], e[2]>> /\ e[1] \in Ids /\ e[2] \in Calls
           /\ completing[k] # None =>
                  /\ completing[k] = <<completing[k][1], completing[k][2]>>
                  /\ completing[k][1] \in Calls /\ completing[k][2] \in Response
<1>1. outstandings[k] \subseteq Ids \X Calls /\ completing[k] \in (Calls \X Response) \cup {None}
  BY DEF TypeOK
<1> QED BY <1>1

LEMMA CompletingKept ==
    ASSUME TypeOK, CompletingInv, UNCHANGED <<completing, outcome>>,
           \A d \in Calls : pc[d] = "returned" => pc'[d] = "returned" /\ seq'[d] = seq[d],
           \A j \in Clients : \A e \in outstandings'[j] \ outstandings[j] : pc[e[2]] # "returned"
    PROVE  CompletingInv'
<1> SUFFICES ASSUME NEW j \in Clients, completing[j] # None
             PROVE  LET d == completing[j][1]
                    IN  /\ ClientOf[d] = j
                        /\ pc'[d] = "returned"
                        /\ <<seq'[d], d>> \notin outstandings'[j]
                        /\ outcome[d] = None
                        /\ CodeOf(completing[j][2]) = DeservedBy(KindOf[d])
  BY DEF CompletingInv
<1> DEFINE d == completing[j][1]
<1>1. /\ d \in Calls /\ ClientOf[d] = j /\ pc[d] = "returned"
      /\ <<seq[d], d>> \notin outstandings[j]
      /\ outcome[d] = None
      /\ CodeOf(completing[j][2]) = DeservedBy(KindOf[d])
  BY PairTypes DEF CompletingInv
<1> HIDE DEF d
<1>2. pc'[d] = "returned" /\ seq'[d] = seq[d] /\ <<seq'[d], d>>[2] = d
  BY <1>1
<1>3. <<seq'[d], d>> \notin outstandings'[j]
  BY <1>1, <1>2
<1> QED BY <1>1, <1>2, <1>3 DEF d

\* A step that changes neither the calls that wait nor any message.
LEMMA SameWaiting ==
    ASSUME AllOwned, OnePlace, AllPlaced, OnlyServed, AllWaiting' = AllWaiting, lost' = lost,
           \A c \in AllWaiting : seq'[c] = seq[c],
           UNCHANGED <<clientTasks, requests, jobs, working, serverTasks, responses>>
    PROVE  AllOwned' /\ OnePlace' /\ AllPlaced' /\ OnlyServed'
<1>1. \A c \in AllWaiting : /\ RequestOf(c)' = RequestOf(c) /\ JobOf(c)' = JobOf(c)
                            /\ ResponseTo(JobOf(c))' = ResponseTo(JobOf(c))
                            /\ AnswerTo(c)' = AnswerTo(c)
  BY DEF RequestOf, JobOf, AnswerTo, ResponseTo, Error, Result
<1>2. \A k \in Clients : /\ Waiting(k) = {c \in AllWaiting : ClientOf[c] = k}
                         /\ Waiting(k)' = {c \in AllWaiting' : ClientOf[c] = k}
  BY DEF Waiting, AllWaiting
<1>3. \A k \in Clients : /\ WaitingRequests(k)' = WaitingRequests(k)
                         /\ WaitingResponses(k)' = WaitingResponses(k)
  BY <1>1, <1>2 DEF WaitingRequests, WaitingResponses
<1>4. WaitingJobs' = WaitingJobs /\ WaitingAnswers' = WaitingAnswers
  BY <1>1 DEF WaitingJobs, WaitingAnswers
<1>5. AllOwned'
  BY <1>3, <1>4 DEF AllOwned
<1>6. In' = In
  BY <1>1 DEF In
<1>7. OnePlace' /\ AllPlaced' /\ OnlyServed'
  BY <1>6 DEF OnePlace, AllPlaced, OnlyServed
<1> QED BY <1>5, <1>7

LEMMA TakeIdStep ==
    ASSUME RpcInv, NEW c \in Calls, TakeId(c)
    PROVE  RpcInv'
<1> DEFINE k == ClientOf[c]
           n == Cardinality(Numbered(k))
<1>1. /\ TypeOK /\ AllOwned /\ OnePlace /\ AllPlaced /\ OnlyServed /\ IdsDistinct /\ TableInv
      /\ CompletingInv /\ Made /\ k \in Clients
  BY CallsAssumption DEF RpcInv
<1>2. /\ pc[c] = "ready"
      /\ seq' = [seq EXCEPT ![c] = nextSeq[k]]
      /\ nextSeq' = [nextSeq EXCEPT ![k] = (nextSeq[k] + 1) % SeqSpace]
      /\ pc' = [pc EXCEPT ![c] = "numbered"]
      /\ UNCHANGED <<link, outstandings, clientTasks, requests, serverTasks, responses,
                     jobs, working, completing, outcome, lost>>
  BY DEF TakeId, Fetched, wire, pool, results
<1>3. /\ \A d \in Calls : d # c => pc'[d] = pc[d] /\ seq'[d] = seq[d]
      /\ pc'[c] = "numbered" /\ seq'[c] = nextSeq[k]
      /\ pc' \in [Calls -> {"ready", "numbered", "inserted", "returned"}]
  BY <1>1, <1>2 DEF TypeOK
<1>4. /\ n \in Nat /\ n < SeqSpace
      /\ IsFiniteSet(Numbered(k)) /\ c \notin Numbered(k)
  BY <1>1, <1>2, NumberedFew DEF Numbered
<1>5. /\ nextSeq[k] = IF n + 1 < SeqSpace THEN n + 1 ELSE 0
      /\ \A d \in Numbered(k) : seq[d] \in 1..n
      /\ \A d \in Numbered(k) : seq[d] # nextSeq[k]
      /\ nextSeq[k] \in 0..SeqSpace - 1
      /\ (nextSeq[k] + 1) % SeqSpace =
             IF nextSeq[k] + 1 < SeqSpace THEN nextSeq[k] + 1 ELSE 0
  <2>1. /\ nextSeq[k] = IF n + 1 < SeqSpace THEN n + 1 ELSE 0
        /\ \A d \in Numbered(k) : seq[d] \in 1..n
    BY <1>1, <1>4 DEF IdsDistinct
  <2>2. nextSeq[k] \in 0..SeqSpace - 1
    BY <1>1 DEF TypeOK, Ids
  <2> HIDE DEF n, k
  <2>3. \A d \in Numbered(k) : seq[d] # nextSeq[k]
    BY <1>4, <2>1, SeqAssumption
  <2> QED BY <2>1, <2>2, <2>3, NextId
<1>6. /\ Numbered(k)' = Numbered(k) \cup {c}
      /\ Cardinality(Numbered(k)') = n + 1
      /\ \A j \in Clients : j # k => Numbered(j)' = Numbered(j)
  <2>1. Numbered(k)' = Numbered(k) \cup {c}
    BY <1>3 DEF Numbered
  <2>2. Cardinality(Numbered(k) \cup {c}) = n + 1
    BY <1>4, FS_AddElement
  <2>3. \A j \in Clients : j # k => Numbered(j)' = Numbered(j)
    BY <1>3 DEF Numbered
  <2> QED BY <2>1, <2>2, <2>3
<1>7. /\ nextSeq' \in [Clients -> Ids] /\ seq' \in [Calls -> Ids]
      /\ nextSeq'[k] = IF nextSeq[k] + 1 < SeqSpace THEN nextSeq[k] + 1 ELSE 0
      /\ \A j \in Clients : j # k => nextSeq'[j] = nextSeq[j]
  <2>1. /\ nextSeq \in [Clients -> Ids] /\ seq \in [Calls -> Ids]
        /\ nextSeq[k] \in Ids
    BY <1>1 DEF TypeOK
  <2>2. (nextSeq[k] + 1) % SeqSpace \in Ids
    BY <1>5, SeqAssumption DEF Ids
  <2> QED BY <1>1, <1>2, <1>5, <2>1, <2>2
<1> HIDE DEF n
<1>8. IdsDistinct'
  <2> SUFFICES ASSUME NEW j \in Clients
               PROVE  /\ \A d, e \in Numbered(j)' : seq'[d] = seq'[e] => d = e
                      /\ Cardinality(Numbered(j)') < SeqSpace =>
                            /\ nextSeq'[j] = IF Cardinality(Numbered(j)') + 1 < SeqSpace
                                             THEN Cardinality(Numbered(j)') + 1 ELSE 0
                            /\ \A d \in Numbered(j)' : seq'[d] \in 1..Cardinality(Numbered(j)')
    BY DEF IdsDistinct
  <2>1. \A d \in Numbered(j) : d \in Calls /\ d # c
    BY <1>2 DEF Numbered
  <2>2. CASE j # k
    BY <1>1, <1>3, <1>6, <1>7, <2>1, <2>2 DEF IdsDistinct
  <2>3. CASE j = k
    <3>1. \A d, e \in Numbered(j)' : seq'[d] = seq'[e] => d = e
      BY <1>1, <1>3, <1>5, <1>6, <2>1, <2>3 DEF IdsDistinct
    <3>2. ASSUME n + 1 < SeqSpace
          PROVE  /\ nextSeq'[k] = IF (n + 1) + 1 < SeqSpace THEN (n + 1) + 1 ELSE 0
                 /\ \A d \in Numbered(k)' : seq'[d] \in 1..n + 1
      <4>1. nextSeq[k] = n + 1
        BY <1>5, <3>2
      <4>2. nextSeq'[k] = IF (n + 1) + 1 < SeqSpace THEN (n + 1) + 1 ELSE 0
        BY <1>7, <4>1
      <4>3. \A d \in Numbered(k) : seq'[d] \in 1..n + 1
        BY <1>3, <1>4, <1>5, <2>1, <2>3
      <4>4. seq'[c] \in 1..n + 1
        BY <1>3, <1>4, <4>1
      <4> QED BY <1>6, <4>2, <4>3, <4>4
    <3>3. Cardinality(Numbered(j)') = n + 1 /\ Numbered(j)' = Numbered(k)'
          /\ nextSeq'[j] = nextSeq'[k]
      BY <1>6, <2>3
    <3> QED BY ONLY <3>1, <3>2, <3>3
  <2> QED BY <2>2, <2>3
<1>9. TableInv' /\ CompletingInv' /\ Made'
  <2>1. TableInv'
    BY <1>1, <1>2, <1>3, PairTypes DEF TableInv
  <2>2. CompletingInv'
    BY <1>1, <1>2, <1>3, CompletingKept
  <2> QED BY <1>1, <1>2, <1>3, <2>1, <2>2 DEF Made
<1>10. TypeOK'
  BY <1>1, <1>2, <1>3, <1>7, <1>9 DEF TypeOK, TableInv
<1>11. /\ AllWaiting' = AllWaiting
       /\ \A d \in AllWaiting : seq'[d] = seq[d]
  BY <1>2, <1>3 DEF AllWaiting, Waiting
<1> QED BY <1>1, <1>2, <1>8, <1>9, <1>10, <1>11, SameWaiting DEF RpcInv

LEMMA InsertStep ==
    ASSUME RpcInv, NEW c \in Calls, Insert(c)
    PROVE  RpcInv'
<1> DEFINE k == ClientOf[c]
<1>1. /\ TypeOK /\ AllOwned /\ OnePlace /\ AllPlaced /\ OnlyServed /\ IdsDistinct /\ TableInv
      /\ CompletingInv /\ Made /\ k \in Clients
  BY CallsAssumption DEF RpcInv
<1>2. /\ pc[c] = "numbered"
      /\ outstandings' = [outstandings EXCEPT ![k] =
             {e \in outstandings[k] : e[1] # seq[c]} \cup {<<seq[c], c>>}]
      /\ pc' = [pc EXCEPT ![c] = "inserted"]
      /\ UNCHANGED <<link, seq, nextSeq, clientTasks, requests, serverTasks, responses,
                     jobs, working, completing, outcome, lost>>
  BY DEF Insert, wire, pool, results
<1>3. /\ \A d \in Calls : d # c => pc'[d] = pc[d]
      /\ pc'[c] = "inserted"
      /\ pc' \in [Calls -> {"ready", "numbered", "inserted", "returned"}]
  BY <1>1, <1>2 DEF TypeOK
\* Nobody else has the id.
<1>4. \A e \in outstandings[k] : e[1] # seq[c]
  <2> SUFFICES ASSUME NEW e \in outstandings[k], e[1] = seq[c]
               PROVE  FALSE
    OBVIOUS
  <2>1. /\ e[2] \in Calls /\ ClientOf[e[2]] = k /\ e[1] = seq[e[2]]
        /\ pc[e[2]] \in {"inserted", "returned"}
    BY <1>1, PairTypes DEF TableInv
  <2>2. e[2] \in Numbered(k) /\ c \in Numbered(k)
    BY <1>2, <2>1 DEF Numbered
  <2>3. e[2] = c
    BY <1>1, <2>1, <2>2 DEF IdsDistinct
  <2> QED BY <1>2, <2>1, <2>3
<1>5. /\ outstandings \in [Clients -> SUBSET (Ids \X Calls)]
      /\ outstandings'[k] = outstandings[k] \cup {<<seq[c], c>>}
      /\ \A j \in Clients : j # k => outstandings'[j] = outstandings[j]
      /\ outstandings' \in [Clients -> SUBSET (Ids \X Calls)]
  <2>1. outstandings \in [Clients -> SUBSET (Ids \X Calls)] /\ seq[c] \in Ids
    BY <1>1 DEF TypeOK
  <2> QED BY <1>1, <1>2, <1>4, <2>1
<1>6. outcome[c] = None
  BY <1>1, <1>2 DEF Made
<1>7. TableInv'
  <2>1. \A j \in Clients : \A e \in outstandings'[j] :
           \/ e \in outstandings[j]
           \/ j = k /\ e[2] = c /\ e[1] = seq[c]
    BY <1>5
  <2>2. \A j \in Clients : \A e \in outstandings'[j] :
           /\ ClientOf[e[2]] = j /\ e[1] = seq[e[2]]
           /\ pc'[e[2]] \in {"inserted", "returned"} /\ outcome[e[2]] = None
    BY <1>1, <1>3, <1>6, <2>1, PairTypes DEF TableInv
  <2>3. \A d \in Calls : pc'[d] = "inserted" => <<seq[d], d>> \in outstandings'[ClientOf[d]]
    BY <1>1, <1>3, <1>5, CallsAssumption DEF TableInv
  <2> QED BY <1>2, <2>2, <2>3 DEF TableInv
<1>8. CompletingInv'
  BY <1>1, <1>2, <1>3, <1>5, CompletingKept
<1>9. Made'
  BY <1>1, <1>2, <1>3 DEF Made
<1>10. IdsDistinct'
  <2>1. \A j \in Clients : Numbered(j)' = Numbered(j)
    BY <1>2, <1>3 DEF Numbered
  <2> QED BY <1>1, <1>2, <2>1 DEF IdsDistinct
<1>11. TypeOK'
  BY <1>1, <1>2, <1>3, <1>5, <1>7 DEF TypeOK, TableInv
<1>12. AllWaiting' = AllWaiting
  BY <1>2, <1>3, <1>5, CallsAssumption DEF AllWaiting, Waiting
<1> QED BY <1>1, <1>2, <1>7, <1>8, <1>9, <1>10, <1>11, <1>12, SameWaiting DEF RpcInv

LEMMA CompleteStep ==
    ASSUME RpcInv, NEW k \in Clients, Complete(k)
    PROVE  RpcInv'
<1> DEFINE c == completing[k][1]
           code == CodeOf(completing[k][2])
<1>1. /\ TypeOK /\ AllOwned /\ OnePlace /\ AllPlaced /\ OnlyServed /\ IdsDistinct /\ TableInv
      /\ CompletingInv /\ Made
  BY DEF RpcInv
<1>2. /\ completing[k] # None
      /\ outcome' = [outcome EXCEPT ![c] = code]
      /\ completing' = [completing EXCEPT ![k] = None]
      /\ UNCHANGED <<link, pc, seq, nextSeq, outstandings, clientTasks, requests, serverTasks,
                     responses, jobs, working, lost>>
  BY DEF Complete, Done, callers, wire, pool
<1>3. /\ c \in Calls /\ code \in Codes
      /\ ClientOf[c] = k /\ pc[c] = "returned" /\ <<seq[c], c>> \notin outstandings[k]
  BY <1>1, <1>2, PairTypes DEF CompletingInv, CodeOf, Response, Codes
<1> HIDE DEF c, code
<1>4. /\ outcome' \in [Calls -> Codes \cup {None}]
      /\ \A d \in Calls : d # c => outcome'[d] = outcome[d]
      /\ completing' \in [Clients -> (Calls \X Response) \cup {None}]
      /\ completing'[k] = None
      /\ \A j \in Clients : j # k => completing'[j] = completing[j]
  BY <1>1, <1>2, <1>3 DEF TypeOK
<1>5. TableInv'
  <2>1. \A j \in Clients : \A e \in outstandings[j] : e[2] # c
    BY <1>1, <1>3, PairTypes DEF TableInv
  <2> QED BY <1>1, <1>2, <1>4, <2>1, PairTypes DEF TableInv
<1>6. CompletingInv'
  <2> SUFFICES ASSUME NEW j \in Clients, completing'[j] # None
               PROVE  LET d == completing[j][1]
                      IN  /\ completing'[j] = completing[j]
                          /\ ClientOf[d] = j
                          /\ pc[d] = "returned"
                          /\ <<seq[d], d>> \notin outstandings[j]
                          /\ outcome'[d] = None
                          /\ CodeOf(completing[j][2]) = DeservedBy(KindOf[d])
    BY <1>2 DEF CompletingInv
  <2>1. j # k /\ completing[j] # None /\ completing'[j] = completing[j]
    BY <1>4
  <2>2. completing[j][1] \in Calls /\ completing[j][1] # c
    BY <1>1, <1>3, <2>1, PairTypes DEF CompletingInv
  <2> QED BY <1>1, <1>4, <2>1, <2>2 DEF CompletingInv
<1>7. Made'
  BY <1>1, <1>2, <1>3, <1>4 DEF Made
<1>8. IdsDistinct'
  <2>1. \A j \in Clients : Numbered(j)' = Numbered(j)
    BY <1>2 DEF Numbered
  <2> QED BY <1>1, <1>2, <2>1 DEF IdsDistinct
<1>9. TypeOK'
  <2>1. \A d \in Calls : <<seq[d], d>> \in outstandings[ClientOf[d]] =>
           pc[d] \in {"inserted", "returned"} /\ outcome'[d] = None
    BY <1>2, <1>5, CallsAssumption DEF TableInv
  <2> QED BY <1>1, <1>2, <1>4, <2>1 DEF TypeOK
<1>10. AllWaiting' = AllWaiting
  BY <1>2 DEF AllWaiting, Waiting
<1> QED BY <1>1, <1>2, <1>5, <1>6, <1>7, <1>8, <1>9, <1>10, SameWaiting DEF RpcInv

\* A request that is not sent yet is in no queue, nor is its response.
LEMMA NotSentYet ==
    ASSUME TypeOK, IdsDistinct, AllOwned, NEW c \in Calls, pc[c] = "inserted",
           NEW k, k = ClientOf[c]
    PROVE  /\ RequestOf(c) \notin Range(clientTasks[k])
           /\ RequestOf(c) \notin Range(requests[k])
           /\ JobOf(c) \notin Range(jobs)
           /\ \A w \in Workers : working[w] # JobOf(c)
           /\ AnswerTo(c) \notin Range(serverTasks)
           /\ ResponseTo(JobOf(c)) \notin Range(responses[k])
<1>1. k \in Clients
  BY CallsAssumption
<1>2. ASSUME NEW d \in AllWaiting, ClientOf[d] = k
      PROVE  seq[d] # seq[c]
  BY <1>1, <1>2, WaitingIds DEF AllWaiting, Waiting
<1>3. Waiting(k) = {d \in AllWaiting : ClientOf[d] = k}
  BY DEF Waiting, AllWaiting
<1>4. /\ RequestOf(c) \notin WaitingRequests(k)
      /\ ResponseTo(JobOf(c)) \notin WaitingResponses(k)
  BY <1>2, <1>3, MessageFields DEF WaitingRequests, WaitingResponses
<1>5. JobOf(c) \notin WaitingJobs /\ AnswerTo(c) \notin WaitingAnswers
  BY <1>2, MessageFields DEF WaitingJobs, WaitingAnswers
<1>6. JobOf(c) # None
  <2>1. seq[c] \in Ids /\ KindOf[c] \in Kinds
    BY CallsAssumption DEF TypeOK
  <2> QED BY <1>1, <2>1, NoneAssumption DEF JobOf, Job
<1>7. \A S : \A s \in Seq(S) : Range(s) \subseteq S
  BY DEF Range
<1> QED BY <1>1, <1>4, <1>5, <1>6, <1>7 DEF AllOwned

LEMMA SendStep ==
    ASSUME RpcInv, NEW c \in Calls, Send(c)
    PROVE  RpcInv'
<1> DEFINE k == ClientOf[c]
           m == RequestOf(c)
<1>1. /\ TypeOK /\ AllOwned /\ OnePlace /\ AllPlaced /\ OnlyServed /\ IdsDistinct /\ TableInv
      /\ CompletingInv /\ Made /\ k \in Clients
  BY CallsAssumption DEF RpcInv
<1>2. /\ pc[c] = "inserted"
      /\ pc' = [pc EXCEPT ![c] = "returned"]
      /\ clientTasks' = Handed(k, clientTasks, m)
      /\ lost' = LostIfDown(k, {seq[c]})
      /\ UNCHANGED <<link, seq, nextSeq, outstandings, requests, serverTasks, responses,
                     jobs, working, completing, outcome>>
  BY DEF Send, pool, results
<1>3. /\ \A d \in Calls : d # c => pc'[d] = pc[d]
      /\ pc'[c] = "returned"
      /\ pc' \in [Calls -> {"ready", "numbered", "inserted", "returned"}]
  BY <1>1, <1>2 DEF TypeOK
<1>4. m \in Request
  <2>1. seq[c] \in Ids /\ KindOf[c] \in Kinds
    BY <1>1, CallsAssumption DEF TypeOK
  <2> QED BY <2>1 DEF RequestOf, Request
<1>5. /\ clientTasks \in [Clients -> Seq(Request)] /\ clientTasks[k] \in Seq(WaitingRequests(k))
      /\ IsInjective(clientTasks[k]) /\ m \notin Range(clientTasks[k])
  BY <1>1, <1>2, NotSentYet DEF TypeOK, AllOwned, OnePlace
\* The call waits from now on.
<1>6. AllWaiting' = AllWaiting \cup {c} /\ c \notin AllWaiting
  BY <1>1, <1>2, <1>3 DEF AllWaiting, Waiting, TableInv
<1>7. /\ \A j : Waiting(j) = {d \in AllWaiting : ClientOf[d] = j}
      /\ \A j : Waiting(j)' = {d \in AllWaiting' : ClientOf[d] = j}
  BY DEF Waiting, AllWaiting
<1>8. \A d : /\ RequestOf(d)' = RequestOf(d) /\ JobOf(d)' = JobOf(d)
             /\ ResponseTo(JobOf(d))' = ResponseTo(JobOf(d)) /\ AnswerTo(d)' = AnswerTo(d)
  BY <1>2 DEF RequestOf, JobOf, AnswerTo, ResponseTo, Error, Result
<1>9. /\ \A j : WaitingRequests(j) \subseteq WaitingRequests(j)'
      /\ \A j : WaitingResponses(j) \subseteq WaitingResponses(j)'
      /\ WaitingJobs \subseteq WaitingJobs' /\ WaitingAnswers \subseteq WaitingAnswers'
      /\ m \in WaitingRequests(k)'
  BY <1>6, <1>7, <1>8 DEF WaitingRequests, WaitingResponses, WaitingJobs, WaitingAnswers
<1> HIDE DEF m
<1>10. /\ clientTasks' \in [Clients -> Seq(Request)]
       /\ \A j \in Clients : j # k => clientTasks'[j] = clientTasks[j]
       /\ clientTasks'[k] = IF link[k] = "up" THEN Append(clientTasks[k], m) ELSE clientTasks[k]
       /\ link[k] # "up" => clientTasks' = clientTasks
  <2>1. /\ Handed(k, clientTasks, m) \in [Clients -> Seq(Request)]
        /\ \A j \in Clients : j # k => Handed(k, clientTasks, m)[j] = clientTasks[j]
        /\ Handed(k, clientTasks, m)[k] =
               IF link[k] = "up" THEN Append(clientTasks[k], m) ELSE clientTasks[k]
        /\ link[k] # "up" => Handed(k, clientTasks, m) = clientTasks
    BY <1>1, <1>4, <1>5, HandedAppends
  <2> QED BY <1>2, <2>1
<1>11. /\ clientTasks'[k] \in Seq(WaitingRequests(k)')
       /\ IsInjective(clientTasks'[k])
       /\ link[k] = "up" => Range(clientTasks'[k]) = Range(clientTasks[k]) \cup {m}
  <2>1. clientTasks[k] \in Seq(WaitingRequests(k)')
    BY <1>5, <1>9, SeqMonotonic
  <2>2. /\ Append(clientTasks[k], m) \in Seq(WaitingRequests(k)')
        /\ Range(Append(clientTasks[k], m)) = Range(clientTasks[k]) \cup {m}
        /\ IsInjective(Append(clientTasks[k], m))
    BY <1>5, <1>9, <2>1, AppendAdds
  <2> QED BY <1>5, <1>10, <2>1, <2>2
<1>12. /\ \A j \in Clients :
             /\ clientTasks[j] \in Seq(WaitingRequests(j)')
             /\ requests[j] \in Seq(WaitingRequests(j)')
             /\ responses[j] \in Seq(WaitingResponses(j)')
       /\ jobs \in Seq(WaitingJobs')
       /\ serverTasks \in Seq(WaitingAnswers')
       /\ \A w \in Workers : working[w] \in WaitingJobs' \cup {None}
  BY <1>1, <1>9, SeqMonotonic DEF AllOwned
<1>13. AllOwned'
  BY <1>2, <1>10, <1>11, <1>12 DEF AllOwned
\* Its request arrives in the queue of the client's loop, if the connection is up.
<1>14. In'["clientTasks"] = IF link[k] = "up" THEN In["clientTasks"] \cup {c} ELSE In["clientTasks"]
  <2>1. \A d \in AllWaiting : ClientOf[d] = k => RequestOf(d) # m
    BY <1>1, <1>2, WaitingIds, MessageFields DEF AllWaiting, Waiting, m
  <2>2. \A d \in AllWaiting : RequestOf(d) \in Range(clientTasks'[ClientOf[d]]) <=>
           RequestOf(d) \in Range(clientTasks[ClientOf[d]])
    BY <1>10, <1>11, <2>1, CallsAssumption DEF AllWaiting
  <2>3. RequestOf(c) \in Range(clientTasks'[ClientOf[c]]) <=> link[k] = "up"
    BY <1>5, <1>10, <1>11 DEF m
  <2> QED BY <1>6, <1>8, <2>2, <2>3 DEF In, Queues
<1>15. \A q \in Queues \ {"clientTasks"} : In'[q] = In[q]
  <2>1. /\ RequestOf(c) \notin Range(requests[ClientOf[c]])
        /\ JobOf(c) \notin Range(jobs)
        /\ \A w \in Workers : working[w] # JobOf(c)
        /\ AnswerTo(c) \notin Range(serverTasks)
        /\ ResponseTo(JobOf(c)) \notin Range(responses[ClientOf[c]])
    BY <1>1, <1>2, NotSentYet
  <2>2. In'["requests"] = In["requests"] /\ In'["responses"] = In["responses"]
    BY <1>2, <1>6, <1>8, <2>1 DEF In, Queues
  <2>3. In'["jobs"] = In["jobs"] /\ In'["working"] = In["working"]
    BY <1>2, <1>6, <1>8, <2>1 DEF In, Queues
  <2>4. In'["serverTasks"] = In["serverTasks"]
    BY <1>2, <1>6, <1>8, <2>1 DEF In, Queues
  <2> QED BY <2>2, <2>3, <2>4 DEF Queues
<1>16. OnePlace'
  <2>1. \A q \in Queues : In[q] \subseteq AllWaiting
    BY DEF In
  <2>2. \A q, r \in Queues : \A d \in In'[q] \cap In'[r] : q = r
    BY <1>1, <1>6, <1>14, <1>15, <2>1 DEF OnePlace, Queues
  <2> QED BY <1>1, <1>2, <1>10, <1>11, <2>2 DEF OnePlace
<1>17. c \in lost' \/ link[k] = "up"
  BY <1>1, <1>2 DEF LostIfDown, CallsWith
<1>18. lost \subseteq lost' /\ lost' \subseteq Calls
  BY <1>1, <1>2, LostCalls
<1>19. AllPlaced'
  BY <1>1, <1>6, <1>14, <1>15, <1>17, <1>18 DEF AllPlaced, Queues
<1>20. TableInv'
  BY <1>1, <1>2, <1>3, PairTypes DEF TableInv
<1>21. CompletingInv'
  BY <1>1, <1>2, <1>3, CompletingKept
<1>22. Made'
  BY <1>1, <1>2, <1>3 DEF Made
<1>23. IdsDistinct'
  <2>1. \A j \in Clients : Numbered(j)' = Numbered(j)
    BY <1>2, <1>3 DEF Numbered
  <2> QED BY <1>1, <1>2, <2>1 DEF IdsDistinct
<1>24. TypeOK'
  <2>1. \A d \in Calls : <<seq[d], d>> \in outstandings[ClientOf[d]] =>
           pc'[d] \in {"inserted", "returned"} /\ outcome[d] = None
    BY <1>2, <1>20, CallsAssumption DEF TableInv
  <2> QED BY <1>1, <1>2, <1>3, <1>10, <1>18, <2>1 DEF TypeOK
<1>25. OnlyServed'
  BY <1>1, <1>15 DEF OnlyServed, Queues
<1> QED BY <1>25, <1>13, <1>16, <1>19, <1>20, <1>21, <1>22, <1>23, <1>24 DEF RpcInv

\* What a worker answers is what the call deserves.
LEMMA AnswersDeserved ==
    ASSUME TypeOK, NEW c \in Calls, KindOf[c] # "noService"
    PROVE  CodeOf(ResponseTo(JobOf(c))) = DeservedBy(KindOf[c])
<1>1. KindOf[c] \in Kinds /\ JobOf(c).kind = KindOf[c]
  BY CallsAssumption, MessageFields
<1>2. CASE KindOf[c] \in {"ok", "badResponse"}
  <2> DEFINE r == ResponseTo(JobOf(c))
  <2>1. r = Result(JobOf(c).id, KindOf[c] = "ok")
    BY <1>1, <1>2 DEF ResponseTo
  <2>2. r.type = 1 /\ r.body = (KindOf[c] = "ok")
    BY <2>1 DEF Result
  <2> HIDE DEF r
  <2>3. CASE KindOf[c] = "ok"
    <3>1. r.body
      BY <2>2, <2>3
    <3> QED BY <2>2, <2>3, <3>1 DEF CodeOf, DeservedBy, r
  <2>4. CASE KindOf[c] = "badResponse"
    <3>1. ~r.body
      BY <2>2, <2>4
    <3> QED BY <2>2, <2>4, <3>1 DEF CodeOf, DeservedBy, r
  <2> QED BY <1>2, <2>3, <2>4
<1>3. CASE KindOf[c] = "noMethod" \/ KindOf[c] = "badRequest"
  BY <1>1, <1>3 DEF ResponseTo, Error, CodeOf, DeservedBy
<1> QED BY <1>1, <1>2, <1>3 DEF Kinds

\* A queue without some message.
LEMMA SeqWithout ==
    ASSUME NEW S, NEW s \in Seq(S), NEW m, m \notin Range(s), NEW T, S \ {m} \subseteq T
    PROVE  s \in Seq(T)
<1>1. \A i \in 1..Len(s) : s[i] \in T
  BY DEF Range
<1> QED BY <1>1

\* A call that waits has the only entry with its id.
LEMMA WaitingEntry ==
    ASSUME TypeOK, IdsDistinct, TableInv, NEW k \in Clients, NEW d \in Waiting(k)
    PROVE  /\ \A e \in outstandings[k] : e[1] = seq[d] <=> e = <<seq[d], d>>
           /\ Found(k, seq[d]) = {d}
<1>1. <<seq[d], d>> \in outstandings[k]
  BY DEF Waiting
<1>2. \A e \in outstandings[k] : e[1] = seq[d] <=> e = <<seq[d], d>>
  <2> SUFFICES ASSUME NEW e \in outstandings[k], e[1] = seq[d]
               PROVE  e = <<seq[d], d>>
    OBVIOUS
  <2>1. /\ e = <<e[1], e[2]>> /\ e[2] \in Calls /\ ClientOf[e[2]] = k /\ e[1] = seq[e[2]]
        /\ pc[e[2]] # "ready"
    BY PairTypes DEF TableInv
  <2>2. e[2] = d
    BY <2>1, WaitingIds
  <2> QED BY <2>1, <2>2
<1>3. Found(k, seq[d]) = {d}
  BY <1>1, <1>2 DEF Found
<1> QED BY <1>2, <1>3

LEMMA ReceiveResponseStep ==
    ASSUME RpcInv, NEW k \in Clients, ReceiveResponse(k)
    PROVE  RpcInv'
<1> DEFINE r == Head(responses[k])
<1>1. /\ TypeOK /\ AllOwned /\ OnePlace /\ AllPlaced /\ OnlyServed /\ IdsDistinct /\ TableInv
      /\ CompletingInv /\ Made
  BY DEF RpcInv
<1>2. /\ responses[k] # <<>> /\ completing[k] = None
      /\ responses' = [responses EXCEPT ![k] = Tail(responses[k])]
      /\ IF Found(k, r.id) = {}
         THEN UNCHANGED <<completing, outstandings>>
         ELSE /\ \E c \in Found(k, r.id) :
                    completing' = [completing EXCEPT ![k] = <<c, r>>]
              /\ outstandings' = [outstandings EXCEPT ![k] =
                                      {e \in outstandings[k] : e[1] # r.id}]
      /\ UNCHANGED <<link, pc, seq, nextSeq, clientTasks, requests, serverTasks, jobs, working,
                     outcome, lost>>
  BY DEF ReceiveResponse, pool
<1>3. /\ responses[k] \in Seq(WaitingResponses(k)) /\ IsInjective(responses[k])
      /\ responses \in [Clients -> Seq(Response)]
  BY <1>1 DEF AllOwned, TypeOK, OnePlace
<1>4. /\ r \in WaitingResponses(k) /\ r \in Range(responses[k]) /\ r \in Response
      /\ Tail(responses[k]) \in Seq(WaitingResponses(k)) /\ Tail(responses[k]) \in Seq(Response)
      /\ Range(Tail(responses[k])) = Range(responses[k]) \ {r}
      /\ IsInjective(Tail(responses[k]))
  BY <1>2, <1>3, TailLeaves
<1> HIDE DEF r
<1>5. PICK d \in Waiting(k) : r = ResponseTo(JobOf(d))
  BY <1>4 DEF WaitingResponses
<1>6. /\ d \in AllWaiting /\ d \in Calls /\ ClientOf[d] = k /\ pc[d] = "returned"
      /\ <<seq[d], d>> \in outstandings[k] /\ r.id = seq[d]
  BY <1>5, MessageFields DEF Waiting, AllWaiting
\* Only the entry of call d has the id of the response.
<1>7. \A e \in outstandings[k] : e[1] = r.id <=> e = <<seq[d], d>>
  BY <1>1, <1>6, WaitingEntry
<1>8. Found(k, r.id) = {d}
  BY <1>1, <1>6, WaitingEntry
<1>9. /\ completing' = [completing EXCEPT ![k] = <<d, r>>]
      /\ outstandings' = [outstandings EXCEPT ![k] = outstandings[k] \ {<<seq[d], d>>}]
  <2>1. {e \in outstandings[k] : e[1] # r.id} = outstandings[k] \ {<<seq[d], d>>}
    BY <1>7
  <2> QED BY <1>2, <1>8, <2>1
<1>10. /\ completing' \in [Clients -> (Calls \X Response) \cup {None}]
       /\ completing'[k] = <<d, r>>
       /\ \A j \in Clients : j # k => completing'[j] = completing[j]
       /\ outstandings' \in [Clients -> SUBSET (Ids \X Calls)]
       /\ outstandings'[k] = outstandings[k] \ {<<seq[d], d>>}
       /\ \A j \in Clients : j # k => outstandings'[j] = outstandings[j]
       /\ responses' \in [Clients -> Seq(Response)]
       /\ responses'[k] = Tail(responses[k])
       /\ \A j \in Clients : j # k => responses'[j] = responses[j]
  BY <1>1, <1>3, <1>4, <1>6, <1>9, <1>2 DEF TypeOK
\* Call d waits no longer.
<1>11. AllWaiting' = AllWaiting \ {d}
  BY <1>2, <1>6, <1>10, CallsAssumption DEF AllWaiting, Waiting
<1>12. /\ \A j : Waiting(j) = {c \in AllWaiting : ClientOf[c] = j}
       /\ \A j : Waiting(j)' = {c \in AllWaiting' : ClientOf[c] = j}
  BY DEF Waiting, AllWaiting
<1>13. \A c : /\ RequestOf(c)' = RequestOf(c) /\ JobOf(c)' = JobOf(c)
              /\ ResponseTo(JobOf(c))' = ResponseTo(JobOf(c)) /\ AnswerTo(c)' = AnswerTo(c)
  BY <1>2 DEF RequestOf, JobOf, AnswerTo, ResponseTo, Error, Result
<1>14. /\ \A j : WaitingRequests(j) \ {RequestOf(d)} \subseteq WaitingRequests(j)'
       /\ \A j : j # k => WaitingRequests(j) \subseteq WaitingRequests(j)'
       /\ \A j : WaitingResponses(j) \ {r} \subseteq WaitingResponses(j)'
       /\ \A j : j # k => WaitingResponses(j) \subseteq WaitingResponses(j)'
       /\ WaitingJobs \ {JobOf(d)} \subseteq WaitingJobs'
       /\ WaitingAnswers \ {AnswerTo(d)} \subseteq WaitingAnswers'
  BY <1>5, <1>6, <1>11, <1>12, <1>13
     DEF WaitingRequests, WaitingResponses, WaitingJobs, WaitingAnswers
\* Its response was the only message of call d.
<1>15. /\ d \in In["responses"]
       /\ \A q \in Queues \ {"responses"} : d \notin In[q]
  <2>1. d \in In["responses"]
    BY <1>4, <1>5, <1>6 DEF In, Queues
  <2> QED BY <1>1, <2>1 DEF OnePlace, Queues
<1>16. /\ RequestOf(d) \notin Range(clientTasks[k]) /\ RequestOf(d) \notin Range(requests[k])
       /\ JobOf(d) \notin Range(jobs) /\ AnswerTo(d) \notin Range(serverTasks)
       /\ \A w \in Workers : working[w] # JobOf(d)
  BY <1>6, <1>15 DEF In, Queues
<1>17. d \notin In'["responses"] /\ r \notin Range(responses'[k])
  BY <1>4, <1>10, <1>11 DEF In, Queues
<1>18. AllOwned'
  <2>1. /\ clientTasks[k] \in Seq(WaitingRequests(k)')
        /\ requests[k] \in Seq(WaitingRequests(k)')
    BY <1>1, <1>14, <1>16, SeqWithout DEF AllOwned
  <2>2. responses'[k] \in Seq(WaitingResponses(k)')
    <3>1. /\ responses'[k] \in Seq(WaitingResponses(k))
          /\ WaitingResponses(k) \ {r} \subseteq WaitingResponses(k)'
      BY <1>4, <1>10, <1>14
    <3> QED BY <1>17, <3>1, SeqWithout
  <2>3. ASSUME NEW j \in Clients, j # k
        PROVE  /\ clientTasks[j] \in Seq(WaitingRequests(j)')
               /\ requests[j] \in Seq(WaitingRequests(j)')
               /\ responses'[j] \in Seq(WaitingResponses(j)')
    <3>1. /\ clientTasks[j] \in Seq(WaitingRequests(j)) /\ requests[j] \in Seq(WaitingRequests(j))
          /\ responses'[j] \in Seq(WaitingResponses(j))
      BY <1>1, <1>10, <2>3 DEF AllOwned
    <3>2. /\ WaitingRequests(j) \subseteq WaitingRequests(j)'
          /\ WaitingResponses(j) \subseteq WaitingResponses(j)'
      BY <1>14, <2>3
    <3> QED BY <3>1, <3>2, SeqMonotonic
  <2>4. jobs \in Seq(WaitingJobs') /\ serverTasks \in Seq(WaitingAnswers')
    BY <1>1, <1>14, <1>16, SeqWithout DEF AllOwned
  <2>5. \A w \in Workers : working[w] \in WaitingJobs' \cup {None}
    BY <1>1, <1>14, <1>16 DEF AllOwned
  <2> QED BY <1>2, <2>1, <2>2, <2>3, <2>4, <2>5 DEF AllOwned
<1>19. In'["responses"] = In["responses"] \ {d}
  <2>1. \A c \in AllWaiting' : c # d /\ (ClientOf[c] = k => ResponseTo(JobOf(c)) # r)
    <3> SUFFICES ASSUME NEW c \in AllWaiting, c # d, ClientOf[c] = k, ResponseTo(JobOf(c)) = r
                 PROVE  FALSE
      BY <1>11
    <3>1. seq[c] = seq[d]
      BY <1>6, MessageFields
    <3>2. c \in Calls /\ pc[c] # "ready"
      BY DEF AllWaiting, Waiting
    <3> QED BY <1>1, <1>5, <3>1, <3>2, WaitingIds
  <2>2. \A c \in AllWaiting' : ResponseTo(JobOf(c)) \in Range(responses'[ClientOf[c]]) <=>
           ResponseTo(JobOf(c)) \in Range(responses[ClientOf[c]])
    BY <1>4, <1>10, <1>11, <2>1, CallsAssumption DEF AllWaiting
  <2> QED BY <1>11, <1>13, <2>2 DEF In, Queues
<1>20. \A q \in Queues \ {"responses"} : In'[q] = In[q]
  <2>1. In'["requests"] = In["requests"] /\ In'["clientTasks"] = In["clientTasks"]
    BY <1>2, <1>11, <1>13, <1>15 DEF In, Queues
  <2>2. In'["jobs"] = In["jobs"]
    BY <1>2, <1>11, <1>13, <1>15 DEF In, Queues
  <2>4. In'["working"] = In["working"]
    BY <1>2, <1>11, <1>13, <1>16 DEF In, Queues
  <2>3. In'["serverTasks"] = In["serverTasks"]
    BY <1>2, <1>11, <1>13, <1>15 DEF In, Queues
  <2> QED BY <2>1, <2>2, <2>3, <2>4 DEF Queues
<1>21. OnePlace'
  <2>1. \A q, s \in Queues : \A c \in In'[q] \cap In'[s] : q = s
    BY <1>1, <1>19, <1>20 DEF OnePlace
  <2> QED BY <1>1, <1>2, <1>4, <1>10, <2>1 DEF OnePlace
<1>22. AllPlaced'
  BY <1>1, <1>2, <1>11, <1>19, <1>20 DEF AllPlaced, Queues
<1>23. TableInv'
  <2>1. \A c \in Calls : pc[c] = "inserted" => <<seq[c], c>> \in outstandings'[ClientOf[c]]
    BY <1>1, <1>6, <1>10, CallsAssumption DEF TableInv
  <2> QED BY <1>1, <1>2, <1>10, <2>1 DEF TableInv
<1>24. CompletingInv'
  <2> SUFFICES ASSUME NEW j \in Clients, completing'[j] # None
               PROVE  LET c == completing'[j][1]
                      IN  /\ ClientOf[c] = j
                          /\ pc[c] = "returned"
                          /\ <<seq[c], c>> \notin outstandings'[j]
                          /\ outcome[c] = None
                          /\ CodeOf(completing'[j][2]) = DeservedBy(KindOf[c])
    BY <1>2 DEF CompletingInv
  <2>1. CASE j = k
    <3>1. completing'[k][1] = d /\ completing'[k][2] = r
      BY <1>10
    <3>2. outcome[d] = None
      BY <1>1, <1>6 DEF TableInv
    <3>3. CodeOf(r) = DeservedBy(KindOf[d])
      BY <1>1, <1>5, <1>6, <1>15, AnswersDeserved DEF OnlyServed
    <3> QED BY <1>6, <1>10, <2>1, <3>1, <3>2, <3>3
  <2>2. CASE j # k
    <3>1. completing'[j] = completing[j] /\ outstandings'[j] = outstandings[j]
      BY <1>10, <2>2
    <3>2. completing[j] # None
      BY <3>1
    <3> QED BY <1>1, <2>2, <3>1, <3>2 DEF CompletingInv
  <2> QED BY <2>1, <2>2
<1>25. Made'
  BY <1>1, <1>2 DEF Made
<1>26. IdsDistinct'
  <2>1. \A j \in Clients : Numbered(j)' = Numbered(j)
    BY <1>2 DEF Numbered
  <2> QED BY <1>1, <1>2, <2>1 DEF IdsDistinct
<1>27. TypeOK'
  <2>1. \A c \in Calls : <<seq[c], c>> \in outstandings'[ClientOf[c]] =>
           pc[c] \in {"inserted", "returned"} /\ outcome[c] = None
    BY <1>2, <1>23, CallsAssumption DEF TableInv
  <2> QED BY <1>1, <1>2, <1>10, <2>1 DEF TypeOK
<1>28. OnlyServed'
  BY <1>1, <1>19, <1>20 DEF OnlyServed, Queues
<1> QED BY <1>18, <1>21, <1>22, <1>23, <1>24, <1>25, <1>26, <1>27, <1>28 DEF RpcInv

----------------------------------------------------------------------------
\* The theorems

LEMMA InitInv == Init => RpcInv
<1> SUFFICES ASSUME Init PROVE RpcInv
  OBVIOUS
<1> USE DEF Init
<1>1. /\ \A k : Waiting(k) = {}
      /\ AllWaiting = {} /\ \A k : Numbered(k) = {}
  BY DEF Waiting, AllWaiting, Numbered
<1>2. 1 % SeqSpace \in Ids /\ 1 % SeqSpace = IF 1 < SeqSpace THEN 1 ELSE 0
  <2>1. 0 \in 0..SeqSpace - 1
    BY SeqAssumption
  <2>2. (0 + 1) % SeqSpace = IF 0 + 1 < SeqSpace THEN 0 + 1 ELSE 0
    BY <2>1, NextId
  <2> QED BY <2>2, SeqAssumption DEF Ids
<1>3. \A c \in Calls : 0 \in Ids
  BY SeqAssumption DEF Ids
<1>4. \A S : <<>> \in Seq(S)
  OBVIOUS
<1>5. TypeOK
  <2>1. /\ clientTasks \in [Clients -> Seq(Request)] /\ requests \in [Clients -> Seq(Request)]
        /\ responses \in [Clients -> Seq(Response)] /\ jobs \in Seq(Job)
        /\ serverTasks \in Seq([client : Clients, response : Response])
    BY <1>4
  <2>2. seq \in [Calls -> Ids] /\ nextSeq \in [Clients -> Ids]
    BY <1>2, <1>3
  <2>3. \A c \in Calls : <<seq[c], c>> \notin outstandings[ClientOf[c]]
    BY CallsAssumption
  <2> QED BY <2>1, <2>2, <2>3 DEF TypeOK
<1>6. AllOwned
  BY <1>4 DEF AllOwned
<1>7. \A q \in Queues : In[q] = {}
  BY <1>1 DEF In, Queues
<1>8. OnePlace /\ AllPlaced /\ OnlyServed
  BY <1>1, <1>7 DEF OnePlace, AllPlaced, OnlyServed, Queues, IsInjective
<1>9. IdsDistinct
  <2>1. \A k \in Clients : Cardinality(Numbered(k)) = 0
    BY <1>1, FS_EmptySet
  <2> QED BY <1>1, <1>2, <2>1 DEF IdsDistinct
<1>10. TableInv /\ CompletingInv /\ Made
  BY DEF TableInv, CompletingInv, Made
<1> QED BY <1>5, <1>6, <1>8, <1>9, <1>10 DEF RpcInv

\* Every step keeps the inductive invariant.
LEMMA NextInv == RpcInv /\ [Next]_vars => RpcInv'
<1> SUFFICES ASSUME RpcInv, [Next]_vars PROVE RpcInv'
  OBVIOUS
<1>1. CASE \E k \in Clients : Connected(k) \/ Disconnected(k) \/ ClientLoop(k)
  BY <1>1, ConnectionStep, WriteRequestStep, ReceiveResponseStep, CompleteStep DEF ClientLoop
<1>2. CASE \E c \in Calls : CallMethod(c)
  BY <1>2, TakeIdStep, InsertStep, SendStep DEF CallMethod
<1>3. CASE ServerLoop
  BY <1>3, WriteResponseStep, ReceiveRequestStep DEF ServerLoop
<1>4. CASE \E w \in Workers : Worker(w)
  BY <1>4, TakeJobStep, FinishJobStep DEF Worker
<1>5. CASE UNCHANGED vars
  <2>1. /\ UNCHANGED <<callers, results>>
        /\ UNCHANGED <<link, clientTasks, requests, serverTasks, responses, jobs, working, lost>>
    BY <1>5 DEF vars, wire, pool
  <2>2. QueueTypes'
    BY <2>1 DEF RpcInv, TypeOK, QueueTypes
  <2>3. \A q \in Queues : In'[q] = In[q]
    BY <2>1, QueuesUnchanged DEF Queues
  <2>4. AllOwned' /\ OnePlace' /\ AllPlaced' /\ OnlyServed'
    BY <2>1, <2>3, CallersUnchanged
       DEF RpcInv, AllOwned, OnePlace, AllPlaced, OnlyServed, Queues
  <2> QED BY <2>1, <2>2, <2>4, MoveKeepsInv
<1> QED BY <1>1, <1>2, <1>3, <1>4, <1>5 DEF Next

\* Ids, tables and messages are as they should be at every moment.
THEOREM RpcInvariant == Spec => []RpcInv
  BY InitInv, NextInv, PTL DEF Spec

\* Types; a call is in the table only between its insertion and its response.
THEOREM TypeCorrect == Spec => []TypeOK
<1>1. RpcInv => TypeOK
  BY DEF RpcInv
<1> QED BY <1>1, RpcInvariant, PTL

\* Every message on the way is that of a call that waits.
LEMMA OwnersOnTheWay ==
    ASSUME AllOwned, NEW k \in Clients, NEW id \in IdsOnTheWay(k)
    PROVE  \E c \in Waiting(k) : id = seq[c]
<1>1. CASE id \in IdsIn(clientTasks[k]) \cup IdsIn(requests[k])
  <2>1. \E m \in WaitingRequests(k) : id = m.id
    BY <1>1 DEF IdsIn, AllOwned
  <2> QED BY <2>1, MessageFields DEF WaitingRequests
<1>2. CASE id \in IdsIn(responses[k])
  <2>1. \E m \in WaitingResponses(k) : id = m.id
    BY <1>2 DEF IdsIn, AllOwned
  <2> QED BY <2>1, MessageFields DEF WaitingResponses
<1>3. CASE \/ \E i \in DOMAIN jobs : jobs[i].client = k /\ id = jobs[i].id
           \/ \E w \in Workers : working[w] # None /\ working[w].client = k /\ id = working[w].id
  <2>1. \E m \in WaitingJobs : m.client = k /\ id = m.id
    BY <1>3 DEF AllOwned
  <2> QED BY <2>1, MessageFields DEF WaitingJobs, AllWaiting
<1>4. CASE \E i \in DOMAIN serverTasks : serverTasks[i].client = k /\ id = serverTasks[i].response.id
  <2>1. \E m \in WaitingAnswers : m.client = k /\ id = m.response.id
    BY <1>4 DEF AllOwned
  <2> QED BY <2>1, MessageFields DEF WaitingAnswers, AllWaiting
<1> QED BY <1>1, <1>2, <1>3, <1>4 DEF IdsOnTheWay

\* A call whose message is in a queue is on the way.
LEMMA MessagesOnTheWay ==
    ASSUME TypeOK, NEW q \in Queues, NEW c \in In[q]
    PROVE  seq[c] \in IdsOnTheWay(ClientOf[c])
<1> DEFINE k == ClientOf[c]
<1>1. c \in AllWaiting
  BY DEF In
<1>2. CASE q \in {"clientTasks", "requests", "responses"}
  <2>1. \/ RequestOf(c) \in Range(clientTasks[k]) \/ RequestOf(c) \in Range(requests[k])
        \/ ResponseTo(JobOf(c)) \in Range(responses[k])
    BY <1>2 DEF In, Queues
  <2>2. seq[c] \in IdsIn(clientTasks[k]) \cup IdsIn(requests[k]) \cup IdsIn(responses[k])
    BY <2>1, MessageFields DEF IdsIn, Range
  <2> QED BY <2>2 DEF IdsOnTheWay
<1>3. CASE q = "jobs"
  <2>1. \E i \in DOMAIN jobs : jobs[i].client = k /\ jobs[i].id = seq[c]
    BY <1>3, MessageFields DEF In, Queues, Range
  <2>2. seq[c] \in {jobs[i].id : i \in {j \in DOMAIN jobs : jobs[j].client = k}}
    BY <2>1
  <2> QED BY <2>2 DEF IdsOnTheWay
<1>4. CASE q = "working"
  <2>1. \E w \in Workers : working[w] = JobOf(c)
    BY <1>4 DEF In, Queues
  <2>2. JobOf(c) # None
    BY <1>1, WaitingTypes, NoneAssumption DEF WaitingJobs
  <2>3. seq[c] \in {working[w].id : w \in {v \in Workers : working[v] # None /\ working[v].client = k}}
    BY <2>1, <2>2, MessageFields
  <2> QED BY <2>3 DEF IdsOnTheWay
<1>5. CASE q = "serverTasks"
  <2>1. \E i \in DOMAIN serverTasks : serverTasks[i].client = k /\ serverTasks[i].response.id = seq[c]
    BY <1>5, MessageFields DEF In, Queues, Range
  <2>2. seq[c] \in {serverTasks[i].response.id : i \in
                       {j \in DOMAIN serverTasks : serverTasks[j].client = k}}
    BY <2>1
  <2> QED BY <2>2 DEF IdsOnTheWay
<1> QED BY <1>2, <1>3, <1>4, <1>5 DEF Queues

\* Ids of clients with any number of calls in flight, wrapped around or not: every
\* request and every response has exactly one entry that waits for it.
THEOREM ResponsesExpected == Spec => []ResponseExpected
<1>1. ASSUME RpcInv PROVE ResponseExpected
  <2> SUFFICES ASSUME NEW k \in Clients, NEW id \in IdsOnTheWay(k)
               PROVE  Cardinality(Found(k, id)) = 1
    BY DEF ResponseExpected
  <2>1. \E c \in Waiting(k) : id = seq[c]
    BY <1>1, OwnersOnTheWay DEF RpcInv
  <2>2. Found(k, id) \in {{c} : c \in Calls}
    BY <1>1, <2>1, WaitingEntry DEF RpcInv, Waiting
  <2> QED BY <2>2, FS_Singleton
<1> QED BY <1>1, RpcInvariant, PTL

\* A call that waits is on the way or was lost with its connection or for want of
\* a service.
THEOREM EntriesAccountedFor == Spec => []EntryAccountedFor
<1>1. ASSUME RpcInv PROVE EntryAccountedFor
  <2> SUFFICES ASSUME NEW k \in Clients, NEW e \in outstandings[k], pc[e[2]] = "returned",
                      e[2] \notin lost
               PROVE  e[1] \in IdsOnTheWay(k)
    BY DEF EntryAccountedFor
  <2> DEFINE c == e[2]
  <2>1. c \in AllWaiting /\ e[1] = seq[c] /\ ClientOf[c] = k
    BY <1>1, PairTypes DEF RpcInv, TableInv, AllWaiting, Waiting
  <2>2. PICK q \in Queues : c \in In[q]
    BY <1>1, <2>1 DEF RpcInv, AllPlaced
  <2> HIDE DEF c
  <2>3. seq[c] \in IdsOnTheWay(k)
    BY <1>1, <2>1, <2>2, MessagesOnTheWay DEF RpcInv
  <2> QED BY <2>1, <2>3
<1> QED BY <1>1, RpcInvariant, PTL

\* The RPC layer is the service it promises: done runs at most once per call, after
\* the call, and finds the outcome of this very call.
THEOREM ImplementsRpcService == Spec => IsRpcService
<1>1. Init => Service!Init
  BY DEF Init, Service!Init
<1>2. RpcInv /\ [Next]_vars => [Service!Next]_<<{c \in Calls : pc[c] # "ready"}, outcome>>
  <2> SUFFICES ASSUME RpcInv, [Next]_vars
               PROVE  [Service!Next]_<<{c \in Calls : pc[c] # "ready"}, outcome>>
    OBVIOUS
  <2>1. ASSUME NEW c \in Calls, TakeId(c) PROVE Service!Make(c)
    BY <2>1 DEF RpcInv, TypeOK, TakeId, results, Service!Make
  <2>2. ASSUME NEW k \in Clients, Complete(k) PROVE \E c \in Calls : Service!Finish(c)
    BY <2>2, PairTypes DEF RpcInv, TypeOK, CompletingInv, Complete, Done, callers, Service!Finish
  <2>3. ASSUME NEW c \in Calls, Insert(c) \/ Send(c)
        PROVE  UNCHANGED <<{d \in Calls : pc[d] # "ready"}, outcome>>
    BY <2>3 DEF RpcInv, TypeOK, Insert, Send, results
  <2>4. ASSUME NEW k \in Clients, \/ Connected(k) \/ Disconnected(k) \/ WriteRequest(k)
                                  \/ ReceiveRequest(k) \/ ReceiveResponse(k)
        PROVE  UNCHANGED <<pc, outcome>>
    BY <2>4 DEF Connected, Disconnected, WriteRequest, ReceiveRequest, ReceiveResponse, callers, results
  <2>5. ASSUME WriteResponse \/ \E w \in Workers : Worker(w)
        PROVE  UNCHANGED <<pc, outcome>>
    BY <2>5 DEF WriteResponse, Worker, TakeJob, FinishJob, callers, results
  <2>6. ASSUME UNCHANGED vars PROVE UNCHANGED <<pc, outcome>>
    BY <2>6 DEF vars, callers, results
  <2> QED BY <2>1, <2>2, <2>3, <2>4, <2>5, <2>6
          DEF Next, ClientLoop, CallMethod, ServerLoop, Service!Next
<1> QED BY <1>1, <1>2, RpcInvariant, PTL DEF Spec, IsRpcService, Service!Spec
============================================================================
